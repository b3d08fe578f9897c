---------------------------- MODULE LoopTheorems ----------------------------
(***************************************************************************)
(* Facts about loops that several proofs need: induction over the rounds   *)
(* 0 .. N of a loop, or over those of a loop over a set of numbers, the    *)
(* existence of the function that gives the state after each round, and    *)
(* division of a counter into rows.  They are stated over sets and         *)
(* functions, without operator parameters, and rest on the                 *)
(* well-foundedness of < on the naturals.                                  *)
(***************************************************************************)
EXTENDS Integers, Sequences, SequencesExt, SequenceTheorems, WellFoundedInduction, TLAPS

\* A non-empty set of naturals has a least element.
LEMMA LeastElement ==
  ASSUME NEW T \in SUBSET Nat, T # {}
  PROVE  \E n \in T : \A m \in T : n <= m
<1>1. \E n \in T : \A m \in T : ~(<<m, n>> \in OpToRel(<, Nat))
  BY NatLessThanWellFounded, WFMin, Zenon
<1>2. PICK n \in T : \A m \in T : ~(<<m, n>> \in OpToRel(<, Nat))
  BY <1>1
<1>3. \A m \in T : ~(m < n)
  BY <1>2, Zenon DEF OpToRel
<1> QED
  BY <1>3

\* What holds before the first round and is kept by each round holds after
\* every round.
LEMMA LoopInduction ==
  ASSUME NEW N \in Nat, NEW T, 0 \in T, \A n \in 1 .. N : n - 1 \in T => n \in T
  PROVE  0 .. N \subseteq T
<1> DEFINE Out == {n \in 0 .. N : n \notin T}
<1> SUFFICES ASSUME Out # {} PROVE FALSE
  OBVIOUS
<1>1. PICK n \in Out : \A m \in Out : n <= m
  <2>1. Out \in SUBSET Nat
    OBVIOUS
  <2> HIDE DEF Out
  <2> QED
    BY <2>1, LeastElement
<1>2. n \in 1 .. N /\ n - 1 \in T
  BY <1>1
<1> QED
  BY <1>1, <1>2

\* f gives the states of a loop of N rounds: base is the state before the
\* first round, F[<<s, n>>] the state after round n if s was the one before.
Rounds(f, N, base, F) ==
  f = [n \in 0 .. N |-> IF n = 0 THEN base ELSE F[<<f[n - 1], n>>]]

\* The function that gives the states of a loop exists.
LEMMA LoopRecursion ==
  ASSUME NEW N \in Nat, NEW S, NEW base \in S, NEW F \in [S \X (1 .. N) -> S]
  PROVE  \E f \in [0 .. N -> S] : Rounds(f, N, base, F)
<1> DEFINE T == {m \in 0 .. N : \E f \in [0 .. m -> S] : Rounds(f, m, base, F)}
<1>1. 0 \in T
  <2> DEFINE g == [n \in 0 .. 0 |-> base]
  <2>1. g \in [0 .. 0 -> S] /\ Rounds(g, 0, base, F)
    BY DEF Rounds
  <2> HIDE DEF g
  <2> QED
    BY <2>1
<1>2. ASSUME NEW m \in 1 .. N, m - 1 \in T PROVE m \in T
  <2>1. PICK f \in [0 .. m - 1 -> S] : Rounds(f, m - 1, base, F)
    BY <1>2
  <2> DEFINE g == [n \in 0 .. m |-> IF n = m THEN F[<<f[m - 1], m>>] ELSE f[n]]
  <2>2. g \in [0 .. m -> S]
    <3>1. f[m - 1] \in S
      BY <2>1
    <3>2. F[<<f[m - 1], m>>] \in S
      BY <3>1
    <3> QED
      BY <3>2
  <2>3. ASSUME NEW n \in 0 .. m
        PROVE  g[n] = IF n = 0 THEN base ELSE F[<<g[n - 1], n>>]
    <3>1. CASE n = m
      <4>1. m \in 0 .. m /\ m - 1 \in 0 .. m /\ m - 1 # m /\ m # 0
        OBVIOUS
      <4>2. g[m] = F[<<f[m - 1], m>>] /\ g[m - 1] = f[m - 1]
        BY <4>1
      <4> QED
        BY <3>1, <4>1, <4>2
    <3>2. CASE n # m
      <4>1. n \in 0 .. m - 1 /\ g[n] = f[n]
        BY <3>2
      <4>2. f[n] = IF n = 0 THEN base ELSE F[<<f[n - 1], n>>]
        BY <2>1, <4>1 DEF Rounds
      <4>3. n # 0 => g[n - 1] = f[n - 1]
        BY <4>1
      <4> QED
        BY <4>1, <4>2, <4>3
    <3> QED
      BY <3>1, <3>2
  <2>4. Rounds(g, m, base, F)
    <3> HIDE DEF g
    <3> QED
      BY <2>2, <2>3 DEF Rounds
  <2> HIDE DEF g
  <2> QED
    BY <2>2, <2>4
<1>3. N \in T
  <2> HIDE DEF T
  <2> QED
    BY <1>1, <1>2, LoopInduction
<1> QED
  BY <1>3

\* Counting g in rows of N: the row g \div N and the place g % N in it.
LEMMA DivisionType ==
  ASSUME NEW N \in Nat \ {0}, NEW g \in Nat
  PROVE  g \div N \in Nat /\ g % N \in 0 .. N - 1 /\ g \div N <= g
  OBVIOUS

\* The quotient and the remainder of a number make it up again.
LEMMA DivisionSum ==
  ASSUME NEW N \in Nat \ {0}
  PROVE  \A g \in Nat : g = N * (g \div N) + (g % N)
  OBVIOUS

\* Row and place determine the count.
LEMMA DivisionUnique ==
  ASSUME NEW N \in Nat \ {0}, NEW g \in Nat, NEW h \in Nat,
         g \div N = h \div N, g % N = h % N
  PROVE  g = h
BY DivisionSum

\* Rounding up: counts below G lie in the first (G + N - 1) \div N rows, the
\* last of them in the last of these rows.
LEMMA RoundingUp ==
  ASSUME NEW N \in Nat \ {0}, NEW G \in Nat \ {0}
  PROVE  /\ (G + N - 1) \div N \in Nat \ {0}
         /\ (G + N - 1) \div N <= G
         /\ \A g \in 0 .. G - 1 : g \div N < (G + N - 1) \div N
         /\ (G - 1) \div N = (G + N - 1) \div N - 1
  OBVIOUS

-----------------------------------------------------------------------------
(* Lists.                                                                  *)

\* A list of anything.
IsList(s) == s \in Seq({s[i] : i \in DOMAIN s})

\* One more element in a list.
LEMMA AppendList ==
  ASSUME NEW s, IsList(s), NEW e
  PROVE  /\ IsList(Append(s, e)) /\ Append(s, e) # <<>>
         /\ Len(s) \in Nat /\ DOMAIN s = 1 .. Len(s)
         /\ DOMAIN Append(s, e) = 1 .. Len(s) + 1
         /\ \A i \in 1 .. Len(s) : Append(s, e)[i] = s[i]
         /\ Append(s, e)[Len(s) + 1] = e
<1> DEFINE S == {s[i] : i \in DOMAIN s}
           T == S \cup {e}
           t == Append(s, e)
<1>1. s \in Seq(S)
  BY DEF IsList
<1> HIDE DEF S
<1>2. s \in Seq(T) /\ e \in T
  BY <1>1, SeqMonotonic
<1>3. Len(s) \in Nat /\ DOMAIN s = 1 .. Len(s)
  BY <1>1, LenProperties
<1> HIDE DEF T
<1>4. /\ t \in Seq(T) /\ t # <<>> /\ Len(t) = Len(s) + 1
      /\ \A i \in 1 .. Len(s) : t[i] = s[i]
      /\ t[Len(s) + 1] = e
  BY <1>2, AppendProperties
<1> HIDE DEF t
<1>5. DOMAIN t = 1 .. Len(s) + 1
  BY <1>4, LenProperties
<1>6. IsList(t)
  <2>1. t \in Seq(Range(t))
    BY <1>4, SeqOfRange
  <2>2. Range(t) = {t[i] : i \in DOMAIN t}
    BY DEF Range
  <2> QED
    BY <2>1, <2>2 DEF IsList
<1> QED
  BY <1>3, <1>4, <1>5, <1>6 DEF t

\* The empty list.
LEMMA EmptyList == IsList(<<>>) /\ DOMAIN <<>> = {}
<1>1. <<>> \in Seq({<<>>[i] : i \in DOMAIN <<>>}) /\ Len(<<>>) = 0
  BY EmptySeq
<1>2. DOMAIN <<>> = 1 .. 0
  BY <1>1, LenProperties
<1> QED
  BY <1>1, <1>2 DEF IsList

\* Lists are put one after the other from the first on.
Joined(f, ss) ==
  /\ f[1] = ss[1] /\ (\A i \in 2 .. Len(ss) : f[i] = f[i - 1] \o ss[i])
  /\ FlattenSeq(ss) = f[Len(ss)]

\* FlattenSeq joins the sequences one after the other.
LEMMA FlattenRounds ==
  ASSUME NEW T, NEW ss \in Seq(Seq(T)), ss # <<>>
  PROVE  \E f : /\ Joined(f, ss) /\ Len(ss) \in Nat \ {0}
               /\ \A i \in 1 .. Len(ss) : ss[i] \in Seq(T) /\ f[i] \in Seq(T)
<1> DEFINE n == Len(ss)
           Runs(f) == f = [i \in 1 .. n |-> IF i = 1 THEN ss[i] ELSE f[i - 1] \o ss[i]]
           f == CHOOSE f : Runs(f)
<1>1. n \in Nat /\ \A i \in 1 .. n : ss[i] \in Seq(T)
  BY LenProperties, ElementOfSeq
<1>2. n # 0
  BY EmptySeq
<1> DEFINE N == n - 1
           F == [p \in Seq(T) \X (1 .. N) |-> p[1] \o ss[p[2] + 1]]
<1>3. FlattenSeq(ss) = f[n]
  BY <1>2 DEF FlattenSeq
<1>4. N \in Nat /\ ss[1] \in Seq(T) /\ \A i \in 1 .. N : i + 1 \in 1 .. n
  BY <1>1, <1>2
<1> HIDE DEF n
<1>5. F \in [Seq(T) \X (1 .. N) -> Seq(T)]
  <2>1. ASSUME NEW s \in Seq(T), NEW i \in 1 .. N PROVE s \o ss[i + 1] \in Seq(T)
    BY <1>1, <1>4, ConcatProperties
  <2> QED
    BY <2>1
<1>6. PICK g \in [0 .. N -> Seq(T)] : Rounds(g, N, ss[1], F)
  <2> HIDE DEF F, N
  <2> QED
    BY <1>4, <1>5, LoopRecursion
<1> DEFINE h == [i \in 1 .. n |-> g[i - 1]]
<1>7. /\ g[0] = ss[1]
      /\ \A i \in 1 .. N : g[i] = g[i - 1] \o ss[i + 1]
  <2>1. \A i \in 0 .. N : g[i] = IF i = 0 THEN ss[1] ELSE F[<<g[i - 1], i>>]
    <3> HIDE DEF F, N
    <3> QED
      BY <1>6 DEF Rounds
  <2>2. 0 \in 0 .. N
    BY <1>4
  <2>3. ASSUME NEW i \in 1 .. N PROVE g[i] = g[i - 1] \o ss[i + 1]
    <3>1. i \in 0 .. N /\ i - 1 \in 0 .. N /\ i # 0
      BY <1>4
    <3>2. g[i - 1] \in Seq(T)
      BY <3>1
    <3>3. F[<<g[i - 1], i>>] = g[i - 1] \o ss[i + 1]
      BY <3>2
    <3> QED
      BY <2>1, <3>1, <3>3
  <2> QED
    BY <2>1, <2>2, <2>3
<1>8. Runs(h)
  <2> HIDE DEF F
  <2>1. ASSUME NEW i \in 1 .. n
        PROVE  h[i] = IF i = 1 THEN ss[i] ELSE h[i - 1] \o ss[i]
    <3>1. CASE i = 1
      BY <1>7, <3>1
    <3>2. CASE i # 1
      <4>1. i - 1 \in 1 .. N /\ i - 1 \in 1 .. n /\ (i - 1) + 1 = i
        BY <1>1, <3>2
      <4>2. h[i] = g[i - 1] /\ h[i - 1] = g[(i - 1) - 1]
        BY <4>1
      <4>3. g[i - 1] = g[(i - 1) - 1] \o ss[(i - 1) + 1]
        BY <1>7, <4>1
      <4> QED
        BY <3>2, <4>1, <4>2, <4>3
    <3> QED
      BY <3>1, <3>2
  <2>2. h = [i \in 1 .. n |-> h[i]]
    OBVIOUS
  <2> HIDE DEF h
  <2> QED
    BY <2>1, <2>2
<1>9. Runs(f)
  <2> HIDE DEF Runs, h
  <2> QED
    BY <1>8
<1> HIDE DEF f, h, F
<1>10. \A i \in 1 .. n : f[i] = IF i = 1 THEN ss[i] ELSE f[i - 1] \o ss[i]
  BY <1>9
<1> DEFINE D == {i \in 0 .. N : f[i + 1] \in Seq(T)}
<1>11. 0 \in D
  <2>1. 1 \in 1 .. n /\ 0 \in 0 .. N /\ 0 + 1 = 1
    BY <1>1, <1>2
  <2>2. f[1] = ss[1]
    BY <1>10, <2>1
  <2> QED
    BY <1>4, <2>1, <2>2
<1>12. ASSUME NEW i \in 1 .. N, i - 1 \in D PROVE i \in D
  <2>1. /\ i + 1 \in 1 .. n /\ i + 1 # 1 /\ (i + 1) - 1 = i /\ (i - 1) + 1 = i
        /\ i \in 0 .. N
    BY <1>1
  <2>2. f[i] \in Seq(T)
    BY <1>12, <2>1
  <2>3. f[i + 1] = f[i] \o ss[i + 1]
    BY <1>10, <2>1
  <2>4. f[i + 1] \in Seq(T)
    BY <1>1, <2>1, <2>2, <2>3, ConcatProperties
  <2> QED
    BY <2>1, <2>4
<1>13. \A i \in 1 .. n : f[i] \in Seq(T)
  <2> SUFFICES ASSUME NEW i \in 1 .. n PROVE f[i] \in Seq(T)
    OBVIOUS
  <2>1. 0 .. N \subseteq D
    <3> HIDE DEF D, N
    <3> QED
      BY <1>4, <1>11, <1>12, LoopInduction
  <2>2. i - 1 \in 0 .. N /\ (i - 1) + 1 = i
    BY <1>1
  <2> QED
    BY <2>1, <2>2
<1>14. Joined(f, ss)
  <2>1. 1 \in 1 .. n
    BY <1>1, <1>2
  <2>2. f[1] = ss[1]
    BY <1>10, <2>1
  <2>3. ASSUME NEW i \in 2 .. n PROVE f[i] = f[i - 1] \o ss[i]
    <3>1. i \in 1 .. n /\ i # 1
      BY <1>1
    <3> QED
      BY <1>10, <3>1
  <2> QED
    BY <1>3, <2>2, <2>3 DEF Joined, n
<1> QED
  BY <1>1, <1>2, <1>13, <1>14 DEF n

\* Lists one after the other are a list.
LEMMA FlattenType ==
  ASSUME NEW T, NEW ss \in Seq(Seq(T))
  PROVE  FlattenSeq(ss) \in Seq(T)
<1>1. CASE ss = <<>>
  BY <1>1, EmptySeq DEF FlattenSeq
<1>2. CASE ss # <<>>
  <2>1. PICK f : /\ Joined(f, ss) /\ Len(ss) \in Nat \ {0}
                 /\ \A i \in 1 .. Len(ss) : ss[i] \in Seq(T) /\ f[i] \in Seq(T)
    BY <1>2, FlattenRounds
  <2>2. Len(ss) \in 1 .. Len(ss)
    BY <2>1
  <2> QED
    BY <2>1, <2>2 DEF Joined
<1> QED
  BY <1>1, <1>2

-----------------------------------------------------------------------------
(* Loops over a set of numbers, from the lowest up.                        *)

\* Of two numbers.
LEMMA LesserGreater ==
  ASSUME NEW a \in Int, NEW b \in Int
  PROVE  /\ Min({a, b}) \in {a, b} /\ Min({a, b}) <= a /\ Min({a, b}) <= b
         /\ Max({a, b}) \in {a, b} /\ Max({a, b}) >= a /\ Max({a, b}) >= b
<1>1. \E x \in {a, b} : \A z \in {a, b} : x <= z
  OBVIOUS
<1>2. \E x \in {a, b} : \A z \in {a, b} : x >= z
  OBVIOUS
<1>3. Min({a, b}) \in {a, b} /\ \A z \in {a, b} : Min({a, b}) <= z
  BY <1>1 DEF Min
<1>4. Max({a, b}) \in {a, b} /\ \A z \in {a, b} : Max({a, b}) >= z
  BY <1>2 DEF Max
<1> QED
  BY <1>3, <1>4

\* The greatest of some numbers below a bound.
LEMMA Greatest ==
  ASSUME NEW N \in Nat, NEW s \in SUBSET (0 .. N), s # {}
  PROVE  Max(s) \in s /\ \A i \in s : i <= Max(s)
<1> DEFINE T == {n \in Nat : \E i \in s : n = N - i}
<1>1. T \in SUBSET Nat /\ T # {}
  <2>1. PICK i \in s : TRUE
    OBVIOUS
  <2>2. i \in 0 .. N
    BY <2>1
  <2>3. N - i \in T
    BY <2>1, <2>2
  <2> QED
    BY <2>3
<1>2. PICK n \in T : \A m \in T : n <= m
  <2> HIDE DEF T
  <2> QED
    BY <1>1, LeastElement
<1>3. PICK i \in s : n = N - i
  BY <1>2
<1>4. \A j \in s : N - j \in T /\ j \in Nat /\ i \in Nat
  OBVIOUS
<1>5. \A j \in s : j <= i
  BY <1>2, <1>3, <1>4
<1>6. \E x \in s : \A y \in s : x >= y
  BY <1>3, <1>4, <1>5
<1>7. Max(s) \in s /\ \A y \in s : Max(s) >= y
  BY <1>6 DEF Max
<1> QED
  BY <1>4, <1>7

\* What holds of no numbers, and of some numbers if it holds of them without
\* the greatest, holds of all sets of numbers.
LEMMA EachInduction ==
  ASSUME NEW N \in Nat, NEW S \in SUBSET (0 .. N), NEW T, {} \in T,
         \A s \in SUBSET S : s # {} /\ s \ {Max(s)} \in T => s \in T
  PROVE  SUBSET S \subseteq T
<1> DEFINE R == {m \in 0 .. N + 1 : \A s \in SUBSET S : (\A i \in s : i < m) => s \in T}
<1>1. 0 \in R
  <2>1. ASSUME NEW s \in SUBSET S, \A i \in s : i < 0 PROVE s = {}
    <3>1. \A i \in s : i \in Nat /\ i < 0
      BY <2>1
    <3> QED
      BY <3>1
  <2>2. 0 \in 0 .. N + 1
    OBVIOUS
  <2> QED
    BY <2>1, <2>2
<1>2. ASSUME NEW m \in 1 .. N + 1, m - 1 \in R PROVE m \in R
  <2> SUFFICES ASSUME NEW s \in SUBSET S, \A i \in s : i < m, s # {} PROVE s \in T
    OBVIOUS
  <2>1. Max(s) \in s /\ \A i \in s : i <= Max(s)
    <3>1. s \in SUBSET (0 .. N)
      OBVIOUS
    <3> QED
      BY <3>1, Greatest
  <2> DEFINE r == s \ {Max(s)}
  <2>2. \A i \in s : i \in 0 .. N /\ i < m /\ i <= Max(s)
    BY <2>1
  <2>3. Max(s) \in 0 .. N /\ Max(s) < m
    BY <2>1, <2>2
  <2> DEFINE x == Max(s)
  <2>4. \A i \in r : i \in 0 .. N /\ i <= x /\ i # x
    BY <2>2
  <2> HIDE DEF x
  <2>5. \A i \in r : i < m - 1
    <3>1. x \in 0 .. N /\ x < m
      BY <2>3 DEF x
    <3> HIDE DEF r
    <3> QED
      BY <2>4, <3>1
  <2>6. r \in T
    BY <1>2, <2>5
  <2> QED
    BY <2>6
<1>3. 0 .. N + 1 \subseteq R
  <2> HIDE DEF R
  <2>1. N + 1 \in Nat
    OBVIOUS
  <2> QED
    BY <1>1, <1>2, <2>1, LoopInduction
<1>4. N + 1 \in 0 .. N + 1 /\ \A i \in S : i < N + 1
  <2>1. \A i \in 0 .. N : i < N + 1
    OBVIOUS
  <2> QED
    BY <2>1
<1>5. N + 1 \in R
  BY <1>3, <1>4
<1> HIDE DEF R
<1>6. \A s \in SUBSET S : \A i \in s : i < N + 1
  BY <1>4
<1> QED
  BY <1>5, <1>6 DEF R

\* The states of a loop over the numbers S: before it base, and F[<<e, i>>]
\* after the round of i if e was the state before it.
OverSet(h, S, base, F) ==
  h = [s \in SUBSET S |-> IF s = {} THEN base ELSE F[<<h[s \ {Max(s)}], Max(s)>>]]

\* The function that gives them exists.
LEMMA EachRecursion ==
  ASSUME NEW N \in Nat, NEW S \in SUBSET (0 .. N), NEW D, NEW base \in D,
         NEW F \in [D \X S -> D]
  PROVE  \E h \in [SUBSET S -> D] : OverSet(h, S, base, F)
<1> DEFINE Below(m) == {i \in S : i < m}
           R == {m \in 0 .. N + 1 : \E h \in [SUBSET Below(m) -> D] : OverSet(h, Below(m), base, F)}
<1>1. 0 \in R
  <2>1. Below(0) = {} /\ 0 \in 0 .. N + 1
    <3>1. \A i \in 0 .. N : ~(i < 0)
      OBVIOUS
    <3>2. 0 \in 0 .. N + 1
      OBVIOUS
    <3> QED
      BY <3>1, <3>2
  <2> DEFINE h == [s \in SUBSET {} |-> base]
  <2>2. h \in [SUBSET {} -> D] /\ OverSet(h, {}, base, F)
    BY DEF OverSet
  <2> HIDE DEF h, Below
  <2> QED
    BY <2>1, <2>2
<1>2. ASSUME NEW m \in 1 .. N + 1, m - 1 \in R PROVE m \in R
  <2> DEFINE n == m - 1
  <2>0. n \in Nat
    OBVIOUS
  <2>1. PICK f \in [SUBSET Below(n) -> D] : OverSet(f, Below(n), base, F)
    BY <1>2
  <2>2. Below(m) = Below(n) \cup (IF n \in S THEN {n} ELSE {}) /\ n \notin Below(n)
    <3>1. \A i \in S : i \in Nat /\ (i < m <=> i < n \/ i = n) /\ ~(n < n)
      OBVIOUS
    <3> HIDE DEF n
    <3>2. Below(m) = {i \in S : i < n \/ i = n}
      BY <3>1
    <3> QED
      BY <3>1, <3>2
  <2>3. CASE n \notin S
    <3>1. Below(m) = Below(n)
      BY <2>2, <2>3
    <3> HIDE DEF Below
    <3> QED
      BY <2>1, <3>1
  <2>4. CASE n \in S
    <3> DEFINE h == [s \in SUBSET Below(m) |-> IF n \in s THEN F[<<f[s \ {n}], n>>] ELSE f[s]]
    <3>1. \A s \in SUBSET Below(m) : s \ {n} \in SUBSET Below(n) /\ (n \notin s => s \in SUBSET Below(n))
      BY <2>2
    <3>2. h \in [SUBSET Below(m) -> D]
      <4> HIDE DEF Below
      <4>1. \A s \in SUBSET Below(m) : f[s \ {n}] \in D /\ (n \notin s => f[s] \in D)
        BY <2>1, <3>1
      <4>2. \A s \in SUBSET Below(m) : F[<<f[s \ {n}], n>>] \in D
        BY <2>4, <4>1
      <4> QED
        BY <4>1, <4>2
    <3>3. ASSUME NEW s \in SUBSET Below(m), s # {}
          PROVE  /\ Max(s) \in s
                 /\ n \in s => Max(s) = n
      <4>1. s \in SUBSET (0 .. N)
        OBVIOUS
      <4>2. Max(s) \in s /\ \A i \in s : i <= Max(s)
        BY <3>3, <4>1, Greatest
      <4>3. \A i \in s : i \in Nat /\ i <= n
        <5>1. \A i \in S : i \in Nat /\ (i < m => i <= n)
          OBVIOUS
        <5> QED
          BY <5>1
      <4>4. \A i, j \in Nat : i <= j /\ j <= i => i = j
        OBVIOUS
      <4> HIDE DEF n, Below
      <4> QED
        BY <2>0, <4>2, <4>3, <4>4
    <3>4. ASSUME NEW s \in SUBSET Below(m)
          PROVE  h[s] = IF s = {} THEN base ELSE F[<<h[s \ {Max(s)}], Max(s)>>]
      <4> HIDE DEF Below, n
      <4>1. CASE n \in s
        <5>1. h[s] = F[<<f[s \ {n}], n>>] /\ Max(s) = n /\ s # {}
          BY <3>3, <4>1
        <5>2. s \ {n} \in SUBSET Below(m) /\ h[s \ {n}] = f[s \ {n}]
          OBVIOUS
        <5> QED
          BY <5>1, <5>2
      <4>2. CASE n \notin s
        <5>1. s \in SUBSET Below(n) /\ h[s] = f[s]
          BY <3>1, <4>2
        <5>2. f[s] = IF s = {} THEN base ELSE F[<<f[s \ {Max(s)}], Max(s)>>]
          BY <2>1, <5>1 DEF OverSet
        <5>3. s \ {Max(s)} \in SUBSET Below(m) /\ n \notin s \ {Max(s)}
          BY <4>2
        <5>4. h[s \ {Max(s)}] = f[s \ {Max(s)}]
          BY <5>3
        <5> QED
          BY <5>1, <5>2, <5>4
      <4> QED
        BY <4>1, <4>2
    <3>5. OverSet(h, Below(m), base, F)
      <4>1. h = [s \in SUBSET Below(m) |-> h[s]]
        OBVIOUS
      <4> HIDE DEF h, Below
      <4> QED
        BY <3>4, <4>1 DEF OverSet
    <3> HIDE DEF h, Below
    <3> QED
      BY <3>2, <3>5
  <2> QED
    BY <2>3, <2>4
<1>3. 0 .. N + 1 \subseteq R
  <2> HIDE DEF R
  <2>1. N + 1 \in Nat
    OBVIOUS
  <2> QED
    BY <1>1, <1>2, <2>1, LoopInduction
<1>4. N + 1 \in 0 .. N + 1 /\ Below(N + 1) = S
  <2>1. \A i \in 0 .. N : i < N + 1
    OBVIOUS
  <2>2. N + 1 \in 0 .. N + 1
    OBVIOUS
  <2> QED
    BY <2>1, <2>2
<1> HIDE DEF Below
<1> QED
  BY <1>3, <1>4
=============================================================================
