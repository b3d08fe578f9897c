--------------------------- MODULE Backends_proofs ---------------------------
(***************************************************************************)
(* Proofs about the calls of LinearOps, for matrices of any shape, kernels *)
(* of any block size and any numbers of threads, channels, banks, lanes    *)
(* and registers: who computes which cells of a product, and what the      *)
(* device is when a command comes to it.                                   *)
(***************************************************************************)
EXTENDS Backends, PimDevice_proofs

\* The cells of a thread's blocks, or of the sums of its blocks.
CellsOf(s) == UNION {DOMAIN s[k] : k \in DOMAIN s}

\* The blocks there can be for the outputs O.
BlockSet(k, O) ==
  [cells : SUBSET (Nat \X O),
   strips : {k.dot, k.rows, k.tokens, k.wdot, k.wdots, k.q8}]

-----------------------------------------------------------------------------
(* Numbers.                                                                *)

\* Rounding down keeps the order.
LEMMA FloorMonotone ==
  ASSUME NEW n \in Nat \ {0}, NEW a \in Nat, NEW b \in Nat, a <= b
  PROVE  a \div n \in Nat /\ b \div n \in Nat /\ a \div n <= b \div n
  OBVIOUS

\* So does multiplying.
LEMMA TimesMonotone ==
  ASSUME NEW a \in Nat, NEW b \in Nat, NEW c \in Nat, a <= b
  PROVE  c * a \in Nat /\ c * b \in Nat /\ c * a <= c * b
<1>1. PICK d \in Nat : b = a + d
  <2>1. b - a \in Nat /\ b = a + (b - a)
    OBVIOUS
  <2> QED
    BY <2>1
<1>2. c * b = c * a + c * d /\ c * a \in Nat /\ c * d \in Nat
  BY <1>1
<1> QED
  BY <1>2

\* What is counted in rows of n: the row and the place in it are told apart.
LEMMA RowAndPlace ==
  ASSUME NEW n \in Nat \ {0}, NEW a \in Nat, NEW b \in Nat,
         NEW r \in 0 .. n - 1, NEW s \in 0 .. n - 1, r + a * n = s + b * n
  PROVE  a = b /\ r = s
<1>1. ASSUME NEW c \in Nat, NEW d \in Nat, c < d PROVE c * n + n <= d * n
  <2>1. n * (c + 1) <= n * d
    BY <1>1, TimesMonotone
  <2> QED
    BY <2>1
<1>2. a * n \in Nat /\ b * n \in Nat
  OBVIOUS
<1>3. ~(a < b)
  BY <1>1, <1>2
<1>4. ~(b < a)
  BY <1>1, <1>2
<1> QED
  BY <1>3, <1>4

-----------------------------------------------------------------------------
(* Slices of the host.                                                     *)

\* The slices of two threads have no output in common.
LEMMA SlicesApart ==
  ASSUME NEW nThreads \in Nat \ {0}, NEW nOut \in Nat,
         NEW t \in 0 .. nThreads - 1
  PROVE  LET s == RowSlice(t, nThreads, nOut)
         IN /\ s[1] \in Nat /\ s[2] \in Nat /\ s[1] <= s[2] /\ s[2] <= nOut
            /\ \A u \in 0 .. nThreads - 1 : t < u =>
                 \A o \in s[1] .. s[2] - 1 :
                   o \notin RowSlice(u, nThreads, nOut)[1] .. RowSlice(u, nThreads, nOut)[2] - 1
<1> DEFINE n == Max({1, Min({nThreads, nOut})})
           cut(v) == (nOut * v) \div n
<1>1. n \in Nat \ {0}
  <2> DEFINE m == Min({nThreads, nOut})
  <2>1. nThreads \in Int /\ nOut \in Int
    OBVIOUS
  <2>2. m \in {nThreads, nOut}
    BY <2>1, LesserGreater, Zenon
  <2>3. m \in Int /\ 1 \in Int
    BY <2>1, <2>2
  <2> HIDE DEF m
  <2>4. Max({1, m}) \in {1, m} /\ Max({1, m}) >= 1
    BY <2>3, LesserGreater, Zenon
  <2>5. Max({1, m}) \in Nat \ {0}
    BY <2>3, <2>4
  <2> QED
    BY <2>5 DEF m
<1>2. \A v : RowSlice(v, nThreads, nOut) = IF v >= n THEN <<0, 0>> ELSE <<cut(v), cut(v + 1)>>
  BY DEF RowSlice
<1> HIDE DEF n
<1>3. ASSUME NEW v \in Nat, NEW w \in Nat, v <= w
      PROVE  cut(v) \in Nat /\ cut(w) \in Nat /\ cut(v) <= cut(w)
  <2>1. nOut * v \in Nat /\ nOut * w \in Nat /\ nOut * v <= nOut * w
    BY <1>3, TimesMonotone
  <2> QED
    BY <1>1, <2>1, FloorMonotone
<1>4. cut(n) = nOut
  BY <1>1
<1> HIDE DEF cut
<1>5. CASE t >= n
  <2>1. RowSlice(t, nThreads, nOut) = <<0, 0>>
    BY <1>2, <1>5
  <2> QED
    BY <2>1
<1>6. CASE t < n
  <2>1. RowSlice(t, nThreads, nOut) = <<cut(t), cut(t + 1)>>
    BY <1>1, <1>2, <1>6
  <2>2. cut(t) \in Nat /\ cut(t + 1) \in Nat /\ cut(t) <= cut(t + 1) /\ cut(t + 1) <= nOut
    BY <1>1, <1>3, <1>4, <1>6
  <2>3. ASSUME NEW u \in 0 .. nThreads - 1, t < u, NEW o \in cut(t) .. cut(t + 1) - 1
        PROVE  o \notin RowSlice(u, nThreads, nOut)[1] .. RowSlice(u, nThreads, nOut)[2] - 1
    <3>1. CASE u >= n
      BY <1>2, <3>1
    <3>2. CASE u < n
      <4>1. RowSlice(u, nThreads, nOut) = <<cut(u), cut(u + 1)>>
        BY <1>1, <1>2, <3>2
      <4>2. cut(t + 1) <= cut(u) /\ cut(u) \in Nat /\ cut(u + 1) \in Nat
        BY <1>3, <2>3
      <4> QED
        BY <2>2, <4>1, <4>2
    <3> QED
      BY <1>1, <3>1, <3>2
  <2> QED
    BY <2>1, <2>2, <2>3
<1> QED
  BY <1>1, <1>5, <1>6

\* The blocks of a loop, and the rest, lie between its bounds.
LEMMA BlocksIn ==
  ASSUME NEW n \in Nat \ {0}, NEW i0 \in Nat, NEW i1 \in Nat, i0 <= i1
  PROVE  /\ \E q \in Nat : /\ DOMAIN Blocks(i0, i1, n) = 1 .. q
                           /\ \A b \in 1 .. q : Blocks(i0, i1, n)[b] \subseteq i0 .. i1 - 1
         /\ \E q \in Nat : /\ DOMAIN Rest(i0, i1, n) = 1 .. q
                           /\ \A b \in 1 .. q : Rest(i0, i1, n)[b] \in i0 .. i1 - 1
<1> DEFINE k == (i1 - i0) \div n
           j == i0 + n * k
<1>1. k \in Nat /\ n * k \in Nat /\ n * k <= i1 - i0
  OBVIOUS
<1>2. Blocks(i0, i1, n) = [b \in 1 .. k |-> i0 + n * (b - 1) .. i0 + n * b - 1]
  BY DEF Blocks
<1>3. Rest(i0, i1, n) = [b \in 1 .. i1 - j |-> j + b - 1]
  BY DEF Rest
<1> HIDE DEF k
<1>4. ASSUME NEW b \in 1 .. k
      PROVE  i0 + n * (b - 1) .. i0 + n * b - 1 \subseteq i0 .. i1 - 1
  <2>1. b \in Nat /\ b - 1 \in Nat /\ b <= k
    BY <1>1
  <2>2. n * (b - 1) \in Nat
    BY <2>1
  <2>3. n * b \in Nat /\ n * b <= n * k
    BY <1>1, <2>1, TimesMonotone
  <2> QED
    BY <1>1, <2>2, <2>3
<1>5. /\ DOMAIN Blocks(i0, i1, n) = 1 .. k
      /\ \A b \in 1 .. k : Blocks(i0, i1, n)[b] \subseteq i0 .. i1 - 1
  BY <1>2, <1>4
<1>6. j \in Nat /\ i1 - j \in Nat /\ i0 <= j
  BY <1>1
<1> HIDE DEF j
<1>7. /\ DOMAIN Rest(i0, i1, n) = 1 .. i1 - j
      /\ \A b \in 1 .. i1 - j : Rest(i0, i1, n)[b] \in i0 .. i1 - 1
  BY <1>3, <1>6
<1> QED
  BY <1>1, <1>5, <1>6, <1>7

\* A list by its elements.
LEMMA ListIn ==
  ASSUME NEW n \in Int, NEW D, NEW f \in [1 .. n -> D]
  PROVE  f \in Seq(D)
<1>1. CASE n \in Nat
  BY <1>1, SeqDef
<1>2. CASE n \notin Nat
  <2>1. 1 .. n = 1 .. 0
    BY <1>2
  <2> QED
    BY <2>1, SeqDef
<1> QED
  BY <1>1, <1>2

\* linear_range stays in its rows.
LEMMA RangeIn ==
  ASSUME NEW k, k.block \in Nat \ {0}, NEW t \in Nat,
         NEW i0 \in Nat, NEW i1 \in Nat, i0 <= i1
  PROVE  LinearRange(k, t, i0, i1) \in Seq(BlockSet(k, i0 .. i1 - 1))
<1> DEFINE O == i0 .. i1 - 1
           quads == Blocks(i0, i1, k.block)
           ones == Rest(i0, i1, k.block)
           f == [b \in DOMAIN quads |-> [cells |-> {t} \X quads[b], strips |-> k.rows]]
           f2 == [b \in DOMAIN ones |-> [cells |-> {<<t, ones[b]>>}, strips |-> k.dot]]
<1>1. PICK q \in Nat : DOMAIN quads = 1 .. q /\ \A b \in 1 .. q : quads[b] \subseteq O
  BY BlocksIn
<1>2. PICK r \in Nat : DOMAIN ones = 1 .. r /\ \A b \in 1 .. r : ones[b] \in O
  BY BlocksIn
<1>3. LinearRange(k, t, i0, i1) = f \o f2
  BY DEF LinearRange
<1> HIDE DEF O, quads, ones
<1>4. f \in [1 .. q -> BlockSet(k, O)]
  <2>1. ASSUME NEW b \in 1 .. q
        PROVE  [cells |-> {t} \X quads[b], strips |-> k.rows] \in BlockSet(k, O)
    <3>1. {t} \X quads[b] \in SUBSET (Nat \X O)
      BY <1>1
    <3> QED
      BY <3>1 DEF BlockSet
  <2> QED
    BY <1>1, <2>1
<1>5. f2 \in [1 .. r -> BlockSet(k, O)]
  <2>1. ASSUME NEW b \in 1 .. r
        PROVE  [cells |-> {<<t, ones[b]>>}, strips |-> k.dot] \in BlockSet(k, O)
    <3>1. {<<t, ones[b]>>} \in SUBSET (Nat \X O)
      BY <1>2
    <3> QED
      BY <3>1 DEF BlockSet
  <2> QED
    BY <1>2, <2>1
<1> HIDE DEF f, f2
<1>6. f \in Seq(BlockSet(k, O)) /\ f2 \in Seq(BlockSet(k, O))
  BY <1>4, <1>5, ListIn
<1>7. f \o f2 \in Seq(BlockSet(k, O))
  BY <1>6, ConcatProperties
<1> QED
  BY <1>3, <1>7 DEF O

\* So does linear_rows_range.
LEMMA RowsRangeIn ==
  ASSUME NEW k, k.block \in Nat \ {0}, NEW nTok \in Nat,
         NEW i0 \in Nat, NEW i1 \in Nat, i0 <= i1
  PROVE  LinearRowsRange(k, nTok, i0, i1) \in Seq(BlockSet(k, i0 .. i1 - 1))
<1> DEFINE O == i0 .. i1 - 1
           D == BlockSet(k, O)
           quads == Blocks(0, nTok, k.block)
           ones == Rest(0, nTok, k.block)
           row(q) == [i \in 1 .. i1 - i0 |-> [cells |-> q \X {i0 + i - 1}, strips |-> k.tokens]]
           f == [b \in DOMAIN quads |-> row(quads[b])]
           f2 == [b \in DOMAIN ones |-> LinearRange(k, ones[b], i0, i1)]
<1>0. 0 \in Nat /\ 0 <= nTok
  OBVIOUS
<1>1. PICK q \in Nat : DOMAIN quads = 1 .. q /\ \A b \in 1 .. q : quads[b] \subseteq 0 .. nTok - 1
  BY <1>0, BlocksIn
<1>2. PICK r \in Nat : DOMAIN ones = 1 .. r /\ \A b \in 1 .. r : ones[b] \in 0 .. nTok - 1
  BY <1>0, BlocksIn
<1>3. LinearRowsRange(k, nTok, i0, i1) = FlattenSeq(f) \o FlattenSeq(f2)
  BY DEF LinearRowsRange
<1>4. ASSUME NEW b \in 1 .. q PROVE row(quads[b]) \in Seq(D)
  <2> DEFINE p == quads[b]
  <2>1. p \subseteq Nat
    BY <1>1
  <2> HIDE DEF p, D
  <2>2. ASSUME NEW i \in 1 .. i1 - i0
        PROVE  [cells |-> p \X {i0 + i - 1}, strips |-> k.tokens] \in D
    <3>1. i0 + i - 1 \in O
      OBVIOUS
    <3> HIDE DEF O
    <3>2. p \X {i0 + i - 1} \in SUBSET (Nat \X O)
      BY <2>1, <3>1
    <3> QED
      BY <3>2 DEF D, BlockSet
  <2>3. i1 - i0 \in Nat /\ row(p) \in [1 .. i1 - i0 -> D]
    BY <2>2
  <2> HIDE DEF row
  <2>4. row(p) \in Seq(D)
    BY <2>3, ListIn
  <2> QED
    BY <2>4 DEF p
<1>5. ASSUME NEW b \in 1 .. r PROVE LinearRange(k, ones[b], i0, i1) \in Seq(D)
  <2>1. ones[b] \in Nat
    BY <1>2
  <2> QED
    BY <2>1, RangeIn
<1> HIDE DEF D, quads, ones, row
<1>6. f \in [1 .. q -> Seq(D)] /\ f2 \in [1 .. r -> Seq(D)]
  BY <1>1, <1>2, <1>4, <1>5
<1> HIDE DEF f, f2
<1>7. f \in Seq(Seq(D)) /\ f2 \in Seq(Seq(D))
  BY <1>6, ListIn
<1>8. FlattenSeq(f) \in Seq(D) /\ FlattenSeq(f2) \in Seq(D)
  BY <1>7, FlattenType
<1>9. FlattenSeq(f) \o FlattenSeq(f2) \in Seq(D)
  BY <1>8, ConcatProperties
<1> QED
  BY <1>3, <1>9 DEF D

\* linear_job gives a thread blocks of its slice.
LEMMA JobIn ==
  ASSUME NEW k, k.block \in Nat \ {0}, NEW p, p.nOut \in Nat, p.nTok \in Nat,
         NEW n \in Nat \ {0}, NEW t \in 0 .. n - 1
  PROVE  LET s == RowSlice(t, n, p.nOut)
         IN LinearJob(k, p, t, n) \in Seq(BlockSet(k, s[1] .. s[2] - 1))
<1> DEFINE s == RowSlice(t, n, p.nOut)
<1>1. s[1] \in Nat /\ s[2] \in Nat /\ s[1] <= s[2]
  BY SlicesApart
<1>2. LinearJob(k, p, t, n) = IF p.nTok > 1 THEN LinearRowsRange(k, p.nTok, s[1], s[2])
                              ELSE LinearRange(k, 0, s[1], s[2])
  BY DEF LinearJob
<1> HIDE DEF s
<1>3. LinearRowsRange(k, p.nTok, s[1], s[2]) \in Seq(BlockSet(k, s[1] .. s[2] - 1))
  BY <1>1, RowsRangeIn
<1>4. LinearRange(k, 0, s[1], s[2]) \in Seq(BlockSet(k, s[1] .. s[2] - 1))
  BY <1>1, RangeIn
<1> QED
  BY <1>2, <1>3, <1>4 DEF s

\* So does qlinear_job.
LEMMA QuantJobIn ==
  ASSUME NEW k, k.block \in Nat \ {0}, NEW p, p.nOut \in Nat, p.nTok \in Nat,
         NEW n \in Nat \ {0}, NEW t \in 0 .. n - 1
  PROVE  LET s == RowSlice(t, n, p.nOut)
         IN QLinearJob(k, p, t, n) \in Seq(BlockSet(k, s[1] .. s[2] - 1))
<1> DEFINE s == RowSlice(t, n, p.nOut)
           O == s[1] .. s[2] - 1
           D == BlockSet(k, O)
           quads == Blocks(0, p.nTok, 4)
           ones == Rest(0, p.nTok, 4)
<1>1. s[1] \in Nat /\ s[2] \in Nat /\ s[1] <= s[2]
  BY SlicesApart
<1>2. PICK one \in {k.q8, k.wdot}, many \in {k.q8, k.wdots} :
        QLinearJob(k, p, t, n) =
          FlattenSeq([i \in 1 .. s[2] - s[1] |->
            [b \in DOMAIN quads |-> [cells |-> quads[b] \X {s[1] + i - 1}, strips |-> many]]
            \o [b \in DOMAIN ones |->
                  [cells |-> {<<ones[b], s[1] + i - 1>>}, strips |-> one]]])
  BY DEF QLinearJob
<1>3. 0 \in Nat /\ 0 <= p.nTok /\ 4 \in Nat \ {0}
  OBVIOUS
<1>4. PICK q \in Nat :
        DOMAIN quads = 1 .. q /\ \A b \in 1 .. q : quads[b] \subseteq 0 .. p.nTok - 1
  BY <1>3, BlocksIn
<1>5. PICK r \in Nat : DOMAIN ones = 1 .. r /\ \A b \in 1 .. r : ones[b] \in 0 .. p.nTok - 1
  BY <1>3, BlocksIn
<1> DEFINE f(i) == [b \in DOMAIN quads |->
                      [cells |-> quads[b] \X {s[1] + i - 1}, strips |-> many]]
           f2(i) == [b \in DOMAIN ones |->
                      [cells |-> {<<ones[b], s[1] + i - 1>>}, strips |-> one]]
           rows == [i \in 1 .. s[2] - s[1] |-> f(i) \o f2(i)]
<1>6. QLinearJob(k, p, t, n) = FlattenSeq(rows)
  BY <1>2
<1> HIDE DEF s, quads, ones
<1>7. ASSUME NEW i \in 1 .. s[2] - s[1] PROVE f(i) \o f2(i) \in Seq(D)
  <2> DEFINE o == s[1] + i - 1
  <2>1. o \in O
    BY <1>1
  <2> HIDE DEF O
  <2>2. ASSUME NEW b \in 1 .. q PROVE [cells |-> quads[b] \X {o}, strips |-> many] \in D
    <3>1. quads[b] \subseteq Nat
      BY <1>4
    <3> HIDE DEF o
    <3>2. quads[b] \X {o} \in SUBSET (Nat \X O)
      BY <2>1, <3>1
    <3> QED
      BY <3>2 DEF BlockSet
  <2>3. ASSUME NEW b \in 1 .. r PROVE [cells |-> {<<ones[b], o>>}, strips |-> one] \in D
    <3>1. ones[b] \in Nat
      BY <1>5
    <3> HIDE DEF o
    <3>2. {<<ones[b], o>>} \in SUBSET (Nat \X O)
      BY <2>1, <3>1
    <3> QED
      BY <3>2 DEF BlockSet
  <2> HIDE DEF D
  <2>4. f(i) \in [1 .. q -> D] /\ f2(i) \in [1 .. r -> D]
    BY <1>4, <1>5, <2>2, <2>3
  <2> HIDE DEF f, f2
  <2>5. f(i) \in Seq(D) /\ f2(i) \in Seq(D)
    BY <2>4, ListIn
  <2> QED
    BY <2>5, ConcatProperties
<1> HIDE DEF D, f, f2
<1>8. s[2] - s[1] \in Nat /\ rows \in [1 .. s[2] - s[1] -> Seq(D)]
  BY <1>1, <1>7
<1> HIDE DEF rows
<1>9. FlattenSeq(rows) \in Seq(D)
  BY SMTT(30), <1>8, ListIn, FlattenType
<1> QED
  BY <1>6, <1>9 DEF D, s

-----------------------------------------------------------------------------
(* A run of the pool.                                                      *)

\* A list has its elements.
LEMMA ListFrom ==
  ASSUME NEW D, NEW s \in Seq(D)
  PROVE  IsList(s) /\ DOMAIN s = 1 .. Len(s) /\ \A k \in DOMAIN s : s[k] \in D
<1>1. s \in Seq(Range(s))
  BY SeqOfRange
<1>2. Range(s) = {s[k] : k \in DOMAIN s}
  BY DEF Range
<1>3. DOMAIN s = 1 .. Len(s) /\ \A k \in 1 .. Len(s) : s[k] \in D
  BY LenProperties, ElementOfSeq
<1> QED
  BY <1>1, <1>2, <1>3 DEF IsList

\* What is left of a list without its head.
LEMMA TailList ==
  ASSUME NEW s, IsList(s), s # <<>>
  PROVE  /\ IsList(Tail(s)) /\ CellsOf(Tail(s)) \subseteq CellsOf(s)
         /\ DOMAIN Head(s) \subseteq CellsOf(s)
<1> DEFINE D == {s[k] : k \in DOMAIN s}
<1>1. s \in Seq(D)
  BY DEF IsList
<1> HIDE DEF D
<1>2. /\ Tail(s) \in Seq(D) /\ Head(s) = s[1] /\ Len(s) \in Nat \ {0}
      /\ Len(Tail(s)) = Len(s) - 1
      /\ \A k \in 1 .. Len(Tail(s)) : Tail(s)[k] = s[k + 1]
  BY <1>1, HeadTailProperties, EmptySeq, LenProperties
<1>3. DOMAIN s = 1 .. Len(s) /\ IsList(Tail(s)) /\ DOMAIN Tail(s) = 1 .. Len(Tail(s))
  BY <1>1, <1>2, ListFrom
<1>4. 1 \in DOMAIN s /\ \A k \in DOMAIN Tail(s) : k + 1 \in DOMAIN s /\ Tail(s)[k] = s[k + 1]
  BY <1>2, <1>3
<1>5. CellsOf(Tail(s)) \subseteq CellsOf(s)
  BY <1>4 DEF CellsOf
<1>6. DOMAIN Head(s) \subseteq CellsOf(s)
  BY <1>2, <1>4 DEF CellsOf
<1> QED
  BY <1>3, <1>5, <1>6

\* Every cell is of one thread, from the blocks it is given to the sums it
\* has added.
IsFcn(f) == f = [t \in DOMAIN f |-> f[t]]
Lists(w) == \A t \in DOMAIN w : IsList(w[t])
Apart(w) == \A t, u \in DOMAIN w : t # u => CellsOf(w[t]) \cap CellsOf(w[u]) = {}
Holds(h, w) == h = <<>> \/ (w # <<>> /\ DOMAIN h \subseteq CellsOf(w))
WorkInv ==
  /\ IsFcn(work) /\ IsFcn(held) /\ DOMAIN held = DOMAIN work
  /\ Lists(work) /\ Apart(work)
  /\ \A t \in DOMAIN work : Holds(held[t], work[t])

\* At the start nothing has been added.
LEMMA PoolStarts ==
  ASSUME NEW n \in Int, NEW w, work' = [t \in 0 .. n - 1 |-> w[t]],
         held' = [t \in 0 .. n - 1 |-> <<>>],
         \A t \in 0 .. n - 1 : IsList(w[t]),
         \A t, u \in 0 .. n - 1 : t # u => CellsOf(w[t]) \cap CellsOf(w[u]) = {}
  PROVE  WorkInv'
<1>1. IsFcn(work') /\ IsFcn(held') /\ DOMAIN held' = DOMAIN work'
  BY DEF IsFcn
<1>2. Lists(work')
  BY DEF Lists
<1>3. Apart(work')
  BY DEF Apart
<1>4. \A t \in DOMAIN work' : Holds(held'[t], work'[t])
  BY DEF Holds
<1> QED
  BY <1>1, <1>2, <1>3, <1>4 DEF WorkInv

\* Blocks of outputs O have no cell of another output.
LEMMA BlockCells ==
  ASSUME NEW k, NEW O, NEW b \in Seq(BlockSet(k, O)), NEW p,
         NEW s, s = [i \in DOMAIN b |-> Sums(p, b[i])]
  PROVE  IsList(s) /\ CellsOf(s) \subseteq Nat \X O
<1> DEFINE V == {Sums(p, b[i]) : i \in DOMAIN b}
<1>1. Len(b) \in Nat /\ DOMAIN b = 1 .. Len(b) /\ \A i \in DOMAIN b : b[i] \in BlockSet(k, O)
  BY ListFrom, LenProperties
<1>2. s \in [1 .. Len(b) -> V]
  BY <1>1
<1>3. \A i \in DOMAIN b : DOMAIN Sums(p, b[i]) = b[i].cells
  BY DEF Sums
<1>4. \A i \in DOMAIN b : b[i].cells \in SUBSET (Nat \X O)
  BY <1>1 DEF BlockSet
<1> HIDE DEF V
<1>5. IsList(s)
  <2>1. s \in Seq(V)
    BY <1>1, <1>2, ListIn
  <2> QED
    BY <2>1, ListFrom
<1>6. ASSUME NEW c \in CellsOf(s) PROVE c \in Nat \X O
  <2>1. PICK i \in DOMAIN b : c \in DOMAIN Sums(p, b[i])
    BY DEF CellsOf
  <2> QED
    BY <1>3, <1>4, <2>1
<1> QED
  BY <1>5, <1>6

\* The blocks of a kernel are not empty.
LEMMA KernelBlock == Kernel.block \in Nat \ {0}
  BY DEF Kernel, X86, Arm, Plain

\* The host gives each thread the rows of its slice.
LEMMA CpuJobStarts ==
  ASSUME NEW p, p.nOut \in Nat, p.nTok \in Nat, NEW quant, conf.threads \in Nat \ {0},
         CpuJob(p, quant)
  PROVE  WorkInv'
<1> DEFINE n == IF conf.backend = "plain" THEN 1 ELSE conf.threads
           b(t) == IF quant THEN QLinearJob(Kernel, p, t, n)
                   ELSE IF conf.backend = "plain" THEN PlainJob(p) ELSE LinearJob(Kernel, p, t, n)
           sums(t) == [i \in DOMAIN b(t) |-> Sums(p, b(t)[i])]
           w == [t \in 0 .. n - 1 |-> sums(t)]
           Slice(t) == RowSlice(t, n, p.nOut)[1] .. RowSlice(t, n, p.nOut)[2] - 1
<1>1. work' = [t \in 0 .. n - 1 |-> sums(t)] /\ held' = [t \in 0 .. n - 1 |-> <<>>]
  BY DEF CpuJob, StartPool
<1>2. n \in Nat \ {0}
  OBVIOUS
<1>3. ASSUME ~quant, conf.backend = "plain"
      PROVE  n = 1 /\ \A t \in 0 .. n - 1 : IsList(sums(t))
  <2>1. \A t : b(t) = PlainJob(p)
    BY <1>3
  <2>2. PICK l \in Nat : DOMAIN PlainJob(p) = 1 .. l
    <3>1. p.nTok * p.nOut \in Nat
      OBVIOUS
    <3> QED
      BY <3>1 DEF PlainJob
  <2> DEFINE f == [i \in 1 .. l |-> Sums(p, PlainJob(p)[i])]
             V == {Sums(p, PlainJob(p)[i]) : i \in 1 .. l}
  <2>3. \A t : sums(t) = f
    BY <2>1, <2>2
  <2>4. f \in [1 .. l -> V]
    OBVIOUS
  <2> HIDE DEF f, V
  <2>5. IsList(f)
    <3>1. f \in Seq(V)
      BY <2>2, <2>4, ListIn
    <3> QED
      BY <3>1, ListFrom
  <2> QED
    BY <1>3, <2>3, <2>5
<1>4. ASSUME quant \/ conf.backend # "plain", NEW t \in 0 .. n - 1
      PROVE  IsList(sums(t)) /\ \A c \in CellsOf(sums(t)) : c[2] \in Slice(t)
  <2> HIDE DEF n
  <2>1. b(t) \in Seq(BlockSet(Kernel, Slice(t)))
    <3>1. QLinearJob(Kernel, p, t, n) \in Seq(BlockSet(Kernel, Slice(t)))
      BY <1>2, KernelBlock, QuantJobIn
    <3>2. LinearJob(Kernel, p, t, n) \in Seq(BlockSet(Kernel, Slice(t)))
      BY <1>2, KernelBlock, JobIn
    <3> HIDE DEF Slice
    <3> QED
      BY <1>4, <3>1, <3>2
  <2> DEFINE c == b(t)
             O == Slice(t)
  <2>2. c \in Seq(BlockSet(Kernel, O))
    BY <2>1
  <2>3. sums(t) = [i \in DOMAIN c |-> Sums(p, c[i])]
    OBVIOUS
  <2> HIDE DEF b, Slice, c, O, sums
  <2> SUFFICES ASSUME NEW s, s = [i \in DOMAIN c |-> Sums(p, c[i])]
               PROVE  IsList(s) /\ \A e \in CellsOf(s) : e[2] \in O
    BY <2>3 DEF O
  <2>4. IsList(s) /\ CellsOf(s) \subseteq Nat \X O
    BY <2>2, BlockCells
  <2> QED
    BY <2>4
<1> HIDE DEF sums
<1>5. work' = [t \in 0 .. n - 1 |-> w[t]] /\ \A t \in 0 .. n - 1 : w[t] = sums(t)
  BY <1>1
<1>6. ASSUME NEW t \in 0 .. n - 1 PROVE IsList(sums(t))
  BY <1>3, <1>4
<1>7. ASSUME NEW t \in 0 .. n - 1, NEW u \in 0 .. n - 1, t < u
      PROVE  CellsOf(sums(t)) \cap CellsOf(sums(u)) = {}
  <2>1. quant \/ conf.backend # "plain"
    BY <1>3, <1>7
  <2>2. \A o \in Slice(t) : o \notin Slice(u)
    <3> HIDE DEF n
    <3> QED
      BY <1>2, <1>7, SlicesApart
  <2> HIDE DEF Slice
  <2> QED
    BY <1>4, <2>1, <2>2
<1> HIDE DEF n, w
<1>8. ASSUME NEW t \in 0 .. n - 1, NEW u \in 0 .. n - 1, t # u
      PROVE  CellsOf(sums(t)) \cap CellsOf(sums(u)) = {}
  <2>1. t < u \/ u < t
    BY <1>2, <1>8
  <2> QED
    BY <1>7, <2>1
<1>9. n \in Int /\ \A t \in 0 .. n - 1 : IsList(w[t])
  BY <1>2, <1>5, <1>6
<1>10. \A t, u \in 0 .. n - 1 : t # u => CellsOf(w[t]) \cap CellsOf(w[u]) = {}
  BY <1>5, <1>8
<1> QED
  BY <1>1, <1>5, <1>9, <1>10, PoolStarts

\* The waves are dealt out to the threads, and each wave's groups to its
\* channels.
LEMMA WaveJobStarts ==
  ASSUME mat.nOut \in Nat, conf.threads \in Nat \ {0}, Len(hw.pim) \in Nat \ {0},
         NEW d, NEW x, WaveJob(d, x)
  PROVE  WorkInv'
<1> DEFINE L == Len(hw.pim)
           n == Max({1, Min({conf.threads, NWaves})})
           sum(w, i) == LET acc == MacWave(d, hw.pim[i], rowBase[call.m] + w, NCols, x)
                            grp == w * Len(hw.pim) + i - 1
                        IN [c \in GroupCells(grp) |-> acc[c[2] % Banks]]
           last(w) == Min({Len(hw.pim), Ceil(mat.nOut, Banks) - w * Len(hw.pim)})
           rounds(t) == Ceil(NWaves - t, n)
           wave_of(t, k) == t + (k - 1) * n
           ws(t) == [k \in 1 .. rounds(t) |-> wave_of(t, k)]
           rows(t) == [k \in DOMAIN ws(t) |->
                         [i \in 1 .. last(ws(t)[k]) |-> sum(ws(t)[k], i)]]
           job(t) == FlattenSeq(rows(t))
           w == [t \in 0 .. n - 1 |-> job(t)]
           T(t) == {sum(wave_of(t, k), i) : k \in Nat \ {0}, i \in 1 .. L}
<1>1. work' = [t \in 0 .. n - 1 |-> job(t)] /\ held' = [t \in 0 .. n - 1 |-> <<>>]
  BY DEF WaveJob, StartPool
<1>2. Ceil(mat.nOut, Banks) \in Nat /\ NWaves \in Nat
  <2>1. \A a \in Nat : \A m \in Nat \ {0} : Ceil(a, m) \in Nat
    BY FloorMonotone DEF Ceil
  <2>2. Ceil(mat.nOut, Banks) \in Nat
    BY <2>1, DeviceAssumption
  <2> QED
    BY <2>1, <2>2 DEF NWaves
<1>3. n \in Nat \ {0}
  <2> DEFINE m == Min({conf.threads, NWaves})
  <2>1. conf.threads \in Int /\ NWaves \in Int
    BY <1>2
  <2>2. m \in {conf.threads, NWaves}
    BY <2>1, LesserGreater, Zenon
  <2>3. m \in Int /\ 1 \in Int
    BY <2>1, <2>2
  <2> HIDE DEF m
  <2>4. Max({1, m}) \in {1, m} /\ Max({1, m}) >= 1
    BY <2>3, LesserGreater, Zenon
  <2>5. Max({1, m}) \in Nat \ {0}
    BY <2>3, <2>4
  <2> QED
    BY <2>5 DEF m
<1> HIDE DEF n
<1>4. ASSUME NEW t \in 0 .. n - 1
      PROVE  /\ IsList(job(t))
             /\ \A c \in CellsOf(job(t)) : \E k \in Nat, i \in 0 .. L - 1 :
                  c \in GroupCells((t + k * n) * L + i)
  <2>1. \A k \in Nat \ {0} : wave_of(t, k) \in Nat
    BY <1>3
  <2>2. ASSUME NEW v \in Nat PROVE last(v) \in Int /\ last(v) <= L
    <3>1. Ceil(mat.nOut, Banks) - v * L \in Int /\ L \in Int
      BY <1>2
    <3> QED
      BY <3>1, LesserGreater
  <2>3. rounds(t) \in Int
    BY <1>2, <1>3 DEF Ceil
  <2> HIDE DEF sum, last, wave_of, rounds
  <2>4. ASSUME NEW k \in 1 .. rounds(t)
        PROVE  [i \in 1 .. last(wave_of(t, k)) |-> sum(wave_of(t, k), i)] \in Seq(T(t))
    <3>1. k \in Nat \ {0} /\ wave_of(t, k) \in Nat
      BY <2>1, <2>3
    <3>2. last(wave_of(t, k)) \in Int /\ last(wave_of(t, k)) <= L
      BY <2>2, <3>1
    <3>3. \A i \in 1 .. last(wave_of(t, k)) : sum(wave_of(t, k), i) \in T(t)
      <4>1. \A i \in 1 .. last(wave_of(t, k)) : i \in 1 .. L
        BY <3>2
      <4> HIDE DEF L
      <4> QED
        BY <3>1, <4>1
    <3> HIDE DEF T
    <3>4. [i \in 1 .. last(wave_of(t, k)) |-> sum(wave_of(t, k), i)]
            \in [1 .. last(wave_of(t, k)) -> T(t)]
      BY <3>3
    <3> QED
      BY <3>2, <3>4, ListIn
  <2> HIDE DEF T
  <2>5. rows(t) \in Seq(Seq(T(t)))
    <3>1. DOMAIN ws(t) = 1 .. rounds(t) /\ \A k \in 1 .. rounds(t) : ws(t)[k] = wave_of(t, k)
      OBVIOUS
    <3> HIDE DEF ws
    <3>2. \A k \in 1 .. rounds(t) :
            [i \in 1 .. last(ws(t)[k]) |-> sum(ws(t)[k], i)] \in Seq(T(t))
      BY <2>4, <3>1
    <3>3. rows(t) \in [1 .. rounds(t) -> Seq(T(t))]
      BY <3>1, <3>2
    <3> HIDE DEF rows
    <3> QED
      BY <2>3, <3>3, ListIn
  <2> HIDE DEF rows
  <2>6. job(t) \in Seq(T(t))
    BY <2>5, FlattenType
  <2> HIDE DEF job
  <2>7. IsList(job(t)) /\ \A j \in DOMAIN job(t) : job(t)[j] \in T(t)
    BY <2>6, ListFrom
  <2>8. ASSUME NEW c \in CellsOf(job(t))
        PROVE  \E k \in Nat, i \in 0 .. L - 1 : c \in GroupCells((t + k * n) * L + i)
    <3>1. PICK j \in DOMAIN job(t) : c \in DOMAIN job(t)[j]
      BY DEF CellsOf
    <3>2. job(t)[j] \in T(t)
      BY <2>7
    <3>3. PICK k \in Nat \ {0}, i \in 1 .. L : job(t)[j] = sum(wave_of(t, k), i)
      BY <3>2 DEF T
    <3>4. DOMAIN sum(wave_of(t, k), i) = GroupCells(wave_of(t, k) * L + i - 1)
      BY DEF sum
    <3>5. c \in GroupCells(wave_of(t, k) * L + i - 1)
      BY <3>1, <3>3, <3>4
    <3>6. k - 1 \in Nat /\ i - 1 \in 0 .. L - 1
      OBVIOUS
    <3>7. wave_of(t, k) * L + i - 1 = (t + (k - 1) * n) * L + (i - 1)
      <4>1. (t + (k - 1) * n) * L \in Int
        BY <1>3
      <4> QED
        BY <4>1 DEF wave_of
    <3> QED
      BY <3>5, <3>6, <3>7
  <2> QED
    BY <2>7, <2>8
<1> HIDE DEF job
<1>5. ASSUME NEW t \in 0 .. n - 1, NEW u \in 0 .. n - 1, NEW c,
             c \in CellsOf(job(t)), c \in CellsOf(job(u))
      PROVE  t = u
  <2>1. PICK k \in Nat, i \in 0 .. L - 1 : c \in GroupCells((t + k * n) * L + i)
    BY <1>4, <1>5
  <2>2. PICK l \in Nat, j \in 0 .. L - 1 : c \in GroupCells((u + l * n) * L + j)
    BY <1>4, <1>5
  <2> DEFINE v1 == t + k * n
             v2 == u + l * n
             g1 == v1 * L + i
             g2 == v2 * L + j
  <2>3. v1 \in Nat /\ v2 \in Nat
    BY <1>3
  <2> HIDE DEF v1, v2
  <2>4. g1 \in Nat /\ g2 \in Nat
    BY <2>3
  <2>5. \A grp \in Nat : c \in GroupCells(grp) =>
          c[2] \in Int /\ grp * Banks <= c[2] /\ c[2] < grp * Banks + Banks
    <3> SUFFICES ASSUME NEW grp \in Nat, c \in GroupCells(grp)
                 PROVE  c[2] \in Int /\ grp * Banks <= c[2] /\ c[2] < grp * Banks + Banks
      OBVIOUS
    <3> DEFINE e == grp * Banks
               m == Min({e + Banks, mat.nOut})
    <3>1. e \in Nat /\ e + Banks \in Int /\ mat.nOut \in Int
      BY DeviceAssumption
    <3>2. c \in {0} \X (e .. m - 1)
      BY DEF GroupCells
    <3> HIDE DEF e
    <3>3. m \in Int /\ m <= e + Banks
      BY <3>1, LesserGreater
    <3> HIDE DEF m
    <3>4. c[2] \in e .. m - 1
      BY <3>2
    <3>5. c[2] \in Int /\ e <= c[2] /\ c[2] < e + Banks
      BY <3>1, <3>3, <3>4, DeviceAssumption
    <3> QED
      BY <3>5 DEF e
  <2>6. g1 = g2
    <3> HIDE DEF g1, g2
    <3> DEFINE o == c[2]
    <3>1. /\ o \in Int /\ g1 * Banks <= o /\ o < g1 * Banks + Banks
          /\ g2 * Banks <= o /\ o < g2 * Banks + Banks
      BY <2>1, <2>2, <2>4, <2>5 DEF g1, g2, v1, v2
    <3> HIDE DEF o
    <3> DEFINE e1 == g1 * Banks
               e2 == g2 * Banks
               r == o - e1
               s == o - e2
    <3>2. Banks \in Nat \ {0} /\ e1 \in Int /\ e2 \in Int
      BY <2>4, DeviceAssumption
    <3>4. /\ o \in Int /\ e1 <= o /\ o < e1 + Banks
          /\ e2 <= o /\ o < e2 + Banks
      BY <3>1
    <3> HIDE DEF e1, e2
    <3>5. r \in 0 .. Banks - 1 /\ s \in 0 .. Banks - 1 /\ r + e1 = s + e2
      BY <3>4, <3>2
    <3>3. r \in 0 .. Banks - 1 /\ s \in 0 .. Banks - 1 /\ r + g1 * Banks = s + g2 * Banks
      BY <3>5 DEF e1, e2
    <3> HIDE DEF r, s
    <3> QED
      BY <2>4, <3>2, <3>3, RowAndPlace
  <2>7. v1 = v2
    <3>1. i + v1 * L = j + v2 * L
      <4>1. v1 * L \in Int /\ v2 * L \in Int
        BY <2>3
      <4> QED
        BY <2>6, <4>1
    <3> HIDE DEF L
    <3>2. L \in Nat \ {0}
      BY DEF L
    <3> QED
      BY <2>3, <3>1, <3>2, RowAndPlace
  <2> QED
    BY <1>3, <2>7, RowAndPlace DEF v1, v2
<1>6. work' = [t \in 0 .. n - 1 |-> w[t]] /\ \A t \in 0 .. n - 1 : w[t] = job(t)
  BY <1>1
<1> HIDE DEF w
<1>7. n \in Int /\ \A t \in 0 .. n - 1 : IsList(w[t])
  <2>1. \A t \in 0 .. n - 1 : IsList(job(t))
    BY <1>4
  <2> QED
    BY <1>3, <1>6, <2>1
<1>8. \A t, u \in 0 .. n - 1 : t # u => CellsOf(w[t]) \cap CellsOf(w[u]) = {}
  BY <1>5, <1>6
<1> QED
  BY <1>1, <1>6, <1>7, <1>8, PoolStarts

-----------------------------------------------------------------------------
(* The invariant.                                                          *)

Phases == {"idle", "prepare", "status", "push", "remote", "work", "fire", "isr", "done"}

\* A call under way is of a matrix.
CallInv ==
  /\ conf \in Confs
  /\ call \in [m : Mats \cup {"none"}, nTok : Nat, acc : BOOLEAN, n : Nat,
               ph : Phases, pushed : Nat]
  /\ call.ph # "idle" => call.m \in Mats

LinearInv == CallInv /\ WorkInv

\* In the beginning no thread has anything.
LEMMA InitLinear == Init => LinearInv
<1> SUFFICES ASSUME Init PROVE LinearInv
  OBVIOUS
<1>1. CallInv
  BY DEF Init, CallInv, Phases
<1>2. work = <<>> /\ held = <<>>
  BY DEF Init
<1>3. WorkInv
  BY <1>2 DEF WorkInv, IsFcn, Lists, Apart
<1> QED
  BY <1>1, <1>3 DEF LinearInv

\* What leaves the pool alone.
LEMMA WorkSame ==
  ASSUME WorkInv, UNCHANGED <<work, held>>
  PROVE  WorkInv'
BY DEF WorkInv, IsFcn, Lists, Apart, Holds, IsList, CellsOf

\* A product of a call that is under way.
LEMMA FallBackStarts ==
  ASSUME CallInv, conf' = conf, call.ph # "idle", FallBack
  PROVE  LinearInv'
<1> DEFINE p == Product(call.m, call.n, call.nTok)
<1>1. p.nOut \in Nat /\ p.nTok \in Nat /\ conf.threads \in Nat \ {0}
  BY LinearAssumption DEF CallInv, Product
<1>2. CpuJob(p, FALSE)
  BY DEF FallBack
<1> HIDE DEF p
<1>3. WorkInv'
  BY <1>1, <1>2, CpuJobStarts
<1>4. CallInv'
  BY DEF FallBack, CallInv, Phases
<1> QED
  BY <1>3, <1>4 DEF LinearInv

-----------------------------------------------------------------------------
(* The steps.                                                              *)

\* A call that goes to the device gives the threads nothing yet; the others share the
\* rows out.
LEMMA CallKeeps ==
  ASSUME LinearInv, NEW m \in Mats, NEW nTok \in Tokens, NEW acc \in BOOLEAN,
         Call(m, nTok, acc)
  PROVE  LinearInv'
<1> DEFINE n == call.n + 1
           offload == /\ conf.backend = "pim" /\ nTok = 1 /\ Offload(conf, m)
                      /\ Info[m].nOut > 0 /\ Info[m].nIn > 0
           p == Product(m, n, nTok)
           quant == Info[m].type # "f32" /\ ~(conf.backend = "pim")
<1>1. CallInv'
  <2>1. PICK ph \in Phases :
          call' = [m |-> m, nTok |-> nTok, acc |-> acc, n |-> n, pushed |-> 0, ph |-> ph]
    BY DEF Call, Phases
  <2>2. nTok \in Nat /\ n \in Nat /\ 0 \in Nat
    BY LinearAssumption DEF LinearInv, CallInv
  <2>3. conf' = conf /\ conf \in Confs
    BY DEF Call, LinearInv, CallInv
  <2> HIDE DEF n
  <2> QED
    BY <2>1, <2>2, <2>3 DEF CallInv
<1>2. p.nOut \in Nat /\ p.nTok \in Nat /\ conf.threads \in Nat \ {0}
  BY LinearAssumption DEF LinearInv, CallInv, Product
<1>3. CASE offload
  <2>1. UNCHANGED <<work, held>>
    BY <1>3 DEF Call
  <2> QED
    BY <1>1, <2>1, WorkSame DEF LinearInv
<1>4. CASE ~offload
  <2>1. CpuJob(p, quant)
    BY <1>4 DEF Call
  <2> HIDE DEF p, quant
  <2>2. WorkInv'
    BY <1>2, <2>1, CpuJobStarts
  <2> QED
    BY <1>1, <2>2 DEF LinearInv
<1> QED
  BY <1>3, <1>4

\* Placing the weights gives nobody anything.
LEMMA PlaceRowsKeeps ==
  ASSUME LinearInv, PlaceRows
  PROVE  LinearInv'
<1>1. CallInv /\ conf' = conf /\ call.ph # "idle"
  BY DEF PlaceRows, LinearInv
<1>2. CASE FallBack
  BY <1>1, <1>2, FallBackStarts
<1>3. CASE UNCHANGED <<call, work, held>>
  BY <1>1, <1>3, WorkSame DEF LinearInv, CallInv
<1> QED
  BY <1>2, <1>3 DEF PlaceRows

\* A product on the device gives out waves, orders or rows, each of them once.
LEMMA GemvKeeps ==
  ASSUME LinearInv, Gemv
  PROVE  LinearInv'
<1>1. CallInv /\ conf' = conf /\ call.ph # "idle"
  BY DEF Gemv, LinearInv
<1>2. mat.nOut \in Nat /\ conf.threads \in Nat \ {0} /\ Len(hw.pim) \in Nat \ {0}
  BY <1>1, LinearAssumption DEF CallInv, mat, hw
<1>3. \/ FallBack
      \/ call' = [call EXCEPT !.ph = "remote"] /\ \E d, x : WaveJob(d, x)
      \/ call' = [call EXCEPT !.ph = "work"] /\ \E d, x : WaveJob(d, x)
      \/ call' = [call EXCEPT !.ph = "fire"] /\ UNCHANGED <<work, held>>
  BY DEF Gemv
<1>4. CASE FallBack
  BY <1>1, <1>4, FallBackStarts
<1>5. ASSUME NEW ph \in {"remote", "work", "fire"}, call' = [call EXCEPT !.ph = ph]
      PROVE  CallInv'
  BY <1>1, <1>5 DEF CallInv, Phases
<1>6. ASSUME NEW d, NEW x, WaveJob(d, x)
      PROVE  WorkInv'
  BY <1>2, <1>6, WaveJobStarts
<1>7. ASSUME UNCHANGED <<work, held>>
      PROVE  WorkInv'
  BY <1>7, WorkSame DEF LinearInv
<1> QED
  BY <1>3, <1>4, <1>5, <1>6, <1>7 DEF LinearInv

\* The steps before and after the pool's run.
LEMMA SerialKeeps ==
  ASSUME LinearInv,
         \/ LoadRows \/ Install \/ ReadStatus \/ SimCopies \/ Push
         \/ Fire \/ Issue \/ Retire \/ Idle \/ Return \/ Stopped
  PROVE  LinearInv'
<1>1. UNCHANGED <<work, held>>
  BY DEF LoadRows, Install, ReadStatus, SimCopies, Push, Fire, Issue, Retire, Idle,
         Return, Stopped, vars
<1>2. conf' = conf
  BY DEF LoadRows, Install, ReadStatus, SimCopies, Push, Fire, Issue, Retire, Idle,
         Return, Stopped, vars
<1>3. \/ UNCHANGED call
      \/ /\ call.ph # "idle"
         /\ \E ph \in Phases : \/ call' = [call EXCEPT !.ph = ph]
                               \/ call' = [call EXCEPT !.pushed = @ + 2, !.ph = ph]
  <2>1. CASE LoadRows
    BY <2>1 DEF LoadRows
  <2>2. CASE Install
    BY <2>2 DEF Install, Phases
  <2>3. CASE ReadStatus
    BY <2>3 DEF ReadStatus, Phases
  <2>4. CASE SimCopies
    BY <2>4 DEF SimCopies
  <2>5. CASE Push
    BY <2>5 DEF Push, Phases
  <2>6. CASE Fire
    BY <2>6 DEF Fire, Executed, Phases
  <2>7. CASE Issue
    BY <2>7 DEF Issue, Phases
  <2>8. CASE Retire
    BY <2>8 DEF Retire
  <2>9. CASE Idle
    BY <2>9 DEF Idle, Executed, Phases
  <2>10. CASE Return
    BY <2>10 DEF Return, Phases
  <2>11. CASE Stopped
    BY <2>11 DEF Stopped, vars
  <2> QED
    BY <2>1, <2>2, <2>3, <2>4, <2>5, <2>6, <2>7, <2>8, <2>9, <2>10, <2>11
<1>4. CallInv'
  <2>1. CASE UNCHANGED call
    BY <1>2, <2>1 DEF LinearInv, CallInv
  <2>2. ASSUME call.ph # "idle", NEW ph \in Phases, call' = [call EXCEPT !.ph = ph]
        PROVE  CallInv'
    BY <1>2, <2>2 DEF LinearInv, CallInv
  <2>3. ASSUME call.ph # "idle", NEW ph \in Phases,
               call' = [call EXCEPT !.pushed = @ + 2, !.ph = ph]
        PROVE  CallInv'
    <3> DEFINE k == call.pushed + 2
    <3>1. CallInv /\ k \in Nat
      BY DEF LinearInv, CallInv
    <3>2. call' = [call EXCEPT !.pushed = k, !.ph = ph]
      BY <2>3
    <3> HIDE DEF k
    <3> QED
      BY <1>2, <2>3, <3>1, <3>2 DEF CallInv
  <2> QED
    BY <1>3, <2>1, <2>2, <2>3
<1> QED
  BY <1>1, <1>4, WorkSame DEF LinearInv

\* A thread loads cells of the block it comes to next.
LEMMA LoadBlockKeeps ==
  ASSUME LinearInv, NEW t \in DOMAIN work, LoadBlock(t)
  PROVE  LinearInv'
<1>1. CallInv'
  BY DEF LoadBlock, LinearInv, CallInv
<1>2. work' = work /\ work[t] # <<>> /\ WorkInv
  BY DEF LoadBlock, LinearInv
<1>3. PICK f : DOMAIN f = DOMAIN Head(work[t]) /\ held' = [held EXCEPT ![t] = f]
  BY DEF LoadBlock
<1>4. IsList(work[t])
  BY <1>2 DEF WorkInv, Lists
<1>5. Holds(f, work[t])
  BY <1>2, <1>3, <1>4, TailList DEF Holds
<1>6. DOMAIN held' = DOMAIN held /\ IsFcn(held')
  BY <1>3 DEF IsFcn
<1>7. \A u \in DOMAIN work : held'[u] = IF u = t THEN f ELSE held[u]
  BY <1>2, <1>3 DEF WorkInv
<1>8. \A u \in DOMAIN work : Holds(held'[u], work[u])
  BY <1>2, <1>5, <1>7 DEF WorkInv
<1>9. WorkInv'
  <2>1. IsFcn(work') /\ Lists(work') /\ Apart(work') /\ DOMAIN held' = DOMAIN work'
    BY <1>2, <1>6 DEF WorkInv
  <2>2. \A u \in DOMAIN work' : Holds(held'[u], work'[u])
    BY <1>2, <1>8
  <2> QED
    BY <1>6, <2>1, <2>2 DEF WorkInv
<1> QED
  BY <1>1, <1>9 DEF LinearInv

\* It stores them and has done the block.
LEMMA StoreBlockKeeps ==
  ASSUME LinearInv, NEW t \in DOMAIN work, StoreBlock(t)
  PROVE  LinearInv'
<1>1. CallInv'
  BY DEF StoreBlock, LinearInv, CallInv
<1>2. /\ held[t] # <<>> /\ held' = [held EXCEPT ![t] = <<>>]
      /\ work' = [work EXCEPT ![t] = Tail(work[t])] /\ WorkInv
  BY DEF StoreBlock, LinearInv
<1>3. IsList(work[t]) /\ work[t] # <<>>
  BY <1>2 DEF WorkInv, Lists, Holds
<1> DEFINE s == Tail(work[t])
<1>4. IsList(s) /\ CellsOf(s) \subseteq CellsOf(work[t])
  BY <1>3, TailList
<1>5. work' = [work EXCEPT ![t] = s]
  BY <1>2
<1> HIDE DEF s
<1>6. /\ DOMAIN work' = DOMAIN work /\ IsFcn(work')
      /\ DOMAIN held' = DOMAIN work /\ IsFcn(held')
  BY <1>2, <1>5 DEF IsFcn, WorkInv
<1>7. \A u \in DOMAIN work : /\ work'[u] = IF u = t THEN s ELSE work[u]
                             /\ held'[u] = IF u = t THEN <<>> ELSE held[u]
  BY <1>2, <1>5 DEF WorkInv
<1>8. Lists(work')
  BY <1>2, <1>4, <1>6, <1>7 DEF WorkInv, Lists
<1>9. \A u \in DOMAIN work : CellsOf(work'[u]) \subseteq CellsOf(work[u])
  BY <1>4, <1>7
<1>10. Apart(work')
  BY <1>2, <1>6, <1>9 DEF WorkInv, Apart
<1>11. \A u \in DOMAIN work : Holds(held'[u], work'[u])
  BY <1>2, <1>7 DEF WorkInv, Holds
<1>12. WorkInv'
  BY <1>6, <1>8, <1>10, <1>11 DEF WorkInv
<1> QED
  BY <1>1, <1>12 DEF LinearInv

\* When the threads are joined nobody has anything.
LEMMA JoinEnds ==
  ASSUME LinearInv, Join
  PROVE  LinearInv'
<1>1. CallInv'
  BY DEF Join, AtWork, LinearInv, CallInv, Phases
<1>2. work' = <<>> /\ held' = <<>>
  BY DEF Join
<1>3. WorkInv'
  BY <1>2 DEF WorkInv, IsFcn, Lists, Apart
<1> QED
  BY <1>1, <1>3 DEF LinearInv

\* Every step keeps who has what.
LEMMA LinearKeeps ==
  ASSUME LinearInv, Next
  PROVE  LinearInv'
<1>1. CASE \E m \in Mats, n \in Tokens, a \in BOOLEAN : Call(m, n, a)
  BY <1>1, CallKeeps
<1>2. CASE PlaceRows
  BY <1>2, PlaceRowsKeeps
<1>3. CASE Gemv
  BY <1>3, GemvKeeps
<1>4. CASE \E t \in DOMAIN work : LoadBlock(t) \/ StoreBlock(t)
  BY <1>4, LoadBlockKeeps, StoreBlockKeeps
<1>5. CASE Join
  BY <1>5, JoinEnds
<1>6. CASE \/ LoadRows \/ Install \/ ReadStatus \/ SimCopies \/ Push
           \/ Fire \/ Issue \/ Retire \/ Idle \/ Return \/ Stopped
  BY <1>6, SerialKeeps
<1> QED
  BY <1>1, <1>2, <1>3, <1>4, <1>5, <1>6 DEF Next, Step

\* Work that is apart is written apart.
LEMMA OneWriterHolds ==
  ASSUME LinearInv
  PROVE  OneWriter
<1> SUFFICES ASSUME NEW t \in DOMAIN held, NEW u \in DOMAIN held, t # u
             PROVE  DOMAIN held[t] \cap DOMAIN held[u] = {}
  BY DEF OneWriter
<1>1. /\ t \in DOMAIN work /\ u \in DOMAIN work
      /\ Holds(held[t], work[t]) /\ Holds(held[u], work[u])
      /\ CellsOf(work[t]) \cap CellsOf(work[u]) = {}
  BY DEF LinearInv, WorkInv, Apart
<1>2. held[t] = <<>> \/ DOMAIN held[t] \subseteq CellsOf(work[t])
  BY <1>1 DEF Holds
<1>3. held[u] = <<>> \/ DOMAIN held[u] \subseteq CellsOf(work[u])
  BY <1>1 DEF Holds
<1>4. DOMAIN <<>> = {}
  OBVIOUS
<1> QED
  BY <1>1, <1>2, <1>3, <1>4

-----------------------------------------------------------------------------
(* The device and the commands that come to it.                            *)

\* The commands a plan may have: each can be read one way.
Orders(h) == {cmd \in Cmds(h) : OneReading(h, cmd)}

\* The device is one, with whatever banks.
IsDevice(d, h) == \E w : Memory(w) /\ d \in Dev(h, w)

\* The mailbox: a buffer as large as the matrix it was begun for; and if it is
\* still to be filled, whose weights it is for.
Jobs == [nOut : Nat, nIn : Nat, base : Int, filled : Nat, pending : BOOLEAN,
         va : Mats \cup {"none"}, buf : UNION {[1 .. n -> Int] : n \in Nat}]
JobInv(j) ==
  /\ j \in Jobs
  /\ j.filled <= j.nOut * j.nIn /\ j.buf \in [1 .. j.nOut * j.nIn -> Int]
  /\ j.pending => j.va \in Mats /\ j.nOut = Info[j.va].nOut /\ j.nIn = Info[j.va].nIn

DeviceInv ==
  /\ IsDevice(dev, hw) /\ JobInv(hook) /\ rowBase \in [Mats -> Int] /\ nextRow \in Int
  /\ call.ph # "idle" => call.n \in 1 .. MaxCalls /\ call.nTok \in Tokens
  /\ call.ph \in {"fire", "isr"} => todo # <<>> /\ todo \in Seq(Orders(hw))
  /\ call.ph = "isr" => isr \subseteq Channels(hw) \X Nat

-----------------------------------------------------------------------------
(* The plan.                                                               *)

\* The device in use, its channels and the matrix of the call.
LEMMA HardwareFacts ==
  ASSUME CallInv
  PROVE  /\ Hardware(hw) /\ conf.fast \in BOOLEAN
         /\ hw.pim \in Seq(Channels(hw)) /\ Len(hw.pim) # 0
         /\ ToSet(hw.pim) \in SUBSET Channels(hw) /\ ToSet(hw.pim) # {}
         /\ \A i \in DOMAIN hw.pim : hw.pim[i] \in Channels(hw)
<1>1. conf \in Confs
  BY DEF CallInv
<1>2. Hardware(hw) /\ conf.fast \in BOOLEAN /\ hw.pim \in Seq(Channels(hw)) /\ Len(hw.pim) # 0
  BY <1>1, LinearAssumption DEF hw, Hardware, Channels
<1>3. /\ DOMAIN hw.pim = 1 .. Len(hw.pim) /\ Len(hw.pim) \in Nat
      /\ \A i \in DOMAIN hw.pim : hw.pim[i] \in Channels(hw)
  BY <1>2
<1>4. 1 \in DOMAIN hw.pim
  BY <1>2, <1>3
<1> QED
  BY <1>2, <1>3, <1>4 DEF ToSet

\* The numbers of the matrix of the call.
LEMMA MatrixFacts ==
  ASSUME CallInv, call.m \in Mats
  PROVE  mat.nOut \in Nat /\ mat.nIn \in Nat /\ Ceil(mat.nIn, Lanes) \in Nat /\ NCols \in Nat
<1>1. mat.nOut \in Nat /\ mat.nIn \in Nat
  BY LinearAssumption DEF mat
<1>2. Ceil(mat.nIn, Lanes) \in Nat
  BY <1>1, DeviceAssumption DEF Ceil
<1> QED
  BY <1>1, <1>2 DEF NCols

\* The commands there are.
LEMMA CmdIsOrder ==
  ASSUME CallInv, NEW size \in Int, NEW gpr \in Int, NEW row \in Int
  PROVE  /\ \A op \in {"WR_GB", "WR_BIAS", "MAC_ABK"} :
              Cmd(op, size, gpr, ToSet(hw.pim), row) \in Orders(hw)
         /\ \A i \in DOMAIN hw.pim : Cmd("RD_MAC", size, gpr, {hw.pim[i]}, row) \in Orders(hw)
         /\ Cmd("EOC", size, gpr, {}, row) \in Orders(hw)
<1> DEFINE c(op, chs) == [op |-> op, opsize |-> size, gpr0 |-> gpr, chs |-> chs, row |-> row,
                          col |-> -1]
<1>1. \A op, chs : Cmd(op, size, gpr, chs, row) = c(op, chs)
  BY DEF Cmd
<1>2. \A op \in Ops \cup {"EOC"} : \A chs \in SUBSET Channels(hw) :
        c(op, chs) \in Cmds(hw) /\ c(op, chs).op = op /\ c(op, chs).chs = chs
  BY DEF Cmds
<1> HIDE DEF c
<1>3. /\ ToSet(hw.pim) \in SUBSET Channels(hw) /\ ToSet(hw.pim) # {}
      /\ \A i \in DOMAIN hw.pim : hw.pim[i] \in Channels(hw)
  BY HardwareFacts
<1>4. ASSUME NEW op \in {"WR_GB", "WR_BIAS", "MAC_ABK"}
      PROVE  c(op, ToSet(hw.pim)) \in Orders(hw)
  BY <1>2, <1>3 DEF Orders, OneReading, Ops
<1>5. ASSUME NEW i \in DOMAIN hw.pim
      PROVE  c("RD_MAC", {hw.pim[i]}) \in Orders(hw)
  <2> DEFINE p == hw.pim[i]
             d == c("RD_MAC", {p})
  <2>1. p \in Channels(hw) /\ {p} # {} /\ {p} \in SUBSET Channels(hw)
    BY <1>3
  <2> HIDE DEF p
  <2>2. d \in Cmds(hw) /\ d.op = "RD_MAC" /\ d.chs = {p}
    BY <1>2, <2>1 DEF Ops
  <2> HIDE DEF d
  <2>3. OneReading(hw, d)
    BY <2>1, <2>2 DEF OneReading
  <2> QED
    BY <2>2, <2>3 DEF Orders, p, d
<1>6. c("EOC", {}) \in Orders(hw)
  BY <1>2 DEF Orders, OneReading, Ops
<1> QED
  BY <1>1, <1>4, <1>5, <1>6

\* The commands of a plan are commands of the device.
LEMMA PlanType ==
  ASSUME CallInv, call.m \in Mats, NEW base \in Int
  PROVE  /\ Plan(hw, mat.nOut, mat.nIn, base) # <<>>
         /\ Plan(hw, mat.nOut, mat.nIn, base) \in Seq(Orders(hw))
<1> DEFINE cols == Ceil(mat.nIn, Lanes)
           pim == ToSet(hw.pim)
           C == Orders(hw)
           a(w) == <<Cmd("WR_BIAS", -1, cols, pim, 0), Cmd("MAC_ABK", cols, 0, pim, base + w)>>
           b == [i \in DOMAIN hw.pim |-> Cmd("RD_MAC", -1, cols + i, {hw.pim[i]}, 0)]
           N == Ceil(Ceil(mat.nOut, Banks), Len(hw.pim))
           groups == [k \in 1 .. N |-> a(k - 1) \o b]
           first == <<Cmd("WR_GB", cols, 0, pim, 0)>>
           last == <<Cmd("EOC", -1, 0, {}, 0)>>
<1>1. Plan(hw, mat.nOut, mat.nIn, base) = first \o FlattenSeq(groups) \o last
  BY DEF Plan
<1>2. cols \in Nat /\ -1 \in Int /\ 0 \in Int
  BY MatrixFacts
<1>3. DOMAIN hw.pim = 1 .. Len(hw.pim) /\ Len(hw.pim) \in Nat /\ Len(hw.pim) # 0
  BY HardwareFacts
<1>4. N \in Nat
  <2>1. mat.nOut \in Nat
    BY MatrixFacts
  <2>2. Ceil(mat.nOut, Banks) \in Nat
    BY <2>1, DeviceAssumption DEF Ceil
  <2> QED
    BY <1>3, <2>2 DEF Ceil
<1> HIDE DEF cols, N
<1>5. first \in Seq(C) /\ last \in Seq(C) /\ Len(first) = 1
  <2>1. Cmd("WR_GB", cols, 0, pim, 0) \in C /\ Cmd("EOC", -1, 0, {}, 0) \in C
    BY <1>2, CmdIsOrder
  <2> QED
    BY <2>1
<1>6. \A w \in Nat : a(w) \in Seq(C)
  <2>1. \A w \in Nat : base + w \in Int
    OBVIOUS
  <2>2. Cmd("WR_BIAS", -1, cols, pim, 0) \in C
    BY <1>2, CmdIsOrder
  <2>3. \A w \in Nat : Cmd("MAC_ABK", cols, 0, pim, base + w) \in C
    BY <1>2, <2>1, CmdIsOrder
  <2> HIDE DEF C, pim
  <2> QED
    BY <2>2, <2>3
<1>7. b \in Seq(C)
  <2>1. \A i \in DOMAIN hw.pim : cols + i \in Int
    BY <1>2, <1>3
  <2>2. \A i \in DOMAIN hw.pim : b[i] \in C
    BY <1>2, <2>1, CmdIsOrder
  <2>3. DOMAIN b = 1 .. Len(hw.pim) /\ b = [i \in DOMAIN b |-> b[i]]
    BY <1>3
  <2> HIDE DEF C, b
  <2> QED
    BY <1>3, <2>2, <2>3, ListIn
<1> HIDE DEF a, b, C, first, last
<1>8. groups \in Seq(Seq(C))
  <2>1. \A k \in 1 .. N : k - 1 \in Nat /\ a(k - 1) \o b \in Seq(C)
    BY <1>6, <1>7
  <2> QED
    BY <1>4, <2>1
<1>9. FlattenSeq(groups) \in Seq(C)
  BY <1>8, FlattenType
<1> HIDE DEF groups
<1>10. /\ first \o FlattenSeq(groups) \o last \in Seq(C)
       /\ Len(first \o FlattenSeq(groups) \o last) # 0
  BY <1>5, <1>9
<1> QED
  BY <1>1, <1>10 DEF C

-----------------------------------------------------------------------------
(* The steps.                                                              *)

\* The device starts empty, the mailbox without a job.
LEMMA InitDevice ==
  ASSUME Init
  PROVE  DeviceInv
<1>1. /\ CallInv /\ dev = NewDevice(hw) /\ call.ph = "idle" /\ hook = NoJob
      /\ rowBase = [m \in Mats |-> -1] /\ nextRow = 0
  BY InitLinear DEF Init, LinearInv
<1>2. IsDevice(dev, hw)
  <2>1. Hardware(hw)
    BY <1>1, HardwareFacts
  <2> QED
    BY <1>1, <2>1, NewDeviceType DEF IsDevice
<1>3. JobInv(NoJob)
  <2>1. 0 * 0 = 0 /\ 1 .. 0 = {} /\ <<>> \in [{} -> Int] /\ 0 \in Nat
    OBVIOUS
  <2>2. <<>> \in UNION {[1 .. n -> Int] : n \in Nat}
    BY <2>1
  <2> QED
    BY <2>1, <2>2 DEF NoJob, JobInv, Jobs
<1>4. rowBase \in [Mats -> Int] /\ nextRow \in Int
  BY <1>1
<1> QED
  BY <1>1, <1>2, <1>3, <1>4 DEF DeviceInv

\* What the device is brought to by the commands stays one.
LEMMA CommandType ==
  ASSUME CallInv, NEW d, IsDevice(d, hw), NEW cmd \in Cmds(hw)
  PROVE  /\ \A fast \in BOOLEAN : IsDevice(Execute(d, hw, fast, cmd), hw)
         /\ \A fast \in BOOLEAN, ch \in Channels(hw) :
              IsDevice(ExecuteMicro(d, hw, fast, cmd, ch), hw)
<1>1. PICK w : Memory(w) /\ d \in Dev(hw, w)
  BY DEF IsDevice
<1>2. Hardware(hw)
  BY HardwareFacts
<1>3. ASSUME NEW fast \in BOOLEAN PROVE Execute(d, hw, fast, cmd) \in Dev(hw, w)
  BY <1>1, <1>2, ExecuteType
<1>4. ASSUME NEW fast \in BOOLEAN, NEW ch \in Channels(hw)
      PROVE  ExecuteMicro(d, hw, fast, cmd, ch) \in Dev(hw, w)
  BY <1>1, <1>2, MicroType
<1> QED
  BY <1>1, <1>3, <1>4 DEF IsDevice

\* So does a device whose banks are written.
LEMMA InstalledType ==
  ASSUME NEW d, NEW h, IsDevice(d, h), NEW nOut \in Nat, NEW nIn \in Nat, NEW m,
         \A o \in 0 .. nOut - 1 : \A i \in 0 .. nIn - 1 : m[o][i] \in Int, NEW rows
  PROVE  IsDevice(LoadWeights(d, h, m, nOut, nIn, rows), h)
<1>1. PICK w : Memory(w) /\ d \in Dev(h, w)
  BY DEF IsDevice
<1> QED
  BY <1>1, LoadWeightsType DEF IsDevice

\* The device is worked with alike.
LEMMA HardwareSame ==
  ASSUME conf' = conf
  PROVE  /\ hw' = hw /\ Orders(hw)' = Orders(hw) /\ Channels(hw)' = Channels(hw)
         /\ IsDevice(dev, hw)' = IsDevice(dev', hw)
<1>1. hw' = hw
  BY DEF hw
<1> QED
  BY <1>1 DEF Orders, Cmds, OneReading, Channels, IsDevice, Dev, Memory

\* What leaves the device and its commands alone.
LEMMA DeviceSame ==
  ASSUME DeviceInv, conf' = conf, UNCHANGED <<dev, hook, rowBase, nextRow, todo, isr>>,
         call'.n = call.n, call'.nTok = call.nTok,
         call.ph = "idle" => call'.ph = "idle",
         call'.ph \in {"fire", "isr"} => call'.ph = call.ph
  PROVE  DeviceInv'
BY HardwareSame DEF DeviceInv

\* A call leaves the device alone.
LEMMA CallDevice ==
  ASSUME LinearInv, DeviceInv, NEW m \in Mats, NEW nTok \in Tokens, NEW acc \in BOOLEAN,
         Call(m, nTok, acc)
  PROVE  DeviceInv'
<1>1. conf' = conf /\ UNCHANGED <<dev, hook, rowBase, nextRow>>
  BY DEF Call, pimvars
<1>2. /\ call'.n = call.n + 1 /\ call'.nTok = nTok /\ call'.ph \in {"prepare", "work"}
      /\ call.n < MaxCalls
  BY DEF Call
<1>3. call'.n \in 1 .. MaxCalls
  BY <1>2, LinearAssumption DEF LinearInv, CallInv
<1> QED
  BY <1>1, <1>2, <1>3, HardwareSame DEF DeviceInv

\* The rows of a matrix are given out.
LEMMA PlaceRowsDevice ==
  ASSUME LinearInv, DeviceInv, PlaceRows
  PROVE  DeviceInv'
<1>1. /\ conf' = conf /\ UNCHANGED <<dev, hook, todo, isr>> /\ call.ph = "prepare"
      /\ rowBase' = [rowBase EXCEPT ![call.m] = nextRow] /\ nextRow' = nextRow + NWaves
      /\ UNCHANGED call \/ call' = [call EXCEPT !.ph = "work"]
  BY DEF PlaceRows, FallBack, firevars
<1>2. call'.n = call.n /\ call'.nTok = call.nTok /\ call'.ph \in {"work", "prepare"}
  BY <1>1 DEF LinearInv, CallInv
<1>3. NWaves \in Int
  <2>1. mat.nOut \in Nat /\ Len(hw.pim) \in Nat \ {0}
    BY <1>1, MatrixFacts, HardwareFacts DEF LinearInv, CallInv
  <2>2. Ceil(mat.nOut, Banks) \in Nat
    BY <2>1, DeviceAssumption DEF Ceil
  <2> QED
    BY <2>1, <2>2 DEF NWaves, Ceil
<1>4. rowBase' \in [Mats -> Int] /\ nextRow' \in Int
  <2>1. rowBase \in [Mats -> Int] /\ nextRow \in Int
    BY DEF DeviceInv
  <2> HIDE DEF NWaves
  <2>2. rowBase' \in [Mats -> Int]
    BY <1>1, <2>1
  <2>3. nextRow' \in Int
    BY <1>1, <1>3, <2>1
  <2> QED
    BY <2>2, <2>3
<1> QED
  BY <1>1, <1>2, <1>4, HardwareSame DEF DeviceInv

\* The steps that neither begin nor end a command.
LEMMA OutsideDevice ==
  ASSUME LinearInv, DeviceInv,
         \/ ReadStatus \/ Join \/ Return \/ Stopped
         \/ \E t \in DOMAIN work : LoadBlock(t) \/ StoreBlock(t)
  PROVE  DeviceInv'
<1>1. conf' = conf /\ UNCHANGED <<dev, hook, rowBase, nextRow, todo, isr>>
  BY DEF ReadStatus, Join, Return, Stopped, LoadBlock, StoreBlock, vars, pimvars, firevars
<1>2. UNCHANGED call \/ \E ph \in {"work", "prepare", "push", "done", "idle"} :
        call' = [call EXCEPT !.ph = ph] /\ call.ph # "idle"
  BY DEF ReadStatus, Join, AtWork, Return, Stopped, LoadBlock, StoreBlock, vars
<1>3. CASE UNCHANGED call
  BY <1>1, <1>3, DeviceSame
<1>4. ASSUME NEW ph \in {"work", "prepare", "push", "done", "idle"},
             call' = [call EXCEPT !.ph = ph], call.ph # "idle"
      PROVE  DeviceInv'
  <2>1. call'.n = call.n /\ call'.nTok = call.nTok /\ call'.ph = ph
    BY <1>4 DEF LinearInv, CallInv
  <2> QED
    BY <1>1, <1>4, <2>1, DeviceSame
<1> QED
  BY <1>2, <1>3, <1>4

\* The weights are installed by this process.
LEMMA LoadRowsDevice ==
  ASSUME LinearInv, DeviceInv, LoadRows
  PROVE  DeviceInv'
<1>1. /\ conf' = conf /\ UNCHANGED <<hook, rowBase, nextRow, todo, isr, call>>
      /\ call.ph = "prepare"
      /\ dev' = LoadWeights(dev, hw, W[call.m], mat.nOut, mat.nIn, rowBase[call.m])
  BY DEF LoadRows, firevars
<1>2. call.m \in Mats /\ CallInv
  BY <1>1 DEF LinearInv, CallInv
<1>3. /\ mat.nOut \in Nat /\ mat.nIn \in Nat
      /\ \A o \in 0 .. mat.nOut - 1 : \A i \in 0 .. mat.nIn - 1 : W[call.m][o][i] \in Int
  BY <1>2, LinearAssumption DEF mat
<1>4. IsDevice(dev', hw)
  BY <1>1, <1>3, InstalledType DEF DeviceInv
<1> QED
  BY <1>1, <1>4, HardwareSame DEF DeviceInv

\* The mailbox is begun for the matrix of the call.
LEMMA InstallDevice ==
  ASSUME LinearInv, DeviceInv, Install
  PROVE  DeviceInv'
<1>1. /\ conf' = conf /\ UNCHANGED <<dev, rowBase, nextRow, todo, isr>> /\ call.ph = "prepare"
      /\ call' = [call EXCEPT !.ph = "status"]
      /\ hook' = HookRequestCopy(HookBegin(mat.nOut, mat.nIn, rowBase[call.m]), call.m)
  BY DEF Install, firevars, pimvars
<1>2. call.m \in Mats /\ CallInv
  BY <1>1 DEF LinearInv, CallInv
<1>3. mat.nOut \in Nat /\ mat.nIn \in Nat /\ mat = Info[call.m]
  BY <1>2, LinearAssumption DEF mat
<1> DEFINE b == [i \in 1 .. mat.nOut * mat.nIn |-> 0]
<1>4. hook' = [nOut |-> mat.nOut, nIn |-> mat.nIn, base |-> rowBase[call.m], filled |-> 0,
               pending |-> b # <<>>, va |-> call.m, buf |-> b]
  BY <1>1 DEF HookRequestCopy, HookBegin
<1>5. mat.nOut * mat.nIn \in Nat /\ b \in [1 .. mat.nOut * mat.nIn -> Int]
  BY <1>3
<1> HIDE DEF b
<1>6. JobInv(hook')
  <2>1. /\ hook'.nOut = mat.nOut /\ hook'.nIn = mat.nIn /\ hook'.filled = 0 /\ hook'.buf = b
        /\ hook'.va = call.m
    BY <1>4
  <2>2. 0 <= mat.nOut * mat.nIn /\ 0 \in Nat
    BY <1>5
  <2>3. b \in UNION {[1 .. n -> Int] : n \in Nat} /\ rowBase[call.m] \in Int
    BY <1>2, <1>5 DEF DeviceInv
  <2>4. (b # <<>>) \in BOOLEAN
    OBVIOUS
  <2>5. hook' \in Jobs
    BY <1>2, <1>3, <1>4, <2>2, <2>3, <2>4 DEF Jobs
  <2> QED
    BY <1>2, <1>3, <1>5, <2>1, <2>2, <2>5 DEF JobInv
<1>8. call'.n = call.n /\ call'.nTok = call.nTok /\ call'.ph = "status"
  BY <1>1, <1>2 DEF CallInv
<1> QED
  BY <1>1, <1>6, <1>8, HardwareSame DEF DeviceInv

\* The buffer of the mailbox has a place for each weight.
LEMMA BufferLength ==
  ASSUME NEW j, JobInv(j)
  PROVE  j.nOut * j.nIn \in Nat /\ Len(j.buf) = j.nOut * j.nIn /\ j.buf \in Seq(Int)
<1>1. j.nOut * j.nIn \in Nat /\ j.buf \in [1 .. j.nOut * j.nIn -> Int]
  BY DEF JobInv, Jobs
<1>2. j.buf \in Seq(Int) /\ DOMAIN j.buf = 1 .. j.nOut * j.nIn
  BY <1>1, ListIn
<1> QED
  BY <1>1, <1>2

\* intern_complete_from_host, of the simulator's weights or of the buffer.
LEMMA Completes ==
  ASSUME DeviceInv, NEW j, JobInv(j), NEW w,
         \A o \in 0 .. j.nOut - 1 : \A i \in 0 .. j.nIn - 1 : w[o][i] \in Int,
         HookComplete(j, w)
  PROVE  IsDevice(dev', hw) /\ JobInv(hook')
<1>1. j \in Jobs /\ j.nOut \in Nat /\ j.nIn \in Nat
  BY DEF JobInv, Jobs
<1>2. /\ dev' = LoadWeights(dev, hw, w, j.nOut, j.nIn, j.base)
      /\ hook' = [j EXCEPT !.pending = FALSE, !.filled = Len(j.buf)]
  BY DEF HookComplete
<1>3. IsDevice(dev', hw)
  BY <1>1, <1>2, InstalledType DEF DeviceInv
<1>4. JobInv(hook')
  <2> DEFINE n == Len(j.buf)
  <2>1. n \in Nat /\ n = j.nOut * j.nIn
    BY BufferLength
  <2>2. hook' = [j EXCEPT !.pending = FALSE, !.filled = n]
    BY <1>2
  <2> HIDE DEF n
  <2>3. /\ hook' \in Jobs /\ hook'.pending = FALSE /\ hook'.filled = n
        /\ hook'.nOut = j.nOut /\ hook'.nIn = j.nIn /\ hook'.buf = j.buf
    BY <1>1, <2>1, <2>2 DEF Jobs
  <2> QED
    BY <2>1, <2>3 DEF JobInv
<1> QED
  BY <1>3, <1>4

\* The simulator fills the mailbox with the weights it was begun for.
LEMMA SimCopiesDevice ==
  ASSUME LinearInv, DeviceInv, SimCopies
  PROVE  DeviceInv'
<1>1. /\ conf' = conf /\ UNCHANGED <<rowBase, nextRow, todo, isr, call>> /\ hook.pending
      /\ HookComplete(hook, W[hook.va])
  BY DEF SimCopies, firevars
<1>2. /\ hook.va \in Mats /\ hook.nOut = Info[hook.va].nOut /\ hook.nIn = Info[hook.va].nIn
      /\ JobInv(hook)
  BY <1>1 DEF DeviceInv, JobInv
<1>3. \A o \in 0 .. hook.nOut - 1 : \A i \in 0 .. hook.nIn - 1 : W[hook.va][o][i] \in Int
  BY <1>2, LinearAssumption
<1>4. IsDevice(dev', hw) /\ JobInv(hook')
  BY <1>1, <1>2, <1>3, Completes
<1> QED
  BY <1>1, <1>4, HardwareSame DEF DeviceInv

\* The weights that are pushed next are weights of the matrix.
LEMMA PairType ==
  ASSUME NEW m \in Mats, NEW k \in Nat
  PROVE  Pair(m, k) \in Seq(Int)
<1> DEFINE nOut == Info[m].nOut
           nIn == Info[m].nIn
           n == Min({2, nOut * nIn - k})
<1>1. nOut \in Nat /\ nIn \in Nat /\ nOut * nIn \in Nat
  BY LinearAssumption
<1>2. n \in Int /\ n <= nOut * nIn - k
  <2> DEFINE l == nOut * nIn - k
  <2>1. l \in Int /\ 2 \in Int
    BY <1>1
  <2> HIDE DEF l
  <2>2. Min({2, l}) \in {2, l} /\ Min({2, l}) <= l
    BY <2>1, LesserGreater
  <2>3. Min({2, l}) \in Int
    BY <2>1, <2>2
  <2> QED
    BY <2>2, <2>3 DEF l
<1> HIDE DEF n
<1>3. ASSUME NEW i \in 1 .. n
      PROVE  W[m][(k + i - 1) \div nIn][(k + i - 1) % nIn] \in Int
  <2> DEFINE p == k + i - 1
  <2>1. p \in Nat /\ p < nOut * nIn
    BY <1>1, <1>2
  <2>2. nIn # 0
    BY <1>1, <2>1
  <2> HIDE DEF p
  <2>3. p \div nIn \in Nat /\ p % nIn \in 0 .. nIn - 1
    BY <1>1, <2>1, <2>2
  <2>4. p \div nIn < nOut
    <3>1. \A x \in Nat : x = nIn * (x \div nIn) + (x % nIn)
      BY <1>1, <2>2, DivisionSum
    <3>2. ASSUME nOut <= p \div nIn PROVE FALSE
      <4>1. nIn * nOut <= nIn * (p \div nIn) /\ nIn * nOut \in Nat
        BY <1>1, <2>3, <3>2, TimesMonotone
      <4> DEFINE q == p \div nIn
      <4>0. q \in Nat
        BY <2>3
      <4>2. p = nIn * q + (p % nIn) /\ nIn * q \in Nat
        <5>1. p = nIn * q + (p % nIn)
          BY <2>1, <3>1
        <5> QED
          BY <1>1, <4>0, <5>1
      <4> HIDE DEF q
      <4>3. p >= nIn * q /\ nIn * nOut = nOut * nIn
        BY <1>1, <2>1, <2>3, <4>2
      <4> QED
        BY <1>1, <2>1, <4>1, <4>2, <4>3 DEF q
    <3> QED
      BY <1>1, <2>3, <3>2
  <2>5. p \div nIn \in 0 .. nOut - 1
    BY <1>1, <2>3, <2>4
  <2> QED
    BY <2>3, <2>5, LinearAssumption DEF p
<1>4. Pair(m, k) = [i \in 1 .. n |-> W[m][(k + i - 1) \div nIn][(k + i - 1) % nIn]]
  BY DEF Pair, n
<1>5. Pair(m, k) \in [1 .. n -> Int]
  BY <1>3, <1>4
<1> QED
  BY <1>2, <1>5, ListIn


\* intern_push_f32 keeps the mailbox's shape.
LEMMA HookPushType ==
  ASSUME NEW j, JobInv(j), NEW v \in Seq(Int)
  PROVE  JobInv(HookPush(j, v))
<1> DEFINE N == j.nOut * j.nIn
           n == Min({Len(v), Len(j.buf) - j.filled})
           b == [i \in DOMAIN j.buf |-> IF i \in j.filled + 1 .. j.filled + n
                                        THEN v[i - j.filled] ELSE j.buf[i]]
           k == HookPush(j, v)
<1>1. /\ N \in Nat /\ Len(j.buf) = N /\ j.filled \in Nat /\ j.filled <= N
      /\ j.buf \in [1 .. N -> Int] /\ DOMAIN j.buf = 1 .. N
  BY BufferLength DEF JobInv, Jobs
<1>2. Len(v) \in Nat /\ \A i \in 1 .. Len(v) : v[i] \in Int
  OBVIOUS
<1>3. n \in Nat /\ n <= Len(v) /\ n <= N - j.filled
  <2> DEFINE a == Len(v)
             c == Len(j.buf) - j.filled
  <2>1. a \in Nat /\ c \in Nat /\ c = N - j.filled
    BY <1>1, <1>2
  <2> HIDE DEF a, c
  <2>0. a \in Int /\ c \in Int
    BY <2>1
  <2>2. Min({a, c}) \in {a, c} /\ Min({a, c}) <= a /\ Min({a, c}) <= c
    BY <2>0, LesserGreater, Zenon
  <2>3. Min({a, c}) \in Nat
    BY <2>1, <2>2
  <2> QED
    BY <2>1, <2>2, <2>3 DEF a, c
<1> HIDE DEF n
<1>4. b \in [1 .. N -> Int]
  <2>1. \A i \in j.filled + 1 .. j.filled + n : i - j.filled \in 1 .. Len(v)
    BY SMTT(30), <1>1, <1>2, <1>3
  <2> HIDE DEF N
  <2>2. \A i \in 1 .. N : b[i] \in Int
    BY <1>1, <1>2, <2>1
  <2>3. b = [i \in 1 .. N |-> b[i]]
    BY <1>1
  <2> HIDE DEF b
  <2> QED
    BY <2>2, <2>3
<1>5. k = [j EXCEPT !.buf = b, !.filled = @ + n]
  BY DEF HookPush, n
<1> DEFINE m == j.filled + n
<1>6. m \in Nat /\ m <= N
  BY <1>1, <1>3
<1>7. k = [j EXCEPT !.buf = b, !.filled = m]
  BY <1>5
<1> HIDE DEF b, k, m
<1>8. b \in UNION {[1 .. i -> Int] : i \in Nat} /\ j \in Jobs
  BY <1>1, <1>4 DEF JobInv
<1> HIDE DEF N
<1>9. /\ k \in Jobs /\ k.buf = b /\ k.filled = m
      /\ k.nOut = j.nOut /\ k.nIn = j.nIn /\ k.va = j.va /\ k.pending = j.pending
  BY <1>6, <1>7, <1>8 DEF Jobs
<1>10. j.pending => j.va \in Mats /\ j.nOut = Info[j.va].nOut /\ j.nIn = Info[j.va].nIn
  BY DEF JobInv
<1>11. k.filled <= k.nOut * k.nIn /\ k.buf \in [1 .. k.nOut * k.nIn -> Int]
  BY <1>4, <1>6, <1>9 DEF N
<1>12. JobInv(k)
  BY <1>9, <1>10, <1>11 DEF JobInv
<1> QED
  BY <1>12 DEF k

\* A place in rows of q.
LEMMA PlaceInRows ==
  ASSUME NEW p \in Nat, NEW q \in Nat, NEW o \in 0 .. p - 1, NEW i \in 0 .. q - 1
  PROVE  o * q + i + 1 \in 1 .. p * q
<1>1. o \in Nat /\ o + 1 \in Nat /\ o + 1 <= p /\ i \in Nat /\ i + 1 <= q
  OBVIOUS
<1>2. q * (o + 1) <= q * p /\ q * p \in Nat
  BY <1>1, TimesMonotone
<1>3. q * (o + 1) = o * q + q /\ o * q \in Nat
  BY <1>1
<1>4. p * q = q * p
  OBVIOUS
<1>5. o * q + i + 1 <= q * p /\ o * q + i + 1 \in Nat /\ 1 <= o * q + i + 1
  BY <1>1, <1>2, <1>3
<1> QED
  BY <1>2, <1>4, <1>5

\* The weights of a full buffer.
LEMMA BufferWeights ==
  ASSUME NEW j, JobInv(j), NEW o \in 0 .. j.nOut - 1, NEW i \in 0 .. j.nIn - 1
  PROVE  j.buf[o * j.nIn + i + 1] \in Int
<1>1. j.nOut \in Nat /\ j.nIn \in Nat /\ j.buf \in [1 .. j.nOut * j.nIn -> Int]
  BY DEF JobInv, Jobs
<1>2. o * j.nIn + i + 1 \in 1 .. j.nOut * j.nIn
  BY <1>1, PlaceInRows
<1> QED
  BY <1>1, <1>2

\* A word of weights is pushed; the last one loads them.
LEMMA PushDevice ==
  ASSUME LinearInv, DeviceInv, Push
  PROVE  DeviceInv'
<1> DEFINE j == HookPush(hook, Pair(call.m, call.pushed))
           w == [o \in 0 .. j.nOut - 1 |-> [i \in 0 .. j.nIn - 1 |-> j.buf[o * j.nIn + i + 1]]]
<1>1. /\ conf' = conf /\ UNCHANGED <<rowBase, nextRow, todo, isr>> /\ call.ph = "push"
      /\ call'.ph \in {"prepare", "push"} /\ call'.n = call.n /\ call'.nTok = call.nTok
      /\ HookComplete(j, w) \/ (hook' = j /\ UNCHANGED dev)
  BY DEF Push, firevars, LinearInv, CallInv
<1>2. call.m \in Mats /\ call.pushed \in Nat
  BY <1>1 DEF LinearInv, CallInv
<1>3. JobInv(j)
  BY <1>2, PairType, HookPushType DEF DeviceInv
<1>4. \A o \in 0 .. j.nOut - 1 : \A i \in 0 .. j.nIn - 1 : w[o][i] \in Int
  BY <1>3, BufferWeights
<1> HIDE DEF j, w
<1>5. IsDevice(dev', hw) /\ JobInv(hook')
  BY <1>1, <1>3, <1>4, Completes DEF DeviceInv
<1> QED
  BY <1>1, <1>5, HardwareSame DEF DeviceInv

\* The product is begun: on the device, by a plan or without it.
LEMMA GemvDevice ==
  ASSUME LinearInv, DeviceInv, Gemv
  PROVE  DeviceInv'
<1> DEFINE x == X[call.n][0]
           d == GprWrite(LoadActivation(dev, x, mat.nIn), NCols, ZeroBurst)
           c == Cmd("WR_GB", NCols, 0, ToSet(hw.pim), 0)
           e == Execute(d, hw, conf.fast, c)
           p == Plan(hw, mat.nOut, mat.nIn, rowBase[call.m])
<1>1. /\ conf' = conf /\ UNCHANGED <<hook, rowBase, nextRow, isr>> /\ call.ph = "prepare"
      /\ dev' \in {dev, d, e}
      /\ \/ call' = [call EXCEPT !.ph = "work"] \/ call' = [call EXCEPT !.ph = "remote"]
         \/ call' = [call EXCEPT !.ph = "fire"] /\ todo' = p
  BY DEF Gemv, FallBack
<1>2. CallInv /\ call.m \in Mats /\ call.n \in 1 .. MaxCalls /\ call.nTok \in Tokens
  BY <1>1 DEF LinearInv, CallInv, DeviceInv
<1>3. mat.nIn \in Nat /\ NCols \in Nat /\ \A i \in 0 .. mat.nIn - 1 : x[i] \in Int
  <2>1. call.nTok \in Nat \ {0}
    BY <1>2, LinearAssumption
  <2>2. 0 \in 0 .. call.nTok - 1
    BY <2>1
  <2>3. \A t \in 0 .. call.nTok - 1, i \in 0 .. Info[call.m].nIn - 1 : X[call.n][t][i] \in Int
    BY <1>2, LinearAssumption
  <2> QED
    BY <1>2, <2>2, <2>3, MatrixFacts DEF mat
<1>4. IsDevice(d, hw)
  <2>1. PICK w : Memory(w) /\ dev \in Dev(hw, w)
    BY DEF DeviceInv, IsDevice
  <2>2. Hardware(hw)
    BY <1>2, HardwareFacts
  <2> DEFINE a == LoadActivation(dev, x, mat.nIn)
  <2> HIDE DEF x
  <2>3. a \in Dev(hw, w)
    BY <1>3, <2>1, <2>2, LoadActivationType
  <2> HIDE DEF a
  <2>4. GprWrite(a, NCols, ZeroBurst) \in Dev(hw, w)
    BY <2>3, ZeroIsBurst, GprWriteFields
  <2> QED
    BY <2>1, <2>4 DEF IsDevice, a
<1>5. IsDevice(e, hw)
  <2>1. c \in Cmds(hw)
    BY <1>2, <1>3, CmdIsOrder DEF Orders
  <2>2. conf.fast \in BOOLEAN
    BY <1>2, HardwareFacts
  <2> HIDE DEF c, d
  <2> QED
    BY <1>2, <1>4, <2>1, <2>2, CommandType
<1>6. p # <<>> /\ p \in Seq(Orders(hw))
  BY <1>2, PlanType DEF DeviceInv
<1> HIDE DEF x, d, c, e, p
<1>7. IsDevice(dev', hw)
  BY <1>1, <1>4, <1>5 DEF DeviceInv
<1>8. /\ call'.n = call.n /\ call'.nTok = call.nTok /\ call'.ph \in {"work", "remote", "fire"}
      /\ call'.ph = "fire" => todo' = p
  BY <1>1, <1>2 DEF CallInv
<1> QED
  BY <1>1, <1>2, <1>6, <1>7, <1>8, HardwareSame DEF DeviceInv


-----------------------------------------------------------------------------
(* The commands of a plan.                                                 *)

\* The command to be executed, and those after it.
LEMMA NextOrder ==
  ASSUME DeviceInv, call.ph \in {"fire", "isr"}
  PROVE  /\ Head(todo) \in Orders(hw) /\ Head(todo) \in Cmds(hw)
         /\ Tail(todo) \in Seq(Orders(hw)) /\ (Len(todo) # 1 => Tail(todo) # <<>>)
<1>1. todo # <<>> /\ todo \in Seq(Orders(hw))
  BY DEF DeviceInv
<1>2. Head(todo) \in Orders(hw) /\ Tail(todo) \in Seq(Orders(hw))
  BY <1>1, HeadTailProperties
<1>3. Len(Tail(todo)) = Len(todo) - 1 /\ Len(todo) \in Nat
  BY <1>1, HeadTailProperties, LenProperties
<1>4. Len(todo) # 1 => Tail(todo) # <<>>
  <2> DEFINE u == Tail(todo)
             n == Len(todo)
  <2>1. Len(u) = n - 1 /\ n \in Nat
    BY <1>3
  <2> HIDE DEF u, n
  <2>2. u = <<>> => Len(u) = 0
    OBVIOUS
  <2>3. n # 1 => u # <<>>
    BY <2>1, <2>2
  <2> QED
    BY <2>3 DEF u, n
<1> QED
  BY <1>2, <1>4 DEF Orders

\* A command has been executed: the next one, or the call is over.
LEMMA ExecutedDevice ==
  ASSUME LinearInv, DeviceInv, call.ph \in {"fire", "isr"}, conf' = conf,
         UNCHANGED <<hook, rowBase, nextRow>>, IsDevice(dev', hw),
         NEW d, NEW c, Executed(d, c)
  PROVE  DeviceInv'
<1>1. todo' = Tail(todo) /\ call' = [call EXCEPT !.ph = IF Len(todo) = 1 THEN "done" ELSE "fire"]
  BY DEF Executed
<1>2. /\ call'.n = call.n /\ call'.nTok = call.nTok /\ call'.ph \in {"done", "fire"}
      /\ call'.ph = "fire" => Len(todo) # 1
  BY <1>1 DEF LinearInv, CallInv
<1> QED
  BY <1>1, <1>2, NextOrder, HardwareSame DEF DeviceInv

\* A command is executed by this process.
LEMMA FireDevice ==
  ASSUME LinearInv, DeviceInv, Fire
  PROVE  DeviceInv'
<1>1. /\ conf' = conf /\ UNCHANGED <<hook, rowBase, nextRow>> /\ call.ph = "fire"
      /\ dev' = Execute(dev, hw, conf.fast, Head(todo)) /\ Executed(dev', Head(todo))
  BY DEF Fire
<1>2. CallInv /\ IsDevice(dev, hw) /\ Head(todo) \in Cmds(hw) /\ conf.fast \in BOOLEAN
  BY <1>1, NextOrder, HardwareFacts DEF LinearInv, DeviceInv
<1>3. IsDevice(dev', hw)
  BY <1>1, <1>2, CommandType
<1> QED
  BY <1>1, <1>3, ExecutedDevice

\* The last micro command of a command has retired.
LEMMA IdleDevice ==
  ASSUME LinearInv, DeviceInv, Idle
  PROVE  DeviceInv'
<1>1. /\ conf' = conf /\ UNCHANGED <<dev, hook, rowBase, nextRow>> /\ call.ph = "isr"
      /\ Executed(dev, Head(todo))
  BY DEF Idle, pimvars
<1>2. IsDevice(dev', hw)
  BY <1>1 DEF DeviceInv
<1> QED
  BY <1>1, <1>2, ExecutedDevice

\* A command becomes micro commands.
LEMMA IssueDevice ==
  ASSUME LinearInv, DeviceInv, Issue
  PROVE  DeviceInv'
<1> DEFINE c == Head(todo)
           chs == IF c.op = "RD_MAC" THEN c.chs ELSE ToSet(hw.pim)
           cols == IF c.op \in {"WR_GB", "MAC_ABK"} THEN 0 .. c.opsize - 1 ELSE {0}
<1>1. /\ conf' = conf /\ UNCHANGED <<dev, hook, rowBase, nextRow, todo>> /\ call.ph = "fire"
      /\ call' = [call EXCEPT !.ph = "isr"]
      /\ isr' = IF c.op = "EOC" THEN {} ELSE chs \X cols
  BY DEF Issue, pimvars
<1>2. CallInv /\ c \in Cmds(hw)
  BY <1>1, NextOrder DEF LinearInv
<1>3. c.chs \in SUBSET Channels(hw) /\ c.opsize \in Int
  BY <1>2 DEF Cmds
<1>4. ToSet(hw.pim) \in SUBSET Channels(hw)
  BY <1>2, HardwareFacts
<1>5. cols \subseteq Nat /\ chs \subseteq Channels(hw)
  BY <1>3, <1>4
<1> HIDE DEF c, cols, chs
<1>6. isr' \subseteq Channels(hw) \X Nat
  BY <1>1, <1>5
<1>7. call'.n = call.n /\ call'.nTok = call.nTok /\ call'.ph = "isr"
  BY <1>1, <1>2 DEF CallInv
<1> QED
  BY <1>1, <1>6, <1>7, HardwareSame DEF DeviceInv

\* A micro command retires.
LEMMA RetireDevice ==
  ASSUME LinearInv, DeviceInv, Retire
  PROVE  DeviceInv'
<1>1. /\ conf' = conf /\ UNCHANGED <<hook, rowBase, nextRow, todo, call>> /\ call.ph = "isr"
  BY DEF Retire
<1>2. PICK m \in isr :
        /\ isr' = isr \ {m}
        /\ dev' = ExecuteMicro(dev, hw, conf.fast,
                    [Head(todo) EXCEPT !.col = m[2], !.opsize = 1], m[1])
  BY DEF Retire
<1>3. m[1] \in Channels(hw) /\ m[2] \in Nat /\ isr \subseteq Channels(hw) \X Nat
  BY <1>1 DEF DeviceInv
<1> DEFINE cmd == [Head(todo) EXCEPT !.col = m[2], !.opsize = 1]
<1>4. cmd \in Cmds(hw)
  <2> DEFINE c == Head(todo)
             k == m[2]
  <2>1. c \in Cmds(hw) /\ k \in Int /\ 1 \in Int
    BY <1>1, <1>3, NextOrder
  <2> HIDE DEF c, k
  <2>2. [c EXCEPT !.col = k, !.opsize = 1] \in Cmds(hw)
    BY <2>1 DEF Cmds
  <2> QED
    BY <2>2 DEF c, k
<1>5. CallInv /\ IsDevice(dev, hw) /\ conf.fast \in BOOLEAN
  BY HardwareFacts DEF LinearInv, DeviceInv
<1> HIDE DEF cmd
<1>6. IsDevice(ExecuteMicro(dev, hw, conf.fast, cmd, m[1]), hw)
  BY <1>3, <1>4, <1>5, CommandType
<1>7. IsDevice(dev', hw)
  BY <1>2, <1>6 DEF cmd
<1> QED
  BY <1>1, <1>2, <1>3, <1>7, HardwareSame DEF DeviceInv

\* No step breaks it.
LEMMA DeviceKeeps ==
  ASSUME LinearInv, DeviceInv, Next
  PROVE  DeviceInv'
<1>1. CASE \E m \in Mats, n \in Tokens, a \in BOOLEAN : Call(m, n, a)
  BY <1>1, CallDevice
<1>2. CASE PlaceRows
  BY <1>2, PlaceRowsDevice
<1>3. CASE LoadRows \/ Install \/ SimCopies \/ Push
  BY <1>3, LoadRowsDevice, InstallDevice, SimCopiesDevice, PushDevice
<1>4. CASE Gemv
  BY <1>4, GemvDevice
<1>5. CASE Fire \/ Issue \/ Retire \/ Idle
  BY <1>5, FireDevice, IssueDevice, RetireDevice, IdleDevice
<1>6. CASE \/ ReadStatus \/ Join \/ Return \/ Stopped
           \/ \E t \in DOMAIN work : LoadBlock(t) \/ StoreBlock(t)
  BY <1>6, OutsideDevice
<1> QED
  BY <1>1, <1>2, <1>3, <1>4, <1>5, <1>6 DEF Next, Step

\* The next command can be read one way: both ways of executing it agree.
LEMMA FastHolds ==
  ASSUME LinearInv, DeviceInv
  PROVE  FastIsScalar
<1> SUFFICES ASSUME call.ph = "fire"
             PROVE  Execute(dev, hw, TRUE, Head(todo)) = Execute(dev, hw, FALSE, Head(todo))
  BY DEF FastIsScalar
<1>1. PICK w : Memory(w) /\ dev \in Dev(hw, w)
  BY DEF DeviceInv, IsDevice
<1>2. Hardware(hw) /\ Head(todo) \in Cmds(hw) /\ OneReading(hw, Head(todo))
  BY HardwareFacts, NextOrder DEF LinearInv, Orders
<1> QED
  BY <1>1, <1>2, ExecuteAgrees

-----------------------------------------------------------------------------
(* Dot products.                                                           *)

\* a and b have the inputs 0 .. N - 1.
Vectors(a, b, N) == \A i \in 0 .. N - 1 : a[i] \in Int /\ b[i] \in Int

\* q[k] is the sum of the first k products.
Partials(q, a, b, N) ==
  /\ q \in [0 .. N -> Int] /\ q[0] = 0
  /\ \A k \in 1 .. N : q[k] = q[k - 1] + a[k - 1] * b[k - 1]

\* Any two vectors of numbers have such sums.
LEMMA PartialsExist ==
  ASSUME NEW N \in Nat, NEW a, NEW b, Vectors(a, b, N)
  PROVE  \E q : Partials(q, a, b, N)
<1> DEFINE F == [p \in Int \X (1 .. N) |-> p[1] + a[p[2] - 1] * b[p[2] - 1]]
<1>0. 0 \in Int /\ 0 \in 0 .. N
  OBVIOUS
<1>1. F \in [Int \X (1 .. N) -> Int]
  <2>1. \A k \in 1 .. N : a[k - 1] \in Int /\ b[k - 1] \in Int
    BY DEF Vectors
  <2>2. \A k \in 1 .. N : a[k - 1] * b[k - 1] \in Int
    BY <2>1
  <2> QED
    BY <2>2
<1>2. PICK q \in [0 .. N -> Int] : Rounds(q, N, 0, F)
  <2> HIDE DEF F
  <2> QED
    BY <1>1, <1>0, LoopRecursion
<1>3. \A k \in 0 .. N : q[k] = IF k = 0 THEN 0 ELSE F[<<q[k - 1], k>>]
  <2> HIDE DEF F
  <2> QED
    BY <1>2 DEF Rounds
<1>4. \A k \in 1 .. N : q[k] = q[k - 1] + a[k - 1] * b[k - 1]
  <2> SUFFICES ASSUME NEW k \in 1 .. N
               PROVE  q[k] = q[k - 1] + a[k - 1] * b[k - 1]
    OBVIOUS
  <2>1. k \in 0 .. N /\ k - 1 \in 0 .. N /\ k # 0
    OBVIOUS
  <2>2. q[k - 1] \in Int
    BY <1>2, <2>1
  <2>3. F[<<q[k - 1], k>>] = q[k - 1] + a[k - 1] * b[k - 1]
    BY <2>2
  <2> QED
    BY <1>3, <2>1, <2>3
<1>5. q[0] = 0
  BY <1>0, <1>3
<1>6. Partials(q, a, b, N)
  BY <1>2, <1>4, <1>5 DEF Partials
<1> QED
  BY <1>6

\* A sum of products lies between two of these.
LEMMA PartIsPrefix ==
  ASSUME NEW N \in Nat, NEW a, NEW b, Vectors(a, b, N), NEW q, Partials(q, a, b, N),
         NEW i \in 0 .. N, NEW j \in 0 .. N, i <= j
  PROVE  PartSum(a, b, i, j) = q[j] - q[i]
<1> DEFINE P0(f) == f = [k \in i .. j |-> IF k = i THEN 0 ELSE f[k - 1] + a[k - 1] * b[k - 1]]
           f == CHOOSE f : P0(f)
           h == [k \in i .. j |-> q[k] - q[i]]
<1>1. \A k \in i .. j : k # i =>
        /\ k - 1 \in i .. j /\ k \in 1 .. N
        /\ a[k - 1] * b[k - 1] \in Int /\ q[k] = q[k - 1] + a[k - 1] * b[k - 1]
  <2> SUFFICES ASSUME NEW k \in i .. j, k # i
               PROVE  /\ k - 1 \in i .. j /\ k \in 1 .. N
                      /\ a[k - 1] * b[k - 1] \in Int
                      /\ q[k] = q[k - 1] + a[k - 1] * b[k - 1]
    OBVIOUS
  <2>1. k - 1 \in i .. j /\ k \in 1 .. N /\ k - 1 \in 0 .. N - 1
    OBVIOUS
  <2>2. a[k - 1] \in Int /\ b[k - 1] \in Int
    BY <2>1 DEF Vectors
  <2> QED
    BY <2>1, <2>2 DEF Partials
<1>2. \A k \in i .. j : q[k] \in Int /\ q[i] \in Int
  BY DEF Partials
<1>3. P0(h)
  <2>1. ASSUME NEW k \in i .. j
        PROVE  h[k] = IF k = i THEN 0 ELSE h[k - 1] + a[k - 1] * b[k - 1]
    <3>1. CASE k = i
      BY <1>2, <3>1
    <3>2. CASE k # i
      <4>1. h[k] = q[k] - q[i] /\ h[k - 1] = q[k - 1] - q[i]
        BY <1>1, <3>2
      <4>2. q[k - 1] \in Int
        BY <1>1, <1>2, <3>2
      <4> QED
        BY <1>1, <1>2, <3>2, <4>1, <4>2
    <3> QED
      BY <3>1, <3>2
  <2>2. h = [k \in i .. j |-> h[k]]
    OBVIOUS
  <2> HIDE DEF h
  <2> QED
    BY <2>1, <2>2
<1>4. P0(f)
  <2> HIDE DEF P0, h
  <2> QED
    BY <1>3
<1>5. PartSum(a, b, i, j) = f[j]
  BY DEF PartSum
<1> HIDE DEF f
<1>6. \A k \in i .. j : f[k] = IF k = i THEN 0 ELSE f[k - 1] + a[k - 1] * b[k - 1]
  BY <1>4
<1>7. \A k \in i .. j : h[k] = IF k = i THEN 0 ELSE h[k - 1] + a[k - 1] * b[k - 1]
  <2> HIDE DEF h
  <2> QED
    BY <1>3
<1> HIDE DEF P0
<1> DEFINE T == {n \in 0 .. j - i : f[i + n] = q[i + n] - q[i]}
<1>8. 0 \in T
  <2>1. i \in i .. j /\ 0 \in 0 .. j - i /\ i + 0 = i
    OBVIOUS
  <2>2. f[i] = 0 /\ q[i] - q[i] = 0
    BY <1>2, <1>6, <2>1
  <2> QED
    BY <2>1, <2>2
<1>9. ASSUME NEW n \in 1 .. j - i, n - 1 \in T PROVE n \in T
  <2> DEFINE k == i + n
  <2>1. k \in i .. j /\ k # i /\ i + (n - 1) = k - 1 /\ n \in 0 .. j - i
    OBVIOUS
  <2>2. f[k - 1] = q[k - 1] - q[i]
    BY <1>9, <2>1
  <2>3. f[k] = f[k - 1] + a[k - 1] * b[k - 1]
    BY <1>6, <2>1
  <2>4. f[k] = q[k] - q[i]
    BY <1>1, <1>2, <2>1, <2>2, <2>3
  <2> QED
    BY <2>1, <2>4
<1>10. j - i \in Nat
  OBVIOUS
<1>11. 0 .. j - i \subseteq T
  <2> HIDE DEF T
  <2> QED
    BY <1>8, <1>9, <1>10, LoopInduction
<1>12. j - i \in T /\ i + (j - i) = j
  BY <1>10, <1>11
<1> QED
  BY <1>5, <1>12

\* The same of a half, and of the whole.
LEMMA HalfIsPrefix ==
  ASSUME NEW N \in Nat, NEW a, NEW b, Vectors(a, b, N), NEW q, Partials(q, a, b, N),
         NEW i \in 0 .. N, NEW j \in 0 .. N, i <= j
  PROVE  HalfSum(a, b, i, j) = q[j] - q[i]
<1> DEFINE m == (i + j) \div 2
<1>1. m \in 0 .. N /\ i <= m /\ m <= j
  OBVIOUS
<1> HIDE DEF m
<1>2. PartSum(a, b, i, m) = q[m] - q[i] /\ PartSum(a, b, m, j) = q[j] - q[m]
  BY <1>1, PartIsPrefix
<1>3. q[i] \in Int /\ q[m] \in Int /\ q[j] \in Int
  BY <1>1 DEF Partials
<1>4. HalfSum(a, b, i, j) = PartSum(a, b, i, m) + PartSum(a, b, m, j)
  BY DEF HalfSum, m
<1> QED
  BY <1>2, <1>3, <1>4

LEMMA DotIsPrefix ==
  ASSUME NEW N \in Nat, NEW a, NEW b, Vectors(a, b, N), NEW q, Partials(q, a, b, N),
         NEW i \in 0 .. N, NEW j \in 0 .. N, i <= j
  PROVE  DotRange(a, b, i, j) = q[j] - q[i]
<1> DEFINE m == (i + j) \div 2
<1>1. m \in 0 .. N /\ i <= m /\ m <= j
  OBVIOUS
<1> HIDE DEF m
<1>2. HalfSum(a, b, i, m) = q[m] - q[i] /\ HalfSum(a, b, m, j) = q[j] - q[m]
  BY <1>1, HalfIsPrefix
<1>3. q[i] \in Int /\ q[m] \in Int /\ q[j] \in Int
  BY <1>1 DEF Partials
<1>4. DotRange(a, b, i, j) = HalfSum(a, b, i, m) + HalfSum(a, b, m, j)
  BY DEF DotRange, m
<1> QED
  BY <1>2, <1>3, <1>4

\* Strips that come to the end of n inputs.
Whole(widths, n) ==
  /\ widths \in Seq(Nat \ {0}) /\ Len(widths) # 0
  /\ widths[Len(widths)] = 1 \/ (Len(widths) = 1 /\ n % widths[1] = 0)

\* A strip starts where the one before ended and stays within the inputs.
LEMMA StripEnd ==
  ASSUME NEW n \in Nat, NEW j \in 0 .. n, NEW w \in Nat \ {0}
  PROVE  LET to == j + w * ((n - j) \div w)
         IN /\ to \in 0 .. n /\ j <= to
            /\ w = 1 \/ (j = 0 /\ n % w = 0) => to = n
<1> DEFINE k == (n - j) \div w
           to == j + w * k
<1>1. n - j \in Nat
  OBVIOUS
<1>2. k \in Nat /\ w * k \in Nat /\ w * k <= n - j
  BY <1>1
<1>3. w = 1 => k = n - j
  BY <1>1
<1>4. j = 0 /\ n % w = 0 => w * k = n
  BY <1>1
<1> HIDE DEF k
<1>5. to \in 0 .. n /\ j <= to
  BY <1>1, <1>2
<1>6. w = 1 => to = n
  BY <1>2, <1>3
<1>7. j = 0 /\ n % w = 0 => to = n
  BY <1>4
<1> QED
  BY <1>5, <1>6, <1>7 DEF k

\* A dot product in strips is the sum of all products.
LEMMA StripsAreDot ==
  ASSUME NEW n \in Nat, NEW a, NEW b, Vectors(a, b, n), NEW widths, Whole(widths, n)
  PROVE  StripDot(widths, a, b, n) = DotRange(a, b, 0, n)
<1>1. PICK q : Partials(q, a, b, n)
  BY PartialsExist
<1> DEFINE L == Len(widths)
           I == 1 .. L
           base == [j |-> 0, sum |-> 0]
           to(s, w) == s.j + w * ((n - s.j) \div w)
           step(s, w) == [j |-> to(s, w), sum |-> s.sum + DotRange(a, b, s.j, to(s, w))]
           at(k) == [j |-> k, sum |-> q[k]]
           D == {at(k) : k \in 0 .. n}
           F == [p \in D \X I |-> step(p[1], widths[p[2]])]
           P0(f) == f = [s \in SUBSET DOMAIN widths |->
                      IF s = {} THEN base ELSE step(f[s \ {Max(s)}], widths[Max(s)])]
           f == CHOOSE f : P0(f)
<1>2. /\ L \in Nat \ {0} /\ DOMAIN widths = I /\ \A i \in I : widths[i] \in Nat \ {0}
      /\ widths[L] = 1 \/ (L = 1 /\ n % widths[1] = 0)
  BY DEF Whole
<1>3. StripDot(widths, a, b, n) = f[DOMAIN widths].sum
  BY DEF StripDot, FoldLeft, MapThenFoldSet
<1>4. q[0] = 0 /\ \A k \in 0 .. n : q[k] \in Int
  BY <1>1 DEF Partials
<1>5. Bounded(I)
  <2>1. I \in SUBSET (0 .. L) /\ L \in Nat
    BY <1>2
  <2> QED
    BY <2>1 DEF Bounded
<1> HIDE DEF f, L
<1>6. ASSUME NEW k \in 0 .. n, NEW i \in I
      PROVE  /\ to(at(k), widths[i]) \in 0 .. n
             /\ step(at(k), widths[i]) = at(to(at(k), widths[i]))
             /\ widths[i] = 1 \/ (k = 0 /\ n % widths[i] = 0) => to(at(k), widths[i]) = n
  <2> DEFINE e == k + widths[i] * ((n - k) \div widths[i])
  <2>1. widths[i] \in Nat \ {0}
    BY <1>2
  <2>2. /\ e \in 0 .. n /\ k <= e
        /\ widths[i] = 1 \/ (k = 0 /\ n % widths[i] = 0) => e = n
    BY <2>1, StripEnd
  <2>3. at(k).j = k /\ at(k).sum = q[k]
    OBVIOUS
  <2>4. to(at(k), widths[i]) = e
    BY <2>3
  <2> HIDE DEF e, to
  <2>5. DotRange(a, b, k, e) = q[e] - q[k]
    BY <1>1, <2>2, DotIsPrefix
  <2>6. q[k] + (q[e] - q[k]) = q[e]
    BY <1>4, <2>2
  <2>7. step(at(k), widths[i]) = [j |-> e, sum |-> q[k] + DotRange(a, b, k, e)]
    BY <2>3, <2>4
  <2> QED
    BY <2>2, <2>4, <2>5, <2>6, <2>7
<1> HIDE DEF step, to
<1>7. F \in [D \X I -> D] /\ base \in D
  <2>1. \A p \in D \X I : step(p[1], widths[p[2]]) \in D
    <3> SUFFICES ASSUME NEW p \in D \X I PROVE step(p[1], widths[p[2]]) \in D
      OBVIOUS
    <3>1. PICK k \in 0 .. n : p[1] = at(k)
      OBVIOUS
    <3>2. p[2] \in I
      OBVIOUS
    <3> HIDE DEF at
    <3> QED
      BY <1>6, <3>1, <3>2
  <2>2. 0 \in 0 .. n /\ base = at(0)
    BY <1>4
  <2> HIDE DEF base, at
  <2> QED
    BY <2>1, <2>2
<1> HIDE DEF base
<1>8. PICK h : StatesBy(h, I, D, base, F)
  <2> HIDE DEF F, D, I
  <2> QED
    BY <1>5, <1>7, EachStates
<1>9. /\ h \in [SUBSET I -> D] /\ h[{}] = base
      /\ \A s \in SUBSET I : s # {} => Max(s) \in I /\ h[s \ {Max(s)}] \in D
      /\ \A s \in SUBSET I : s # {} => h[s] = F[<<h[s \ {Max(s)}], Max(s)>>]
  <2> HIDE DEF F, D, I
  <2> QED
    BY <1>8 DEF States, StatesBy
<1>10. \A s \in SUBSET I : s # {} => h[s] = step(h[s \ {Max(s)}], widths[Max(s)])
  <2> HIDE DEF D, I
  <2>1. \A d \in D, i \in I : F[<<d, i>>] = step(d, widths[i])
    OBVIOUS
  <2> HIDE DEF F
  <2> QED
    BY <1>9, <2>1
<1> HIDE DEF F
<1>11. P0(f)
  <2>1. \A s \in SUBSET I : h[s] = IF s = {} THEN base ELSE step(h[s \ {Max(s)}], widths[Max(s)])
    BY <1>9, <1>10
  <2>2. h = [s \in SUBSET I |-> h[s]]
    BY <1>9
  <2> HIDE DEF I
  <2>3. P0(h)
    BY <1>2, <2>1, <2>2
  <2> HIDE DEF P0
  <2> QED
    BY <2>3 DEF f
<1>12. \A s \in SUBSET I : f[s] = h[s]
  <2> HIDE DEF I, D
  <2>1. \A s \in SUBSET I : f[s] = IF s = {} THEN base ELSE step(f[s \ {Max(s)}], widths[Max(s)])
    BY <1>2, <1>11
  <2> HIDE DEF P0
  <2>2. f[{}] = h[{}]
    BY <1>9, <2>1
  <2>3. \A s \in SUBSET I : s # {} /\ f[s \ {Max(s)}] = h[s \ {Max(s)}] => f[s] = h[s]
    BY <1>10, <2>1
  <2> QED
    BY <1>5, <2>2, <2>3, EachAgree
<1>13. Max(I) = L
  <2>1. L \in I /\ \A i \in I : i <= L
    BY <1>2
  <2>2. I \in SUBSET (0 .. L) /\ I # {} /\ L \in Nat
    BY <1>2
  <2>3. Max(I) \in I /\ \A i \in I : i <= Max(I)
    BY <2>2, Greatest
  <2> QED
    BY <1>2, <2>1, <2>3
<1>14. I \in SUBSET I /\ I # {} /\ I \ {L} \in SUBSET I
  <2>1. L \in I
    BY <1>2
  <2> HIDE DEF I
  <2> QED
    BY <2>1
<1>15. h[I] = step(h[I \ {L}], widths[L])
  BY <1>10, <1>13, <1>14
<1>16. PICK k \in 0 .. n : h[I \ {L}] = at(k)
  BY <1>9, <1>14
<1>17. L = 1 => k = 0
  <2>1. ASSUME L = 1 PROVE k = 0
    <3>1. I \ {L} = {}
      BY <2>1
    <3>2. at(k) = base
      BY <1>9, <1>16, <3>1
    <3>3. at(k).j = k /\ base.j = 0
      BY DEF base
    <3> QED
      BY <3>2, <3>3
  <2> QED
    BY <2>1
<1>18. h[I] = at(n)
  <2> HIDE DEF at
  <2>1. L \in I
    BY <1>2
  <2> HIDE DEF I
  <2>2. widths[L] = 1 \/ (k = 0 /\ n % widths[L] = 0)
    BY <1>2, <1>17
  <2> QED
    BY <1>6, <1>15, <1>16, <2>1, <2>2
<1>19. DotRange(a, b, 0, n) = q[n]
  <2>1. 0 \in 0 .. n /\ n \in 0 .. n /\ 0 <= n
    OBVIOUS
  <2>2. DotRange(a, b, 0, n) = q[n] - q[0]
    BY <1>1, <2>1, DotIsPrefix
  <2> QED
    BY <1>4, <2>1, <2>2
<1>20. at(n).sum = q[n]
  OBVIOUS
<1> QED
  BY <1>2, <1>3, <1>12, <1>14, <1>18, <1>19, <1>20

\* The sum of v over the numbers I.
SumOver(v, I) == Each(LAMBDA sum, i : sum + v[i], 0, I)

\* The sums over all sets of some numbers.
SumStates(h, v, I) ==
  /\ h \in [SUBSET I -> Int] /\ h[{}] = 0
  /\ \A s \in SUBSET I : s # {} => Max(s) \in s /\ h[s] = h[s \ {Max(s)}] + v[Max(s)]
  /\ \A s \in SUBSET I : SumOver(v, s) = h[s]

\* The numbers of a finite set can be added up one after the other.
LEMMA SumsExist ==
  ASSUME NEW I, Bounded(I), NEW v, \A i \in I : v[i] \in Int
  PROVE  \E h : SumStates(h, v, I)
<1> DEFINE F == [p \in Int \X I |-> p[1] + v[p[2]]]
<1>1. F \in [Int \X I -> Int] /\ 0 \in Int
  OBVIOUS
<1>2. PICK h : StatesBy(h, I, Int, 0, F)
  <2> HIDE DEF F
  <2> QED
    BY <1>1, EachStates
<1>3. /\ h \in [SUBSET I -> Int] /\ h[{}] = 0
      /\ \A s \in SUBSET I : s # {} => Max(s) \in I /\ h[s] = h[s \ {Max(s)}] + v[Max(s)]
  BY <1>2 DEF States, StatesBy
<1>4. PICK N \in Nat : I \in SUBSET (0 .. N)
  BY DEF Bounded
<1>5. ASSUME NEW s \in SUBSET I, s # {}
      PROVE  Max(s) \in s
  <2>1. s \in SUBSET (0 .. N)
    BY <1>4
  <2> QED
    BY <1>5, <2>1, Greatest
<1>6. ASSUME NEW s \in SUBSET I
      PROVE  SumOver(v, s) = h[s]
  <2> DEFINE P0(f) == f = [r \in SUBSET s |->
                        IF r = {} THEN 0 ELSE f[r \ {Max(r)}] + v[Max(r)]]
             f == CHOOSE f : P0(f)
             e == [r \in SUBSET s |-> h[r]]
  <2>1. SumOver(v, s) = f[s]
    BY DEF SumOver, Each, MapThenFoldSet
  <2>2. P0(e)
    <3>1. ASSUME NEW r \in SUBSET s
          PROVE  e[r] = IF r = {} THEN 0 ELSE e[r \ {Max(r)}] + v[Max(r)]
      <4>1. r \in SUBSET I /\ r \ {Max(r)} \in SUBSET s
        OBVIOUS
      <4>2. e[r] = h[r] /\ e[r \ {Max(r)}] = h[r \ {Max(r)}]
        BY <4>1
      <4> QED
        BY <1>3, <4>1, <4>2
    <3>2. e = [r \in SUBSET s |-> e[r]]
      OBVIOUS
    <3> HIDE DEF e
    <3> QED
      BY <3>1, <3>2
  <2>3. P0(f)
    <3> HIDE DEF P0, e
    <3> QED
      BY <2>2
  <2> HIDE DEF f
  <2>4. f[{}] = h[{}]
    BY <1>3, <2>3
  <2>5. \A r \in SUBSET s : r # {} /\ f[r \ {Max(r)}] = h[r \ {Max(r)}] => f[r] = h[r]
    BY <1>3, <2>3
  <2>6. Bounded(s)
    BY <1>4 DEF Bounded
  <2> HIDE DEF P0
  <2>7. \A r \in SUBSET s : f[r] = h[r]
    BY <2>4, <2>5, <2>6, EachAgree
  <2> QED
    BY <2>1, <2>7
<1> QED
  BY <1>3, <1>5, <1>6 DEF SumStates

\* A sum, and what it is without one of its terms.
LEMMA SumFacts ==
  ASSUME NEW I, Bounded(I), NEW v, \A i \in I : v[i] \in Int
  PROVE  /\ SumOver(v, {}) = 0
         /\ \A s \in SUBSET I : SumOver(v, s) \in Int
         /\ \A s \in SUBSET I : \A e \in s : SumOver(v, s) = SumOver(v, s \ {e}) + v[e]
<1>1. PICK h : SumStates(h, v, I)
  BY SumsExist
<1>2. /\ h \in [SUBSET I -> Int] /\ h[{}] = 0
      /\ \A s \in SUBSET I : s # {} => Max(s) \in s /\ h[s] = h[s \ {Max(s)}] + v[Max(s)]
      /\ \A s \in SUBSET I : SumOver(v, s) = h[s]
  BY <1>1 DEF SumStates
<1>3. PICK N \in Nat : I \in SUBSET (0 .. N)
  BY DEF Bounded
<1> DEFINE T == {s \in SUBSET I : \A e \in s : h[s] = h[s \ {e}] + v[e]}
<1>4. {} \in T
  OBVIOUS
<1>5. ASSUME NEW s \in SUBSET I, s # {}, s \ {Max(s)} \in T
      PROVE  s \in T
  <2> DEFINE m == Max(s)
  <2>1. m \in s /\ h[s] = h[s \ {m}] + v[m]
    BY <1>2, <1>5
  <2> SUFFICES ASSUME NEW e \in s PROVE h[s] = h[s \ {e}] + v[e]
    OBVIOUS
  <2>2. CASE e = m
    BY <2>1, <2>2
  <2>3. CASE e # m
    <3>1. h[s \ {m}] = h[(s \ {m}) \ {e}] + v[e]
      BY <1>5, <2>3
    <3>2. s \ {e} \in SUBSET I /\ s \ {e} # {} /\ m \in s \ {e}
      BY <2>1, <2>3
    <3>3. Max(s \ {e}) = m
      <4>1. s \in SUBSET (0 .. N) /\ s \ {e} \in SUBSET (0 .. N)
        BY <1>3
      <4>2. \A i \in s : i <= m
        BY <4>1, <1>5, Greatest
      <4>3. Max(s \ {e}) \in s \ {e} /\ \A i \in s \ {e} : i <= Max(s \ {e})
        BY <4>1, <3>2, Greatest
      <4> DEFINE x == Max(s \ {e})
      <4> HIDE DEF m
      <4>4. x \in Nat /\ m \in Nat /\ x <= m /\ m <= x
        <5>1. x \in s \ {e} /\ \A i \in s \ {e} : i <= x
          BY <4>3
        <5> HIDE DEF x
        <5>2. x \in s /\ x \in Nat /\ m \in Nat
          BY <2>1, <4>1, <5>1
        <5> QED
          BY <3>2, <4>2, <5>1, <5>2
      <4> HIDE DEF x
      <4>5. x = m
        BY <4>4
      <4> QED
        BY <4>5 DEF x
    <3>4. h[s \ {e}] = h[(s \ {e}) \ {m}] + v[m]
      BY <1>2, <3>2, <3>3
    <3>5. (s \ {e}) \ {m} = (s \ {m}) \ {e}
      OBVIOUS
    <3> DEFINE z == (s \ {m}) \ {e}
    <3>6. h[z] \in Int /\ v[e] \in Int /\ v[m] \in Int
      <4>1. z \in SUBSET I /\ e \in I /\ m \in I
        BY <2>1
      <4> HIDE DEF z, m
      <4> QED
        BY <1>2, <4>1
    <3>7. h[s] = (h[z] + v[e]) + v[m] /\ h[s \ {e}] = h[z] + v[m]
      BY <2>1, <3>1, <3>4, <3>5
    <3> HIDE DEF z, m
    <3> QED
      BY <3>6, <3>7
  <2> QED
    BY <2>2, <2>3
<1>6. SUBSET I \subseteq T
  <2> HIDE DEF T
  <2> QED
    BY <1>3, <1>4, <1>5, EachInduction
<1>7. \A s \in SUBSET I : \A e \in s : SumOver(v, s) = SumOver(v, s \ {e}) + v[e]
  <2> SUFFICES ASSUME NEW s \in SUBSET I, NEW e \in s
               PROVE  SumOver(v, s) = SumOver(v, s \ {e}) + v[e]
    OBVIOUS
  <2>1. s \in T
    BY <1>6
  <2>2. s \ {e} \in SUBSET I
    OBVIOUS
  <2> QED
    BY <1>2, <2>1, <2>2
<1>8. SumOver(v, {}) = 0
  <2>1. {} \in SUBSET I
    OBVIOUS
  <2> QED
    BY <1>2, <2>1
<1> QED
  BY <1>2, <1>7, <1>8

\* The same terms have the same sum.
LEMMA SumSame ==
  ASSUME NEW I, Bounded(I), NEW v, NEW u, \A i \in I : v[i] \in Int /\ u[i] = v[i]
  PROVE  SumOver(u, I) = SumOver(v, I)
<1>0. \A i \in I : u[i] \in Int
  OBVIOUS
<1>1. PICK h : SumStates(h, v, I)
  BY SumsExist
<1>2. PICK f : SumStates(f, u, I)
  BY <1>0, SumsExist
<1>3. f[{}] = h[{}]
  BY <1>1, <1>2 DEF SumStates
<1>4. ASSUME NEW s \in SUBSET I, s # {}, f[s \ {Max(s)}] = h[s \ {Max(s)}]
      PROVE  f[s] = h[s]
  BY <1>1, <1>2, <1>4 DEF SumStates
<1>5. \A s \in SUBSET I : f[s] = h[s]
  BY <1>3, <1>4, EachAgree
<1> QED
  BY <1>1, <1>2, <1>5 DEF SumStates

\* q adds the first N of the numbers v, one after the other.
AddsUp(q, v, N) ==
  /\ q[0] = 0 /\ \A i \in 0 .. N - 1 : v[i] \in Int
  /\ \A k \in 1 .. N : q[k] = q[k - 1] + v[k - 1]

\* The sum over 0 .. N - 1, term by term.
LEMMA SumIsPrefix ==
  ASSUME NEW N \in Nat, NEW v, NEW q, AddsUp(q, v, N)
  PROVE  SumOver(v, 0 .. N - 1) = q[N]
<1>0. /\ q[0] = 0 /\ \A i \in 0 .. N - 1 : v[i] \in Int
      /\ \A k \in 1 .. N : q[k] = q[k - 1] + v[k - 1]
  BY DEF AddsUp
<1> DEFINE I == 0 .. N - 1
           T == {k \in 0 .. N : SumOver(v, 0 .. k - 1) = q[k]}
<1>1. Bounded(I)
  <2>1. I \in SUBSET (0 .. N)
    OBVIOUS
  <2> QED
    BY <2>1 DEF Bounded
<1>2. /\ SumOver(v, {}) = 0
      /\ \A s \in SUBSET I : SumOver(v, s) \in Int
      /\ \A s \in SUBSET I : \A e \in s : SumOver(v, s) = SumOver(v, s \ {e}) + v[e]
  <2>1. \A i \in I : v[i] \in Int
    BY <1>0
  <2> HIDE DEF I
  <2> QED
    BY <1>1, <2>1, SumFacts
<1>3. 0 \in T
  <2>1. 0 .. 0 - 1 = {} /\ 0 \in 0 .. N
    OBVIOUS
  <2> QED
    BY <1>0, <1>2, <2>1
<1>4. ASSUME NEW k \in 1 .. N, k - 1 \in T PROVE k \in T
  <2>1. /\ 0 .. k - 1 \in SUBSET I /\ k - 1 \in 0 .. k - 1
        /\ (0 .. k - 1) \ {k - 1} = 0 .. (k - 1) - 1 /\ k \in 0 .. N
    OBVIOUS
  <2>2. SumOver(v, 0 .. k - 1) = SumOver(v, (0 .. k - 1) \ {k - 1}) + v[k - 1]
    BY <1>2, <2>1
  <2>3. SumOver(v, 0 .. (k - 1) - 1) = q[k - 1]
    BY <1>4
  <2> QED
    BY <1>0, <2>1, <2>2, <2>3
<1>5. 0 .. N \subseteq T
  <2> HIDE DEF T
  <2> QED
    BY <1>3, <1>4, LoopInduction
<1>6. N \in T
  BY <1>5
<1> QED
  BY <1>6

\* The dot product of two bursts.
LEMMA BurstDotIsSum ==
  ASSUME NEW w \in Burst, NEW x \in Burst
  PROVE  /\ BurstDot(w, x) = SumOver([l \in LaneIds |-> w[l] * x[l]], LaneIds)
         /\ BurstDot(w, x) \in Int
<1> DEFINE v == [l \in LaneIds |-> w[l] * x[l]]
<1>1. \A l \in LaneIds : v[l] = w[l] * x[l] /\ v[l] \in Int
  BY DEF Burst
<1>2. PICK h : /\ States(h, LaneIds, Int, 0)
               /\ \A s \in SUBSET LaneIds : s # {} =>
                    h[s] = h[s \ {Max(s)}] + w[Max(s)] * x[Max(s)]
               /\ BurstDot(w, x) = h[LaneIds]
  BY BurstDotRounds
<1> HIDE DEF v
<1>3. PICK f : SumStates(f, v, LaneIds)
  BY <1>1, Numbers, SumsExist
<1>4. h[{}] = f[{}]
  BY <1>2, <1>3 DEF States, SumStates
<1>5. ASSUME NEW s \in SUBSET LaneIds, s # {}, h[s \ {Max(s)}] = f[s \ {Max(s)}]
      PROVE  h[s] = f[s]
  <2>1. Max(s) \in LaneIds
    BY <1>2, <1>5 DEF States
  <2>2. f[s] = f[s \ {Max(s)}] + v[Max(s)]
    BY <1>3, <1>5 DEF SumStates
  <2>3. h[s] = h[s \ {Max(s)}] + w[Max(s)] * x[Max(s)]
    BY <1>2, <1>5
  <2> QED
    BY <1>1, <1>5, <2>1, <2>2, <2>3
<1>6. \A s \in SUBSET LaneIds : h[s] = f[s]
  BY <1>4, <1>5, Numbers, EachAgree
<1>7. h[LaneIds] = SumOver(v, LaneIds) /\ h[LaneIds] \in Int
  BY <1>2, <1>3, <1>6 DEF States, SumStates
<1> QED
  BY <1>2, <1>7 DEF v

\* An output's sums of the columns.
ColumnDots(d, ch, b, row, N, x) ==
  [col \in 0 .. N - 1 |-> BurstDot(DramRead(d, ch, b, row, col), x[col])]

\* A wave gives each bank the sum of its columns.
LEMMA WaveIsSum ==
  ASSUME NEW h, NEW w, Memory(w), NEW d \in Dev(h, w), NEW ch, NEW row, NEW N \in Nat,
         NEW x, \A col \in 0 .. N - 1 : x[col] \in Burst, NEW b \in BankIds
  PROVE  MacWave(d, ch, row, N, x)[b] = SumOver(ColumnDots(d, ch, b, row, N, x), 0 .. N - 1)
<1> DEFINE I == 0 .. N - 1
           D == [BankIds -> Int]
           base == [k \in BankIds |-> 0]
           F == [p \in D \X I |-> MacCol(d, ch, row, p[2], p[1], x[p[2]])]
           P0(f) == f = [s \in SUBSET I |->
                      IF s = {} THEN base
                      ELSE MacCol(d, ch, row, Max(s), f[s \ {Max(s)}], x[Max(s)])]
           f == CHOOSE f : P0(f)
           v == ColumnDots(d, ch, b, row, N, x)
<1>1. Bounded(I)
  <2>1. I \in SUBSET (0 .. N)
    OBVIOUS
  <2> QED
    BY <2>1 DEF Bounded
<1>2. \A col \in I : x[col] \in Burst
  OBVIOUS
<1>3. MacWave(d, ch, row, N, x) = f[I]
  BY DEF MacWave, Each, MapThenFoldSet
<1> HIDE DEF I, f
<1>4. F \in [D \X I -> D] /\ base \in D
  <2>1. ASSUME NEW a \in D, NEW col \in I PROVE MacCol(d, ch, row, col, a, x[col]) \in D
    BY <1>2, MacColType
  <2> QED
    BY <2>1
<1>5. PICK e0 : StatesBy(e0, I, D, base, F)
  <2> HIDE DEF F, D, base
  <2> QED
    BY <1>1, <1>4, EachStates
<1>6. /\ e0 \in [SUBSET I -> D] /\ e0[{}] = base /\ e0[I] \in D
      /\ \A s \in SUBSET I : s # {} =>
           /\ Max(s) \in I /\ e0[s \ {Max(s)}] \in D
           /\ e0[s] = MacCol(d, ch, row, Max(s), e0[s \ {Max(s)}], x[Max(s)])
  <2> HIDE DEF D, base
  <2>1. \A a \in D, col \in I : F[<<a, col>>] = MacCol(d, ch, row, col, a, x[col])
    OBVIOUS
  <2> HIDE DEF F
  <2> QED
    BY <1>5, <2>1 DEF States, StatesBy
<1>7. P0(f)
  <2>1. e0 = [s \in SUBSET I |-> e0[s]]
    BY <1>6
  <2>2. P0(e0)
    <3> HIDE DEF D, base, F
    <3> QED
      BY <1>6, <2>1
  <2> HIDE DEF P0
  <2> QED
    BY <2>2 DEF f
<1>8. \A s \in SUBSET I : f[s] = e0[s]
  <2> HIDE DEF D, base, F
  <2>1. f[{}] = e0[{}]
    BY <1>6, <1>7
  <2>2. \A s \in SUBSET I : s # {} /\ f[s \ {Max(s)}] = e0[s \ {Max(s)}] => f[s] = e0[s]
    BY <1>6, <1>7
  <2> HIDE DEF P0
  <2> QED
    BY <1>1, <2>1, <2>2, EachAgree
<1>9. \A col \in I : v[col] = BurstDot(DramRead(d, ch, b, row, col), x[col]) /\ v[col] \in Int
  <2>1. ASSUME NEW col \in I PROVE BurstDot(DramRead(d, ch, b, row, col), x[col]) \in Int
    <3>1. DramRead(d, ch, b, row, col) \in Burst
      BY ReadTypes
    <3> QED
      BY <1>2, <3>1, BurstDotIsSum
  <2> QED
    BY <2>1 DEF ColumnDots, I
<1> HIDE DEF v
<1>10. PICK e : SumStates(e, v, I)
  BY <1>1, <1>9, SumsExist
<1> DEFINE r == [s \in SUBSET I |-> e0[s][b]]
<1>11. r[{}] = e[{}]
  BY <1>6, <1>10 DEF SumStates
<1>12. ASSUME NEW s \in SUBSET I, s # {}, r[s \ {Max(s)}] = e[s \ {Max(s)}]
       PROVE  r[s] = e[s]
  <2> DEFINE m == Max(s)
             a == e0[s \ {m}]
  <2>1. m \in I /\ a \in D /\ e0[s] = MacCol(d, ch, row, m, a, x[m])
    BY <1>6, <1>12
  <2>2. e[s] = e[s \ {m}] + v[m]
    BY <1>10, <1>12 DEF SumStates
  <2>3. r[s] = e0[s][b] /\ r[s \ {m}] = a[b]
    OBVIOUS
  <2> HIDE DEF a, m, r
  <2>4. e0[s][b] = a[b] + BurstDot(DramRead(d, ch, b, row, m), x[m])
    BY <2>1 DEF MacCol
  <2>5. v[m] = BurstDot(DramRead(d, ch, b, row, m), x[m])
    BY <1>9, <2>1
  <2> QED
    BY <1>12, <2>2, <2>3, <2>4, <2>5 DEF m
<1>13. \A s \in SUBSET I : r[s] = e[s]
  <2> HIDE DEF r
  <2> QED
    BY <1>1, <1>11, <1>12, EachAgree
<1>14. r[I] = e0[I][b] /\ f[I] = e0[I] /\ e[I] = SumOver(v, I)
  BY <1>8, <1>10 DEF SumStates
<1> QED
  BY <1>3, <1>13, <1>14 DEF v, I

\* Bursts enough for n numbers, and no more.
LEMMA CeilFacts ==
  ASSUME NEW m \in Nat \ {0}, NEW n \in Nat
  PROVE  /\ Ceil(n, m) \in Nat /\ n <= Ceil(n, m) * m /\ (n > 0 => Ceil(n, m) > 0)
         /\ \A i \in 0 .. n - 1 : i \div m \in 0 .. Ceil(n, m) - 1
<1> DEFINE k == n + m - 1
           c == k \div m
<1>1. k \in Nat /\ k = m * c + (k % m) /\ c \in Nat /\ k % m \in 0 .. m - 1
  BY DivisionSum
<1>2. m * c \in Nat /\ m * c = c * m
  BY <1>1
<1>3. Ceil(n, m) = c
  BY DEF Ceil
<1> DEFINE e == m * c
           r == k % m
<1>4. /\ e \in Nat /\ r \in 0 .. m - 1 /\ n + m - 1 = e + r
  BY <1>1, <1>2
<1> HIDE DEF e, r
<1>5. n <= e /\ (n > 0 => e > 0)
  BY <1>4
<1>6. n > 0 => c > 0
  BY <1>1, <1>2, <1>5 DEF e
<1>7. \A i \in 0 .. n - 1 : i \div m \in 0 .. c - 1
  <2>1. CASE n = 0
    BY <2>1
  <2>2. CASE n # 0
    <3>1. \A i \in 0 .. n - 1 : i \div m < (n + m - 1) \div m
      BY <2>2, RoundingUp
    <3>2. \A i \in 0 .. n - 1 : i \div m \in Nat
      BY DivisionType
    <3> QED
      BY <1>1, <3>1, <3>2
  <2> QED
    BY <2>1, <2>2
<1> HIDE DEF c
<1> QED
  BY <1>1, <1>2, <1>3, <1>5, <1>6, <1>7 DEF e

\* The products of n inputs and of the zeros behind them.
Terms(q, a, b, n, M) ==
  /\ q \in [0 .. M -> Int] /\ q[0] = 0
  /\ \A k \in 0 .. M - 1 : q[k + 1] = q[k] + (IF k < n THEN a[k] * b[k] ELSE 0)

\* With zeros behind both vectors, the sum over all places is their dot product.
LEMMA PaddedDot ==
  ASSUME NEW n \in Nat, NEW a, NEW b, Vectors(a, b, n), NEW M \in Nat, n <= M
  PROVE  \E q : Terms(q, a, b, n, M) /\ DotRange(a, b, 0, n) = q[M]
<1> DEFINE c == [i \in 0 .. M - 1 |-> IF i < n THEN a[i] ELSE 0]
           d == [i \in 0 .. M - 1 |-> IF i < n THEN b[i] ELSE 0]
<1>1. \A i \in 0 .. M - 1 : c[i] = (IF i < n THEN a[i] ELSE 0) /\ d[i] = (IF i < n THEN b[i] ELSE 0)
  OBVIOUS
<1>2. \A i \in 0 .. M - 1 : i < n => a[i] \in Int /\ b[i] \in Int
  BY DEF Vectors
<1> HIDE DEF c, d
<1>3. Vectors(c, d, M)
  BY <1>1, <1>2 DEF Vectors
<1>4. PICK q : Partials(q, c, d, M)
  BY <1>3, PartialsExist
<1>5. Terms(q, a, b, n, M)
  <2>1. ASSUME NEW k \in 0 .. M - 1
        PROVE  q[k + 1] = q[k] + (IF k < n THEN a[k] * b[k] ELSE 0)
    <3>1. k + 1 \in 1 .. M /\ (k + 1) - 1 = k
      OBVIOUS
    <3>2. q[k + 1] = q[k] + c[k] * d[k]
      BY <1>4, <3>1 DEF Partials
    <3> QED
      BY <1>1, <3>2
  <2> QED
    BY <1>4, <2>1 DEF Terms, Partials
<1> DEFINE r == [k \in 0 .. n |-> q[k]]
<1>6. Partials(r, a, b, n)
  <2>1. r \in [0 .. n -> Int] /\ r[0] = 0
    BY <1>4 DEF Partials
  <2>2. ASSUME NEW k \in 1 .. n PROVE r[k] = r[k - 1] + a[k - 1] * b[k - 1]
    <3>1. k - 1 \in 0 .. M - 1 /\ k - 1 < n /\ k \in 0 .. n /\ k - 1 \in 0 .. n /\ (k - 1) + 1 = k
      OBVIOUS
    <3>2. q[(k - 1) + 1] = q[k - 1] + (IF k - 1 < n THEN a[k - 1] * b[k - 1] ELSE 0)
      BY <1>5, <3>1 DEF Terms
    <3> QED
      BY <3>1, <3>2
  <2> HIDE DEF r
  <2> QED
    BY <2>1, <2>2 DEF Partials
<1>7. DotRange(a, b, 0, n) = q[n]
  <2>1. 0 \in 0 .. n /\ n \in 0 .. n /\ 0 <= n
    OBVIOUS
  <2>2. r[n] = q[n] /\ r[0] = 0 /\ q[n] \in Int
    BY <1>4 DEF Partials
  <2> HIDE DEF r
  <2>3. DotRange(a, b, 0, n) = r[n] - r[0]
    BY <1>6, <2>1, DotIsPrefix
  <2> QED
    BY <2>2, <2>3
<1> DEFINE T == {k \in 0 .. M - n : q[n + k] = q[n]}
<1>8. M - n \in T
  <2>1. 0 \in T /\ M - n \in Nat
    OBVIOUS
  <2>2. ASSUME NEW k \in 1 .. M - n, k - 1 \in T PROVE k \in T
    <3>1. n + k - 1 \in 0 .. M - 1 /\ ~(n + k - 1 < n) /\ (n + k - 1) + 1 = n + k
          /\ n + (k - 1) = n + k - 1 /\ k \in 0 .. M - n
      OBVIOUS
    <3>2. q[n + k] = q[n + k - 1] + 0
      BY <1>5, <3>1 DEF Terms
    <3>3. q[n + k - 1] = q[n] /\ q[n] \in Int
      BY <2>2, <3>1, <1>4 DEF Partials
    <3> QED
      BY <3>1, <3>2, <3>3
  <2> HIDE DEF T
  <2>3. 0 .. M - n \subseteq T
    BY <2>1, <2>2, LoopInduction
  <2> QED
    BY <2>1, <2>3
<1>9. n + (M - n) = M
  OBVIOUS
<1> QED
  BY <1>5, <1>7, <1>8, <1>9

\* The dot product of a column of n inputs.
LEMMA ColumnIsTerms ==
  ASSUME NEW n \in Nat, NEW a, NEW b, Vectors(a, b, n), NEW M \in Nat,
         NEW q, Terms(q, a, b, n, M), NEW at \in Nat, at + Lanes <= M,
         NEW w \in Burst, NEW x \in Burst,
         \A l \in LaneIds : /\ w[l] = IF at + l < n THEN a[at + l] ELSE 0
                            /\ x[l] = IF at + l < n THEN b[at + l] ELSE 0
  PROVE  BurstDot(w, x) = q[at + Lanes] - q[at]
<1> DEFINE v == [l \in LaneIds |-> w[l] * x[l]]
           p == [k \in 0 .. Lanes |-> q[at + k] - q[at]]
<1>1. Lanes \in Nat /\ LaneIds = 0 .. Lanes - 1
  BY DeviceAssumption DEF LaneIds
<1>2. \A k \in 0 .. M : q[k] \in Int
  BY DEF Terms
<1>3. \A l \in 0 .. Lanes - 1 : v[l] \in Int /\ v[l] = IF at + l < n THEN a[at + l] * b[at + l] ELSE 0
  <2> SUFFICES ASSUME NEW l \in 0 .. Lanes - 1
               PROVE  v[l] \in Int /\ v[l] = IF at + l < n THEN a[at + l] * b[at + l] ELSE 0
    OBVIOUS
  <2>1. w[l] \in Int /\ x[l] \in Int /\ v[l] = w[l] * x[l]
    BY <1>1 DEF Burst
  <2>2. /\ w[l] = IF at + l < n THEN a[at + l] ELSE 0
        /\ x[l] = IF at + l < n THEN b[at + l] ELSE 0
    BY <1>1
  <2> QED
    BY <2>1, <2>2
<1>4. p[0] = 0
  <2>1. at \in 0 .. M /\ at + 0 = at /\ 0 \in 0 .. Lanes
    BY <1>1
  <2> QED
    BY <1>2, <2>1
<1>5. ASSUME NEW k \in 1 .. Lanes PROVE p[k] = p[k - 1] + v[k - 1]
  <2>1. /\ at + (k - 1) \in 0 .. M - 1 /\ (at + (k - 1)) + 1 = at + k
        /\ at + k \in 0 .. M /\ at + (k - 1) \in 0 .. M /\ at \in 0 .. M
        /\ k \in 0 .. Lanes /\ k - 1 \in 0 .. Lanes /\ k - 1 \in 0 .. Lanes - 1
    BY <1>1
  <2>2. q[at + k] = q[at + (k - 1)]
          + (IF at + (k - 1) < n THEN a[at + (k - 1)] * b[at + (k - 1)] ELSE 0)
    BY <2>1 DEF Terms
  <2>3. /\ v[k - 1] \in Int
        /\ v[k - 1] = IF at + (k - 1) < n THEN a[at + (k - 1)] * b[at + (k - 1)] ELSE 0
    BY <1>3, <2>1
  <2>4. p[k] = q[at + k] - q[at] /\ p[k - 1] = q[at + (k - 1)] - q[at]
    BY <2>1
  <2>5. q[at + k] \in Int /\ q[at + (k - 1)] \in Int /\ q[at] \in Int
    BY <1>2, <2>1
  <2>6. q[at + k] = q[at + (k - 1)] + v[k - 1]
    BY <2>2, <2>3
  <2> HIDE DEF p, v
  <2> QED
    BY <2>3, <2>4, <2>5, <2>6
<1>6. BurstDot(w, x) = SumOver(v, 0 .. Lanes - 1)
  BY <1>1, BurstDotIsSum
<1>7. p[Lanes] = q[at + Lanes] - q[at]
  BY <1>1
<1> HIDE DEF p, v
<1>8. SumOver(v, 0 .. Lanes - 1) = p[Lanes]
  <2>1. \A l \in 0 .. Lanes - 1 : v[l] \in Int
    BY <1>3
  <2>2. \A k \in 1 .. Lanes : p[k] = p[k - 1] + v[k - 1]
    BY <1>5
  <2>3. AddsUp(p, v, Lanes)
    BY <1>4, <2>1, <2>2 DEF AddsUp
  <2> QED
    BY <1>1, <2>3, SumIsPrefix
<1> QED
  BY <1>6, <1>7, <1>8

\* The dot product of a row is the sum of those of its bursts.
LEMMA ColumnsAreDot ==
  ASSUME NEW n \in Nat, NEW a, NEW b, Vectors(a, b, n), NEW v,
         \A col \in 0 .. Ceil(n, Lanes) - 1 :
           v[col] = BurstDot(ActivationBurst(a, n, col), ActivationBurst(b, n, col))
  PROVE  /\ SumOver(v, 0 .. Ceil(n, Lanes) - 1) = DotRange(a, b, 0, n)
         /\ DotRange(a, b, 0, n) \in Int
         /\ \A col \in 0 .. Ceil(n, Lanes) - 1 : v[col] \in Int
<1> DEFINE C == Ceil(n, Lanes)
           M == C * Lanes
<1>1. Lanes \in Nat \ {0} /\ LaneIds = 0 .. Lanes - 1
  BY DeviceAssumption DEF LaneIds
<1>2. C \in Nat /\ n <= M /\ M \in Nat
  BY <1>1, CeilFacts
<1>3. PICK q : Terms(q, a, b, n, M) /\ DotRange(a, b, 0, n) = q[M]
  <2> HIDE DEF M
  <2> QED
    BY <1>2, PaddedDot
<1>4. \A k \in 0 .. M : q[k] \in Int
  <2> HIDE DEF M
  <2> QED
    BY <1>3 DEF Terms
<1>5. ASSUME NEW k \in 0 .. C
      PROVE  k * Lanes \in 0 .. M
  <2>1. Lanes * k \in Nat /\ Lanes * k <= Lanes * C
    BY <1>1, <1>2, TimesMonotone
  <2> QED
    BY <1>1, <1>2, <2>1
<1>6. ASSUME NEW col \in 0 .. C - 1
      PROVE  /\ v[col] = q[(col + 1) * Lanes] - q[col * Lanes]
             /\ v[col] \in Int
  <2> DEFINE at == col * Lanes
             w == ActivationBurst(a, n, col)
             x == ActivationBurst(b, n, col)
  <2>1. at \in Nat /\ at + Lanes = (col + 1) * Lanes /\ at + Lanes <= M
    <3>1. col + 1 \in 0 .. C /\ col \in Nat
      BY <1>2
    <3>2. (col + 1) * Lanes \in 0 .. M
      BY <1>5, <3>1
    <3>3. (col + 1) * Lanes = at + Lanes /\ at \in Nat
      BY <1>1, <3>1
    <3> QED
      BY <1>2, <3>2, <3>3
  <2>2. w \in Burst /\ x \in Burst
    <3>1. (\A i \in 0 .. n - 1 : a[i] \in Int) /\ (\A i \in 0 .. n - 1 : b[i] \in Int)
      BY DEF Vectors
    <3> QED
      BY <3>1, ActivationType
  <2>3. \A l \in LaneIds : /\ w[l] = IF at + l < n THEN a[at + l] ELSE 0
                           /\ x[l] = IF at + l < n THEN b[at + l] ELSE 0
    BY DEF ActivationBurst
  <2>4. v[col] = BurstDot(w, x)
    OBVIOUS
  <2> HIDE DEF w, x, at, M
  <2>5. BurstDot(w, x) = q[at + Lanes] - q[at]
    BY <1>2, <1>3, <2>1, <2>2, <2>3, ColumnIsTerms
  <2>6. BurstDot(w, x) \in Int
    BY <2>2, BurstDotIsSum
  <2> QED
    BY <2>1, <2>4, <2>5, <2>6 DEF at
<1> DEFINE p == [k \in 0 .. C |-> q[k * Lanes]]
<1>7. p[0] = 0 /\ p[C] = q[M]
  <2>1. 0 * Lanes = 0 /\ 0 \in 0 .. C /\ C \in 0 .. C
    BY <1>1, <1>2
  <2>2. q[0] = 0
    BY <1>3 DEF Terms
  <2> QED
    BY <2>1, <2>2
<1>8. ASSUME NEW k \in 1 .. C PROVE p[k] = p[k - 1] + v[k - 1]
  <2>1. k - 1 \in 0 .. C - 1 /\ (k - 1) + 1 = k /\ k \in 0 .. C /\ k - 1 \in 0 .. C
    BY <1>2
  <2>2. v[k - 1] = q[k * Lanes] - q[(k - 1) * Lanes]
    BY <1>6, <2>1
  <2>3. q[k * Lanes] \in Int /\ q[(k - 1) * Lanes] \in Int
    BY <1>4, <1>5, <2>1
  <2>4. p[k] = q[k * Lanes] /\ p[k - 1] = q[(k - 1) * Lanes]
    BY <2>1
  <2> HIDE DEF p
  <2> QED
    BY <2>2, <2>3, <2>4
<1>9. SumOver(v, 0 .. C - 1) = p[C]
  <2> HIDE DEF p, C
  <2>1. \A col \in 0 .. C - 1 : v[col] \in Int
    BY <1>6
  <2>2. AddsUp(p, v, C)
    BY <1>7, <1>8, <2>1 DEF AddsUp
  <2> QED
    BY <1>2, <2>2, SumIsPrefix
<1>10. q[M] \in Int
  <2>1. M \in 0 .. M
    BY <1>2
  <2> HIDE DEF M
  <2> QED
    BY <1>4, <2>1
<1> QED
  BY <1>3, <1>6, <1>7, <1>9, <1>10

-----------------------------------------------------------------------------
(* Blocks that share cells out.                                            *)

\* The sets cs[e] of the elements e of s are apart and make up C.
Tiles(s, cs, C) ==
  /\ \A k \in 1 .. Len(s) : cs[s[k]] \subseteq C
  /\ \A e \in C : \E k \in 1 .. Len(s) : e \in cs[s[k]]
  /\ \A j, k \in 1 .. Len(s) : j # k => cs[s[j]] \cap cs[s[k]] = {}

\* No blocks tile nothing.
LEMMA TilesEmpty ==
  ASSUME NEW cs
  PROVE  Tiles(<<>>, cs, {})
BY EmptySeq DEF Tiles

\* One list after another.
LEMMA TilesConcat ==
  ASSUME NEW T, NEW s \in Seq(T), NEW u \in Seq(T), NEW cs, NEW C, NEW D,
         Tiles(s, cs, C), Tiles(u, cs, D), C \cap D = {}
  PROVE  s \o u \in Seq(T) /\ Tiles(s \o u, cs, C \cup D)
<1> DEFINE r == s \o u
           m == Len(s)
           n == Len(u)
<1>1. m \in Nat /\ n \in Nat
  BY LenProperties
<1>2. /\ r \in Seq(T) /\ Len(r) = m + n
      /\ \A i \in 1 .. m + n : r[i] = IF i <= m THEN s[i] ELSE u[i - m]
  BY ConcatProperties
<1> HIDE DEF r
<1>3. \A i \in 1 .. m : i \in 1 .. m + n /\ r[i] = s[i]
  BY <1>1, <1>2
<1>4. \A i \in 1 .. n : i + m \in 1 .. m + n /\ r[i + m] = u[i]
  <2> SUFFICES ASSUME NEW i \in 1 .. n PROVE i + m \in 1 .. m + n /\ r[i + m] = u[i]
    OBVIOUS
  <2>1. i + m \in 1 .. m + n /\ ~(i + m <= m) /\ (i + m) - m = i
    BY <1>1
  <2> QED
    BY <1>2, <2>1
<1>5. \A i \in 1 .. m + n : i \in 1 .. m \/ \E j \in 1 .. n : i = j + m
  <2> SUFFICES ASSUME NEW i \in 1 .. m + n, i \notin 1 .. m PROVE \E j \in 1 .. n : i = j + m
    OBVIOUS
  <2>1. i - m \in 1 .. n /\ i = (i - m) + m
    BY <1>1
  <2> QED
    BY <2>1
<1> HIDE DEF m, n
<1>6. /\ \A k \in 1 .. m : cs[s[k]] \subseteq C
      /\ \A e \in C : \E k \in 1 .. m : e \in cs[s[k]]
      /\ \A j, k \in 1 .. m : j # k => cs[s[j]] \cap cs[s[k]] = {}
  BY DEF Tiles, m
<1>7. /\ \A k \in 1 .. n : cs[u[k]] \subseteq D
      /\ \A e \in D : \E k \in 1 .. n : e \in cs[u[k]]
      /\ \A j, k \in 1 .. n : j # k => cs[u[j]] \cap cs[u[k]] = {}
  BY DEF Tiles, n
<1>8. ASSUME NEW k \in 1 .. m + n PROVE cs[r[k]] \subseteq C \cup D
  <2>1. CASE k \in 1 .. m
    BY <1>3, <1>6, <2>1
  <2>2. CASE \E j \in 1 .. n : k = j + m
    BY <1>4, <1>7, <2>2
  <2> QED
    BY <1>5, <2>1, <2>2
<1>9. ASSUME NEW e \in C \cup D PROVE \E k \in 1 .. m + n : e \in cs[r[k]]
  <2>1. CASE e \in C
    BY <1>3, <1>6, <2>1
  <2>2. CASE e \in D
    BY <1>4, <1>7, <2>2
  <2> QED
    BY <2>1, <2>2
<1>10. ASSUME NEW j \in 1 .. m + n, NEW k \in 1 .. m + n, j # k
       PROVE  cs[r[j]] \cap cs[r[k]] = {}
  <2>1. CASE j \in 1 .. m /\ k \in 1 .. m
    BY <1>3, <1>6, <1>10, <2>1
  <2>2. CASE j \in 1 .. m /\ \E i \in 1 .. n : k = i + m
    BY <1>3, <1>4, <1>6, <1>7, <2>2
  <2>3. CASE k \in 1 .. m /\ \E i \in 1 .. n : j = i + m
    BY <1>3, <1>4, <1>6, <1>7, <2>3
  <2>4. CASE (\E i \in 1 .. n : j = i + m) /\ \E i \in 1 .. n : k = i + m
    <3>1. PICK a \in 1 .. n : j = a + m
      BY <2>4
    <3>2. PICK b \in 1 .. n : k = b + m
      BY <2>4
    <3>3. a # b
      BY <1>10, <3>1, <3>2
    <3> QED
      BY <1>4, <1>7, <3>1, <3>2, <3>3
  <2> QED
    BY <1>5, <2>1, <2>2, <2>3, <2>4
<1> QED
  BY <1>2, <1>8, <1>9, <1>10 DEF Tiles, r

\* Lists of which each makes up a part.
LEMMA TilesFlatten ==
  ASSUME NEW T, NEW ss \in Seq(Seq(T)), NEW cs, NEW Cs,
         \A i \in 1 .. Len(ss) : Tiles(ss[i], cs, Cs[i]),
         \A i, j \in 1 .. Len(ss) : i < j => Cs[i] \cap Cs[j] = {},
         NEW C, \A i \in 1 .. Len(ss) : Cs[i] \subseteq C,
         \A e \in C : \E i \in 1 .. Len(ss) : e \in Cs[i]
  PROVE  FlattenSeq(ss) \in Seq(T) /\ Tiles(FlattenSeq(ss), cs, C)
<1> DEFINE n == Len(ss)
           Part(k) == UNION {Cs[i] : i \in 1 .. k}
<1>0. FlattenSeq(ss) \in Seq(T) /\ C = Part(n)
  BY FlattenType
<1>1. CASE ss = <<>>
  <2>1. FlattenSeq(ss) = <<>> /\ Len(ss) = 0
    BY <1>1, EmptySeq DEF FlattenSeq
  <2>2. C = {}
    BY <2>1
  <2> QED
    BY <1>0, <2>1, <2>2, TilesEmpty
<1>2. CASE ss # <<>>
  <2>1. PICK f : /\ Joined(f, ss) /\ n \in Nat \ {0}
                 /\ \A i \in 1 .. n : ss[i] \in Seq(T) /\ f[i] \in Seq(T)
    BY <1>2, FlattenRounds
  <2>2. /\ f[1] = ss[1] /\ (\A i \in 2 .. n : f[i] = f[i - 1] \o ss[i])
        /\ FlattenSeq(ss) = f[n]
    BY <2>1 DEF Joined
  <2>3. \A i \in 1 .. n : Tiles(ss[i], cs, Cs[i])
    OBVIOUS
  <2>4. \A i, j \in 1 .. n : i < j => Cs[i] \cap Cs[j] = {}
    OBVIOUS
  <2> HIDE DEF n
  <2> DEFINE N == n - 1
             G == {k \in 0 .. N : Tiles(f[k + 1], cs, Part(k + 1))}
  <2>5. 0 \in G
    <3>1. 1 \in 1 .. n /\ 0 + 1 = 1 /\ 0 \in 0 .. N /\ 1 .. 1 = {1}
      BY <2>1
    <3>2. Part(1) = Cs[1]
      BY <3>1
    <3>3. Tiles(f[1], cs, Part(1))
      <4> HIDE DEF Part
      <4> QED
        BY <2>2, <2>3, <3>1, <3>2
    <3> QED
      BY <3>1, <3>3
  <2>6. ASSUME NEW k \in 1 .. N, k - 1 \in G PROVE k \in G
    <3>1. /\ (k - 1) + 1 = k /\ (k + 1) - 1 = k /\ k \in 0 .. N /\ k \in 1 .. n
          /\ k + 1 \in 2 .. n /\ k + 1 \in 1 .. n
      BY <2>1
    <3>2. 1 .. k + 1 = (1 .. k) \cup {k + 1}
      BY <3>1
    <3>3. Part(k + 1) = Part(k) \cup Cs[k + 1]
      BY <3>2
    <3>4. Part(k) \cap Cs[k + 1] = {}
      <4>1. ASSUME NEW i \in 1 .. k PROVE Cs[i] \cap Cs[k + 1] = {}
        <5>1. i \in 1 .. n /\ i < k + 1
          BY <2>1
        <5> QED
          BY <2>4, <3>1, <5>1
      <4> QED
        BY <4>1
    <3> HIDE DEF Part
    <3>5. Tiles(f[k], cs, Part(k))
      BY <2>6, <3>1
    <3>6. Tiles(f[k] \o ss[k + 1], cs, Part(k) \cup Cs[k + 1])
      <4>1. f[k] \in Seq(T) /\ ss[k + 1] \in Seq(T) /\ Tiles(ss[k + 1], cs, Cs[k + 1])
        BY <2>1, <2>3, <3>1
      <4> QED
        BY <3>4, <3>5, <4>1, TilesConcat
    <3>7. f[k + 1] = f[k] \o ss[k + 1]
      BY <2>2, <3>1
    <3>8. Tiles(f[k + 1], cs, Part(k + 1))
      BY <3>3, <3>6, <3>7
    <3> QED
      BY <3>1, <3>8
  <2>7. Tiles(f[n], cs, Part(n))
    <3>1. N \in Nat /\ N + 1 = n /\ N \in 0 .. N
      BY <2>1
    <3>2. 0 .. N \subseteq G
      <4> HIDE DEF G, N
      <4> QED
        BY <2>5, <2>6, <3>1, LoopInduction
    <3> HIDE DEF Part
    <3> QED
      BY <3>1, <3>2
  <2> QED
    BY <1>0, <2>2, <2>7 DEF n
<1> QED
  BY <1>1, <1>2

\* A list of blocks that are apart.
LEMMA TilesList ==
  ASSUME NEW n \in Int, NEW T, NEW f \in [1 .. n -> T], NEW cs, NEW C,
         \A k \in 1 .. n : cs[f[k]] \subseteq C,
         \A e \in C : \E k \in 1 .. n : e \in cs[f[k]],
         \A j, k \in 1 .. n : j < k => cs[f[j]] \cap cs[f[k]] = {}
  PROVE  f \in Seq(T) /\ Tiles(f, cs, C)
<1>1. f \in Seq(T)
  BY ListIn
<1>2. 1 .. Len(f) = 1 .. n
  BY <1>1, LenProperties
<1>3. ASSUME NEW j \in 1 .. n, NEW k \in 1 .. n, j # k PROVE cs[f[j]] \cap cs[f[k]] = {}
  <2>1. j < k \/ k < j
    BY <1>3
  <2> QED
    BY <2>1
<1> QED
  BY <1>1, <1>2, <1>3 DEF Tiles

\* A loop in blocks of n covers i0 .. j - 1, the rest j .. i1 - 1.
LoopCut(i0, i1, n, j) ==
  /\ j \in i0 .. i1
  /\ \E q \in Nat :
       /\ DOMAIN Blocks(i0, i1, n) = 1 .. q
       /\ \A b \in 1 .. q : Blocks(i0, i1, n)[b] \subseteq i0 .. j - 1
       /\ \A i \in i0 .. j - 1 : \E b \in 1 .. q : i \in Blocks(i0, i1, n)[b]
       /\ \A b, c \in 1 .. q : b < c => Blocks(i0, i1, n)[b] \cap Blocks(i0, i1, n)[c] = {}
  /\ \E q \in Nat :
       /\ DOMAIN Rest(i0, i1, n) = 1 .. q
       /\ \A b \in 1 .. q : Rest(i0, i1, n)[b] \in j .. i1 - 1
       /\ \A i \in j .. i1 - 1 : \E b \in 1 .. q : i = Rest(i0, i1, n)[b]
       /\ \A b, c \in 1 .. q : b < c => Rest(i0, i1, n)[b] # Rest(i0, i1, n)[c]

\* Every loop of strips cuts its range in blocks of n.
LEMMA LoopIsCut ==
  ASSUME NEW n \in Nat \ {0}, NEW i0 \in Nat, NEW i1 \in Nat, i0 <= i1
  PROVE  \E j : LoopCut(i0, i1, n, j)
<1> DEFINE k == (i1 - i0) \div n
           j == i0 + n * k
<1>1. k \in Nat /\ n * k \in Nat /\ n * k <= i1 - i0
  OBVIOUS
<1>2. Blocks(i0, i1, n) = [b \in 1 .. k |-> i0 + n * (b - 1) .. i0 + n * b - 1]
  BY DEF Blocks
<1>3. Rest(i0, i1, n) = [b \in 1 .. i1 - j |-> j + b - 1]
  BY DEF Rest
<1> HIDE DEF k
<1>4. \A b \in 1 .. k : /\ n * (b - 1) \in Nat /\ n * b \in Nat /\ n * b <= n * k
                        /\ n * b = n * (b - 1) + n
  <2> SUFFICES ASSUME NEW b \in 1 .. k
               PROVE  /\ n * (b - 1) \in Nat /\ n * b \in Nat /\ n * b <= n * k
                      /\ n * b = n * (b - 1) + n
    OBVIOUS
  <2>1. b \in Nat /\ b - 1 \in Nat /\ b <= k
    BY <1>1
  <2>2. n * (b - 1) \in Nat /\ n * b = n * (b - 1) + n
    BY <2>1
  <2>3. n * b \in Nat /\ n * b <= n * k
    BY <1>1, <2>1, TimesMonotone
  <2> QED
    BY <2>2, <2>3
<1>5. j \in i0 .. i1 /\ i1 - j \in Nat /\ j \in Nat
  BY <1>1
<1>6. \A b \in 1 .. k : i0 + n * (b - 1) .. i0 + n * b - 1 \subseteq i0 .. j - 1
  <2> SUFFICES ASSUME NEW b \in 1 .. k
               PROVE  i0 + n * (b - 1) .. i0 + n * b - 1 \subseteq i0 .. j - 1
    OBVIOUS
  <2>1. /\ n * (b - 1) \in Nat /\ n * b \in Nat /\ n * b <= n * k
    BY <1>4
  <2> QED
    BY <1>1, <2>1
<1>7. \A i \in i0 .. j - 1 : \E b \in 1 .. k : i \in i0 + n * (b - 1) .. i0 + n * b - 1
  <2> SUFFICES ASSUME NEW i \in i0 .. j - 1
               PROVE  \E b \in 1 .. k : i \in i0 + n * (b - 1) .. i0 + n * b - 1
    OBVIOUS
  <2> DEFINE a == i - i0
             b == a \div n
  <2>1. a \in Nat /\ a < n * k
    BY <1>1
  <2>2. b \in Nat /\ a % n \in 0 .. n - 1 /\ a = n * b + (a % n)
    <3> HIDE DEF a
    <3> QED
      BY <2>1, DivisionType, DivisionSum
  <2> HIDE DEF a, b
  <2>3. b < k
    <3>1. CASE k <= b
      <4>1. n * k <= n * b /\ n * b \in Nat
        BY <1>1, <2>2, <3>1, TimesMonotone
      <4> QED
        BY <1>1, <2>1, <2>2, <4>1
    <3> QED
      BY <1>1, <2>2, <3>1
  <2>4. b + 1 \in 1 .. k /\ (b + 1) - 1 = b /\ n * (b + 1) = n * b + n /\ n * b \in Nat
    BY <1>1, <2>2, <2>3
  <2>5. i = i0 + a
    BY <1>5 DEF a
  <2>6. i \in i0 + n * b .. i0 + n * (b + 1) - 1
    BY <2>1, <2>2, <2>4, <2>5
  <2> QED
    BY <2>4, <2>6
<1>8. \A b, c \in 1 .. k : b < c =>
        (i0 + n * (b - 1) .. i0 + n * b - 1) \cap (i0 + n * (c - 1) .. i0 + n * c - 1) = {}
  <2> SUFFICES ASSUME NEW b \in 1 .. k, NEW c \in 1 .. k, b < c
               PROVE  (i0 + n * (b - 1) .. i0 + n * b - 1) \cap (i0 + n * (c - 1) .. i0 + n * c - 1) = {}
    OBVIOUS
  <2>1. b \in Nat /\ c - 1 \in Nat /\ b <= c - 1
    BY <1>1
  <2>2. n * b \in Nat /\ n * (c - 1) \in Nat /\ n * b <= n * (c - 1)
    BY <2>1, TimesMonotone
  <2>3. n * (b - 1) \in Nat /\ n * c \in Nat
    BY <1>4
  <2> QED
    BY <2>2, <2>3
<1> DEFINE Bl == Blocks(i0, i1, n)
           Re == Rest(i0, i1, n)
<1>9. /\ DOMAIN Bl = 1 .. k
      /\ \A b \in 1 .. k : Bl[b] = i0 + n * (b - 1) .. i0 + n * b - 1
  BY <1>2
<1>10. DOMAIN Re = 1 .. i1 - j /\ \A b \in 1 .. i1 - j : Re[b] = j + b - 1
  BY <1>3
<1> HIDE DEF j
<1>11. /\ \A b \in 1 .. i1 - j : Re[b] \in j .. i1 - 1
       /\ \A b, c \in 1 .. i1 - j : b < c => Re[b] # Re[c]
  BY <1>5, <1>10
<1>12. \A i \in j .. i1 - 1 : \E b \in 1 .. i1 - j : i = Re[b]
  <2> SUFFICES ASSUME NEW i \in j .. i1 - 1 PROVE \E b \in 1 .. i1 - j : i = Re[b]
    OBVIOUS
  <2>1. i - j + 1 \in 1 .. i1 - j /\ i = j + (i - j + 1) - 1
    BY <1>5
  <2> QED
    BY <1>10, <2>1
<1>13. /\ \A b \in 1 .. k : Bl[b] \subseteq i0 .. j - 1
       /\ \A i \in i0 .. j - 1 : \E b \in 1 .. k : i \in Bl[b]
       /\ \A b, c \in 1 .. k : b < c => Bl[b] \cap Bl[c] = {}
  <2>1. \A b \in 1 .. k : Bl[b] \subseteq i0 .. j - 1
    BY <1>6, <1>9
  <2>2. \A i \in i0 .. j - 1 : \E b \in 1 .. k : i \in Bl[b]
    BY <1>7, <1>9
  <2>3. \A b, c \in 1 .. k : b < c => Bl[b] \cap Bl[c] = {}
    BY <1>8, <1>9
  <2> QED
    BY <2>1, <2>2, <2>3
<1> HIDE DEF Bl, Re
<1>14. LoopCut(i0, i1, n, j)
  BY <1>1, <1>5, <1>9, <1>10, <1>11, <1>12, <1>13 DEF LoopCut, Bl, Re
<1> QED
  BY <1>14

\* Blocks whose strips come to the end of n inputs, and their cells.
Solid(n) == [cells : SUBSET (Nat \X Nat), strips : {s \in Seq(Nat \ {0}) : Whole(s, n)}]
CellSets(n) == [b \in Solid(n) |-> b.cells]

\* A block that is computed whole, by one of the strips, is a solid one.
LEMMA SolidBlock ==
  ASSUME NEW n, NEW cells \in SUBSET (Nat \X Nat), NEW strips, Whole(strips, n)
  PROVE  /\ [cells |-> cells, strips |-> strips] \in Solid(n)
         /\ CellSets(n)[[cells |-> cells, strips |-> strips]] = cells
<1>1. [cells |-> cells, strips |-> strips] \in Solid(n)
  BY DEF Solid, Whole
<1> QED
  BY <1>1 DEF CellSets

\* A kernel whose strips come to the end.
Ends(k, n) == Whole(k.rows, n) /\ Whole(k.dot, n) /\ Whole(k.tokens, n)

\* linear_range computes its rows for its token.
LEMMA RangeTiles ==
  ASSUME NEW n, NEW k, k.block \in Nat \ {0}, Ends(k, n), NEW t \in Nat,
         NEW i0 \in Nat, NEW i1 \in Nat, i0 <= i1
  PROVE  /\ LinearRange(k, t, i0, i1) \in Seq(Solid(n))
         /\ Tiles(LinearRange(k, t, i0, i1), CellSets(n), {t} \X (i0 .. i1 - 1))
<1> DEFINE quads == Blocks(i0, i1, k.block)
           ones == Rest(i0, i1, k.block)
           f == [b \in DOMAIN quads |-> [cells |-> {t} \X quads[b], strips |-> k.rows]]
           u == [b \in DOMAIN ones |-> [cells |-> {<<t, ones[b]>>}, strips |-> k.dot]]
           cs == CellSets(n)
<1>1. LinearRange(k, t, i0, i1) = f \o u
  BY DEF LinearRange
<1>2. PICK j : LoopCut(i0, i1, k.block, j)
  BY LoopIsCut
<1>3. j \in i0 .. i1 /\ j \in Nat
  BY <1>2 DEF LoopCut
<1>4. PICK q \in Nat :
        /\ DOMAIN quads = 1 .. q
        /\ \A b \in 1 .. q : quads[b] \subseteq i0 .. j - 1
        /\ \A i \in i0 .. j - 1 : \E b \in 1 .. q : i \in quads[b]
        /\ \A b, c \in 1 .. q : b < c => quads[b] \cap quads[c] = {}
  BY <1>2 DEF LoopCut
<1>5. PICK r \in Nat :
        /\ DOMAIN ones = 1 .. r
        /\ \A b \in 1 .. r : ones[b] \in j .. i1 - 1
        /\ \A i \in j .. i1 - 1 : \E b \in 1 .. r : i = ones[b]
        /\ \A b, c \in 1 .. r : b < c => ones[b] # ones[c]
  BY <1>2 DEF LoopCut
<1> HIDE DEF quads, ones, cs
<1>6. \A b \in 1 .. q : f[b] \in Solid(n) /\ cs[f[b]] = {t} \X quads[b]
  <2> SUFFICES ASSUME NEW b \in 1 .. q
               PROVE  f[b] \in Solid(n) /\ cs[f[b]] = {t} \X quads[b]
    OBVIOUS
  <2>1. {t} \X quads[b] \in SUBSET (Nat \X Nat)
    BY <1>3, <1>4
  <2>2. f[b] = [cells |-> {t} \X quads[b], strips |-> k.rows]
    BY <1>4
  <2>3. Whole(k.rows, n)
    BY DEF Ends
  <2> HIDE DEF f
  <2> QED
    BY <2>1, <2>2, <2>3, SolidBlock DEF cs
<1>7. \A b \in 1 .. r : u[b] \in Solid(n) /\ cs[u[b]] = {<<t, ones[b]>>}
  <2> SUFFICES ASSUME NEW b \in 1 .. r
               PROVE  u[b] \in Solid(n) /\ cs[u[b]] = {<<t, ones[b]>>}
    OBVIOUS
  <2>1. {<<t, ones[b]>>} \in SUBSET (Nat \X Nat)
    BY <1>3, <1>5
  <2>2. u[b] = [cells |-> {<<t, ones[b]>>}, strips |-> k.dot]
    BY <1>5
  <2> HIDE DEF u
  <2> QED
    BY <2>1, <2>2, SolidBlock DEF Ends, cs
<1>8. f \in [1 .. q -> Solid(n)] /\ u \in [1 .. r -> Solid(n)]
  BY <1>4, <1>5, <1>6, <1>7
<1> HIDE DEF f, u
<1>9. f \in Seq(Solid(n)) /\ Tiles(f, cs, {t} \X (i0 .. j - 1))
  <2> DEFINE C == {t} \X (i0 .. j - 1)
  <2>1. \A b \in 1 .. q : cs[f[b]] \subseteq C
    BY <1>4, <1>6
  <2>2. \A e \in C : \E b \in 1 .. q : e \in cs[f[b]]
    BY <1>4, <1>6
  <2>3. \A b, c \in 1 .. q : b < c => cs[f[b]] \cap cs[f[c]] = {}
    BY <1>4, <1>6
  <2>4. q \in Int /\ f \in [1 .. q -> Solid(n)]
    BY <1>8
  <2> HIDE DEF C
  <2>5. f \in Seq(Solid(n)) /\ Tiles(f, cs, C)
    BY <2>1, <2>2, <2>3, <2>4, TilesList
  <2> QED
    BY <2>5 DEF C
<1>10. u \in Seq(Solid(n)) /\ Tiles(u, cs, {t} \X (j .. i1 - 1))
  <2> DEFINE C == {t} \X (j .. i1 - 1)
  <2>1. \A b \in 1 .. r : cs[u[b]] \subseteq C
    BY <1>5, <1>7
  <2>2. \A e \in C : \E b \in 1 .. r : e \in cs[u[b]]
    BY <1>5, <1>7
  <2>3. \A b, c \in 1 .. r : b < c => cs[u[b]] \cap cs[u[c]] = {}
    BY SMTT(30), <1>5, <1>7
  <2>4. r \in Int /\ u \in [1 .. r -> Solid(n)]
    BY <1>8
  <2> HIDE DEF C
  <2>5. u \in Seq(Solid(n)) /\ Tiles(u, cs, C)
    BY <2>1, <2>2, <2>3, <2>4, TilesList
  <2> QED
    BY <2>5 DEF C
<1>11. /\ ({t} \X (i0 .. j - 1)) \cap ({t} \X (j .. i1 - 1)) = {}
       /\ ({t} \X (i0 .. j - 1)) \cup ({t} \X (j .. i1 - 1)) = {t} \X (i0 .. i1 - 1)
  <2>1. /\ (i0 .. j - 1) \cap (j .. i1 - 1) = {}
        /\ (i0 .. j - 1) \cup (j .. i1 - 1) = i0 .. i1 - 1
    BY <1>3
  <2> QED
    BY <2>1
<1>12. f \o u \in Seq(Solid(n)) /\ Tiles(f \o u, cs, {t} \X (i0 .. i1 - 1))
  BY <1>9, <1>10, <1>11, TilesConcat
<1> QED
  BY <1>1, <1>12 DEF cs

\* One row of a block of tokens after the other.
LEMMA RowTiles ==
  ASSUME NEW n, NEW strips, Whole(strips, n), NEW q \in SUBSET Nat,
         NEW i0 \in Nat, NEW i1 \in Nat, i0 <= i1, NEW f,
         f = [i \in 1 .. i1 - i0 |-> [cells |-> q \X {i0 + i - 1}, strips |-> strips]]
  PROVE  f \in Seq(Solid(n)) /\ Tiles(f, CellSets(n), q \X (i0 .. i1 - 1))
<1> DEFINE cs == CellSets(n)
           m == i1 - i0
           C == q \X (i0 .. i1 - 1)
<1>1. m \in Int /\ \A i \in 1 .. m : i0 + i - 1 \in i0 .. i1 - 1 /\ i0 + i - 1 \in Nat
  OBVIOUS
<1> HIDE DEF cs
<1>2. \A i \in 1 .. m : f[i] \in Solid(n) /\ cs[f[i]] = q \X {i0 + i - 1}
  <2> SUFFICES ASSUME NEW i \in 1 .. m
               PROVE  f[i] \in Solid(n) /\ cs[f[i]] = q \X {i0 + i - 1}
    OBVIOUS
  <2>1. q \X {i0 + i - 1} \in SUBSET (Nat \X Nat)
    BY <1>1
  <2>2. f[i] = [cells |-> q \X {i0 + i - 1}, strips |-> strips]
    OBVIOUS
  <2> DEFINE e == q \X {i0 + i - 1}
  <2> HIDE DEF e
  <2>3. [cells |-> e, strips |-> strips] \in Solid(n) /\ cs[[cells |-> e, strips |-> strips]] = e
    BY <2>1, SolidBlock DEF cs, e
  <2> QED
    BY <2>2, <2>3 DEF e
<1>3. f \in [1 .. m -> Solid(n)]
  BY <1>2
<1>4. \A i \in 1 .. m : cs[f[i]] \subseteq C
  <2> SUFFICES ASSUME NEW i \in 1 .. m PROVE cs[f[i]] \subseteq C
    OBVIOUS
  <2>1. cs[f[i]] = q \X {i0 + i - 1} /\ i0 + i - 1 \in i0 .. i1 - 1
    BY <1>1, <1>2
  <2> QED
    BY <2>1
<1>5. \A e \in C : \E i \in 1 .. m : e \in cs[f[i]]
  <2> SUFFICES ASSUME NEW e \in C PROVE \E i \in 1 .. m : e \in cs[f[i]]
    OBVIOUS
  <2> DEFINE o == e[2]
  <2>1. e = <<e[1], o>> /\ e[1] \in q /\ o \in i0 .. i1 - 1
    OBVIOUS
  <2>2. (o - i0) + 1 \in 1 .. m /\ i0 + ((o - i0) + 1) - 1 = o
    OBVIOUS
  <2>3. cs[f[(o - i0) + 1]] = q \X {i0 + ((o - i0) + 1) - 1}
    BY <1>2, <2>2
  <2>4. e \in cs[f[(o - i0) + 1]]
    BY <2>1, <2>2, <2>3
  <2> QED
    BY <2>2, <2>4
<1>6. \A i, j \in 1 .. m : i < j => cs[f[i]] \cap cs[f[j]] = {}
  <2> SUFFICES ASSUME NEW i \in 1 .. m, NEW j \in 1 .. m, i < j
               PROVE  cs[f[i]] \cap cs[f[j]] = {}
    OBVIOUS
  <2>1. i0 + i - 1 # i0 + j - 1
    OBVIOUS
  <2> QED
    BY <1>2, <2>1
<1>7. m \in Int
  OBVIOUS
<1> HIDE DEF m, C
<1>8. f \in Seq(Solid(n)) /\ Tiles(f, cs, C)
  BY ZenonT(30), <1>3, <1>4, <1>5, <1>6, <1>7, TilesList
<1> QED
  BY <1>8 DEF cs, C

\* Lists made one by one.
LEMMA TilesLists ==
  ASSUME NEW n \in Int, NEW T, NEW ss \in [1 .. n -> Seq(T)], NEW cs, NEW Cs, NEW C,
         \A i \in 1 .. n : Tiles(ss[i], cs, Cs[i]),
         \A i, j \in 1 .. n : i < j => Cs[i] \cap Cs[j] = {},
         \A i \in 1 .. n : Cs[i] \subseteq C,
         \A e \in C : \E i \in 1 .. n : e \in Cs[i]
  PROVE  FlattenSeq(ss) \in Seq(T) /\ Tiles(FlattenSeq(ss), cs, C)
<1>1. ss \in Seq(Seq(T))
  BY ListIn
<1>2. 1 .. Len(ss) = 1 .. n
  BY <1>1, LenProperties
<1>3. /\ \A i \in 1 .. Len(ss) : Tiles(ss[i], cs, Cs[i])
      /\ \A i, j \in 1 .. Len(ss) : i < j => Cs[i] \cap Cs[j] = {}
      /\ \A i \in 1 .. Len(ss) : Cs[i] \subseteq C
      /\ \A e \in C : \E i \in 1 .. Len(ss) : e \in Cs[i]
  BY <1>2
<1> QED
  BY <1>1, <1>3, TilesFlatten

\* linear_rows_range computes its rows for all tokens.
LEMMA RowsRangeTiles ==
  ASSUME NEW n, NEW k, k.block \in Nat \ {0}, Ends(k, n), NEW nTok \in Nat,
         NEW i0 \in Nat, NEW i1 \in Nat, i0 <= i1
  PROVE  /\ LinearRowsRange(k, nTok, i0, i1) \in Seq(Solid(n))
         /\ Tiles(LinearRowsRange(k, nTok, i0, i1), CellSets(n),
                  (0 .. nTok - 1) \X (i0 .. i1 - 1))
<1> DEFINE R == i0 .. i1 - 1
           T == Solid(n)
           cs == CellSets(n)
           quads == Blocks(0, nTok, k.block)
           ones == Rest(0, nTok, k.block)
           row(q) == [i \in 1 .. i1 - i0 |-> [cells |-> q \X {i0 + i - 1}, strips |-> k.tokens]]
           f == [b \in DOMAIN quads |-> row(quads[b])]
           u == [b \in DOMAIN ones |-> LinearRange(k, ones[b], i0, i1)]
<1>1. LinearRowsRange(k, nTok, i0, i1) = FlattenSeq(f) \o FlattenSeq(u)
  BY DEF LinearRowsRange
<1>2. PICK j : LoopCut(0, nTok, k.block, j)
  BY LoopIsCut
<1>3. j \in 0 .. nTok /\ j \in Nat
  BY <1>2 DEF LoopCut
<1>4. PICK q \in Nat :
        /\ DOMAIN quads = 1 .. q
        /\ \A b \in 1 .. q : quads[b] \subseteq 0 .. j - 1
        /\ \A i \in 0 .. j - 1 : \E b \in 1 .. q : i \in quads[b]
        /\ \A b, c \in 1 .. q : b < c => quads[b] \cap quads[c] = {}
  BY <1>2 DEF LoopCut
<1>5. PICK r \in Nat :
        /\ DOMAIN ones = 1 .. r
        /\ \A b \in 1 .. r : ones[b] \in j .. nTok - 1
        /\ \A i \in j .. nTok - 1 : \E b \in 1 .. r : i = ones[b]
        /\ \A b, c \in 1 .. r : b < c => ones[b] # ones[c]
  BY <1>2 DEF LoopCut
<1> HIDE DEF quads, ones, cs, T, R
<1>6. \A b \in 1 .. q : f[b] \in Seq(T) /\ Tiles(f[b], cs, quads[b] \X R)
  <2> SUFFICES ASSUME NEW b \in 1 .. q
               PROVE  f[b] \in Seq(T) /\ Tiles(f[b], cs, quads[b] \X R)
    OBVIOUS
  <2>1. quads[b] \in SUBSET Nat
    BY <1>3, <1>4
  <2>2. f[b] = row(quads[b])
    BY <1>4
  <2>3. Whole(k.tokens, n)
    BY DEF Ends
  <2> HIDE DEF f
  <2>4. f[b] \in Seq(Solid(n)) /\ Tiles(f[b], CellSets(n), quads[b] \X (i0 .. i1 - 1))
    BY <2>1, <2>2, <2>3, RowTiles
  <2> QED
    BY <2>4 DEF T, cs, R
<1>7. \A b \in 1 .. r : u[b] \in Seq(T) /\ Tiles(u[b], cs, {ones[b]} \X R)
  <2> SUFFICES ASSUME NEW b \in 1 .. r
               PROVE  u[b] \in Seq(T) /\ Tiles(u[b], cs, {ones[b]} \X R)
    OBVIOUS
  <2>1. ones[b] \in Nat
    BY <1>3, <1>5
  <2>2. u[b] = LinearRange(k, ones[b], i0, i1)
    BY <1>5
  <2> DEFINE t == ones[b]
  <2> HIDE DEF u, t
  <2>3. /\ LinearRange(k, t, i0, i1) \in Seq(Solid(n))
        /\ Tiles(LinearRange(k, t, i0, i1), CellSets(n), {t} \X (i0 .. i1 - 1))
    BY <2>1, RangeTiles DEF t
  <2> QED
    BY <2>2, <2>3 DEF T, cs, R, t
<1>8. f \in [1 .. q -> Seq(T)] /\ u \in [1 .. r -> Seq(T)]
  BY <1>4, <1>5, <1>6, <1>7
<1> HIDE DEF f, u
<1>9. FlattenSeq(f) \in Seq(T) /\ Tiles(FlattenSeq(f), cs, (0 .. j - 1) \X R)
  <2> DEFINE C == (0 .. j - 1) \X R
             Cs == [b \in 1 .. q |-> quads[b] \X R]
  <2>1. \A b \in 1 .. q : Cs[b] = quads[b] \X R
    OBVIOUS
  <2> HIDE DEF Cs
  <2>2. \A b \in 1 .. q : Tiles(f[b], cs, Cs[b])
    BY <1>6, <2>1
  <2>3. \A b, c \in 1 .. q : b < c => Cs[b] \cap Cs[c] = {}
    BY <1>4, <2>1
  <2>4. \A b \in 1 .. q : Cs[b] \subseteq C
    BY <1>4, <2>1
  <2>5. \A e \in C : \E b \in 1 .. q : e \in Cs[b]
    <3> SUFFICES ASSUME NEW e \in C PROVE \E b \in 1 .. q : e \in Cs[b]
      OBVIOUS
    <3>1. e = <<e[1], e[2]>> /\ e[1] \in 0 .. j - 1 /\ e[2] \in R
      OBVIOUS
    <3>2. PICK b \in 1 .. q : e[1] \in quads[b]
      BY <1>4, <3>1
    <3>3. <<e[1], e[2]>> \in Cs[b]
      BY <2>1, <3>1, <3>2
    <3> QED
      BY <3>1, <3>3
  <2>6. q \in Int
    OBVIOUS
  <2> HIDE DEF C
  <2>7. FlattenSeq(f) \in Seq(T) /\ Tiles(FlattenSeq(f), cs, C)
    BY <1>8, <2>2, <2>3, <2>4, <2>5, <2>6, TilesLists
  <2> QED
    BY <2>7 DEF C
<1>10. FlattenSeq(u) \in Seq(T) /\ Tiles(FlattenSeq(u), cs, (j .. nTok - 1) \X R)
  <2> DEFINE C == (j .. nTok - 1) \X R
             Cs == [b \in 1 .. r |-> {ones[b]} \X R]
  <2>1. \A b \in 1 .. r : Cs[b] = {ones[b]} \X R
    OBVIOUS
  <2> HIDE DEF Cs
  <2>2. \A b \in 1 .. r : Tiles(u[b], cs, Cs[b])
    BY <1>7, <2>1
  <2>3. \A b, c \in 1 .. r : b < c => Cs[b] \cap Cs[c] = {}
    BY <1>5, <2>1
  <2>4. \A b \in 1 .. r : Cs[b] \subseteq C
    BY <1>5, <2>1
  <2>5. \A e \in C : \E b \in 1 .. r : e \in Cs[b]
    <3> SUFFICES ASSUME NEW e \in C PROVE \E b \in 1 .. r : e \in Cs[b]
      OBVIOUS
    <3>1. e = <<e[1], e[2]>> /\ e[1] \in j .. nTok - 1 /\ e[2] \in R
      OBVIOUS
    <3>2. PICK b \in 1 .. r : e[1] = ones[b]
      BY <1>5, <3>1
    <3>3. <<e[1], e[2]>> \in Cs[b]
      BY <2>1, <3>1, <3>2
    <3> QED
      BY <3>1, <3>3
  <2>6. r \in Int
    OBVIOUS
  <2> HIDE DEF C
  <2>7. FlattenSeq(u) \in Seq(T) /\ Tiles(FlattenSeq(u), cs, C)
    BY <1>8, <2>2, <2>3, <2>4, <2>5, <2>6, TilesLists
  <2> QED
    BY <2>7 DEF C
<1>11. /\ ((0 .. j - 1) \X R) \cap ((j .. nTok - 1) \X R) = {}
       /\ ((0 .. j - 1) \X R) \cup ((j .. nTok - 1) \X R) = (0 .. nTok - 1) \X R
  <2>1. /\ (0 .. j - 1) \cap (j .. nTok - 1) = {}
        /\ (0 .. j - 1) \cup (j .. nTok - 1) = 0 .. nTok - 1
    BY <1>3
  <2> QED
    BY <2>1
<1>12. /\ FlattenSeq(f) \o FlattenSeq(u) \in Seq(T)
       /\ Tiles(FlattenSeq(f) \o FlattenSeq(u), cs, (0 .. nTok - 1) \X R)
  BY <1>9, <1>10, <1>11, TilesConcat
<1> QED
  BY <1>1, <1>12 DEF T, cs, R

\* The outputs of a thread.
Slice(t, n, nOut) == RowSlice(t, n, nOut)[1] .. RowSlice(t, n, nOut)[2] - 1

\* linear_job computes its slice for all tokens.
LEMMA JobTiles ==
  ASSUME NEW n, NEW k, k.block \in Nat \ {0}, Ends(k, n),
         NEW p, p.nOut \in Nat, p.nTok \in Nat \ {0},
         NEW th \in Nat \ {0}, NEW t \in 0 .. th - 1
  PROVE  /\ LinearJob(k, p, t, th) \in Seq(Solid(n))
         /\ Tiles(LinearJob(k, p, t, th), CellSets(n),
                  (0 .. p.nTok - 1) \X Slice(t, th, p.nOut))
<1> DEFINE s == RowSlice(t, th, p.nOut)
           i0 == s[1]
           i1 == s[2]
<1>1. i0 \in Nat /\ i1 \in Nat /\ i0 <= i1
  BY SlicesApart
<1>2. LinearJob(k, p, t, th) = IF p.nTok > 1 THEN LinearRowsRange(k, p.nTok, i0, i1)
                               ELSE LinearRange(k, 0, i0, i1)
  BY DEF LinearJob
<1> DEFINE C == (0 .. p.nTok - 1) \X Slice(t, th, p.nOut)
<1>5. Slice(t, th, p.nOut) = i0 .. i1 - 1
  BY DEF Slice
<1> HIDE DEF i0, i1
<1>3. CASE p.nTok > 1
  <2>1. /\ LinearRowsRange(k, p.nTok, i0, i1) \in Seq(Solid(n))
        /\ Tiles(LinearRowsRange(k, p.nTok, i0, i1), CellSets(n),
                 (0 .. p.nTok - 1) \X (i0 .. i1 - 1))
    BY <1>1, RowsRangeTiles
  <2> QED
    BY <1>2, <1>3, <1>5, <2>1
<1>4. CASE ~(p.nTok > 1)
  <2>1. 0 .. p.nTok - 1 = {0}
    BY <1>4
  <2>2. /\ LinearRange(k, 0, i0, i1) \in Seq(Solid(n))
        /\ Tiles(LinearRange(k, 0, i0, i1), CellSets(n), {0} \X (i0 .. i1 - 1))
    BY <1>1, RangeTiles
  <2> QED
    BY <1>2, <1>4, <1>5, <2>1, <2>2
<1> QED
  BY <1>3, <1>4

\* The blocks of a row of qlinear_job.
TokenBlocks(f, u, nTok, o, many, one) ==
  /\ f = [b \in DOMAIN Blocks(0, nTok, 4) |->
            [cells |-> Blocks(0, nTok, 4)[b] \X {o}, strips |-> many]]
  /\ u = [b \in DOMAIN Rest(0, nTok, 4) |->
            [cells |-> {<<Rest(0, nTok, 4)[b], o>>}, strips |-> one]]

\* A row for all tokens, four at a time and the rest one by one.
LEMMA TokensTile ==
  ASSUME NEW n, NEW many, Whole(many, n), NEW one, Whole(one, n), NEW nTok \in Nat,
         NEW o \in Nat, NEW f, NEW u, TokenBlocks(f, u, nTok, o, many, one)
  PROVE  f \o u \in Seq(Solid(n)) /\ Tiles(f \o u, CellSets(n), (0 .. nTok - 1) \X {o})
<1> DEFINE quads == Blocks(0, nTok, 4)
           ones == Rest(0, nTok, 4)
           cs == CellSets(n)
<1>0. /\ f = [b \in DOMAIN quads |-> [cells |-> quads[b] \X {o}, strips |-> many]]
      /\ u = [b \in DOMAIN ones |-> [cells |-> {<<ones[b], o>>}, strips |-> one]]
  BY DEF TokenBlocks
<1>2. PICK j : LoopCut(0, nTok, 4, j)
  BY LoopIsCut
<1>3. j \in 0 .. nTok /\ j \in Nat
  BY <1>2 DEF LoopCut
<1>4. PICK q \in Nat :
        /\ DOMAIN quads = 1 .. q
        /\ \A b \in 1 .. q : quads[b] \subseteq 0 .. j - 1
        /\ \A i \in 0 .. j - 1 : \E b \in 1 .. q : i \in quads[b]
        /\ \A b, c \in 1 .. q : b < c => quads[b] \cap quads[c] = {}
  BY <1>2 DEF LoopCut
<1>5. PICK r \in Nat :
        /\ DOMAIN ones = 1 .. r
        /\ \A b \in 1 .. r : ones[b] \in j .. nTok - 1
        /\ \A i \in j .. nTok - 1 : \E b \in 1 .. r : i = ones[b]
        /\ \A b, c \in 1 .. r : b < c => ones[b] # ones[c]
  BY <1>2 DEF LoopCut
<1> HIDE DEF quads, ones, cs
<1>6. \A b \in 1 .. q : f[b] \in Solid(n) /\ cs[f[b]] = quads[b] \X {o}
  <2> SUFFICES ASSUME NEW b \in 1 .. q
               PROVE  f[b] \in Solid(n) /\ cs[f[b]] = quads[b] \X {o}
    OBVIOUS
  <2>1. quads[b] \X {o} \in SUBSET (Nat \X Nat)
    BY <1>3, <1>4
  <2>2. f[b] = [cells |-> quads[b] \X {o}, strips |-> many]
    BY <1>0, <1>4
  <2> DEFINE e == quads[b] \X {o}
  <2> HIDE DEF e
  <2>3. [cells |-> e, strips |-> many] \in Solid(n) /\ cs[[cells |-> e, strips |-> many]] = e
    BY <2>1, SolidBlock DEF cs, e
  <2> QED
    BY <2>2, <2>3 DEF e
<1>7. \A b \in 1 .. r : u[b] \in Solid(n) /\ cs[u[b]] = {<<ones[b], o>>}
  <2> SUFFICES ASSUME NEW b \in 1 .. r
               PROVE  u[b] \in Solid(n) /\ cs[u[b]] = {<<ones[b], o>>}
    OBVIOUS
  <2>1. {<<ones[b], o>>} \in SUBSET (Nat \X Nat)
    BY <1>3, <1>5
  <2>2. u[b] = [cells |-> {<<ones[b], o>>}, strips |-> one]
    BY <1>0, <1>5
  <2> DEFINE e == {<<ones[b], o>>}
  <2> HIDE DEF e
  <2>3. [cells |-> e, strips |-> one] \in Solid(n) /\ cs[[cells |-> e, strips |-> one]] = e
    BY <2>1, SolidBlock DEF cs, e
  <2> QED
    BY <2>2, <2>3 DEF e
<1>8. f \in [1 .. q -> Solid(n)] /\ u \in [1 .. r -> Solid(n)]
  BY <1>0, <1>4, <1>5, <1>6, <1>7
<1>9. f \in Seq(Solid(n)) /\ Tiles(f, cs, (0 .. j - 1) \X {o})
  <2> DEFINE C == (0 .. j - 1) \X {o}
  <2>1. \A b \in 1 .. q : cs[f[b]] \subseteq C
    BY <1>4, <1>6
  <2>2. \A e \in C : \E b \in 1 .. q : e \in cs[f[b]]
    BY <1>4, <1>6
  <2>3. \A b, c \in 1 .. q : b < c => cs[f[b]] \cap cs[f[c]] = {}
    BY <1>4, <1>6
  <2>4. q \in Int /\ f \in [1 .. q -> Solid(n)]
    BY <1>8
  <2> HIDE DEF C
  <2>5. f \in Seq(Solid(n)) /\ Tiles(f, cs, C)
    BY <2>1, <2>2, <2>3, <2>4, TilesList
  <2> QED
    BY <2>5 DEF C
<1>10. u \in Seq(Solid(n)) /\ Tiles(u, cs, (j .. nTok - 1) \X {o})
  <2> DEFINE C == (j .. nTok - 1) \X {o}
  <2>1. \A b \in 1 .. r : cs[u[b]] \subseteq C
    BY <1>5, <1>7
  <2>2. \A e \in C : \E b \in 1 .. r : e \in cs[u[b]]
    BY <1>5, <1>7
  <2>3. \A b, c \in 1 .. r : b < c => cs[u[b]] \cap cs[u[c]] = {}
    BY <1>5, <1>7
  <2>4. r \in Int /\ u \in [1 .. r -> Solid(n)]
    BY <1>8
  <2> HIDE DEF C
  <2>5. u \in Seq(Solid(n)) /\ Tiles(u, cs, C)
    BY <2>1, <2>2, <2>3, <2>4, TilesList
  <2> QED
    BY <2>5 DEF C
<1>11. /\ ((0 .. j - 1) \X {o}) \cap ((j .. nTok - 1) \X {o}) = {}
       /\ ((0 .. j - 1) \X {o}) \cup ((j .. nTok - 1) \X {o}) = (0 .. nTok - 1) \X {o}
  <2>1. /\ (0 .. j - 1) \cap (j .. nTok - 1) = {}
        /\ (0 .. j - 1) \cup (j .. nTok - 1) = 0 .. nTok - 1
    BY <1>3
  <2> QED
    BY <2>1
<1>12. f \o u \in Seq(Solid(n)) /\ Tiles(f \o u, cs, (0 .. nTok - 1) \X {o})
  BY <1>9, <1>10, <1>11, TilesConcat
<1> QED
  BY <1>12 DEF cs

\* qlinear_job computes its slice for all tokens.
LEMMA QuantTiles ==
  ASSUME NEW n, NEW k, Whole(k.wdot, n), Whole(k.wdots, n),
         NEW p, p.nOut \in Nat, p.nTok \in Nat, p.nIn % 32 = 0 => Whole(k.q8, n),
         NEW th \in Nat \ {0}, NEW t \in 0 .. th - 1
  PROVE  /\ QLinearJob(k, p, t, th) \in Seq(Solid(n))
         /\ Tiles(QLinearJob(k, p, t, th), CellSets(n),
                  (0 .. p.nTok - 1) \X Slice(t, th, p.nOut))
<1> DEFINE s == RowSlice(t, th, p.nOut)
           i0 == s[1]
           i1 == s[2]
           m == i1 - i0
           T == Solid(n)
           cs == CellSets(n)
           R == 0 .. p.nTok - 1
           q8 == p.type = "q8" /\ p.nIn % 32 = 0
           raw == q8 /\ (p.nTok = 1 \/ k.fused)
           one == IF raw THEN k.q8 ELSE k.wdot
           many == IF raw THEN k.q8 ELSE k.wdots
           quads == Blocks(0, p.nTok, 4)
           ones == Rest(0, p.nTok, 4)
           row(i) == [b \in DOMAIN quads |-> [cells |-> quads[b] \X {i}, strips |-> many]]
                     \o [b \in DOMAIN ones |-> [cells |-> {<<ones[b], i>>}, strips |-> one]]
           ss == [i \in 1 .. m |-> row(i0 + i - 1)]
           Cs == [i \in 1 .. m |-> R \X {i0 + i - 1}]
           C == R \X Slice(t, th, p.nOut)
<1>1. i0 \in Nat /\ i1 \in Nat /\ i0 <= i1
  BY SlicesApart
<1>2. QLinearJob(k, p, t, th) = FlattenSeq(ss)
  BY DEF QLinearJob
<1>3. Whole(one, n) /\ Whole(many, n)
  <2>1. raw => Whole(k.q8, n)
    OBVIOUS
  <2> QED
    BY <2>1
<1>4. Slice(t, th, p.nOut) = i0 .. i1 - 1
  BY DEF Slice
<1> HIDE DEF i0, i1, one, many, quads, ones
<1>5. m \in Int /\ \A i \in 1 .. m : i0 + i - 1 \in Nat /\ i0 + i - 1 \in i0 .. i1 - 1
  BY <1>1
<1>6. \A i \in 1 .. m : ss[i] \in Seq(T) /\ Tiles(ss[i], cs, Cs[i])
  <2> SUFFICES ASSUME NEW i \in 1 .. m PROVE ss[i] \in Seq(T) /\ Tiles(ss[i], cs, Cs[i])
    OBVIOUS
  <2> DEFINE o == i0 + i - 1
             f == [b \in DOMAIN quads |-> [cells |-> quads[b] \X {o}, strips |-> many]]
             u == [b \in DOMAIN ones |-> [cells |-> {<<ones[b], o>>}, strips |-> one]]
  <2>1. o \in Nat
    BY <1>5
  <2>2. ss[i] = f \o u /\ Cs[i] = R \X {o}
    OBVIOUS
  <2>3. TokenBlocks(f, u, p.nTok, o, many, one)
    BY DEF TokenBlocks, quads, ones
  <2> HIDE DEF o, f, u, ss, Cs
  <2>4. /\ f \o u \in Seq(Solid(n))
        /\ Tiles(f \o u, CellSets(n), (0 .. p.nTok - 1) \X {o})
    BY <1>3, <2>1, <2>3, TokensTile
  <2> QED
    BY <2>2, <2>4
<1>7. ss \in [1 .. m -> Seq(T)]
  BY <1>6
<1>8. \A i \in 1 .. m : Cs[i] = R \X {i0 + i - 1}
  OBVIOUS
<1> HIDE DEF ss, Cs, T, cs, R
<1>9. \A i, j \in 1 .. m : i < j => Cs[i] \cap Cs[j] = {}
  <2> SUFFICES ASSUME NEW i \in 1 .. m, NEW j \in 1 .. m, i < j PROVE Cs[i] \cap Cs[j] = {}
    OBVIOUS
  <2>1. i0 + i - 1 # i0 + j - 1
    BY <1>1
  <2> QED
    BY <1>8, <2>1
<1>10. \A i \in 1 .. m : Cs[i] \subseteq C
  <2> SUFFICES ASSUME NEW i \in 1 .. m PROVE Cs[i] \subseteq C
    OBVIOUS
  <2>1. Cs[i] = R \X {i0 + i - 1} /\ i0 + i - 1 \in Slice(t, th, p.nOut)
    BY <1>4, <1>5, <1>8
  <2> QED
    BY <2>1
<1>11. \A e \in C : \E i \in 1 .. m : e \in Cs[i]
  <2> SUFFICES ASSUME NEW e \in C PROVE \E i \in 1 .. m : e \in Cs[i]
    OBVIOUS
  <2> DEFINE o == e[2]
  <2>1. e = <<e[1], o>> /\ e[1] \in R /\ o \in i0 .. i1 - 1
    BY <1>4
  <2>2. (o - i0) + 1 \in 1 .. m /\ i0 + ((o - i0) + 1) - 1 = o
    BY <1>1, <2>1
  <2>3. Cs[(o - i0) + 1] = R \X {i0 + ((o - i0) + 1) - 1}
    BY <1>8, <2>2
  <2>4. e \in Cs[(o - i0) + 1]
    BY <2>1, <2>2, <2>3
  <2> QED
    BY <2>2, <2>4
<1>12. \A i \in 1 .. m : Tiles(ss[i], cs, Cs[i])
  BY <1>6
<1>13. m \in Int
  BY <1>5
<1> HIDE DEF m, C
<1>14. FlattenSeq(ss) \in Seq(T) /\ Tiles(FlattenSeq(ss), cs, C)
  BY <1>7, <1>9, <1>10, <1>11, <1>12, <1>13, TilesLists
<1> QED
  BY <1>2, <1>14 DEF T, cs, R, C

\* The plain kernel computes everything.
LEMMA PlainTiles ==
  ASSUME NEW n, NEW p, p.nOut \in Nat, p.nTok \in Nat
  PROVE  /\ PlainJob(p) \in Seq(Solid(n))
         /\ Tiles(PlainJob(p), CellSets(n), (0 .. p.nTok - 1) \X (0 .. p.nOut - 1))
<1> DEFINE nOut == p.nOut
           nTok == p.nTok
           m == nTok * nOut
           one(i) == <<i \div nOut, i % nOut>>
           f == [i \in 1 .. m |-> [cells |-> {one(i - 1)}, strips |-> PlainDot]]
           cs == CellSets(n)
           C == (0 .. nTok - 1) \X (0 .. nOut - 1)
<1>1. PlainJob(p) = f
  BY DEF PlainJob
<1>2. nOut \in Nat /\ nTok \in Nat /\ m \in Nat
  OBVIOUS
<1> HIDE DEF nOut, nTok
<1>0. m = nOut * nTok
  BY <1>2
<1> HIDE DEF m
<1>3. \A i \in 0 .. m - 1 : /\ nOut \in Nat \ {0} /\ i \div nOut \in 0 .. nTok - 1
                            /\ i % nOut \in 0 .. nOut - 1
  <2> SUFFICES ASSUME NEW i \in 0 .. m - 1
               PROVE  /\ nOut \in Nat \ {0} /\ i \div nOut \in 0 .. nTok - 1
                      /\ i % nOut \in 0 .. nOut - 1
    OBVIOUS
  <2>1. nOut # 0
    <3>1. CASE nOut = 0
      BY <1>0, <1>2, <3>1
    <3> QED
      BY <3>1
  <2>0. i \in Nat /\ i < m
    BY <1>2
  <2> DEFINE a == i \div nOut
             r == i % nOut
  <2>2. a \in Nat /\ r \in 0 .. nOut - 1 /\ i = nOut * a + r
    BY <1>2, <2>0, <2>1, DivisionType, DivisionSum
  <2> HIDE DEF a, r
  <2>3. a < nTok
    <3>1. CASE nTok <= a
      <4>1. nOut * nTok \in Nat /\ nOut * nTok <= nOut * a /\ nOut * a \in Nat
        BY <1>2, <2>2, <3>1, TimesMonotone
      <4> QED
        BY <1>0, <2>0, <2>2, <4>1
    <3> QED
      BY <1>2, <2>2, <3>1
  <2> QED
    BY <1>2, <2>1, <2>2, <2>3 DEF a, r
<1> HIDE DEF cs
<1>4. \A i \in 1 .. m : /\ f[i] \in Solid(n) /\ cs[f[i]] = {one(i - 1)}
                        /\ one(i - 1) \in C
  <2> SUFFICES ASSUME NEW i \in 1 .. m
               PROVE  f[i] \in Solid(n) /\ cs[f[i]] = {one(i - 1)} /\ one(i - 1) \in C
    OBVIOUS
  <2>1. i - 1 \in 0 .. m - 1
    BY <1>2
  <2>2. (i - 1) \div nOut \in 0 .. nTok - 1 /\ (i - 1) % nOut \in 0 .. nOut - 1
    BY <1>3, <2>1
  <2> DEFINE e == one(i - 1)
  <2>3. e \in C /\ e \in Nat \X Nat
    BY <1>2, <2>2
  <2>4. f[i] = [cells |-> {e}, strips |-> PlainDot]
    OBVIOUS
  <2>5. Whole(PlainDot, n)
    BY DEF Whole, PlainDot
  <2> DEFINE s == {e}
  <2>6. s \in SUBSET (Nat \X Nat)
    BY <2>3
  <2> HIDE DEF e, f, C, s
  <2>7. /\ [cells |-> s, strips |-> PlainDot] \in Solid(n)
        /\ cs[[cells |-> s, strips |-> PlainDot]] = s
    BY <2>5, <2>6, SolidBlock DEF cs
  <2> QED
    BY <2>3, <2>4, <2>7 DEF s, e
<1>5. f \in [1 .. m -> Solid(n)]
  BY <1>4
<1>6. \A i \in 1 .. m : cs[f[i]] \subseteq C
  <2> HIDE DEF f, one, C
  <2> QED
    BY <1>4
<1>7. \A e \in C : \E i \in 1 .. m : e \in cs[f[i]]
  <2> SUFFICES ASSUME NEW e \in C PROVE \E i \in 1 .. m : e \in cs[f[i]]
    OBVIOUS
  <2> DEFINE t == e[1]
             o == e[2]
             i == t * nOut + o
  <2>1. e = <<t, o>> /\ t \in 0 .. nTok - 1 /\ o \in 0 .. nOut - 1
    OBVIOUS
  <2> HIDE DEF t, o
  <2>2. nOut \in Nat \ {0} /\ t \in Nat /\ o \in Nat /\ t + 1 <= nTok
    BY <1>2, <2>1
  <2>3. /\ nOut * (t + 1) <= nOut * nTok /\ nOut * t \in Nat
        /\ nOut * (t + 1) = nOut * t + nOut /\ nOut * nTok = m /\ t * nOut = nOut * t
    BY <1>0, <1>2, <2>2, TimesMonotone
  <2>4. i \in 0 .. m - 1 /\ i + 1 \in 1 .. m /\ (i + 1) - 1 = i
    BY <1>2, <2>1, <2>2, <2>3
  <2>5. i \div nOut = t /\ i % nOut = o
    <3>1. /\ i \div nOut \in Nat /\ i % nOut \in 0 .. nOut - 1
          /\ i = nOut * (i \div nOut) + (i % nOut)
      <4>1. i \in Nat
        BY <1>2, <2>4
      <4> HIDE DEF i
      <4> QED
        BY <2>2, <4>1, DivisionType, DivisionSum
    <3> DEFINE a == i \div nOut
               r == i % nOut
    <3>2. a \in Nat /\ r \in 0 .. nOut - 1 /\ o + t * nOut = r + a * nOut
      BY <2>2, <2>3, <3>1
    <3> HIDE DEF a, r, i
    <3>3. t = a /\ o = r
      BY <2>1, <2>2, <3>2, RowAndPlace
    <3> QED
      BY <3>3 DEF a, r
  <2> HIDE DEF i
  <2>6. cs[f[i + 1]] = {one(i)}
    <3> HIDE DEF f
    <3> QED
      BY <1>4, <2>4
  <2>7. one(i) = e
    BY <2>1, <2>5
  <2> HIDE DEF f
  <2> QED
    BY <2>4, <2>6, <2>7
<1>8. \A i, j \in 1 .. m : i < j => cs[f[i]] \cap cs[f[j]] = {}
  <2> SUFFICES ASSUME NEW i \in 1 .. m, NEW j \in 1 .. m, i < j
               PROVE  cs[f[i]] \cap cs[f[j]] = {}
    OBVIOUS
  <2>1. i - 1 \in 0 .. m - 1 /\ j - 1 \in 0 .. m - 1 /\ i - 1 \in Nat /\ j - 1 \in Nat
    BY <1>2
  <2>2. nOut \in Nat \ {0}
    BY <1>3, <2>1
  <2>3. one(i - 1) # one(j - 1)
    <3>1. CASE (i - 1) \div nOut = (j - 1) \div nOut /\ (i - 1) % nOut = (j - 1) % nOut
      <4>1. i - 1 = j - 1
        BY <2>1, <2>2, <3>1, DivisionUnique
      <4> QED
        BY <1>2, <4>1
    <3> QED
      BY <3>1
  <2>4. cs[f[i]] = {one(i - 1)} /\ cs[f[j]] = {one(j - 1)}
    BY <1>4
  <2> HIDE DEF one
  <2> QED
    BY <2>3, <2>4
<1> HIDE DEF f, C
<1>9. m \in Int
  BY <1>2
<1>10. f \in Seq(Solid(n)) /\ Tiles(f, cs, C)
  BY <1>5, <1>6, <1>7, <1>8, <1>9, TilesList
<1> QED
  BY <1>1, <1>10 DEF cs, C, nOut, nTok, m

\* Every output is of a thread.
LEMMA SlicesCover ==
  ASSUME NEW th \in Nat \ {0}, NEW nOut \in Nat, NEW o \in 0 .. nOut - 1
  PROVE  \E t \in 0 .. th - 1 : o \in Slice(t, th, nOut)
<1> DEFINE n == Max({1, Min({th, nOut})})
           T == {t \in Nat : o < (nOut * (t + 1)) \div n}
<1>1. n \in Nat \ {0} /\ n <= th
  <2> DEFINE a == Min({th, nOut})
  <2>1. a \in Int /\ 1 \in Int /\ a <= th /\ a \in {th, nOut}
    BY LesserGreater
  <2> HIDE DEF a
  <2>2. Max({1, a}) \in {1, a} /\ Max({1, a}) >= 1
    BY <2>1, LesserGreater
  <2> QED
    BY <2>1, <2>2 DEF a
<1> HIDE DEF n
<1>2. \A k \in Nat : nOut * k \in Nat /\ (nOut * k) \div n \in Nat
  <2> SUFFICES ASSUME NEW k \in Nat PROVE nOut * k \in Nat /\ (nOut * k) \div n \in Nat
    OBVIOUS
  <2>1. nOut * k \in Nat
    OBVIOUS
  <2> QED
    BY <1>1, <2>1, DivisionType
<1>3. n - 1 \in T
  <2>1. n - 1 \in Nat /\ (n - 1) + 1 = n
    BY <1>1
  <2>2. (nOut * n) \div n = nOut
    BY <1>1
  <2> QED
    BY <2>1, <2>2
<1>4. PICK t \in T : \A m \in T : t <= m
  <2>1. T \in SUBSET Nat /\ T # {}
    BY <1>3
  <2> HIDE DEF T
  <2> QED
    BY <2>1, LeastElement
<1>5. t \in Nat /\ o < (nOut * (t + 1)) \div n /\ t <= n - 1
  BY <1>3, <1>4
<1>6. (nOut * t) \div n <= o
  <2>1. CASE t = 0
    <3>1. nOut * t = 0
      BY <2>1
    <3>2. 0 \div n = 0
      BY <1>1
    <3> DEFINE k == nOut * t
    <3>3. k = 0
      BY <3>1
    <3> HIDE DEF k
    <3>4. k \div n <= o
      BY <3>2, <3>3
    <3> QED
      BY <3>4 DEF k
  <2>2. CASE t # 0
    <3>1. t - 1 \in Nat /\ (t - 1) + 1 = t /\ ~(t <= t - 1)
      BY <1>5, <2>2
    <3>2. t - 1 \notin T
      BY <1>4, <3>1
    <3>3. ~(o < (nOut * t) \div n)
      BY <3>1, <3>2
    <3> DEFINE k == (nOut * t) \div n
    <3>4. k \in Nat /\ ~(o < k) /\ o \in Nat
      BY <1>2, <1>5, <3>3
    <3> HIDE DEF k
    <3>5. k <= o
      BY <3>4
    <3> QED
      BY <3>5 DEF k
  <2> QED
    BY <2>1, <2>2
<1>7. t \in 0 .. th - 1 /\ ~(t >= n)
  BY <1>1, <1>5
<1>8. RowSlice(t, th, nOut) = <<(nOut * t) \div n, (nOut * (t + 1)) \div n>>
  BY <1>7 DEF RowSlice, n
<1> DEFINE lo == (nOut * t) \div n
           hi == (nOut * (t + 1)) \div n
<1>9. lo \in Nat /\ hi \in Nat
  <2>1. t + 1 \in Nat
    BY <1>5
  <2> QED
    BY <1>2, <1>5, <2>1
<1>10. Slice(t, th, nOut) = lo .. hi - 1
  BY <1>8 DEF Slice
<1>11. lo <= o /\ o < hi
  BY <1>5, <1>6
<1> HIDE DEF lo, hi, T
<1>12. o \in Slice(t, th, nOut)
  BY <1>9, <1>10, <1>11
<1> QED
  BY <1>7, <1>12

-----------------------------------------------------------------------------
(* What the threads are given adds up to the product.                      *)

\* The blocks of a thread are cells of C, each once, with what v says of them.
Parts(s, C, v) ==
  /\ \A k \in DOMAIN s : \A c \in DOMAIN s[k] : c \in C /\ s[k][c] = v[c]
  /\ \A j, k \in DOMAIN s : j # k => DOMAIN s[j] \cap DOMAIN s[k] = {}

\* The threads have all cells of C.
Dealt(w, C, v) ==
  /\ \A t \in DOMAIN w : Parts(w[t], C, v)
  /\ \A c \in C : \E t \in DOMAIN w : c \in CellsOf(w[t])

\* The sizes and numbers of a product, and its cells.
IsProduct(p) ==
  /\ p.nOut \in Nat /\ p.nTok \in Nat \ {0} /\ p.nIn \in Nat
  /\ \A o \in 0 .. p.nOut - 1, t \in 0 .. p.nTok - 1 : Vectors(p.w[o], p.x[t], p.nIn)
CellsIn(p) == (0 .. p.nTok - 1) \X (0 .. p.nOut - 1)
Dots(p) == [c \in CellsIn(p) |-> DotRange(p.w[c[2]], p.x[c[1]], 0, p.nIn)]

\* The sums of a thread's blocks.
SumsOf(p, b) == [i \in DOMAIN b |-> Sums(p, b[i])]

\* The sums of blocks that tile some cells.
LEMMA SumsOfTiles ==
  ASSUME NEW p, IsProduct(p), NEW D \in SUBSET CellsIn(p), NEW b \in Seq(Solid(p.nIn)),
         Tiles(b, CellSets(p.nIn), D)
  PROVE  Parts(SumsOf(p, b), CellsIn(p), Dots(p)) /\ D \subseteq CellsOf(SumsOf(p, b))
<1> DEFINE s == SumsOf(p, b)
<1> DEFINE cs == CellSets(p.nIn)
           n == Len(b)
<1>1. n \in Nat /\ DOMAIN b = 1 .. n /\ \A i \in 1 .. n : b[i] \in Solid(p.nIn)
  BY LenProperties, ElementOfSeq
<1>2. \A i \in 1 .. n : cs[b[i]] = b[i].cells
  BY <1>1 DEF CellSets
<1>3. /\ \A i \in 1 .. n : cs[b[i]] \subseteq D
      /\ \A e \in D : \E i \in 1 .. n : e \in cs[b[i]]
      /\ \A i, j \in 1 .. n : i # j => cs[b[i]] \cap cs[b[j]] = {}
  BY DEF Tiles
<1>4. DOMAIN s = 1 .. n /\ \A i \in 1 .. n : s[i] = Sums(p, b[i])
  BY <1>1 DEF SumsOf
<1> HIDE DEF n, cs, s
<1>5. \A i \in 1 .. n : DOMAIN s[i] = cs[b[i]]
  <2> SUFFICES ASSUME NEW i \in 1 .. n PROVE DOMAIN s[i] = cs[b[i]]
    OBVIOUS
  <2>1. DOMAIN Sums(p, b[i]) = b[i].cells
    BY DEF Sums
  <2> QED
    BY <1>2, <1>4, <2>1
<1>6. ASSUME NEW i \in 1 .. n, NEW c \in DOMAIN s[i]
      PROVE  c \in CellsIn(p) /\ s[i][c] = Dots(p)[c]
  <2>1. c \in D /\ c \in b[i].cells
    BY <1>2, <1>3, <1>5
  <2>2. c \in CellsIn(p)
    BY <2>1
  <2> DEFINE o == c[2]
             t == c[1]
             widths == b[i].strips
  <2>3. o \in 0 .. p.nOut - 1 /\ t \in 0 .. p.nTok - 1
    BY <2>2 DEF CellsIn
  <2>4. Vectors(p.w[o], p.x[t], p.nIn) /\ p.nIn \in Nat
    BY <2>3 DEF IsProduct
  <2>5. Whole(widths, p.nIn)
    BY <1>1 DEF Solid
  <2>6. Sums(p, b[i])[c] = StripDot(widths, p.w[o], p.x[t], p.nIn)
    BY <2>1 DEF Sums
  <2>7. Dots(p)[c] = DotRange(p.w[o], p.x[t], 0, p.nIn)
    BY <2>2 DEF Dots
  <2> HIDE DEF o, t, widths
  <2>8. StripDot(widths, p.w[o], p.x[t], p.nIn) = DotRange(p.w[o], p.x[t], 0, p.nIn)
    BY <2>4, <2>5, StripsAreDot
  <2> QED
    BY <1>4, <2>2, <2>6, <2>7, <2>8
<1>7. \A i, j \in 1 .. n : i # j => DOMAIN s[i] \cap DOMAIN s[j] = {}
  BY <1>3, <1>5
<1>8. D \subseteq CellsOf(s)
  BY <1>3, <1>4, <1>5 DEF CellsOf
<1> QED
  BY <1>4, <1>6, <1>7, <1>8 DEF Parts, s

\* The strips of the kernels come to the end.
LEMMA KernelStrips ==
  ASSUME NEW n \in Nat
  PROVE  /\ Ends(Kernel, n) /\ Whole(Kernel.wdot, n) /\ Whole(Kernel.wdots, n)
         /\ n % 32 = 0 => Whole(Kernel.q8, n)
<1>1. /\ Whole(<<16, 8, 1>>, n) /\ Whole(<<8, 1>>, n) /\ Whole(<<16, 4, 1>>, n)
      /\ Whole(<<1>>, n)
  BY DEF Whole
<1>2. n % 32 = 0 => Whole(<<32>>, n)
  BY DEF Whole
<1>3. /\ Ends(X86, n) /\ Whole(X86.wdot, n) /\ Whole(X86.wdots, n)
      /\ n % 32 = 0 => Whole(X86.q8, n)
  <2>1. /\ X86.rows = <<16, 8, 1>> /\ X86.dot = <<16, 8, 1>> /\ X86.tokens = <<8, 1>>
        /\ X86.wdot = <<16, 8, 1>> /\ X86.wdots = <<8, 1>> /\ X86.q8 = <<32>>
    BY DEF X86, X86Dot, X86Rows, X86Tokens, X86WeightDot, X86WeightDots4, X86Q8
  <2> QED
    BY <1>1, <1>2, <2>1 DEF Ends
<1>4. /\ Ends(Arm, n) /\ Whole(Arm.wdot, n) /\ Whole(Arm.wdots, n)
      /\ n % 32 = 0 => Whole(Arm.q8, n)
  <2>1. /\ Arm.rows = <<8, 1>> /\ Arm.dot = <<16, 4, 1>> /\ Arm.tokens = <<16, 8, 1>>
        /\ Arm.wdot = <<16, 4, 1>> /\ Arm.wdots = <<16, 8, 1>> /\ Arm.q8 = <<32>>
    BY DEF Arm, ArmDot, ArmRows, ArmTokens, ArmWeightDot, ArmWeightDots4, ArmQ8
  <2> QED
    BY <1>1, <1>2, <2>1 DEF Ends
<1>5. /\ Ends(Plain, n) /\ Whole(Plain.wdot, n) /\ Whole(Plain.wdots, n)
      /\ n % 32 = 0 => Whole(Plain.q8, n)
  <2>1. /\ Plain.rows = <<1>> /\ Plain.dot = <<1>> /\ Plain.tokens = <<1>>
        /\ Plain.wdot = <<1>> /\ Plain.wdots = <<1>> /\ Plain.q8 = <<32>>
    BY DEF Plain, PlainDot, PlainQ8
  <2> QED
    BY <1>1, <1>2, <2>1 DEF Ends
<1>6. Kernel \in {X86, Arm, Plain}
  BY DEF Kernel
<1> QED
  BY <1>3, <1>4, <1>5, <1>6

\* The host's threads have the whole product.
LEMMA CpuDealt ==
  ASSUME NEW p, IsProduct(p), NEW quant, conf.threads \in Nat \ {0}, CpuJob(p, quant)
  PROVE  Dealt(work', CellsIn(p), Dots(p))
<1> DEFINE n == IF conf.backend = "plain" THEN 1 ELSE conf.threads
           b(t) == IF quant THEN QLinearJob(Kernel, p, t, n)
                   ELSE IF conf.backend = "plain" THEN PlainJob(p) ELSE LinearJob(Kernel, p, t, n)
           sums(t) == [i \in DOMAIN b(t) |-> Sums(p, b(t)[i])]
           D(t) == IF ~quant /\ conf.backend = "plain" THEN CellsIn(p)
                   ELSE (0 .. p.nTok - 1) \X Slice(t, n, p.nOut)
<1>1. work' = [t \in 0 .. n - 1 |-> sums(t)]
  BY DEF CpuJob, StartPool
<1>2. n \in Nat \ {0} /\ (conf.backend = "plain" => n = 1)
  OBVIOUS
<1>3. p.nOut \in Nat /\ p.nTok \in Nat \ {0} /\ p.nIn \in Nat
  BY DEF IsProduct
<1>4. ASSUME NEW t \in 0 .. n - 1
      PROVE  /\ b(t) \in Seq(Solid(p.nIn)) /\ Tiles(b(t), CellSets(p.nIn), D(t))
             /\ D(t) \in SUBSET CellsIn(p)
  <2> HIDE DEF n
  <2> DEFINE E == (0 .. p.nTok - 1) \X Slice(t, n, p.nOut)
  <2>1. /\ QLinearJob(Kernel, p, t, n) \in Seq(Solid(p.nIn))
        /\ Tiles(QLinearJob(Kernel, p, t, n), CellSets(p.nIn), E)
    BY <1>2, <1>3, KernelStrips, QuantTiles
  <2>2. /\ LinearJob(Kernel, p, t, n) \in Seq(Solid(p.nIn))
        /\ Tiles(LinearJob(Kernel, p, t, n), CellSets(p.nIn), E)
    BY <1>2, <1>3, KernelStrips, KernelBlock, JobTiles
  <2>3. /\ PlainJob(p) \in Seq(Solid(p.nIn))
        /\ Tiles(PlainJob(p), CellSets(p.nIn), CellsIn(p))
    BY <1>3, PlainTiles DEF CellsIn
  <2>4. E \in SUBSET CellsIn(p)
    <3>1. Slice(t, n, p.nOut) \subseteq 0 .. p.nOut - 1
      <4> DEFINE s == RowSlice(t, n, p.nOut)
      <4>1. s[1] \in Nat /\ s[2] \in Nat /\ s[2] <= p.nOut
        BY <1>2, <1>3, SlicesApart
      <4> HIDE DEF s
      <4> QED
        BY <1>3, <4>1 DEF Slice, s
    <3> QED
      BY <3>1 DEF CellsIn
  <2> HIDE DEF E
  <2>5. CASE quant
    BY <2>1, <2>4, <2>5 DEF E
  <2>6. CASE ~quant /\ conf.backend = "plain"
    BY <2>3, <2>6
  <2>7. CASE ~quant /\ conf.backend # "plain"
    BY <2>2, <2>4, <2>7 DEF E
  <2> QED
    BY <2>5, <2>6, <2>7
<1>5. \A c \in CellsIn(p) : \E t \in 0 .. n - 1 : c \in D(t)
  <2> SUFFICES ASSUME NEW c \in CellsIn(p) PROVE \E t \in 0 .. n - 1 : c \in D(t)
    OBVIOUS
  <2> DEFINE o == c[2]
  <2>1. c = <<c[1], o>> /\ c[1] \in 0 .. p.nTok - 1 /\ o \in 0 .. p.nOut - 1
    BY DEF CellsIn
  <2> HIDE DEF n, o
  <2>2. PICK t \in 0 .. n - 1 : o \in Slice(t, n, p.nOut)
    BY <1>2, <1>3, <2>1, SlicesCover
  <2>3. c \in (0 .. p.nTok - 1) \X Slice(t, n, p.nOut)
    BY <2>1, <2>2
  <2> QED
    BY <2>2, <2>3
<1>6. ASSUME NEW t \in 0 .. n - 1
      PROVE  Parts(sums(t), CellsIn(p), Dots(p)) /\ D(t) \subseteq CellsOf(sums(t))
  <2> DEFINE c == b(t)
             E == D(t)
             s == sums(t)
  <2>1. c \in Seq(Solid(p.nIn)) /\ Tiles(c, CellSets(p.nIn), E) /\ E \in SUBSET CellsIn(p)
    BY <1>4
  <2>2. s = SumsOf(p, c)
    BY DEF SumsOf
  <2> HIDE DEF c, E, s
  <2>3. Parts(SumsOf(p, c), CellsIn(p), Dots(p)) /\ E \subseteq CellsOf(SumsOf(p, c))
    BY <2>1, SumsOfTiles
  <2> QED
    BY <2>2, <2>3 DEF E, s
<1> HIDE DEF D, sums, n
<1>7. DOMAIN work' = 0 .. n - 1 /\ \A t \in 0 .. n - 1 : work'[t] = sums(t)
  BY <1>1
<1> QED
  BY <1>5, <1>6, <1>7 DEF Dealt

-----------------------------------------------------------------------------
(* A run of the pool.                                                      *)

\* The product of the call, its cells, and what a cell of y gets.
Job == Product(call.m, call.n, call.nTok)
Area == CellsIn(Job)
Added(c) == Dots(Job)[c] + IF call.acc THEN y0[At(c)] ELSE 0
Opened(c) == \E t \in DOMAIN work : c \in CellsOf(work[t])

\* The blocks that are left are right; a cell that has still to be computed
\* has its old value if that is added to, the others have the new one; what a
\* thread has loaded and added up is right; nothing else of y is written.
BlocksRight == \A t \in DOMAIN work : Parts(work[t], Area, Dots(Job))
CellsRight ==
  \A c \in Area : At(c) \in Cells =>
    /\ Opened(c) /\ call.acc => Target[At(c)] = y0[At(c)]
    /\ ~Opened(c) => Target[At(c)] = Added(c)
HeldRight ==
  \A t \in DOMAIN work : held[t] # <<>> =>
    /\ DOMAIN held[t] = DOMAIN Head(work[t])
    /\ \A c \in DOMAIN held[t] : At(c) \in Cells => held[t][c] = Added(c)
RestKept ==
  /\ call.ph = "remote" => call.nTok = 1
  /\ \A i \in Cells : call.ph = "remote" \/ i >= call.nTok * mat.nOut => y[i] = y0[i]
PoolRight == AtWork => BlocksRight /\ CellsRight /\ HeldRight /\ RestKept

\* The place of a cell in y.
LEMMA CellPlace ==
  ASSUME NEW nTok \in Nat, NEW nOut \in Nat,
         NEW t \in 0 .. nTok - 1, NEW o \in 0 .. nOut - 1
  PROVE  /\ t * nOut + o \in 0 .. nTok * nOut - 1
         /\ \A u \in 0 .. nTok - 1, q \in 0 .. nOut - 1 :
              u * nOut + q = t * nOut + o => u = t /\ q = o
<1>1. nOut \in Nat \ {0} /\ t \in Nat /\ t + 1 \in Nat /\ t + 1 <= nTok
  OBVIOUS
<1>2. nOut * (t + 1) <= nOut * nTok /\ nOut * t \in Nat /\ nOut * nTok \in Nat
  BY <1>1, TimesMonotone
<1>3. t * nOut + o \in 0 .. nTok * nOut - 1
  <2>1. nOut * (t + 1) = t * nOut + nOut /\ nOut * nTok = nTok * nOut /\ t * nOut = nOut * t
    BY <1>1
  <2> DEFINE a == t * nOut
             b == nTok * nOut
  <2>2. a \in Nat /\ b \in Nat /\ a + nOut <= b
    BY <1>2, <2>1
  <2> HIDE DEF a, b
  <2>3. a + o \in 0 .. b - 1
    BY <2>2
  <2> QED
    BY <2>3 DEF a, b
<1>4. ASSUME NEW u \in 0 .. nTok - 1, NEW q \in 0 .. nOut - 1,
             u * nOut + q = t * nOut + o
      PROVE  u = t /\ q = o
  <2>1. u \in Nat /\ u * nOut \in Nat /\ t * nOut \in Nat
    OBVIOUS
  <2>2. q + u * nOut = o + t * nOut
    BY <1>4, <2>1
  <2> QED
    BY <1>1, <2>1, <2>2, RowAndPlace
<1> QED
  BY <1>3, <1>4

\* A place below nTok * nOut is that of a cell.
LEMMA PlaceCell ==
  ASSUME NEW nTok \in Nat, NEW nOut \in Nat, NEW i \in 0 .. nTok * nOut - 1
  PROVE  /\ i \div nOut \in 0 .. nTok - 1 /\ i % nOut \in 0 .. nOut - 1
         /\ (i \div nOut) * nOut + (i % nOut) = i
<1>1. nOut # 0
  <2>1. ASSUME nOut = 0 PROVE FALSE
    BY <2>1
  <2> QED
    BY <2>1
<1>2. nOut \in Nat \ {0} /\ i \in Nat /\ nTok * nOut \in Nat /\ i < nTok * nOut
  BY <1>1
<1> DEFINE t == i \div nOut
           o == i % nOut
<1>3. t \in Nat /\ o \in 0 .. nOut - 1 /\ i = nOut * t + o
  BY <1>2, DivisionType, DivisionSum
<1> HIDE DEF t, o
<1>4. t < nTok
  <2> SUFFICES ASSUME ~(t < nTok) PROVE FALSE
    OBVIOUS
  <2>1. nOut * nTok <= nOut * t /\ nOut * t \in Nat
    BY <1>2, <1>3, TimesMonotone
  <2>2. nOut * nTok = nTok * nOut
    OBVIOUS
  <2> QED
    BY <1>2, <1>3, <2>1, <2>2
<1>5. t * nOut = nOut * t
  BY <1>2, <1>3
<1> QED
  BY <1>3, <1>4, <1>5 DEF t, o

\* The call's product has sizes and numbers.
LEMMA JobFacts ==
  ASSUME CallInv, DeviceInv, call.ph # "idle"
  PROVE  /\ IsProduct(Job) /\ mat.nOut \in Nat /\ mat.nIn \in Nat /\ call.nTok \in Nat \ {0}
         /\ Area = (0 .. call.nTok - 1) \X (0 .. mat.nOut - 1)
         /\ \A c \in Area : /\ Vectors(W[call.m][c[2]], X[call.n][c[1]], mat.nIn)
                            /\ Dots(Job)[c]
                                 = DotRange(W[call.m][c[2]], X[call.n][c[1]], 0, mat.nIn)
<1>1. call.m \in Mats /\ call.n \in 1 .. MaxCalls /\ call.nTok \in Tokens
  BY DEF CallInv, DeviceInv
<1>2. mat.nOut \in Nat /\ mat.nIn \in Nat /\ call.nTok \in Nat \ {0}
  BY <1>1, LinearAssumption DEF mat
<1>3. \A o \in 0 .. mat.nOut - 1, t \in 0 .. call.nTok - 1 :
        Vectors(W[call.m][o], X[call.n][t], mat.nIn)
  <2> SUFFICES ASSUME NEW o \in 0 .. mat.nOut - 1, NEW t \in 0 .. call.nTok - 1,
                      NEW i \in 0 .. mat.nIn - 1
               PROVE  W[call.m][o][i] \in Int /\ X[call.n][t][i] \in Int
    BY DEF Vectors
  <2>1. W[call.m][o][i] \in Int
    BY <1>1, LinearAssumption DEF mat
  <2>2. X[call.n][t][i] \in Int
    BY <1>1, LinearAssumption DEF mat
  <2> QED
    BY <2>1, <2>2
<1>4. /\ Job.w = W[call.m] /\ Job.x = X[call.n] /\ Job.nTok = call.nTok
      /\ Job.nOut = mat.nOut /\ Job.nIn = mat.nIn
  BY DEF Job, Product, mat
<1>5. IsProduct(Job)
  BY <1>2, <1>3, <1>4 DEF IsProduct
<1>6. Area = (0 .. call.nTok - 1) \X (0 .. mat.nOut - 1)
  BY <1>4 DEF Area, CellsIn
<1>7. ASSUME NEW c \in Area
      PROVE  /\ Vectors(W[call.m][c[2]], X[call.n][c[1]], mat.nIn)
             /\ Dots(Job)[c] = DotRange(W[call.m][c[2]], X[call.n][c[1]], 0, mat.nIn)
  <2>1. c[2] \in 0 .. mat.nOut - 1 /\ c[1] \in 0 .. call.nTok - 1
    BY <1>6
  <2>2. Dots(Job)[c] = DotRange(Job.w[c[2]], Job.x[c[1]], 0, Job.nIn)
    BY DEF Dots, Area
  <2> QED
    BY <1>3, <1>4, <2>1, <2>2
<1> QED
  BY <1>2, <1>5, <1>6, <1>7

\* Cells of the product do not share a place.
LEMMA PlacesDiffer ==
  ASSUME CallInv, DeviceInv, call.ph # "idle", NEW c \in Area, NEW e \in Area, At(c) = At(e)
  PROVE  c = e
<1>1. /\ mat.nOut \in Nat /\ call.nTok \in Nat
      /\ Area = (0 .. call.nTok - 1) \X (0 .. mat.nOut - 1)
  BY JobFacts
<1>2. /\ c[1] \in 0 .. call.nTok - 1 /\ c[2] \in 0 .. mat.nOut - 1 /\ c = <<c[1], c[2]>>
      /\ e[1] \in 0 .. call.nTok - 1 /\ e[2] \in 0 .. mat.nOut - 1 /\ e = <<e[1], e[2]>>
  BY <1>1
<1>3. c[1] * mat.nOut + c[2] = e[1] * mat.nOut + e[2]
  BY DEF At
<1>4. c[1] = e[1] /\ c[2] = e[2]
  BY <1>1, <1>2, <1>3, CellPlace
<1> QED
  BY <1>2, <1>4

\* A run begins with nothing added.
LEMMA PoolBegins ==
  ASSUME Dealt(work', Area', Dots(Job)'), \A t \in DOMAIN work' : held'[t] = <<>>,
         AtWork' => RestKept',
         AtWork' => \A c \in Area' : At(c)' \in Cells /\ call'.acc => Target'[At(c)'] = y0'[At(c)']
  PROVE  PoolRight'
<1> SUFFICES ASSUME AtWork' PROVE (BlocksRight /\ CellsRight /\ HeldRight /\ RestKept)'
  BY DEF PoolRight
<1>1. BlocksRight'
  BY DEF Dealt, BlocksRight
<1>2. \A c \in Area' : Opened(c)'
  BY DEF Dealt, Opened
<1>3. CellsRight'
  BY <1>2 DEF CellsRight
<1>4. HeldRight'
  BY DEF HeldRight
<1> QED
  BY <1>1, <1>3, <1>4

\* A thread loads the cells of its block.
LEMMA LoadRight ==
  ASSUME LinearInv, DeviceInv, PoolRight, NEW t \in DOMAIN work, LoadBlock(t)
  PROVE  PoolRight'
<1>1. /\ AtWork /\ work[t] # <<>> /\ UNCHANGED <<conf, call, y, y0, arena, work>>
      /\ held' = [held EXCEPT ![t] = [c \in DOMAIN Head(work[t]) |->
                    Head(work[t])[c] + IF call.acc THEN Target[At(c)] ELSE 0]]
  BY DEF LoadBlock
<1>2. WorkInv /\ BlocksRight /\ CellsRight /\ HeldRight /\ RestKept
  BY <1>1 DEF LinearInv, PoolRight
<1> DEFINE f == [c \in DOMAIN Head(work[t]) |->
                   Head(work[t])[c] + IF call.acc THEN Target[At(c)] ELSE 0]
<1>3. \A u \in DOMAIN work : held'[u] = IF u = t THEN f ELSE held[u]
  BY <1>1, <1>2 DEF WorkInv
<1>4. DOMAIN f = DOMAIN Head(work[t]) /\ \A c \in DOMAIN f : At(c) \in Cells => f[c] = Added(c)
  <2>1. IsList(work[t])
    BY <1>2 DEF WorkInv, Lists
  <2>2. 1 \in DOMAIN work[t] /\ Head(work[t]) = work[t][1]
    BY <1>1, <2>1, EmptySeq, LenProperties, HeadTailProperties DEF IsList
  <2> SUFFICES ASSUME NEW c \in DOMAIN Head(work[t]), At(c) \in Cells PROVE f[c] = Added(c)
    OBVIOUS
  <2>3. c \in Area /\ Head(work[t])[c] = Dots(Job)[c]
    BY <1>2, <2>2 DEF BlocksRight, Parts
  <2>4. Opened(c)
    BY <2>2 DEF Opened, CellsOf
  <2>5. call.acc => Target[At(c)] = y0[At(c)]
    BY <1>2, <2>3, <2>4 DEF CellsRight
  <2>6. f[c] = Head(work[t])[c] + IF call.acc THEN Target[At(c)] ELSE 0
    OBVIOUS
  <2> HIDE DEF f
  <2> QED
    BY <2>3, <2>5, <2>6 DEF Added
<1> HIDE DEF f
<1>5. /\ BlocksRight' = BlocksRight /\ CellsRight' = CellsRight /\ RestKept' = RestKept
      /\ \A c : At(c)' = At(c) /\ Added(c)' = Added(c)
  <2>1. mat' = mat /\ Target' = Target /\ Job' = Job /\ Area' = Area
    BY <1>1 DEF mat, Target, Job, Area
  <2>2. \A c : At(c)' = At(c) /\ Added(c)' = Added(c) /\ Opened(c)' = Opened(c)
    BY <1>1, <2>1 DEF At, Added, Opened
  <2>3. BlocksRight' = BlocksRight /\ RestKept' = RestKept
    BY <1>1, <2>1 DEF BlocksRight, RestKept
  <2>4. CellsRight' = CellsRight
    BY <1>1, <2>1, <2>2 DEF CellsRight
  <2> QED
    BY <2>2, <2>3, <2>4
<1>6. HeldRight'
  <2>1. \A u \in DOMAIN work : held'[u] # <<>> =>
          /\ DOMAIN held'[u] = DOMAIN Head(work[u])
          /\ \A c \in DOMAIN held'[u] : At(c) \in Cells => held'[u][c] = Added(c)
    BY <1>2, <1>3, <1>4 DEF HeldRight
  <2> QED
    BY <1>1, <1>5, <2>1 DEF HeldRight
<1> QED
  BY <1>2, <1>5, <1>6 DEF PoolRight

\* The rest of a thread's blocks, without the first.
LEMMA TailParts ==
  ASSUME NEW s, IsList(s), s # <<>>, NEW C, NEW v, Parts(s, C, v)
  PROVE  /\ Parts(Tail(s), C, v) /\ DOMAIN Head(s) \subseteq C
         /\ DOMAIN Head(s) \cap CellsOf(Tail(s)) = {}
         /\ CellsOf(s) = DOMAIN Head(s) \cup CellsOf(Tail(s))
<1> DEFINE D == {s[k] : k \in DOMAIN s}
<1>1. s \in Seq(D)
  BY DEF IsList
<1> HIDE DEF D
<1>2. /\ Tail(s) \in Seq(D) /\ Head(s) = s[1] /\ Len(s) \in Nat \ {0}
      /\ Len(Tail(s)) = Len(s) - 1
      /\ \A k \in 1 .. Len(Tail(s)) : Tail(s)[k] = s[k + 1]
  BY <1>1, HeadTailProperties, EmptySeq, LenProperties
<1>3. DOMAIN s = 1 .. Len(s) /\ DOMAIN Tail(s) = 1 .. Len(s) - 1
  BY <1>1, <1>2, ListFrom
<1>4. \A k \in DOMAIN Tail(s) : /\ k + 1 \in DOMAIN s /\ Tail(s)[k] = s[k + 1] /\ k + 1 # 1
                                /\ k \in Nat
  BY <1>2, <1>3
<1>5. \A k \in DOMAIN s : k = 1 \/ (k - 1 \in DOMAIN Tail(s) /\ Tail(s)[k - 1] = s[k])
  BY <1>2, <1>3
<1>6. Parts(Tail(s), C, v)
  <2>1. \A k \in DOMAIN Tail(s) : \A c \in DOMAIN Tail(s)[k] : c \in C /\ Tail(s)[k][c] = v[c]
    BY <1>4 DEF Parts
  <2>2. ASSUME NEW j \in DOMAIN Tail(s), NEW k \in DOMAIN Tail(s), j # k
        PROVE  DOMAIN Tail(s)[j] \cap DOMAIN Tail(s)[k] = {}
    <3>1. j + 1 # k + 1
      BY <1>4, <2>2
    <3> QED
      BY <1>4, <3>1 DEF Parts
  <2> QED
    BY <2>1, <2>2 DEF Parts
<1>7. 1 \in DOMAIN s
  BY <1>2, <1>3
<1>8. DOMAIN Head(s) \subseteq C
  BY <1>2, <1>7 DEF Parts
<1>9. \A k \in DOMAIN Tail(s) : DOMAIN s[1] \cap DOMAIN Tail(s)[k] = {}
  BY <1>4, <1>7 DEF Parts
<1>10. DOMAIN Head(s) \cap CellsOf(Tail(s)) = {}
  BY <1>2, <1>9 DEF CellsOf
<1>11. CellsOf(s) = DOMAIN Head(s) \cup CellsOf(Tail(s))
  <2>1. \A c \in CellsOf(s) : c \in DOMAIN s[1] \/ c \in CellsOf(Tail(s))
    BY <1>5 DEF CellsOf
  <2>2. \A c : c \in DOMAIN s[1] => c \in CellsOf(s)
    BY <1>7 DEF CellsOf
  <2>3. CellsOf(Tail(s)) \subseteq CellsOf(s)
    BY <1>4 DEF CellsOf
  <2> QED
    BY <1>2, <2>1, <2>2, <2>3
<1> QED
  BY <1>6, <1>8, <1>10, <1>11

\* What is stored in a cell's place.
LEMMA StoredAt ==
  ASSUME CallInv, DeviceInv, call.ph # "idle", NEW h, DOMAIN h \subseteq Area,
         NEW c \in Area, NEW old
  PROVE  Stored(h, At(c), old) = IF c \in DOMAIN h THEN h[c] ELSE old
<1>1. \A e \in DOMAIN h : At(e) = At(c) => e = c
  BY PlacesDiffer
<1>2. CASE c \in DOMAIN h
  <2>1. (CHOOSE e \in DOMAIN h : At(e) = At(c)) = c
    BY <1>1, <1>2
  <2> QED
    BY <1>2, <2>1 DEF Stored
<1>3. CASE c \notin DOMAIN h
  BY <1>1, <1>3 DEF Stored
<1> QED
  BY <1>2, <1>3

\* A thread stores what it has added up.
LEMMA StoreRight ==
  ASSUME LinearInv, DeviceInv, PoolRight, NEW t \in DOMAIN work, StoreBlock(t)
  PROVE  PoolRight'
<1> DEFINE h == held[t]
           s == Tail(work[t])
<1>1. /\ AtWork /\ h # <<>> /\ UNCHANGED <<conf, call, y0>>
      /\ held' = [held EXCEPT ![t] = <<>>] /\ work' = [work EXCEPT ![t] = s]
  BY DEF StoreBlock
<1>2. /\ IF call.ph = "remote"
         THEN arena' = [i \in Cells |-> Stored(h, i, Target[i])] /\ y' = y
         ELSE y' = [i \in Cells |-> Stored(h, i, Target[i])] /\ arena' = arena
  BY DEF StoreBlock
<1>3. WorkInv /\ BlocksRight /\ CellsRight /\ HeldRight /\ RestKept /\ CallInv
  BY <1>1 DEF LinearInv, PoolRight
<1>4. /\ IsList(work[t]) /\ work[t] # <<>>
      /\ DOMAIN h = DOMAIN Head(work[t])
      /\ \A c \in DOMAIN h : At(c) \in Cells => h[c] = Added(c)
  BY <1>1, <1>3 DEF WorkInv, Holds, Lists, HeldRight
<1>5. /\ Parts(s, Area, Dots(Job)) /\ DOMAIN h \subseteq Area
      /\ DOMAIN h \cap CellsOf(s) = {}
      /\ CellsOf(work[t]) = DOMAIN h \cup CellsOf(s)
  BY <1>3, <1>4, TailParts DEF BlocksRight
<1>6. call.ph # "idle"
  BY <1>1 DEF AtWork
<1>7. /\ DOMAIN work' = DOMAIN work
      /\ \A u \in DOMAIN work : /\ work'[u] = IF u = t THEN s ELSE work[u]
                                /\ held'[u] = IF u = t THEN <<>> ELSE held[u]
  BY <1>1, <1>3 DEF WorkInv
<1>8. mat' = mat /\ Job' = Job /\ Area' = Area /\ AtWork' = AtWork
  BY <1>1 DEF mat, Job, Area, AtWork
<1>9. \A c : At(c)' = At(c) /\ Added(c)' = Added(c)
  BY <1>1, <1>8 DEF At, Added
<1>10. \A i \in Cells : Target'[i] = Stored(h, i, Target[i])
  BY <1>1, <1>2 DEF Target
<1> HIDE DEF h, s
<1>11. ASSUME NEW c \in Area, At(c) \in Cells
       PROVE  Target'[At(c)] = IF c \in DOMAIN h THEN h[c] ELSE Target[At(c)]
  BY <1>3, <1>5, <1>6, <1>10, <1>11, StoredAt
<1>12. \A c : Opened(c)' => Opened(c) /\ c \notin DOMAIN h
  <2> SUFFICES ASSUME NEW c, Opened(c)' PROVE Opened(c) /\ c \notin DOMAIN h
    OBVIOUS
  <2>1. PICK u \in DOMAIN work : c \in CellsOf(work'[u])
    BY <1>7 DEF Opened
  <2>2. CASE u = t
    BY <1>5, <1>7, <2>1, <2>2 DEF Opened
  <2>3. CASE u # t
    <3>1. c \in CellsOf(work[u])
      BY <1>7, <2>1, <2>3
    <3>2. c \notin CellsOf(work[t])
      BY <1>3, <2>3, <3>1 DEF WorkInv, Apart
    <3> QED
      BY <1>5, <3>1, <3>2 DEF Opened
  <2> QED
    BY <2>2, <2>3
<1>13. \A c : Opened(c) /\ c \notin DOMAIN h => Opened(c)'
  <2> SUFFICES ASSUME NEW c, Opened(c), c \notin DOMAIN h PROVE Opened(c)'
    OBVIOUS
  <2>1. PICK u \in DOMAIN work : c \in CellsOf(work[u])
    BY DEF Opened
  <2>2. c \in CellsOf(work'[u])
    BY <1>5, <1>7, <2>1
  <2> QED
    BY <1>7, <2>1, <2>2 DEF Opened
<1>14. CellsRight'
  <2> SUFFICES ASSUME NEW c \in Area, At(c) \in Cells
               PROVE  /\ Opened(c)' /\ call.acc => Target'[At(c)] = y0[At(c)]
                      /\ ~Opened(c)' => Target'[At(c)] = Added(c)
    BY <1>1, <1>8, <1>9 DEF CellsRight
  <2>1. ASSUME Opened(c)', call.acc PROVE Target'[At(c)] = y0[At(c)]
    <3>1. Opened(c) /\ c \notin DOMAIN h
      BY <1>12, <2>1
    <3> QED
      BY <1>3, <1>11, <2>1, <3>1 DEF CellsRight
  <2>2. ASSUME ~Opened(c)' PROVE Target'[At(c)] = Added(c)
    <3>1. CASE c \in DOMAIN h
      BY <1>4, <1>11, <3>1
    <3>2. CASE c \notin DOMAIN h
      <4>1. ~Opened(c)
        BY <1>13, <2>2, <3>2
      <4> QED
        BY <1>3, <1>11, <3>2, <4>1 DEF CellsRight
    <3> QED
      BY <3>1, <3>2
  <2> QED
    BY <2>1, <2>2
<1>15. BlocksRight'
  BY <1>3, <1>5, <1>7, <1>8 DEF BlocksRight
<1>16. HeldRight'
  <2>1. \A u \in DOMAIN work : held'[u] # <<>> =>
          /\ DOMAIN held'[u] = DOMAIN Head(work'[u])
          /\ \A c \in DOMAIN held'[u] : At(c) \in Cells => held'[u][c] = Added(c)
    BY <1>3, <1>7 DEF HeldRight
  <2> QED
    BY <1>1, <1>7, <1>8, <1>9, <2>1 DEF HeldRight
<1>17. RestKept'
  <2>1. ASSUME NEW i \in Cells, call.ph = "remote" \/ i >= call.nTok * mat.nOut
        PROVE  y'[i] = y0[i]
    <3>1. y[i] = y0[i]
      BY <1>3, <2>1 DEF RestKept
    <3>2. CASE call.ph = "remote"
      BY <1>2, <3>1, <3>2
    <3>3. CASE call.ph # "remote"
      <4>1. i >= call.nTok * mat.nOut
        BY <2>1, <3>3
      <4>2. \A c \in Area : At(c) # i
        <5> SUFFICES ASSUME NEW c \in Area PROVE At(c) # i
          OBVIOUS
        <5>1. /\ mat.nOut \in Nat /\ call.nTok \in Nat
              /\ Area = (0 .. call.nTok - 1) \X (0 .. mat.nOut - 1)
          BY <1>3, <1>6, JobFacts
        <5>2. c[1] \in 0 .. call.nTok - 1 /\ c[2] \in 0 .. mat.nOut - 1
          BY <5>1
        <5>3. c[1] * mat.nOut + c[2] \in 0 .. call.nTok * mat.nOut - 1
          BY <5>1, <5>2, CellPlace
        <5>4. call.nTok * mat.nOut \in Nat /\ i \in Int
          BY <5>1 DEF Cells
        <5> QED
          BY <4>1, <5>3, <5>4 DEF At
      <4>3. Stored(h, i, Target[i]) = Target[i]
        BY <1>5, <4>2 DEF Stored
      <4> QED
        BY <1>2, <3>1, <3>3, <4>3 DEF Target
    <3> QED
      BY <3>2, <3>3
  <2> QED
    BY <1>1, <1>3, <1>8, <2>1 DEF RestKept
<1> QED
  BY <1>14, <1>15, <1>16, <1>17 DEF PoolRight

\* When all threads have nothing left, y is the product.
LEMMA JoinRight ==
  ASSUME LinearInv, DeviceInv, PoolRight, Join
  PROVE  ProductRight'
<1>1. /\ AtWork /\ \A t \in DOMAIN work : work[t] = <<>>
      /\ call' = [call EXCEPT !.ph = "done"] /\ UNCHANGED <<conf, y0>>
      /\ y' = IF call.ph = "remote"
              THEN [i \in Cells |-> IF i < mat.nOut THEN arena[i] ELSE y[i]] ELSE y
  BY DEF Join
<1>2. CallInv /\ BlocksRight /\ CellsRight /\ HeldRight /\ RestKept /\ call.ph # "idle"
  BY <1>1 DEF LinearInv, PoolRight, AtWork
<1>3. /\ mat.nOut \in Nat /\ call.nTok \in Nat \ {0} /\ mat.nIn \in Nat
      /\ Area = (0 .. call.nTok - 1) \X (0 .. mat.nOut - 1)
      /\ \A c \in Area : Dots(Job)[c]
           = DotRange(W[call.m][c[2]], X[call.n][c[1]], 0, mat.nIn)
  BY <1>2, JobFacts
<1>4. \A c : ~Opened(c)
  BY <1>1 DEF Opened, CellsOf
<1>5. ASSUME NEW i \in Cells PROVE y'[i] = Reference(i)
  <2>1. CASE i >= call.nTok * mat.nOut
    <3>1. y[i] = y0[i]
      BY <1>2, <2>1 DEF RestKept
    <3>2. Reference(i) = y0[i]
      BY <2>1 DEF Reference
    <3>3. call.ph = "remote" => i >= mat.nOut
      <4> SUFFICES ASSUME call.ph = "remote" PROVE i >= mat.nOut
        OBVIOUS
      <4>1. call.nTok = 1
        BY <1>2 DEF RestKept
      <4>2. call.nTok * mat.nOut = mat.nOut
        BY <1>3, <4>1
      <4> QED
        BY <2>1, <4>2
    <3>4. i \in Int
      BY DEF Cells
    <3> QED
      BY <1>1, <1>3, <3>1, <3>2, <3>3, <3>4
  <2>2. CASE ~(i >= call.nTok * mat.nOut)
    <3> DEFINE t == i \div mat.nOut
               o == i % mat.nOut
               c == <<t, o>>
    <3>1. i \in 0 .. call.nTok * mat.nOut - 1
      <4>1. i \in Nat /\ call.nTok * mat.nOut \in Nat
        BY <1>3 DEF Cells
      <4> QED
        BY <2>2, <4>1
    <3>2. t \in 0 .. call.nTok - 1 /\ o \in 0 .. mat.nOut - 1 /\ t * mat.nOut + o = i
      <4>1. call.nTok \in Nat /\ mat.nOut \in Nat
        BY <1>3
      <4>2. /\ i \div mat.nOut \in 0 .. call.nTok - 1 /\ i % mat.nOut \in 0 .. mat.nOut - 1
            /\ (i \div mat.nOut) * mat.nOut + (i % mat.nOut) = i
        BY <3>1, <4>1, PlaceCell
      <4> QED
        BY <4>2
    <3>3. Reference(i) = DotRange(W[call.m][o], X[call.n][t], 0, mat.nIn)
                         + IF call.acc THEN y0[i] ELSE 0
      BY <2>2 DEF Reference
    <3> HIDE DEF t, o
    <3>4. c \in Area /\ At(c) = i
      BY <1>3, <3>2 DEF At
    <3>5. Target[i] = Added(c)
      BY <1>2, <1>4, <3>4 DEF CellsRight
    <3>6. Added(c) = DotRange(W[call.m][o], X[call.n][t], 0, mat.nIn)
                     + IF call.acc THEN y0[i] ELSE 0
      BY <1>3, <3>4 DEF Added
    <3>7. call.ph = "remote" => i < mat.nOut
      <4> SUFFICES ASSUME call.ph = "remote" PROVE i < mat.nOut
        OBVIOUS
      <4>1. call.nTok = 1
        BY <1>2 DEF RestKept
      <4>2. call.nTok * mat.nOut = mat.nOut
        BY <1>3, <4>1
      <4> QED
        BY <1>3, <3>1, <4>2
    <3>8. y'[i] = Target[i]
      BY <1>1, <3>7 DEF Target
    <3> QED
      BY <3>3, <3>5, <3>6, <3>8
  <2> QED
    BY <2>1, <2>2
<1>6. \A i : Reference(i)' = Reference(i)
  BY <1>1 DEF Reference, mat
<1> QED
  BY <1>5, <1>6 DEF ProductRight

-----------------------------------------------------------------------------
(* What the waves give to the threads adds up to the product.              *)

\* Row and place are found again by division.
LEMMA DivisionIs ==
  ASSUME NEW n \in Nat \ {0}, NEW q \in Nat, NEW r \in 0 .. n - 1
  PROVE  q * n + r \in Nat /\ (q * n + r) \div n = q /\ (q * n + r) % n = r
<1> DEFINE a == q * n + r
           p == a \div n
           s == a % n
<1>1. a \in Nat /\ q * n \in Nat
  OBVIOUS
<1> HIDE DEF a
<1>2. p \in Nat /\ s \in 0 .. n - 1 /\ a = n * p + s
  BY <1>1, DivisionType, DivisionSum
<1> HIDE DEF p, s
<1>3. r + q * n = s + p * n
  <2>1. n * p = p * n /\ p * n \in Nat
    BY <1>2
  <2>2. r + q * n = a
    BY <1>1 DEF a
  <2> QED
    BY <1>2, <2>1, <2>2
<1>4. q = p /\ r = s
  BY <1>2, <1>3, RowAndPlace
<1> QED
  BY <1>1, <1>4 DEF a, p, s

\* As many rows as fit.
LEMMA RowsFit ==
  ASSUME NEW n \in Nat \ {0}, NEW a \in Nat, NEW k \in Nat, k * n <= a
  PROVE  k <= a \div n
<1> DEFINE p == a \div n
           s == a % n
<1>1. p \in Nat /\ s \in 0 .. n - 1 /\ a = n * p + s
  BY DivisionType, DivisionSum
<1> HIDE DEF p, s
<1>2. ASSUME p + 1 <= k PROVE FALSE
  <2>1. n * (p + 1) <= n * k /\ n * k \in Nat /\ n * p \in Nat
    BY <1>1, <1>2, TimesMonotone
  <2>2. n * (p + 1) = n * p + n /\ n * k = k * n
    BY <1>1
  <2> QED
    BY <1>1, <2>1, <2>2
<1>3. k <= p
  BY <1>1, <1>2
<1> QED
  BY <1>3 DEF p

\* The group, the wave and the channel an output is computed in.
GroupOf(o) == o \div Banks
WaveOf(o) == GroupOf(o) \div Len(hw.pim)
PlaceOf(o) == GroupOf(o) % Len(hw.pim)
OfWave(w) == {c \in {0} \X (0 .. mat.nOut - 1) : WaveOf(c[2]) = w}

\* Where output o is computed: its group, its wave, its channel and its bank.
LEMMA OutputFacts ==
  ASSUME Len(hw.pim) \in Nat \ {0}, mat.nOut \in Nat, NEW o \in 0 .. mat.nOut - 1
  PROVE  /\ GroupOf(o) \in 0 .. Ceil(mat.nOut, Banks) - 1
         /\ WaveOf(o) \in 0 .. NWaves - 1 /\ PlaceOf(o) \in 0 .. Len(hw.pim) - 1
         /\ GroupOf(o) = WaveOf(o) * Len(hw.pim) + PlaceOf(o)
         /\ o % Banks \in BankIds /\ o = GroupOf(o) * Banks + (o % Banks)
<1> DEFINE L == Len(hw.pim)
           grp == o \div Banks
           b == o % Banks
           G == Ceil(mat.nOut, Banks)
<1>1. Banks \in Nat \ {0} /\ o \in Nat
  BY DeviceAssumption
<1>2. G \in Nat /\ grp \in 0 .. G - 1 /\ NWaves = Ceil(G, L)
  <2>1. NWaves = Ceil(G, L)
    BY DEF NWaves
  <2>2. Ceil(mat.nOut, Banks) \in Nat /\ o \div Banks \in 0 .. Ceil(mat.nOut, Banks) - 1
    BY <1>1, CeilFacts
  <2> QED
    BY <2>1, <2>2
<1>3. grp \in Nat /\ b \in 0 .. Banks - 1 /\ o = Banks * grp + b
  BY <1>1, DivisionType, DivisionSum
<1> HIDE DEF L, grp, b, G
<1> DEFINE w == grp \div L
           i == grp % L
<1>4. L \in Nat \ {0}
  BY DEF L
<1>5. w \in 0 .. NWaves - 1 /\ i \in 0 .. L - 1 /\ grp = L * w + i /\ w \in Nat
  BY <1>2, <1>3, <1>4, CeilFacts, DivisionType, DivisionSum
<1> HIDE DEF w, i
<1>6. L * w = w * L /\ Banks * grp = grp * Banks
  BY <1>1, <1>3, <1>4, <1>5
<1> QED
  BY <1>2, <1>3, <1>5, <1>6 DEF GroupOf, WaveOf, PlaceOf, BankIds, L, grp, b, w, i, G

\* The cells of a group are those of its outputs.
LEMMA GroupIs ==
  ASSUME mat.nOut \in Nat, NEW k \in Nat
  PROVE  GroupCells(k) = {c \in {0} \X (0 .. mat.nOut - 1) : GroupOf(c[2]) = k}
<1> DEFINE e == k * Banks
           m == Min({e + Banks, mat.nOut})
<1>1. e \in Nat /\ e + Banks \in Int /\ mat.nOut \in Int /\ Banks \in Nat \ {0}
  BY DeviceAssumption
<1>2. GroupCells(k) = {0} \X (e .. m - 1)
  BY DEF GroupCells
<1>3. \A o \in Nat : GroupOf(o) = k <=> e <= o /\ o < e + Banks
  <2> SUFFICES ASSUME NEW o \in Nat PROVE GroupOf(o) = k <=> e <= o /\ o < e + Banks
    OBVIOUS
  <2>1. ASSUME e <= o, o < e + Banks PROVE o \div Banks = k
    <3> DEFINE r == o - e
    <3> HIDE DEF e
    <3>1. r \in 0 .. Banks - 1 /\ o = e + r
      BY <1>1, <2>1
    <3> HIDE DEF r
    <3>2. (k * Banks + r) \div Banks = k
      BY <1>1, <3>1, DivisionIs
    <3> QED
      BY <3>1, <3>2 DEF e
  <2>2. ASSUME o \div Banks = k PROVE e <= o /\ o < e + Banks
    <3> DEFINE s == o % Banks
    <3>1. s \in 0 .. Banks - 1 /\ o = Banks * k + s
      BY <1>1, <2>2, DivisionType, DivisionSum
    <3>2. Banks * k = e
      BY <1>1
    <3> HIDE DEF e, s
    <3> QED
      BY <1>1, <3>1, <3>2
  <2> QED
    BY <2>1, <2>2 DEF GroupOf
<1> HIDE DEF e
<1>4. m \in {e + Banks, mat.nOut} /\ m <= e + Banks /\ m <= mat.nOut
  BY <1>1, LesserGreater, Zenon
<1> HIDE DEF m
<1>5. \A o : o \in e .. m - 1 <=> o \in 0 .. mat.nOut - 1 /\ GroupOf(o) = k
  <2>1. ASSUME NEW o, o \in e .. m - 1 PROVE o \in 0 .. mat.nOut - 1 /\ GroupOf(o) = k
    BY <1>1, <1>3, <1>4, <2>1
  <2>2. ASSUME NEW o, o \in 0 .. mat.nOut - 1, GroupOf(o) = k PROVE o \in e .. m - 1
    BY <1>1, <1>3, <1>4, <2>2
  <2> QED
    BY <2>1, <2>2
<1> QED
  <2>1. ASSUME NEW c \in {0} \X (e .. m - 1)
        PROVE  c \in {a \in {0} \X (0 .. mat.nOut - 1) : GroupOf(a[2]) = k}
    BY <1>5
  <2>2. ASSUME NEW c \in {0} \X (0 .. mat.nOut - 1), GroupOf(c[2]) = k
        PROVE  c \in {0} \X (e .. m - 1)
    <3>1. c = <<c[1], c[2]>> /\ c[1] = 0 /\ c[2] \in e .. m - 1
      BY <1>5, <2>2
    <3> QED
      BY <3>1
  <2> QED
    BY <1>2, <2>1, <2>2

\* Blocks that are right, and their cells.
Pieces(C, v) == {[c \in D |-> v[c]] : D \in SUBSET C}
PieceCells(C, v) == [f \in Pieces(C, v) |-> DOMAIN f]

\* Pieces that tile D are parts that have all cells of D.
LEMMA TilesParts ==
  ASSUME NEW C, NEW v, NEW s \in Seq(Pieces(C, v)), NEW D, Tiles(s, PieceCells(C, v), D)
  PROVE  Parts(s, C, v) /\ D \subseteq CellsOf(s)
<1> DEFINE n == Len(s)
           T == Pieces(C, v)
           cs == PieceCells(C, v)
<1>1. n \in Nat /\ DOMAIN s = 1 .. n /\ \A i \in 1 .. n : s[i] \in T
  BY LenProperties, ElementOfSeq
<1>2. \A i \in 1 .. n : cs[s[i]] = DOMAIN s[i]
  BY <1>1 DEF PieceCells
<1>3. \A i \in 1 .. n : \A c \in DOMAIN s[i] : c \in C /\ s[i][c] = v[c]
  <2> SUFFICES ASSUME NEW i \in 1 .. n, NEW c \in DOMAIN s[i] PROVE c \in C /\ s[i][c] = v[c]
    OBVIOUS
  <2>1. PICK E \in SUBSET C : s[i] = [e \in E |-> v[e]]
    BY <1>1 DEF Pieces
  <2> QED
    BY <2>1
<1> HIDE DEF n, cs
<1>4. \A i, j \in 1 .. n : i # j => DOMAIN s[i] \cap DOMAIN s[j] = {}
  BY <1>2 DEF Tiles, n, cs
<1>5. \A e \in D : \E i \in 1 .. n : e \in DOMAIN s[i]
  BY <1>2 DEF Tiles, n, cs
<1> QED
  BY <1>1, <1>3, <1>4, <1>5 DEF Parts, CellsOf

\* For each output, its wave leaves the product in its bank's accumulator.
WavesRight(d, x, v) ==
  \A o \in 0 .. mat.nOut - 1 :
    MacWave(d, hw.pim[PlaceOf(o) + 1], rowBase[call.m] + WaveOf(o), NCols, x)[o % Banks]
      = v[<<0, o>>]

\* The sums of a group of a wave, and of all its groups.
GroupSums(d, x, w, i) ==
  LET acc == MacWave(d, hw.pim[i], rowBase[call.m] + w, NCols, x)
  IN [c \in GroupCells(w * Len(hw.pim) + i - 1) |-> acc[c[2] % Banks]]
GroupsOf(w) == Min({Len(hw.pim), Ceil(mat.nOut, Banks) - w * Len(hw.pim)})
WaveSums(d, x, w) == [i \in 1 .. GroupsOf(w) |-> GroupSums(d, x, w, i)]
Firsts == {0} \X (0 .. mat.nOut - 1)
ShareOf(w, i) == {c \in Firsts : WaveOf(c[2]) = w /\ PlaceOf(c[2]) = i - 1}

\* The sums of a channel in wave w are those of the group it has.
LEMMA GroupRight ==
  ASSUME Len(hw.pim) \in Nat \ {0}, mat.nOut \in Nat, NEW d, NEW x, NEW v,
         WavesRight(d, x, v), NEW w \in Nat, NEW i \in 1 .. Len(hw.pim)
  PROVE  /\ GroupSums(d, x, w, i) \in Pieces(Firsts, v)
         /\ DOMAIN GroupSums(d, x, w, i) = ShareOf(w, i)
<1> DEFINE L == Len(hw.pim)
           k == w * L + i - 1
           D == ShareOf(w, i)
           f == GroupSums(d, x, w, i)
           acc == MacWave(d, hw.pim[i], rowBase[call.m] + w, NCols, x)
<1>1. i - 1 \in 0 .. L - 1 /\ w * L \in Nat /\ k = w * L + (i - 1)
  OBVIOUS
<1>2. k \in Nat /\ k \div L = w /\ k % L = i - 1
  <2> HIDE DEF L
  <2>1. L \in Nat \ {0}
    BY DEF L
  <2>2. w * L + (i - 1) \in Nat /\ (w * L + (i - 1)) \div L = w /\ (w * L + (i - 1)) % L = i - 1
    BY <1>1, <2>1, DivisionIs
  <2> HIDE DEF k
  <2> QED
    BY <1>1, <2>2
<1>3. f = [c \in GroupCells(k) |-> acc[c[2] % Banks]]
  BY DEF GroupSums
<1> HIDE DEF k, L, f, acc
<1>4. GroupCells(k) = {c \in Firsts : GroupOf(c[2]) = k}
  BY <1>2, GroupIs DEF Firsts
<1>5. \A c \in Firsts : GroupOf(c[2]) = k <=> WaveOf(c[2]) = w /\ PlaceOf(c[2]) = i - 1
  <2> SUFFICES ASSUME NEW c \in Firsts
               PROVE  GroupOf(c[2]) = k <=> WaveOf(c[2]) = w /\ PlaceOf(c[2]) = i - 1
    OBVIOUS
  <2>1. c[2] \in 0 .. mat.nOut - 1
    BY DEF Firsts
  <2>2. GroupOf(c[2]) = WaveOf(c[2]) * L + PlaceOf(c[2])
    BY <2>1, OutputFacts DEF L
  <2>3. GroupOf(c[2]) = k => WaveOf(c[2]) = w /\ PlaceOf(c[2]) = i - 1
    BY <1>2 DEF WaveOf, PlaceOf, L
  <2> QED
    BY <1>1, <2>2, <2>3
<1>6. GroupCells(k) = D
  BY <1>4, <1>5 DEF ShareOf
<1>7. \A c \in D : acc[c[2] % Banks] = v[c]
  <2> SUFFICES ASSUME NEW c \in D PROVE acc[c[2] % Banks] = v[c]
    OBVIOUS
  <2> DEFINE o == c[2]
  <2>1. o \in 0 .. mat.nOut - 1 /\ c = <<0, o>> /\ WaveOf(o) = w /\ PlaceOf(o) = i - 1
    BY DEF Firsts, ShareOf
  <2> HIDE DEF o
  <2>2. PlaceOf(o) + 1 = i
    BY <2>1
  <2>3. MacWave(d, hw.pim[PlaceOf(o) + 1], rowBase[call.m] + WaveOf(o), NCols, x)[o % Banks]
          = v[<<0, o>>]
    BY <2>1 DEF WavesRight
  <2>4. acc[o % Banks] = v[<<0, o>>]
    BY <2>1, <2>2, <2>3 DEF acc
  <2> QED
    BY <2>1, <2>4 DEF o, ShareOf
<1> HIDE DEF D
<1>8. D \in SUBSET Firsts
  BY DEF D, ShareOf
<1>9. f = [c \in D |-> v[c]]
  BY <1>3, <1>6, <1>7
<1>10. f \in Pieces(Firsts, v)
  BY <1>8, <1>9 DEF Pieces
<1>11. DOMAIN f = D
  BY <1>9
<1> QED
  BY <1>10, <1>11 DEF f, D

\* A wave computes its outputs.
LEMMA WaveTiles ==
  ASSUME Len(hw.pim) \in Nat \ {0}, mat.nOut \in Nat, NEW d, NEW x, NEW v,
         WavesRight(d, x, v), NEW w \in Nat
  PROVE  /\ WaveSums(d, x, w) \in Seq(Pieces(Firsts, v))
         /\ Tiles(WaveSums(d, x, w), PieceCells(Firsts, v), OfWave(w))
<1> DEFINE f == WaveSums(d, x, w)
           L == Len(hw.pim)
           n == GroupsOf(w)
           T == Pieces(Firsts, v)
           cs == PieceCells(Firsts, v)
           C == OfWave(w)
           G == Ceil(mat.nOut, Banks)
<1>1. L \in Nat \ {0} /\ G \in Nat /\ w * L \in Nat
  <2>1. Ceil(mat.nOut, Banks) \in Nat
    BY DeviceAssumption, CeilFacts
  <2> QED
    BY <2>1
<1>2. n \in Int /\ n <= L /\ (n = L \/ n = G - w * L)
  <2>1. L \in Int /\ G - w * L \in Int
    BY <1>1
  <2>2. n = Min({L, G - w * L})
    BY DEF GroupsOf
  <2> HIDE DEF L, n, G
  <2>3. Min({L, G - w * L}) \in {L, G - w * L} /\ Min({L, G - w * L}) <= L
    BY <2>1, LesserGreater, Zenon
  <2> QED
    BY <2>1, <2>2, <2>3
<1>3. \A i \in 1 .. n : i \in 1 .. L
  BY <1>1, <1>2
<1>4. ASSUME NEW i \in 1 .. n
      PROVE  f[i] \in T /\ DOMAIN f[i] = ShareOf(w, i)
  <2>1. f[i] = GroupSums(d, x, w, i)
    BY DEF WaveSums
  <2>2. i \in 1 .. Len(hw.pim)
    BY <1>3
  <2>3. /\ GroupSums(d, x, w, i) \in Pieces(Firsts, v)
        /\ DOMAIN GroupSums(d, x, w, i) = ShareOf(w, i)
    BY <2>2, GroupRight
  <2> QED
    BY <2>1, <2>3
<1>5. \A i \in 1 .. n : cs[f[i]] = ShareOf(w, i)
  BY <1>4 DEF PieceCells
<1>6. f \in [1 .. n -> T]
  <2>1. f = [i \in 1 .. n |-> f[i]]
    BY DEF WaveSums
  <2> HIDE DEF f, n, T
  <2> QED
    BY <1>4, <2>1
<1>7. C = {c \in Firsts : WaveOf(c[2]) = w}
  BY DEF OfWave, Firsts
<1> HIDE DEF f, n, T, cs, L, C, G
<1>8. \A i \in 1 .. n : cs[f[i]] \subseteq C
  BY <1>5, <1>7 DEF ShareOf
<1>9. \A e \in C : \E i \in 1 .. n : e \in cs[f[i]]
  <2> SUFFICES ASSUME NEW e \in C PROVE \E i \in 1 .. n : e \in cs[f[i]]
    OBVIOUS
  <2> DEFINE o == e[2]
             i == PlaceOf(o) + 1
  <2>1. e \in Firsts /\ o \in 0 .. mat.nOut - 1 /\ WaveOf(o) = w
    BY <1>7 DEF Firsts
  <2> HIDE DEF o
  <2>2. GroupOf(o) \in 0 .. G - 1 /\ PlaceOf(o) \in 0 .. L - 1 /\ GroupOf(o) = w * L + PlaceOf(o)
    BY <2>1, OutputFacts DEF G, L
  <2>3. i \in 1 .. n
    BY <1>1, <1>2, <2>2
  <2>4. PlaceOf(o) = i - 1
    BY <2>2
  <2> HIDE DEF i
  <2>5. e \in cs[f[i]]
    BY <1>5, <2>1, <2>3, <2>4 DEF o, ShareOf
  <2> QED
    BY <2>3, <2>5
<1>10. \A i, j \in 1 .. n : i < j => cs[f[i]] \cap cs[f[j]] = {}
  <2> SUFFICES ASSUME NEW i \in 1 .. n, NEW j \in 1 .. n, i < j
               PROVE  cs[f[i]] \cap cs[f[j]] = {}
    OBVIOUS
  <2>1. i - 1 # j - 1
    BY <1>2
  <2> QED
    BY <1>5, <2>1 DEF ShareOf
<1> QED
  <2>1. f \in Seq(T) /\ Tiles(f, cs, C)
    BY <1>2, <1>6, <1>8, <1>9, <1>10, TilesList
  <2> QED
    BY <2>1 DEF f, T, cs, C

\* The waves of thread t of n: its k-th wave, their number, and what they
\* compute.
NthWave(t, n, k) == t + (k - 1) * n
ThreadWaves(t, n) == Ceil(NWaves - t, n)
WaveLists(d, x, t, n) ==
  [k \in 1 .. ThreadWaves(t, n) |-> WaveSums(d, x, NthWave(t, n, k))]
ThreadCells(t, n) == {c \in Firsts : WaveOf(c[2]) % n = t}
WaveSets(t, n) == [k \in 1 .. ThreadWaves(t, n) |-> OfWave(NthWave(t, n, k))]

\* The waves dealt to thread t, in their order: the ones that are t modulo n.
LEMMA NthWaveFacts ==
  ASSUME NWaves \in Nat, NEW n \in Nat \ {0}, NEW t \in 0 .. n - 1
  PROVE  /\ ThreadWaves(t, n) \in Int
         /\ \A k \in 1 .. ThreadWaves(t, n) :
              NthWave(t, n, k) \in Nat /\ NthWave(t, n, k) % n = t
         /\ \A j, k \in 1 .. ThreadWaves(t, n) : j < k => NthWave(t, n, j) # NthWave(t, n, k)
         /\ \A w \in 0 .. NWaves - 1 : w % n = t =>
              \E k \in 1 .. ThreadWaves(t, n) : w = NthWave(t, n, k)
<1> DEFINE m == ThreadWaves(t, n)
<1>1. m \in Int
  BY DEF ThreadWaves, Ceil
<1> HIDE DEF m
<1>2. ASSUME NEW k \in 1 .. m
      PROVE  /\ NthWave(t, n, k) \in Nat /\ NthWave(t, n, k) % n = t
             /\ NthWave(t, n, k) \div n = k - 1
  <2> DEFINE q == k - 1
  <2>1. q \in Nat
    BY <1>1
  <2> HIDE DEF q
  <2>2. q * n + t \in Nat /\ (q * n + t) \div n = q /\ (q * n + t) % n = t
    BY <2>1, DivisionIs
  <2>3. NthWave(t, n, k) = q * n + t
    <3>1. q * n \in Nat
      BY <2>1
    <3> QED
      BY <3>1 DEF NthWave, q
  <2> QED
    BY <2>2, <2>3 DEF q
<1>3. ASSUME NEW j \in 1 .. m, NEW k \in 1 .. m, j < k
      PROVE  NthWave(t, n, j) # NthWave(t, n, k)
  <2>1. j - 1 # k - 1
    BY <1>1, <1>3
  <2> QED
    BY <1>2, <2>1
<1>4. ASSUME NEW w \in 0 .. NWaves - 1, w % n = t
      PROVE  \E k \in 1 .. m : w = NthWave(t, n, k)
  <2> DEFINE q == w \div n
  <2>1. q \in Nat /\ w = n * q + t /\ w \in Nat
    BY <1>4, DivisionType, DivisionSum
  <2> HIDE DEF q
  <2>2. n * q = q * n /\ q * n \in Nat /\ (q + 1) * n = q * n + n
    BY <2>1
  <2> DEFINE a == NWaves - t + n - 1
             e == q * n
  <2>3. e \in Nat /\ w = e + t /\ (q + 1) * n = e + n
    BY <2>1, <2>2
  <2> HIDE DEF e
  <2>4. a \in Nat /\ (q + 1) * n <= a
    BY <2>1, <2>3
  <2>5. m = a \div n
    BY DEF m, ThreadWaves, Ceil
  <2> HIDE DEF a
  <2>6. q + 1 <= a \div n
    BY <2>1, <2>4, RowsFit
  <2>7. q + 1 \in 1 .. m
    BY <1>1, <2>1, <2>5, <2>6
  <2>8. NthWave(t, n, q + 1) = w
    BY <2>1, <2>3 DEF NthWave, e
  <2> QED
    BY <2>7, <2>8
<1> QED
  BY <1>1, <1>2, <1>3, <1>4 DEF m

\* A thread computes the outputs of its waves.
LEMMA ThreadTiles ==
  ASSUME Len(hw.pim) \in Nat \ {0}, mat.nOut \in Nat, NEW d, NEW x, NEW v,
         WavesRight(d, x, v), NEW n \in Nat \ {0}, NEW t \in 0 .. n - 1
  PROVE  /\ FlattenSeq(WaveLists(d, x, t, n)) \in Seq(Pieces(Firsts, v))
         /\ Tiles(FlattenSeq(WaveLists(d, x, t, n)), PieceCells(Firsts, v), ThreadCells(t, n))
<1> DEFINE m == ThreadWaves(t, n)
           T == Pieces(Firsts, v)
           cs == PieceCells(Firsts, v)
           ss == WaveLists(d, x, t, n)
           C == ThreadCells(t, n)
           Cs == WaveSets(t, n)
<1>1. NWaves \in Nat
  <2>1. Ceil(mat.nOut, Banks) \in Nat
    BY DeviceAssumption, CeilFacts
  <2> QED
    BY <2>1, CeilFacts DEF NWaves
<1>2. /\ m \in Int
      /\ \A k \in 1 .. m : NthWave(t, n, k) \in Nat /\ NthWave(t, n, k) % n = t
      /\ \A j, k \in 1 .. m : j < k => NthWave(t, n, j) # NthWave(t, n, k)
      /\ \A w \in 0 .. NWaves - 1 : w % n = t => \E k \in 1 .. m : w = NthWave(t, n, k)
  BY <1>1, NthWaveFacts
<1>3. \A k \in 1 .. m : ss[k] = WaveSums(d, x, NthWave(t, n, k)) /\ Cs[k] = OfWave(NthWave(t, n, k))
  BY DEF WaveLists, WaveSets
<1> HIDE DEF m
<1>4. ASSUME NEW k \in 1 .. m PROVE ss[k] \in Seq(T) /\ Tiles(ss[k], cs, Cs[k])
  <2> DEFINE w == NthWave(t, n, k)
  <2>1. w \in Nat
    BY <1>2
  <2> HIDE DEF w
  <2>2. /\ WaveSums(d, x, w) \in Seq(Pieces(Firsts, v))
        /\ Tiles(WaveSums(d, x, w), PieceCells(Firsts, v), OfWave(w))
    BY <2>1, WaveTiles
  <2> HIDE DEF T, cs, ss, Cs
  <2> QED
    BY <1>3, <2>2 DEF T, cs, w
<1>5. ss \in [1 .. m -> Seq(T)]
  <2>1. ss = [k \in 1 .. m |-> ss[k]]
    BY DEF WaveLists, m
  <2> HIDE DEF ss, T
  <2> QED
    BY <1>4, <2>1
<1> HIDE DEF T, cs, ss, C, Cs
<1>6. \A e : \A w : e \in OfWave(w) <=> e \in Firsts /\ WaveOf(e[2]) = w
  BY DEF OfWave, Firsts
<1>7. \A i, j \in 1 .. m : i < j => Cs[i] \cap Cs[j] = {}
  BY <1>2, <1>3, <1>6
<1>8. \A i \in 1 .. m : Cs[i] \subseteq C
  BY <1>2, <1>3, <1>6 DEF ThreadCells, C
<1>9. \A e \in C : \E i \in 1 .. m : e \in Cs[i]
  <2> SUFFICES ASSUME NEW e \in C PROVE \E i \in 1 .. m : e \in Cs[i]
    OBVIOUS
  <2> DEFINE o == e[2]
  <2>1. e \in Firsts /\ o \in 0 .. mat.nOut - 1 /\ WaveOf(o) % n = t
    BY DEF C, ThreadCells, Firsts
  <2> HIDE DEF o
  <2>2. WaveOf(o) \in 0 .. NWaves - 1
    BY <2>1, OutputFacts
  <2>3. PICK k \in 1 .. m : WaveOf(o) = NthWave(t, n, k)
    BY <1>2, <2>1, <2>2
  <2>4. e \in Cs[k]
    BY <1>3, <1>6, <2>1, <2>3 DEF o
  <2> QED
    BY <2>4
<1>10. \A i \in 1 .. m : Tiles(ss[i], cs, Cs[i])
  BY <1>4
<1>11. FlattenSeq(ss) \in Seq(T) /\ Tiles(FlattenSeq(ss), cs, C)
  BY <1>2, <1>5, <1>7, <1>8, <1>9, <1>10, TilesLists
<1> QED
  BY <1>11 DEF T, cs, ss, C

\* The threads have the whole product.
LEMMA WaveDealt ==
  ASSUME Len(hw.pim) \in Nat \ {0}, mat.nOut \in Nat, conf.threads \in Nat \ {0},
         NEW d, NEW x, NEW v, WavesRight(d, x, v), WaveJob(d, x)
  PROVE  Dealt(work', Firsts, v) /\ \A t \in DOMAIN work' : held'[t] = <<>>
<1> DEFINE n == Max({1, Min({conf.threads, NWaves})})
           job(t) == FlattenSeq(WaveLists(d, x, t, n))
<1>1. work' = [t \in 0 .. n - 1 |-> job(t)] /\ held' = [t \in 0 .. n - 1 |-> <<>>]
  <2> DEFINE sum(w, i) == LET acc == MacWave(d, hw.pim[i], rowBase[call.m] + w, NCols, x)
                              grp == w * Len(hw.pim) + i - 1
                          IN [c \in GroupCells(grp) |-> acc[c[2] % Banks]]
             last(w) == Min({Len(hw.pim), Ceil(mat.nOut, Banks) - w * Len(hw.pim)})
             ws(t) == [k \in 1 .. Ceil(NWaves - t, n) |-> t + (k - 1) * n]
             rows(t) == [k \in DOMAIN ws(t) |->
                           [i \in 1 .. last(ws(t)[k]) |-> sum(ws(t)[k], i)]]
  <2>1. /\ work' = [t \in 0 .. n - 1 |-> FlattenSeq(rows(t))]
        /\ held' = [t \in 0 .. n - 1 |-> <<>>]
    BY DEF WaveJob, StartPool
  <2>2. ASSUME NEW t \in 0 .. n - 1 PROVE rows(t) = WaveLists(d, x, t, n)
    <3>1. \A w, i : sum(w, i) = GroupSums(d, x, w, i)
      BY DEF GroupSums
    <3>2. \A w : last(w) = GroupsOf(w)
      BY DEF GroupsOf
    <3> HIDE DEF sum, last
    <3>3. \A w : [i \in 1 .. last(w) |-> sum(w, i)] = WaveSums(d, x, w)
      BY <3>1, <3>2 DEF WaveSums
    <3>4. /\ DOMAIN ws(t) = 1 .. ThreadWaves(t, n)
          /\ \A k \in 1 .. ThreadWaves(t, n) : ws(t)[k] = NthWave(t, n, k)
      BY DEF ThreadWaves, NthWave
    <3> HIDE DEF ws, n
    <3>5. rows(t) = [k \in 1 .. ThreadWaves(t, n) |-> WaveSums(d, x, NthWave(t, n, k))]
      BY <3>3, <3>4
    <3> QED
      BY <3>5 DEF WaveLists
  <2> HIDE DEF rows, n
  <2> QED
    BY <2>1, <2>2
<1>2. NWaves \in Nat
  <2>1. Ceil(mat.nOut, Banks) \in Nat
    BY DeviceAssumption, CeilFacts
  <2> QED
    BY <2>1, CeilFacts DEF NWaves
<1>3. n \in Nat \ {0}
  <2> DEFINE m == Min({conf.threads, NWaves})
  <2>1. conf.threads \in Int /\ NWaves \in Int
    BY <1>2
  <2>2. m \in {conf.threads, NWaves}
    BY <2>1, LesserGreater, Zenon
  <2>3. m \in Int /\ 1 \in Int
    BY <2>1, <2>2
  <2> HIDE DEF m
  <2>4. Max({1, m}) \in {1, m} /\ Max({1, m}) >= 1
    BY <2>3, LesserGreater, Zenon
  <2>5. Max({1, m}) \in Nat \ {0}
    BY <2>3, <2>4
  <2> QED
    BY <2>5 DEF m
<1> HIDE DEF n
<1>4. ASSUME NEW t \in 0 .. n - 1
      PROVE  Parts(job(t), Firsts, v) /\ ThreadCells(t, n) \subseteq CellsOf(job(t))
  <2> DEFINE s == FlattenSeq(WaveLists(d, x, t, n))
  <2>1. /\ FlattenSeq(WaveLists(d, x, t, n)) \in Seq(Pieces(Firsts, v))
        /\ Tiles(FlattenSeq(WaveLists(d, x, t, n)), PieceCells(Firsts, v), ThreadCells(t, n))
    BY <1>3, ThreadTiles
  <2> HIDE DEF s
  <2>2. s \in Seq(Pieces(Firsts, v)) /\ Tiles(s, PieceCells(Firsts, v), ThreadCells(t, n))
    BY <2>1 DEF s
  <2>3. Parts(s, Firsts, v) /\ ThreadCells(t, n) \subseteq CellsOf(s)
    BY <2>2, TilesParts
  <2> QED
    BY <2>3 DEF s
<1> HIDE DEF job
<1>5. DOMAIN work' = 0 .. n - 1 /\ \A t \in 0 .. n - 1 : work'[t] = job(t) /\ held'[t] = <<>>
  BY <1>1
<1>6. \A c \in Firsts : \E t \in 0 .. n - 1 : c \in ThreadCells(t, n)
  <2> SUFFICES ASSUME NEW c \in Firsts PROVE \E t \in 0 .. n - 1 : c \in ThreadCells(t, n)
    OBVIOUS
  <2> DEFINE o == c[2]
  <2>1. o \in 0 .. mat.nOut - 1
    BY DEF Firsts
  <2> HIDE DEF o
  <2>2. WaveOf(o) \in 0 .. NWaves - 1
    BY <2>1, OutputFacts
  <2>3. WaveOf(o) \in Nat
    BY <1>2, <2>2
  <2>4. WaveOf(o) % n \in 0 .. n - 1
    BY <1>3, <2>3, DivisionType
  <2> QED
    BY <2>4 DEF ThreadCells, o
<1> QED
  BY <1>4, <1>5, <1>6 DEF Dealt

-----------------------------------------------------------------------------
(* The theorems.                                                           *)

\* What the threads have been given and hold stays apart in every call, on
\* every path, whatever the other variables do.
THEOREM Shares == BuiltSpec => []LinearInv
<1>1. BuiltInit => LinearInv
  BY InitLinear DEF BuiltInit
<1>2. LinearInv /\ [LinearStep \/ GpuStep]_allVars => LinearInv'
  <2> SUFFICES ASSUME LinearInv, [LinearStep \/ GpuStep]_allVars
               PROVE  LinearInv'
    OBVIOUS
  <2>1. CASE LinearStep
    BY <2>1, LinearKeeps DEF LinearStep
  <2>2. CASE UNCHANGED vars
    <3>1. UNCHANGED <<conf, call, work, held>>
      BY <2>2 DEF vars
    <3> QED
      BY <3>1, WorkSame DEF LinearInv, CallInv
  <2> QED
    BY <2>1, <2>2 DEF GpuStep, allVars
<1> QED
  BY <1>1, <1>2, PTL DEF BuiltSpec

\* Two threads of a product never have the same cell of y in their hands:
\* linear_job and qlinear_job split the rows, wave_job and mac_wave_fn deal
\* out the waves, and no sum that is added to y is lost, for any shape of the
\* matrix and any numbers of threads, channels, banks and tokens.
THEOREM WritersApart == BuiltSpec => []OneWriter
BY Shares, OneWriterHolds, PTL

\* Whatever is done to the device, by this process, the MAC worker or the
\* simulator, it keeps its shape; and the commands of a plan that are still to
\* come are commands it can read one way.
THEOREM Commands == BuiltSpec => []DeviceInv
<1>1. BuiltInit => DeviceInv
  BY InitDevice DEF BuiltInit
<1>2. LinearInv /\ DeviceInv /\ [LinearStep \/ GpuStep]_allVars => DeviceInv'
  <2> SUFFICES ASSUME LinearInv, DeviceInv, [LinearStep \/ GpuStep]_allVars
               PROVE  DeviceInv'
    OBVIOUS
  <2>1. CASE LinearStep
    BY <2>1, DeviceKeeps DEF LinearStep
  <2>2. CASE UNCHANGED vars
    <3>1. conf' = conf /\ UNCHANGED <<dev, hook, rowBase, nextRow, todo, isr, call>>
      BY <2>2 DEF vars
    <3> QED
      BY <3>1, DeviceSame
  <2> QED
    BY <2>1, <2>2 DEF GpuStep, allVars
<1> QED
  BY <1>1, <1>2, Shares, PTL DEF BuiltSpec

\* "PIM_GEMV_SCALAR_STEPS": for every command that is issued, in the state it
\* is issued in, the fast paths of device.cpp do what the scalar steps of
\* pu.cpp do, for any numbers of lanes, banks, channels and registers.
THEOREM FastPaths == BuiltSpec => []FastIsScalar
BY Shares, Commands, FastHolds, PTL
=============================================================================
