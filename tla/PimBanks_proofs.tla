--------------------------- MODULE PimBanks_proofs ---------------------------
(***************************************************************************)
(* Proofs about PimBanks, for every set of weights and shapes, every       *)
(* number of channels and rows and every size of the arena.  The inductive *)
(* invariant has one part for the rows that were given out (RowInv), one   *)
(* for the dense regions (RegionInv), and two for what is in them as long  *)
(* as no region was refused: where the regions of a matrix are (HomeInv)   *)
(* and what their rows hold (ContentInv).                                  *)
(***************************************************************************)
EXTENDS PimBanks, LoopTheorems

Entry == [elems : {s.groups * s.cols : s \in Shapes}, shape : Shapes \cup {NoShape},
          rowBase : Nat \cup {-1}, stale : BOOLEAN]

\* What a row of a channel may hold.
Content == (Keys \X (0 .. MaxVersion) \X Nat) \cup {Zero, Torn}
SlotsOf(n) == [0 .. n - 1 -> Content]
Region == UNION {[ch : 0 .. NCh - 1, row0 : Nat, nRows : {n}, cols : Nat \ {0},
                  slot : SlotsOf(n)] : n \in Nat \ {0}}

\* The entries that were given rows.
Given(k) == k \in Interned /\ intern[k].rowBase >= 0
End(e)   == e.rowBase + Waves(e.shape)

\* The variables have their types, and rows are given for a shape.
TypeInv ==
  /\ intern \in [Keys -> Entry \cup {Absent}]
  /\ version \in [Keys -> 0 .. MaxVersion] /\ nextRow \in 0 .. MaxRow
  /\ regions \in Seq(Region) /\ dense \in Seq(Nat)
  /\ bump \in Nat /\ refused \in BOOLEAN
  /\ Shared => bump <= ArenaSize /\ Len(regions) <= MaxRegions
  /\ \A k \in Interned : IF intern[k].rowBase >= 0 THEN intern[k].shape \in Shapes
                                                   ELSE intern[k].stale

\* The rows given out lie below next_row, and no two matrices share one.
RowInv ==
  /\ \A k \in Keys : Given(k) => End(intern[k]) <= nextRow
  /\ \A k, j \in Keys : k # j /\ Given(k) /\ Given(j) =>
       End(intern[k]) <= intern[j].rowBase \/ End(intern[j]) <= intern[k].rowBase

\* The client's regions, in a state d of the DRAM, are the latest ones of the
\* table, in its order; no two of them are in the same place.
Reg(d, i) == d.regions[d.dense[i]]
Window(d) == /\ Len(d.dense) <= Len(d.regions)
             /\ \A i \in 1 .. Len(d.dense) :
                  d.dense[i] = Len(d.regions) - Len(d.dense) + i
NoTwins(d) == \A i, j \in 1 .. Len(d.dense) :
                SamePlace(Reg(d, i), Reg(d, j)) => i = j
Now == [regions |-> regions, dense |-> dense, store |-> store,
        bump |-> bump, refused |-> refused]

RegionInv == /\ Window(Now) /\ NoTwins(Now)
             /\ \A i \in 1 .. Len(dense) : Reg(Now, i).row0 < nextRow

\* Where e's rows of channel ch are in d: in a region of its own, and later
\* regions of the channel begin above them.
Home(d, e, ch) == \E i \in 1 .. Len(d.dense) :
  /\ SamePlace(Reg(d, i), EmptyRegion(ch, e))
  /\ \A j \in i + 1 .. Len(d.dense) : Reg(d, j).ch = ch => End(e) <= Reg(d, j).row0

\* The matrix k was given rows that the banks have.
Fits(k) == Given(k) /\ End(intern[k]) <= NRows

HomeInv == ~refused => \A k \in Keys : Fits(k) =>
             \A ch \in 0 .. NCh - 1 : Home(Now, intern[k], ch)

\* The regions in e's place hold the present state of k.
Holds(d, k, e, v) == \A g \in Groups(e.shape), i \in 1 .. Len(d.dense) :
  SamePlace(Reg(d, i), EmptyRegion(Ch(g), e)) => Reg(d, i).slot[g \div NCh] = <<k, v, g>>

ContentInv == ~refused => \A k \in Keys : Fits(k) /\ ~intern[k].stale =>
                Holds(Now, k, intern[k], version[k])

IInv == TypeInv /\ RowInv /\ RegionInv /\ HomeInv /\ ContentInv
-----------------------------------------------------------------------------
\* The constants are numbers, as the code declares them.
LEMMA Bounds == /\ NCh \in Nat \ {0} /\ NRows \in Nat /\ ArenaSize \in Nat
                /\ MaxRegions \in Nat /\ MaxVersion \in Nat /\ MaxRow \in Nat
                /\ Shared \in BOOLEAN
  BY BanksAssumption

\* A shape has rows and columns, and no more waves than groups.
LEMMA ShapeFacts ==
  ASSUME NEW s \in Shapes
  PROVE  /\ s.groups \in Nat \ {0} /\ s.cols \in Nat \ {0}
         /\ s.groups * s.cols \in Nat
         /\ Waves(s) \in Nat \ {0} /\ Waves(s) <= s.groups
<1>1. s.groups \in Nat \ {0} /\ s.cols \in Nat \ {0}
  BY BanksAssumption
<1>2. ASSUME NEW m \in Nat, NEW n \in Nat PROVE m * n \in Nat
  OBVIOUS
<1> QED
  BY <1>1, <1>2, Bounds, RoundingUp DEF Waves

\* Each group has a channel and a row within the waves of its matrix.
LEMMA GroupFacts ==
  ASSUME NEW s \in Shapes, NEW g \in Groups(s)
  PROVE  /\ g \in Nat /\ Ch(g) \in 0 .. NCh - 1
         /\ g \div NCh \in 0 .. Waves(s) - 1 /\ g \div NCh \in 0 .. s.groups - 1
<1>1. s.groups \in Nat \ {0} /\ g \in 0 .. s.groups - 1
  BY ShapeFacts DEF Groups
<1>2. g \div NCh < Waves(s)
  BY <1>1, Bounds, RoundingUp DEF Waves
<1>3. g \div NCh \in Nat /\ g % NCh \in 0 .. NCh - 1 /\ g \div NCh <= g
  <2>1. g \in Nat /\ NCh \in Nat \ {0}
    BY <1>1, Bounds
  <2> QED
    BY <2>1, DivisionType
<1> QED
  BY <1>1, <1>2, <1>3, ShapeFacts DEF Ch

\* A group is known by its channel and its row.
LEMMA GroupUnique ==
  ASSUME NEW s \in Shapes, NEW g \in Groups(s), NEW h \in Groups(s),
         Ch(g) = Ch(h), g \div NCh = h \div NCh
  PROVE  g = h
  BY GroupFacts, Bounds, DivisionUnique DEF Ch

\* The last group lies in the last wave.
LEMMA LastWave ==
  ASSUME NEW s \in Shapes
  PROVE  s.groups - 1 \in Groups(s) /\ (s.groups - 1) \div NCh = Waves(s) - 1
<1>1. s.groups \in Nat \ {0}
  BY ShapeFacts
<1>2. (s.groups - 1) \div NCh = (s.groups + NCh - 1) \div NCh - 1
  BY <1>1, Bounds, RoundingUp
<1> QED
  BY <1>1, <1>2 DEF Waves, Groups

-----------------------------------------------------------------------------
(* ensure_dense and the loop over the channels.                            *)

Placeable(e) == e.rowBase \in Nat /\ e.shape \in Shapes

DramOf(st) == [regions : Seq(Region), dense : Seq(Nat), store : {st},
               bump : Nat, refused : BOOLEAN]
Room(d) == Shared => d.bump <= ArenaSize /\ Len(d.regions) <= MaxRegions

Reuse(d, c, q) == \E i \in 1 .. Len(d.dense) :
  /\ SamePlace(Reg(d, i), q)
  /\ c.dense = d.dense /\ c.refused = d.refused
  /\ c.regions = [d.regions EXCEPT ![d.dense[i]] = q]
Allocate(d, c, q) ==
  /\ \A i \in 1 .. Len(d.dense) : ~SamePlace(Reg(d, i), q)
  /\ c.regions = Append(d.regions, q)
  /\ c.dense = Append(d.dense, Len(d.regions) + 1)
  /\ c.refused = d.refused
Refuse(d, c) == c.refused /\ c.regions = d.regions /\ c.dense = d.dense

\* The region that ensure_dense asks for is a region of the table.
LEMMA EmptyType ==
  ASSUME NEW ch \in 0 .. NCh - 1, NEW e, Placeable(e)
  PROVE  /\ EmptyRegion(ch, e) \in Region
         /\ EmptyRegion(ch, e).ch = ch
         /\ EmptyRegion(ch, e).row0 = e.rowBase
         /\ EmptyRegion(ch, e).nRows = e.shape.groups
         /\ EmptyRegion(ch, e).cols = e.shape.cols
<1> DEFINE n == e.shape.groups
<1>1. n \in Nat \ {0} /\ e.shape.cols \in Nat \ {0} /\ e.rowBase \in Nat
  BY ShapeFacts DEF Placeable
<1>2. [o \in Groups(e.shape) |-> Zero] \in SlotsOf(n)
  BY DEF SlotsOf, Groups, Content
<1>3. EmptyRegion(ch, e) \in [ch : 0 .. NCh - 1, row0 : Nat, nRows : {n},
                              cols : Nat \ {0}, slot : SlotsOf(n)]
  BY <1>1, <1>2 DEF EmptyRegion
<1> QED
  BY <1>1, <1>3 DEF EmptyRegion, Region

\* ensure_dense zeroes a region of the client in the same place, appends one, or
\* refuses; the arena and its table are not overrun.
LEMMA EnsureCases ==
  ASSUME NEW st, NEW d \in DramOf(st), Window(d),
         NEW ch \in 0 .. NCh - 1, NEW e, Placeable(e)
  PROVE  LET c == EnsureDense(d, ch, e)
             q == EmptyRegion(ch, e)
         IN /\ c \in DramOf(st) /\ (Room(d) => Room(c))
            /\ Reuse(d, c, q) \/ Allocate(d, c, q) \/ Refuse(d, c)
<1> DEFINE q == EmptyRegion(ch, e)
           old == {i \in DOMAIN d.dense : SamePlace(d.regions[d.dense[i]], q)}
           need == q.nRows * q.cols
           full == Shared /\ d.bump + need > ArenaSize
           noSlot == Shared /\ Len(d.regions) >= MaxRegions
           c == EnsureDense(d, ch, e)
<1>1. /\ d.regions \in Seq(Region) /\ d.dense \in Seq(Nat) /\ d.store = st
      /\ d.bump \in Nat /\ d.refused \in BOOLEAN
      /\ d = [regions |-> d.regions, dense |-> d.dense, store |-> d.store,
              bump |-> d.bump, refused |-> d.refused]
      /\ DOMAIN d.dense = 1 .. Len(d.dense)
  BY DEF DramOf
<1>2. q \in Region /\ need \in Nat
  <2>1. q.nRows * q.cols = e.shape.groups * e.shape.cols
    BY EmptyType
  <2> QED
    BY <2>1, EmptyType, ShapeFacts DEF Placeable
<1> HIDE DEF q, need
<1>3. CASE old # {}
  <2>1. PICK i \in old : Min(old) = i
    <3>1. old \in SUBSET Nat
      BY <1>1
    <3>2. PICK i \in old : \A j \in old : i <= j
      BY <3>1, <1>3, LeastElement
    <3>3. Min(old) \in old
      BY <3>2 DEF Min
    <3> QED
      BY <3>3
  <2>2. c = [d EXCEPT !.regions[d.dense[i]] = q]
    BY <1>3, <2>1 DEF EnsureDense, q
  <2>3. /\ c = [regions |-> [d.regions EXCEPT ![d.dense[i]] = q], dense |-> d.dense,
                store |-> d.store, bump |-> d.bump, refused |-> d.refused]
    BY <1>1, <2>2
  <2>4. i \in 1 .. Len(d.dense) /\ SamePlace(Reg(d, i), q)
    BY <1>1, <2>1 DEF Reg
  <2>5. d.dense[i] \in 1 .. Len(d.regions)
    BY <1>1, <2>4 DEF Window
  <2>6. /\ [d.regions EXCEPT ![d.dense[i]] = q] \in Seq(Region)
        /\ Len([d.regions EXCEPT ![d.dense[i]] = q]) = Len(d.regions)
    BY <1>1, <1>2, <2>5
  <2>7. c \in DramOf(st) /\ (Room(d) => Room(c))
    BY <1>1, <2>3, <2>6 DEF DramOf, Room
  <2> QED
    BY <2>3, <2>4, <2>7 DEF Reuse, q
<1>4. CASE old = {} /\ (full \/ noSlot)
  <2>1. c = IF full THEN [d EXCEPT !.refused = TRUE]
            ELSE [d EXCEPT !.refused = TRUE, !.bump = d.bump + need]
    BY <1>4 DEF EnsureDense, q, need
  <2>2. c = [regions |-> d.regions, dense |-> d.dense, store |-> d.store,
             bump |-> IF full THEN d.bump ELSE d.bump + need, refused |-> TRUE]
    <3> HIDE DEF full, c
    <3> QED
      BY <1>1, <2>1
  <2>3. (IF full THEN d.bump ELSE d.bump + need) \in Nat
    BY <1>1, <1>2
  <2>4. c \in DramOf(st)
    BY <1>1, <2>2, <2>3 DEF DramOf
  <2> HIDE DEF c
  <2>5. Refuse(d, c)
    BY <2>2 DEF Refuse
  <2>6. Room(d) => Room(c)
    BY <1>1, <1>2, <2>2, Bounds DEF Room
  <2> QED
    BY <2>4, <2>5, <2>6 DEF c, q
<1>5. CASE old = {} /\ ~full /\ ~noSlot
  <2>1. c = [d EXCEPT !.regions = Append(@, q), !.dense = Append(@, Len(d.regions) + 1),
                      !.bump = d.bump + need]
    BY <1>5 DEF EnsureDense, q, need
  <2>2. c = [regions |-> Append(d.regions, q), dense |-> Append(d.dense, Len(d.regions) + 1),
             store |-> d.store, bump |-> d.bump + need, refused |-> d.refused]
    BY <1>1, <2>1
  <2>3. c \in DramOf(st) /\ (Room(d) => Room(c))
    BY <1>1, <1>2, <1>5, <2>2, Bounds DEF DramOf, Room
  <2>4. \A i \in 1 .. Len(d.dense) : ~SamePlace(Reg(d, i), q)
    BY <1>1, <1>5 DEF Reg
  <2> QED
    BY <2>2, <2>3, <2>4 DEF Allocate, q
<1> QED
  BY <1>3, <1>4, <1>5 DEF q

\* The parts of a state of the DRAM.
LEMMA DramTypes ==
  ASSUME NEW st, NEW d \in DramOf(st)
  PROVE  /\ d.regions \in Seq(Region) /\ d.dense \in Seq(Nat)
         /\ d.store = st /\ d.refused \in BOOLEAN
  BY DEF DramOf

\* The tables have a length.
LEMMA DramLengths ==
  ASSUME NEW st, NEW d \in DramOf(st)
  PROVE  Len(d.dense) \in Nat /\ Len(d.regions) \in Nat
  BY DramTypes

\* The client's regions are numbered without gaps up to the end of the table.
LEMMA WindowFacts ==
  ASSUME NEW st, NEW d \in DramOf(st), Window(d)
  PROVE  /\ Len(d.dense) <= Len(d.regions)
         /\ \A i \in 1 .. Len(d.dense) : /\ d.dense[i] = Len(d.regions) - Len(d.dense) + i
                                         /\ d.dense[i] \in 1 .. Len(d.regions)
         /\ \A i, j \in 1 .. Len(d.dense) : d.dense[i] = d.dense[j] => i = j
<1> DEFINE m == Len(d.dense)
           n == Len(d.regions)
<1>1. m \in Nat /\ n \in Nat
  BY DramLengths
<1>2. m <= n /\ \A i \in 1 .. m : d.dense[i] = n - m + i
  BY DEF Window
<1> HIDE DEF m, n
<1>3. \A i \in 1 .. m : d.dense[i] \in 1 .. n
  BY <1>1, <1>2
<1>4. \A i, j \in 1 .. m : d.dense[i] = d.dense[j] => i = j
  BY <1>1, <1>2
<1> QED
  BY <1>2, <1>3, <1>4 DEF m, n

\* The client's regions after each of the three cases.
LEMMA ReuseRegions ==
  ASSUME NEW st, NEW d \in DramOf(st), Window(d), NEW q, NEW c \in DramOf(st),
         NEW i \in 1 .. Len(d.dense), SamePlace(Reg(d, i), q),
         c.dense = d.dense, c.regions = [d.regions EXCEPT ![d.dense[i]] = q]
  PROVE  /\ Window(c) /\ Len(c.dense) = Len(d.dense)
         /\ \A j \in 1 .. Len(d.dense) : Reg(c, j) = IF j = i THEN q ELSE Reg(d, j)
<1>1. Len(c.regions) = Len(d.regions)
  BY DramTypes
<1>2. \A j \in 1 .. Len(d.dense) : Reg(c, j) = IF j = i THEN q ELSE Reg(d, j)
  <2> TAKE j \in 1 .. Len(d.dense)
  <2>1. d.dense[j] \in 1 .. Len(d.regions) /\ (d.dense[i] = d.dense[j] => i = j)
    BY WindowFacts
  <2> QED
    BY <2>1, DramTypes DEF Reg
<1> QED
  BY <1>1, <1>2 DEF Window

\* After an allocation the client's last region is the new one.
LEMMA AllocateRegions ==
  ASSUME NEW st, NEW d \in DramOf(st), Window(d), NEW q, NEW c, Allocate(d, c, q)
  PROVE  /\ Window(c) /\ Len(c.dense) = Len(d.dense) + 1
         /\ \A j \in 1 .. Len(d.dense) : Reg(c, j) = Reg(d, j)
         /\ Reg(c, Len(d.dense) + 1) = q
<1> DEFINE m == Len(d.dense)
           n == Len(d.regions)
<1>1. /\ Len(c.regions) = n + 1 /\ Len(c.dense) = m + 1
      /\ \A i \in 1 .. n : c.regions[i] = d.regions[i]
      /\ c.regions[n + 1] = q
      /\ \A i \in 1 .. m : c.dense[i] = d.dense[i]
      /\ c.dense[m + 1] = n + 1
  BY DramTypes DEF Allocate
<1>2. /\ m \in Nat /\ n \in Nat /\ m <= n
      /\ \A i \in 1 .. m : d.dense[i] = n - m + i /\ d.dense[i] \in 1 .. n
  BY WindowFacts, DramLengths
<1> HIDE DEF m, n
<1>3. /\ m + 1 <= n + 1
      /\ \A i \in 1 .. m + 1 : c.dense[i] = (n + 1) - (m + 1) + i
  BY <1>1, <1>2
<1>4. \A j \in 1 .. m : Reg(c, j) = Reg(d, j)
  BY <1>1, <1>2 DEF Reg
<1>5. Reg(c, m + 1) = q
  BY <1>1 DEF Reg
<1> QED
  BY <1>1, <1>3, <1>4, <1>5 DEF Window, m

\* The state d of the DRAM when the loop that started in d0 has looked after
\* the channels below n: the regions of d0 are still where they were, and only
\* those in e's place are zeroed; what is new is in e's place, in channels that
\* had no such region; and if nothing was refused every channel has one.
Zeroed(d0, d, n, e, i) == \E ch \in 0 .. n - 1 :
  Reg(d, i) = EmptyRegion(ch, e) /\ SamePlace(Reg(d0, i), EmptyRegion(ch, e))
Added(d0, d, n, e, i) == \E ch \in 0 .. n - 1 :
  /\ Reg(d, i) = EmptyRegion(ch, e)
  /\ \A j \in 1 .. Len(d0.dense) : ~SamePlace(Reg(d0, j), EmptyRegion(ch, e))
HasRegion(d, ch, e) == \E i \in 1 .. Len(d.dense) : SamePlace(Reg(d, i), EmptyRegion(ch, e))
After(d0, d, n, e) ==
  /\ d \in DramOf(d0.store) /\ Window(d) /\ NoTwins(d) /\ Room(d)
  /\ ~d.refused => ~d0.refused
  /\ Len(d0.dense) <= Len(d.dense)
  /\ \A i \in 1 .. Len(d0.dense) : Reg(d, i) = Reg(d0, i) \/ Zeroed(d0, d, n, e, i)
  /\ \A i \in Len(d0.dense) + 1 .. Len(d.dense) : Added(d0, d, n, e, i)
  /\ ~d.refused => \A ch \in 0 .. n - 1 : HasRegion(d, ch, e)

\* Being in the same place is an equivalence.
LEMMA PlaceFacts ==
  /\ \A r : SamePlace(r, r)
  /\ \A r, q : SamePlace(r, q) => SamePlace(q, r)
  /\ \A r, q, p : SamePlace(r, q) /\ SamePlace(q, p) => SamePlace(r, p)
  BY DEF SamePlace

\* One more channel of the loop of load_weights_f32.
LEMMA AfterStep ==
  ASSUME NEW d0, d0 \in DramOf(d0.store), Window(d0), NEW d, NEW n \in 1 .. NCh,
         NEW e, Placeable(e), After(d0, d, n - 1, e)
  PROVE  After(d0, EnsureDense(d, n - 1, e), n, e)
<1> DEFINE c == EnsureDense(d, n - 1, e)
           q == EmptyRegion(n - 1, e)
           st == d0.store
<1>0. n - 1 \in 0 .. NCh - 1 /\ n \in Nat /\ 0 .. n - 1 = (0 .. (n - 1) - 1) \cup {n - 1}
  BY Bounds
<1>1. /\ d \in DramOf(st) /\ Window(d) /\ NoTwins(d) /\ Room(d)
      /\ ~d.refused => ~d0.refused
      /\ Len(d0.dense) <= Len(d.dense)
      /\ \A i \in 1 .. Len(d0.dense) : Reg(d, i) = Reg(d0, i) \/ Zeroed(d0, d, n - 1, e, i)
      /\ \A i \in Len(d0.dense) + 1 .. Len(d.dense) : Added(d0, d, n - 1, e, i)
      /\ ~d.refused => \A ch \in 0 .. (n - 1) - 1 : HasRegion(d, ch, e)
  BY DEF After
<1>2. /\ c \in DramOf(st) /\ Room(c)
      /\ Reuse(d, c, q) \/ Allocate(d, c, q) \/ Refuse(d, c)
  BY <1>0, <1>1, EnsureCases
<1>3. /\ Len(d0.dense) \in Nat /\ Len(d.dense) \in Nat
  BY <1>1, DramLengths
<1> HIDE DEF c, q
<1>4. \A i \in 1 .. Len(d0.dense) : SamePlace(Reg(d0, i), Reg(d, i))
  BY <1>1, PlaceFacts DEF Zeroed
<1>5. /\ \A i : Zeroed(d0, d, n - 1, e, i) => Zeroed(d0, d, n, e, i)
      /\ \A i : Added(d0, d, n - 1, e, i) => Added(d0, d, n, e, i)
  BY <1>0 DEF Zeroed, Added
<1>6. CASE Reuse(d, c, q)
  <2>1. PICK i \in 1 .. Len(d.dense) :
          /\ SamePlace(Reg(d, i), q)
          /\ c.dense = d.dense /\ c.refused = d.refused
          /\ c.regions = [d.regions EXCEPT ![d.dense[i]] = q]
    BY <1>6 DEF Reuse
  <2>2. /\ Window(c) /\ Len(c.dense) = Len(d.dense)
        /\ \A j \in 1 .. Len(d.dense) : Reg(c, j) = IF j = i THEN q ELSE Reg(d, j)
    BY <1>1, <1>2, <2>1, ReuseRegions
  <2>3. \A j \in 1 .. Len(d.dense) : SamePlace(Reg(c, j), Reg(d, j))
    BY <2>1, <2>2, PlaceFacts
  <2>4. NoTwins(c)
    <3> SUFFICES ASSUME NEW j \in 1 .. Len(d.dense), NEW k \in 1 .. Len(d.dense),
                        SamePlace(Reg(c, j), Reg(c, k))
                 PROVE  j = k
      BY <2>2 DEF NoTwins
    <3>1. SamePlace(Reg(d, j), Reg(d, k))
      BY <2>3, PlaceFacts
    <3> QED
      BY <1>1, <3>1 DEF NoTwins
  <2>5. ASSUME NEW j \in 1 .. Len(d0.dense)
        PROVE  Reg(c, j) = Reg(d0, j) \/ Zeroed(d0, c, n, e, j)
    <3>0. j \in 1 .. Len(d.dense)
      BY <1>1, <1>3
    <3>1. CASE j = i
      <4>1. Reg(c, j) = q /\ SamePlace(Reg(d0, j), q)
        BY <1>4, <2>1, <2>2, <3>0, <3>1, PlaceFacts
      <4> QED
        BY <1>0, <4>1 DEF Zeroed, q
    <3>2. CASE j # i
      <4>1. Reg(c, j) = Reg(d, j)
        BY <2>2, <3>0, <3>2
      <4> QED
        BY <1>1, <1>0, <4>1 DEF Zeroed
    <3> QED
      BY <3>1, <3>2
  <2>6. ASSUME NEW j \in Len(d0.dense) + 1 .. Len(c.dense)
        PROVE  Added(d0, c, n, e, j)
    <3>0. j \in 1 .. Len(d.dense) /\ Added(d0, d, n - 1, e, j)
      BY <1>1, <1>3, <2>2
    <3>1. PICK ch \in 0 .. (n - 1) - 1 :
            /\ Reg(d, j) = EmptyRegion(ch, e)
            /\ \A k \in 1 .. Len(d0.dense) : ~SamePlace(Reg(d0, k), EmptyRegion(ch, e))
      BY <3>0 DEF Added
    <3>2. CASE j = i
      <4>1. SamePlace(EmptyRegion(ch, e), q) /\ ch \in 0 .. NCh - 1
        <5>1. SamePlace(EmptyRegion(ch, e), q)
          BY <2>1, <3>1, <3>2
        <5> QED
          BY <5>1, Bounds
      <4>2. ch = n - 1
        BY <1>0, <4>1, EmptyType DEF SamePlace, q
      <4> QED
        BY <1>0, <3>1, <4>2
    <3>3. CASE j # i
      <4>1. Reg(c, j) = Reg(d, j)
        BY <2>2, <3>0, <3>3
      <4> QED
        BY <1>0, <3>1, <4>1 DEF Added
    <3> QED
      BY <3>2, <3>3
  <2>7. ASSUME ~c.refused, NEW ch \in 0 .. n - 1 PROVE HasRegion(c, ch, e)
    <3>1. HasRegion(d, ch, e)
      BY <1>0, <1>1, <2>1, <2>7 DEF HasRegion, q
    <3> QED
      BY <2>2, <2>3, <3>1, PlaceFacts DEF HasRegion
  <2> QED
    BY <1>1, <1>2, <2>1, <2>2, <2>4, <2>5, <2>6, <2>7 DEF After, c
<1>7. CASE Allocate(d, c, q)
  <2>1. /\ Window(c) /\ Len(c.dense) = Len(d.dense) + 1
        /\ \A j \in 1 .. Len(d.dense) : Reg(c, j) = Reg(d, j)
        /\ Reg(c, Len(d.dense) + 1) = q
    BY <1>1, <1>7, AllocateRegions
  <2>2. c.refused = d.refused /\ \A j \in 1 .. Len(d.dense) : ~SamePlace(Reg(d, j), q)
    BY <1>7 DEF Allocate
  <2>3. NoTwins(c)
    <3> SUFFICES ASSUME NEW j \in 1 .. Len(c.dense), NEW k \in 1 .. Len(c.dense),
                        SamePlace(Reg(c, j), Reg(c, k))
                 PROVE  j = k
      BY DEF NoTwins
    <3>1. CASE j \in 1 .. Len(d.dense) /\ k \in 1 .. Len(d.dense)
      BY <1>1, <2>1, <3>1 DEF NoTwins
    <3>2. CASE j \in 1 .. Len(d.dense) /\ k = Len(d.dense) + 1
      BY <2>1, <2>2, <3>2
    <3>3. CASE k \in 1 .. Len(d.dense) /\ j = Len(d.dense) + 1
      BY <2>1, <2>2, <3>3, PlaceFacts
    <3> QED
      BY <1>3, <2>1, <3>1, <3>2, <3>3
  <2>4. ASSUME NEW j \in 1 .. Len(d0.dense)
        PROVE  Reg(c, j) = Reg(d0, j) \/ Zeroed(d0, c, n, e, j)
    <3>1. Reg(c, j) = Reg(d, j)
      BY <1>1, <1>3, <2>1
    <3> QED
      BY <1>0, <1>1, <3>1 DEF Zeroed
  <2>5. ASSUME NEW j \in Len(d0.dense) + 1 .. Len(c.dense)
        PROVE  Added(d0, c, n, e, j)
    <3>1. CASE j \in 1 .. Len(d.dense)
      <4>1. Reg(c, j) = Reg(d, j) /\ Added(d0, d, n - 1, e, j)
        BY <1>1, <1>3, <2>1, <3>1
      <4> QED
        BY <1>0, <4>1 DEF Added
    <3>2. CASE j = Len(d.dense) + 1
      <4>1. \A k \in 1 .. Len(d0.dense) : ~SamePlace(Reg(d0, k), q)
        <5> TAKE k \in 1 .. Len(d0.dense)
        <5>1. k \in 1 .. Len(d.dense) /\ SamePlace(Reg(d, k), Reg(d0, k))
          BY <1>1, <1>3, <1>4, PlaceFacts
        <5> QED
          BY <2>2, <5>1, PlaceFacts
      <4> QED
        BY <1>0, <2>1, <3>2, <4>1 DEF Added, q
    <3> QED
      BY <1>3, <2>1, <3>1, <3>2
  <2>6. ASSUME ~c.refused, NEW ch \in 0 .. n - 1 PROVE HasRegion(c, ch, e)
    <3>1. CASE ch = n - 1
      BY <1>3, <2>1, <3>1, PlaceFacts DEF HasRegion, q
    <3>2. CASE ch # n - 1
      <4>1. HasRegion(d, ch, e)
        BY <1>0, <1>1, <2>2, <2>6, <3>2
      <4> QED
        BY <1>3, <2>1, <4>1 DEF HasRegion
    <3> QED
      BY <3>1, <3>2
  <2> QED
    BY <1>1, <1>2, <1>3, <2>1, <2>2, <2>3, <2>4, <2>5, <2>6 DEF After, c
<1>8. CASE Refuse(d, c)
  <2>1. c.refused /\ c.dense = d.dense /\ c.regions = d.regions
    BY <1>8 DEF Refuse
  <2>2. Window(c) /\ NoTwins(c) /\ \A j : Reg(c, j) = Reg(d, j)
    BY <1>1, <2>1 DEF Window, NoTwins, Reg
  <2>3. ASSUME NEW j \in 1 .. Len(d0.dense)
        PROVE  Reg(c, j) = Reg(d0, j) \/ Zeroed(d0, c, n, e, j)
    BY <1>0, <1>1, <2>2 DEF Zeroed
  <2>4. ASSUME NEW j \in Len(d0.dense) + 1 .. Len(c.dense)
        PROVE  Added(d0, c, n, e, j)
    BY <1>0, <1>1, <2>1, <2>2 DEF Added
  <2> QED
    BY <1>1, <1>2, <2>1, <2>2, <2>3, <2>4 DEF After, c
<1> QED
  BY <1>2, <1>6, <1>7, <1>8 DEF c

\* ensure_dense keeps the client's regions at the end of the table.
LEMMA EnsureWindow ==
  ASSUME NEW st, NEW d \in DramOf(st), Window(d),
         NEW ch \in 0 .. NCh - 1, NEW e, Placeable(e)
  PROVE  EnsureDense(d, ch, e) \in DramOf(st) /\ Window(EnsureDense(d, ch, e))
<1> DEFINE c == EnsureDense(d, ch, e)
           q == EmptyRegion(ch, e)
<1>1. c \in DramOf(st) /\ (Reuse(d, c, q) \/ Allocate(d, c, q) \/ Refuse(d, c))
  BY EnsureCases
<1> SUFFICES Window(c)
  BY <1>1
<1> HIDE DEF c, q
<1>2. CASE Reuse(d, c, q)
  <2>1. PICK i \in 1 .. Len(d.dense) :
          /\ SamePlace(Reg(d, i), q)
          /\ c.dense = d.dense /\ c.refused = d.refused
          /\ c.regions = [d.regions EXCEPT ![d.dense[i]] = q]
    BY <1>2 DEF Reuse
  <2> QED
    BY <1>1, <2>1, ReuseRegions
<1>3. CASE Allocate(d, c, q)
  BY <1>3, AllocateRegions
<1>4. CASE Refuse(d, c)
  BY <1>4 DEF Refuse, Window
<1> QED
  BY <1>1, <1>2, <1>3, <1>4

\* The whole loop over the channels, by induction over its rounds.
LEMMA EnsureAllAfter ==
  ASSUME NEW d0, d0 \in DramOf(d0.store), Window(d0), NoTwins(d0), Room(d0),
         NEW e, Placeable(e)
  PROVE  After(d0, EnsureAll(d0, e), NCh, e)
<1> DEFINE S == {d \in DramOf(d0.store) : Window(d)}
           F == [p \in S \X (1 .. NCh) |-> EnsureDense(p[1], p[2] - 1, e)]
           Runs(f) == f = [ch \in 0 .. NCh |->
                             IF ch = 0 THEN d0 ELSE EnsureDense(f[ch - 1], ch - 1, e)]
           f == CHOOSE f : Runs(f)
<1>1. NCh \in Nat /\ \A n \in 1 .. NCh : n - 1 \in 0 .. NCh - 1
  BY Bounds
<1>2. F \in [S \X (1 .. NCh) -> S]
  <2>1. ASSUME NEW d \in S, NEW n \in 1 .. NCh PROVE EnsureDense(d, n - 1, e) \in S
    BY <1>1, EnsureWindow
  <2> QED
    BY <2>1
<1>3. \E g : Runs(g)
  <2>1. d0 \in S
    OBVIOUS
  <2> HIDE DEF S
  <2>2. PICK g \in [0 .. NCh -> S] : Rounds(g, NCh, d0, F)
    <3> HIDE DEF F
    <3> QED
      BY <1>1, <1>2, <2>1, LoopRecursion
  <2>3. ASSUME NEW n \in 1 .. NCh
        PROVE  F[<<g[n - 1], n>>] = EnsureDense(g[n - 1], n - 1, e)
    <3>1. n - 1 \in 0 .. NCh
      BY <1>1
    <3>2. g[n - 1] \in S
      BY <3>1
    <3> QED
      BY <3>2
  <2> HIDE DEF F
  <2>4. \A n \in 0 .. NCh : n # 0 => n \in 1 .. NCh
    BY <1>1
  <2>5. g = [n \in 0 .. NCh |-> IF n = 0 THEN d0 ELSE EnsureDense(g[n - 1], n - 1, e)]
    BY <2>2, <2>3, <2>4 DEF Rounds
  <2> QED
    BY <2>5
<1>4. Runs(f)
  <2> HIDE DEF Runs
  <2> QED
    BY <1>3
<1>5. f[0] = d0 /\ \A n \in 1 .. NCh : f[n] = EnsureDense(f[n - 1], n - 1, e)
  <2> HIDE DEF f
  <2> QED
    BY <1>1, <1>4
<1> DEFINE T == {n \in 0 .. NCh : After(d0, f[n], n, e)}
<1> HIDE DEF f
<1>6. 0 \in T
  <2>1. After(d0, d0, 0, e)
    <3>1. Len(d0.dense) \in Nat
      BY DramLengths
    <3> QED
      BY <3>1 DEF After
  <2> QED
    BY <1>1, <1>5, <2>1
<1>7. ASSUME NEW n \in 1 .. NCh, n - 1 \in T PROVE n \in T
  BY <1>1, <1>5, <1>7, AfterStep
<1>8. NCh \in T
  <2> HIDE DEF T
  <2> QED
    BY <1>1, <1>6, <1>7, LoopInduction
<1>9. EnsureAll(d0, e) = f[NCh]
  BY DEF EnsureAll, f
<1> QED
  BY <1>8, <1>9

-----------------------------------------------------------------------------
(* The rows that load_weights_f32 writes.                                  *)

\* The parts of a region; its rows may be written.
LEMMA RegionFacts ==
  ASSUME NEW r \in Region
  PROVE  /\ r.ch \in 0 .. NCh - 1 /\ r.row0 \in Nat /\ r.nRows \in Nat \ {0}
         /\ r.cols \in Nat \ {0} /\ r.slot \in [0 .. r.nRows - 1 -> Content]
         /\ \A s \in [0 .. r.nRows - 1 -> Content] :
              /\ [r EXCEPT !.slot = s] \in Region /\ [r EXCEPT !.slot = s].slot = s
              /\ SamePlace([r EXCEPT !.slot = s], r)
<1>1. PICK n \in Nat \ {0} :
        r \in [ch : 0 .. NCh - 1, row0 : Nat, nRows : {n}, cols : Nat \ {0}, slot : SlotsOf(n)]
  BY DEF Region
<1>2. /\ r.ch \in 0 .. NCh - 1 /\ r.row0 \in Nat /\ r.nRows = n
      /\ r.cols \in Nat \ {0} /\ r.slot \in SlotsOf(n)
  BY <1>1
<1>3. ASSUME NEW s \in SlotsOf(n)
      PROVE  /\ [r EXCEPT !.slot = s] \in Region /\ [r EXCEPT !.slot = s].slot = s
             /\ SamePlace([r EXCEPT !.slot = s], r)
  <2> DEFINE q == [r EXCEPT !.slot = s]
  <2>1. q \in [ch : 0 .. NCh - 1, row0 : Nat, nRows : {n}, cols : Nat \ {0}, slot : SlotsOf(n)]
    BY <1>1
  <2>2. q.ch = r.ch /\ q.row0 = r.row0 /\ q.nRows = r.nRows /\ q.cols = r.cols /\ q.slot = s
    BY <1>1
  <2> QED
    BY <2>1, <2>2 DEF Region, SamePlace
<1> QED
  BY <1>2, <1>3 DEF SlotsOf

\* Only the rows of e's groups are written, and a row whose region is in e's
\* place gets its group.
LEMMA WriteEffect ==
  ASSUME NEW st, NEW d \in DramOf(st), NEW k \in Keys, version[k] \in 0 .. MaxVersion,
         NEW e, Placeable(e), NEW c, c = WriteWeights(d, k, e)
  PROVE  /\ c.dense = d.dense /\ c.bump = d.bump /\ c.refused = d.refused
         /\ c.regions \in Seq(Region) /\ Len(c.regions) = Len(d.regions)
         /\ \A i \in 1 .. Len(d.regions) :
              /\ SamePlace(c.regions[i], d.regions[i])
              /\ \A o \in 0 .. d.regions[i].nRows - 1 :
                   (\A g \in Groups(e.shape) : Row(e, g) # d.regions[i].row0 + o)
                     => c.regions[i].slot[o] = d.regions[i].slot[o]
              /\ \A g \in Groups(e.shape) :
                   SamePlace(d.regions[i], EmptyRegion(Ch(g), e))
                   /\ RegionFor(d.regions, d.dense, Ch(g), Row(e, g)) = i
                   => c.regions[i].slot[g \div NCh] = <<k, version[k], g>>
<1> DEFINE at(g) == RegionFor(d.regions, d.dense, Ch(g), Row(e, g))
           put(i, o) == {g \in Groups(e.shape) :
                           at(g) = i /\ Ch(g) = d.regions[i].ch
                                     /\ Row(e, g) = d.regions[i].row0 + o}
           content(g) == <<k, version[k], g>>
           new(i, o) == IF put(i, o) = {} THEN d.regions[i].slot[o]
                        ELSE IF d.regions[i].cols >= e.shape.cols
                        THEN content(CHOOSE g \in put(i, o) : TRUE)
                        ELSE Torn
           row(i) == [o \in DOMAIN d.regions[i].slot |-> new(i, o)]
<1>1. /\ c.dense = d.dense /\ c.bump = d.bump /\ c.refused = d.refused
      /\ c.regions = [i \in DOMAIN d.regions |-> [d.regions[i] EXCEPT !.slot = row(i)]]
  <2> DEFINE A == [i \in DOMAIN d.regions |-> [d.regions[i] EXCEPT !.slot = row(i)]]
             loose == {g \in Groups(e.shape) : at(g) = 0}
             places == {<<Ch(g), Row(e, g)>> : g \in loose}
             B == [p \in DOMAIN d.store \cup places |->
                     IF p \in places
                     THEN content(CHOOSE g \in loose : <<Ch(g), Row(e, g)>> = p)
                     ELSE d.store[p]]
  <2>1. c = [d EXCEPT !.regions = A, !.store = B]
    BY DEF WriteWeights
  <2> HIDE DEF A, B
  <2>2. /\ c.dense = d.dense /\ c.bump = d.bump /\ c.refused = d.refused
        /\ c.regions = A
    BY <2>1 DEF DramOf
  <2> QED
    BY <2>2 DEF A
<1>2. DOMAIN d.regions = 1 .. Len(d.regions) /\ Len(d.regions) \in Nat
      /\ \A i \in 1 .. Len(d.regions) : d.regions[i] \in Region
  BY DramTypes
<1>3. \A g \in Groups(e.shape) : content(g) \in Content /\ g \in Nat
  <2>1. \A g \in Groups(e.shape) : g \in Nat
    BY GroupFacts DEF Placeable
  <2> QED
    BY <2>1 DEF Content
<1> HIDE DEF at, content
<1>4. ASSUME NEW i \in 1 .. Len(d.regions)
      PROVE  /\ row(i) \in [0 .. d.regions[i].nRows - 1 -> Content]
             /\ \A o \in 0 .. d.regions[i].nRows - 1 : row(i)[o] = new(i, o)
  <2>1. /\ d.regions[i].slot \in [0 .. d.regions[i].nRows - 1 -> Content]
        /\ DOMAIN d.regions[i].slot = 0 .. d.regions[i].nRows - 1
    BY <1>2, RegionFacts
  <2>2. ASSUME NEW o \in 0 .. d.regions[i].nRows - 1 PROVE new(i, o) \in Content
    <3>1. CASE put(i, o) = {}
      BY <2>1, <3>1
    <3>2. CASE put(i, o) # {}
      <4>1. (CHOOSE g \in put(i, o) : TRUE) \in Groups(e.shape)
        BY <3>2
      <4> QED
        BY <1>3, <3>2, <4>1 DEF Content
    <3> QED
      BY <3>1, <3>2
  <2> HIDE DEF new
  <2> QED
    BY <2>1, <2>2
<1>5. ASSUME NEW i \in 1 .. Len(d.regions)
      PROVE  /\ c.regions[i] \in Region /\ c.regions[i].slot = row(i)
             /\ SamePlace(c.regions[i], d.regions[i])
  <2>1. c.regions[i] = [d.regions[i] EXCEPT !.slot = row(i)]
    BY <1>1, <1>2
  <2> HIDE DEF row
  <2> QED
    BY <1>2, <1>4, <2>1, RegionFacts
<1>6. c.regions \in Seq(Region) /\ Len(c.regions) = Len(d.regions)
  <2> HIDE DEF row
  <2>1. c.regions = [i \in 1 .. Len(d.regions) |-> c.regions[i]]
    BY <1>1, <1>2
  <2> QED
    BY <1>2, <1>5, <2>1
<1>7. ASSUME NEW i \in 1 .. Len(d.regions), NEW o \in 0 .. d.regions[i].nRows - 1,
             \A g \in Groups(e.shape) : Row(e, g) # d.regions[i].row0 + o
      PROVE  c.regions[i].slot[o] = d.regions[i].slot[o]
  <2>1. put(i, o) = {}
    BY <1>7
  <2>2. new(i, o) = d.regions[i].slot[o]
    BY <2>1
  <2> HIDE DEF new, row
  <2> QED
    BY <1>4, <1>5, <2>2
<1>8. ASSUME NEW i \in 1 .. Len(d.regions), NEW g \in Groups(e.shape),
             SamePlace(d.regions[i], EmptyRegion(Ch(g), e)), at(g) = i
      PROVE  c.regions[i].slot[g \div NCh] = content(g)
  <2> DEFINE o == g \div NCh
  <2>1. /\ Ch(g) \in 0 .. NCh - 1 /\ o \in 0 .. e.shape.groups - 1
        /\ e.rowBase \in Nat /\ e.shape \in Shapes /\ e.shape.cols \in Nat
    BY GroupFacts, ShapeFacts DEF Placeable
  <2>2. /\ d.regions[i].ch = Ch(g) /\ d.regions[i].row0 = e.rowBase
        /\ d.regions[i].nRows = e.shape.groups /\ d.regions[i].cols = e.shape.cols
    BY <1>8, <2>1, EmptyType DEF SamePlace
  <2>3. put(i, o) = {g}
    <3>1. g \in put(i, o)
      BY <1>8, <2>2 DEF Row
    <3>2. ASSUME NEW h \in put(i, o) PROVE h = g
      <4>1. Ch(h) = Ch(g) /\ e.rowBase + (h \div NCh) = e.rowBase + o
        BY <2>2 DEF Row
      <4>2. h \div NCh \in Nat
        BY <2>1, GroupFacts
      <4>3. h \div NCh = g \div NCh
        BY <2>1, <4>1, <4>2
      <4> QED
        BY <2>1, <4>1, <4>3, GroupUnique
    <3> QED
      BY <3>1, <3>2
  <2>4. (CHOOSE h \in put(i, o) : TRUE) = g
    BY <2>3
  <2>5. new(i, o) = content(g)
    BY <2>1, <2>2, <2>3, <2>4
  <2>6. o \in 0 .. d.regions[i].nRows - 1
    BY <2>1, <2>2
  <2> HIDE DEF new, row, o
  <2>7. c.regions[i].slot[o] = content(g)
    BY <1>4, <1>5, <2>5, <2>6
  <2> QED
    BY <2>7 DEF o
<1> QED
  <2>1. c.dense = d.dense /\ c.bump = d.bump /\ c.refused = d.refused
    BY <1>1
  <2> SUFFICES ASSUME NEW i \in 1 .. Len(d.regions)
               PROVE  /\ SamePlace(c.regions[i], d.regions[i])
                      /\ \A o \in 0 .. d.regions[i].nRows - 1 :
                           (\A g \in Groups(e.shape) : Row(e, g) # d.regions[i].row0 + o)
                             => c.regions[i].slot[o] = d.regions[i].slot[o]
                      /\ \A g \in Groups(e.shape) :
                           SamePlace(d.regions[i], EmptyRegion(Ch(g), e))
                           /\ RegionFor(d.regions, d.dense, Ch(g), Row(e, g)) = i
                           => c.regions[i].slot[g \div NCh] = <<k, version[k], g>>
    BY <1>6, <2>1, Zenon
  <2>2. SamePlace(c.regions[i], d.regions[i])
    BY <1>5
  <2>3. ASSUME NEW o \in 0 .. d.regions[i].nRows - 1,
               \A g \in Groups(e.shape) : Row(e, g) # d.regions[i].row0 + o
        PROVE  c.regions[i].slot[o] = d.regions[i].slot[o]
    BY <1>7, <2>3
  <2>4. ASSUME NEW g \in Groups(e.shape),
               SamePlace(d.regions[i], EmptyRegion(Ch(g), e)),
               RegionFor(d.regions, d.dense, Ch(g), Row(e, g)) = i
        PROVE  c.regions[i].slot[g \div NCh] = <<k, version[k], g>>
    BY <1>8, <2>4 DEF at, content
  <2> QED
    BY <2>2, <2>3, <2>4

\* The region that is looked up for a row is e's own, unless a later region of
\* the channel covers the row.
LEMMA RegionForHome ==
  ASSUME NEW st, NEW d \in DramOf(st), Window(d), NEW e, Placeable(e),
         NEW g \in Groups(e.shape), NEW i \in 1 .. Len(d.dense),
         SamePlace(Reg(d, i), EmptyRegion(Ch(g), e)),
         \A j \in i + 1 .. Len(d.dense) : ~Covers(Reg(d, j), Ch(g), Row(e, g))
  PROVE  RegionFor(d.regions, d.dense, Ch(g), Row(e, g)) = d.dense[i]
<1> DEFINE hits == {j \in DOMAIN d.dense : Covers(d.regions[d.dense[j]], Ch(g), Row(e, g))}
<1>1. /\ Ch(g) \in 0 .. NCh - 1 /\ g \div NCh \in 0 .. e.shape.groups - 1
      /\ e.rowBase \in Nat /\ e.shape.groups \in Nat
  BY GroupFacts, ShapeFacts DEF Placeable
<1>2. Covers(Reg(d, i), Ch(g), Row(e, g))
  <2>1. /\ Reg(d, i).ch = Ch(g) /\ Reg(d, i).row0 = e.rowBase
        /\ Reg(d, i).nRows = e.shape.groups
    BY <1>1, EmptyType DEF SamePlace
  <2>2. Row(e, g) \in e.rowBase .. e.rowBase + e.shape.groups - 1
    BY <1>1 DEF Row
  <2> QED
    BY <2>1, <2>2 DEF Covers
<1>3. DOMAIN d.dense = 1 .. Len(d.dense) /\ Len(d.dense) \in Nat
  BY DramTypes
<1>4. i \in hits /\ \A j \in hits : j <= i
  BY <1>2, <1>3 DEF Reg
<1>5. hits \in SUBSET Nat
  BY <1>3
<1> HIDE DEF hits
<1>6. Max(hits) = i
  <2>1. \A x \in hits : (\A y \in hits : x >= y) <=> x = i
    BY <1>4, <1>5
  <2> QED
    BY <1>4, <2>1 DEF Max
<1> QED
  BY <1>4, <1>6 DEF RegionFor, hits

\* The variables are a state of the DRAM.
LEMMA NowFacts ==
  ASSUME TypeInv
  PROVE  /\ Now \in DramOf(store) /\ Room(Now)
         /\ Now.store = store /\ Now.dense = dense /\ Now.regions = regions
         /\ Now.refused = refused
  BY DEF TypeInv, Now, DramOf, Room

\* Where the regions are after load_weights_f32 and what is in them.
Kept(c, i) == SamePlace(Reg(c, i), Reg(Now, i))
Appended(c, e, i) == \E ch \in 0 .. NCh - 1 : /\ SamePlace(Reg(c, i), EmptyRegion(ch, e))
                                               /\ ~HasRegion(Now, ch, e)

Untouched(c, e) == \A i \in 1 .. Len(dense) : \A o \in 0 .. Reg(Now, i).nRows - 1 :
  (\A ch \in 0 .. NCh - 1 : ~SamePlace(Reg(Now, i), EmptyRegion(ch, e)))
  /\ (\A g \in Groups(e.shape) : Row(e, g) # Reg(Now, i).row0 + o)
  => Reg(c, i).slot[o] = Reg(Now, i).slot[o]

\* load_weights_f32 as a whole: the old regions stay, new ones are e's, rows
\* that are not e's keep their content and e's rows get k's weights.
LEMMA LoadEffect ==
  ASSUME TypeInv, Window(Now), NoTwins(Now), NEW k \in Keys,
         NEW e, Placeable(e), NEW c, c = Load(k, e)
  PROVE  /\ c.regions \in Seq(Region) /\ c.dense \in Seq(Nat)
         /\ c.bump \in Nat /\ c.refused \in BOOLEAN /\ Room(c)
         /\ Window(c) /\ NoTwins(c)
         /\ ~c.refused => ~refused
         /\ Len(dense) <= Len(c.dense)
         /\ \A i \in 1 .. Len(dense) : Kept(c, i)
         /\ \A i \in Len(dense) + 1 .. Len(c.dense) : Appended(c, e, i)
         /\ ~c.refused => \A ch \in 0 .. NCh - 1 : HasRegion(c, ch, e)
         /\ Untouched(c, e)
         /\ \A g \in Groups(e.shape), i \in 1 .. Len(c.dense) :
              SamePlace(Reg(c, i), EmptyRegion(Ch(g), e))
              /\ (\A j \in i + 1 .. Len(c.dense) : ~Covers(Reg(c, j), Ch(g), Row(e, g)))
              => Reg(c, i).slot[g \div NCh] = <<k, version[k], g>>
<1> DEFINE d == EnsureAll(Now, e)
<1>1. c = WriteWeights(d, k, e)
  BY DEF Load, Now
<1>2. After(Now, d, NCh, e)
  BY NowFacts, EnsureAllAfter
<1> HIDE DEF d
<1>3. /\ d \in DramOf(store) /\ Window(d) /\ NoTwins(d) /\ Room(d)
      /\ ~d.refused => ~refused
      /\ Len(dense) <= Len(d.dense)
      /\ \A i \in 1 .. Len(dense) : Reg(d, i) = Reg(Now, i) \/ Zeroed(Now, d, NCh, e, i)
      /\ \A i \in Len(dense) + 1 .. Len(d.dense) : Added(Now, d, NCh, e, i)
      /\ ~d.refused => \A ch \in 0 .. NCh - 1 : HasRegion(d, ch, e)
  BY <1>2, NowFacts DEF After
<1>4. version[k] \in 0 .. MaxVersion
  BY DEF TypeInv
<1>5. /\ c.dense = d.dense /\ c.bump = d.bump /\ c.refused = d.refused
      /\ c.regions \in Seq(Region) /\ Len(c.regions) = Len(d.regions)
  BY <1>1, <1>3, <1>4, WriteEffect
<1>6. ASSUME NEW i \in 1 .. Len(d.dense)
      PROVE  /\ SamePlace(Reg(c, i), Reg(d, i))
             /\ \A o \in 0 .. Reg(d, i).nRows - 1 :
                  (\A g \in Groups(e.shape) : Row(e, g) # Reg(d, i).row0 + o)
                    => Reg(c, i).slot[o] = Reg(d, i).slot[o]
             /\ \A g \in Groups(e.shape) :
                  SamePlace(Reg(d, i), EmptyRegion(Ch(g), e))
                  /\ RegionFor(d.regions, d.dense, Ch(g), Row(e, g)) = d.dense[i]
                  => Reg(c, i).slot[g \div NCh] = <<k, version[k], g>>
  <2>1. d.dense[i] \in 1 .. Len(d.regions)
    BY <1>3, WindowFacts
  <2>2. Reg(c, i) = c.regions[d.dense[i]] /\ Reg(d, i) = d.regions[d.dense[i]]
    BY <1>5 DEF Reg
  <2>3. \A a \in 1 .. Len(d.regions) :
          /\ SamePlace(c.regions[a], d.regions[a])
          /\ \A o \in 0 .. d.regions[a].nRows - 1 :
               (\A g \in Groups(e.shape) : Row(e, g) # d.regions[a].row0 + o)
                 => c.regions[a].slot[o] = d.regions[a].slot[o]
          /\ \A g \in Groups(e.shape) :
               SamePlace(d.regions[a], EmptyRegion(Ch(g), e))
               /\ RegionFor(d.regions, d.dense, Ch(g), Row(e, g)) = a
               => c.regions[a].slot[g \div NCh] = <<k, version[k], g>>
    <3>1. d \in DramOf(store)
      BY <1>3
    <3> QED
      BY <1>1, <1>4, <3>1, WriteEffect
  <2> HIDE DEF Reg
  <2> QED
    BY ZenonT(30), <2>1, <2>2, <2>3
<1>7. Len(dense) \in Nat /\ Len(d.dense) \in Nat
  BY <1>3, NowFacts, DramLengths
<1>8. /\ c.dense \in Seq(Nat) /\ c.bump \in Nat /\ c.refused \in BOOLEAN /\ Room(c)
  BY <1>3, <1>5 DEF DramOf, Room
<1>9. Window(c)
  BY <1>3, <1>5 DEF Window
<1>10. NoTwins(c)
  <2> SUFFICES ASSUME NEW i \in 1 .. Len(d.dense), NEW j \in 1 .. Len(d.dense),
                      SamePlace(Reg(c, i), Reg(c, j))
               PROVE  i = j
    BY <1>5 DEF NoTwins
  <2>1. SamePlace(Reg(d, i), Reg(d, j))
    BY <1>6, PlaceFacts
  <2> QED
    BY <1>3, <2>1 DEF NoTwins
<1>11. ASSUME NEW i \in 1 .. Len(dense) PROVE Kept(c, i)
  <2>1. i \in 1 .. Len(d.dense)
    BY <1>3, <1>7
  <2>2. SamePlace(Reg(d, i), Reg(Now, i))
    BY <1>3, PlaceFacts DEF Zeroed
  <2> QED
    BY <1>6, <2>1, <2>2, PlaceFacts DEF Kept
<1>12. ASSUME NEW i \in Len(dense) + 1 .. Len(c.dense) PROVE Appended(c, e, i)
  <2>1. i \in 1 .. Len(d.dense) /\ Added(Now, d, NCh, e, i)
    BY <1>3, <1>5, <1>7
  <2>2. PICK ch \in 0 .. NCh - 1 :
          /\ Reg(d, i) = EmptyRegion(ch, e)
          /\ \A j \in 1 .. Len(dense) : ~SamePlace(Reg(Now, j), EmptyRegion(ch, e))
    BY <2>1, NowFacts DEF Added
  <2>3. SamePlace(Reg(c, i), EmptyRegion(ch, e)) /\ ~HasRegion(Now, ch, e)
    BY <1>6, <2>1, <2>2, NowFacts DEF HasRegion
  <2> QED
    BY <2>3 DEF Appended
<1>13. ASSUME ~c.refused, NEW ch \in 0 .. NCh - 1 PROVE HasRegion(c, ch, e)
  <2>1. HasRegion(d, ch, e)
    BY <1>3, <1>5, <1>13
  <2> QED
    BY <1>5, <1>6, <2>1, PlaceFacts DEF HasRegion
<1>14. ASSUME NEW i \in 1 .. Len(dense), NEW o \in 0 .. Reg(Now, i).nRows - 1,
              \A ch \in 0 .. NCh - 1 : ~SamePlace(Reg(Now, i), EmptyRegion(ch, e)),
              \A g \in Groups(e.shape) : Row(e, g) # Reg(Now, i).row0 + o
       PROVE  Reg(c, i).slot[o] = Reg(Now, i).slot[o]
  <2>1. i \in 1 .. Len(d.dense)
    BY <1>3, <1>7
  <2>2. Reg(d, i) = Reg(Now, i)
    BY <1>3, <1>14 DEF Zeroed
  <2> QED
    BY <1>6, <1>14, <2>1, <2>2
<1>15. ASSUME NEW g \in Groups(e.shape), NEW i \in 1 .. Len(c.dense),
              SamePlace(Reg(c, i), EmptyRegion(Ch(g), e)),
              \A j \in i + 1 .. Len(c.dense) : ~Covers(Reg(c, j), Ch(g), Row(e, g))
       PROVE  Reg(c, i).slot[g \div NCh] = <<k, version[k], g>>
  <2>1. i \in 1 .. Len(d.dense) /\ SamePlace(Reg(d, i), EmptyRegion(Ch(g), e))
    BY <1>5, <1>6, <1>15, PlaceFacts
  <2>2. ASSUME NEW j \in i + 1 .. Len(d.dense)
        PROVE  ~Covers(Reg(d, j), Ch(g), Row(e, g))
    <3>1. j \in 1 .. Len(d.dense)
      BY <1>7, <2>1
    <3>2. SamePlace(Reg(c, j), Reg(d, j))
      BY <1>6, <3>1
    <3> QED
      BY <1>5, <1>15, <3>2 DEF Covers, SamePlace
  <2>3. RegionFor(d.regions, d.dense, Ch(g), Row(e, g)) = d.dense[i]
    BY <1>3, <2>1, <2>2, RegionForHome
  <2> QED
    BY <1>6, <2>1, <2>3
<1> QED
  <2>1. /\ ~c.refused => ~refused
        /\ Len(dense) <= Len(c.dense)
    BY <1>3, <1>5
  <2>2. Untouched(c, e)
    BY <1>14 DEF Untouched
  <2>3. \A g \in Groups(e.shape), i \in 1 .. Len(c.dense) :
          SamePlace(Reg(c, i), EmptyRegion(Ch(g), e))
          /\ (\A j \in i + 1 .. Len(c.dense) : ~Covers(Reg(c, j), Ch(g), Row(e, g)))
          => Reg(c, i).slot[g \div NCh] = <<k, version[k], g>>
    BY <1>15
  <2> QED
    BY <1>5, <1>8, <1>9, <1>10, <1>11, <1>12, <1>13, <2>1, <2>2, <2>3, Zenon

-----------------------------------------------------------------------------
(* What a load leaves in place.                                            *)

\* An entry's row lies within the rows that were given out for its waves.
LEMMA RowFacts ==
  ASSUME NEW e, Placeable(e), NEW g \in Groups(e.shape)
  PROVE  /\ Row(e, g) \in Nat /\ e.rowBase <= Row(e, g) /\ Row(e, g) < End(e)
         /\ e.rowBase < End(e) /\ End(e) \in Nat
         /\ Row(e, g) = e.rowBase + g \div NCh
<1>1. /\ e.rowBase \in Nat /\ Waves(e.shape) \in Nat \ {0}
      /\ g \div NCh \in 0 .. Waves(e.shape) - 1
  BY GroupFacts, ShapeFacts DEF Placeable
<1> DEFINE w == Waves(e.shape)
           q == g \div NCh
<1>2. Row(e, g) = e.rowBase + q /\ End(e) = e.rowBase + w
  BY DEF Row, End
<1>3. w \in Nat \ {0} /\ q \in 0 .. w - 1
  BY <1>1
<1> HIDE DEF w, q
<1>4. /\ Row(e, g) \in Nat /\ e.rowBase <= Row(e, g) /\ Row(e, g) < End(e)
      /\ e.rowBase < End(e) /\ End(e) \in Nat
  BY <1>1, <1>2, <1>3
<1> QED
  BY <1>2, <1>4 DEF q

\* A matrix has at least one row in a channel.
LEMMA EndFacts ==
  ASSUME NEW e, Placeable(e)
  PROVE  /\ End(e) \in Nat /\ e.rowBase < End(e) /\ e.rowBase \in Nat
         /\ End(e) = e.rowBase + Waves(e.shape)
  BY ShapeFacts DEF Placeable, End

\* Every index of the client names a region of the table.
LEMMA RegInRegion ==
  ASSUME NEW d, d.regions \in Seq(Region), d.dense \in Seq(Nat), Window(d),
         NEW i \in 1 .. Len(d.dense)
  PROVE  Reg(d, i) \in Region
<1> DEFINE m == Len(d.dense)
           n == Len(d.regions)
<1>1. m \in Nat /\ n \in Nat
  OBVIOUS
<1>2. m <= n /\ d.dense[i] = n - m + i /\ i \in 1 .. m
  BY DEF Window
<1> HIDE DEF m, n
<1>3. d.dense[i] \in 1 .. n
  BY <1>1, <1>2
<1> QED
  BY <1>3 DEF Reg, n

\* An entry that was given rows has a shape and a row to begin in.
LEMMA GivenPlaceable ==
  ASSUME TypeInv, NEW k \in Keys, Given(k)
  PROVE  Placeable(intern[k])
<1>1. intern[k] \in Entry /\ intern[k].rowBase >= 0 /\ k \in Interned
  BY DEF TypeInv, Given, Interned
<1>2. intern[k].rowBase \in Nat /\ intern[k].shape \in Shapes
  BY <1>1 DEF TypeInv, Entry
<1> QED
  BY <1>2 DEF Placeable

\* A region that was in e's place is still there; those that were appended
\* begin where f's rows do.
LEMMA HomeKept ==
  ASSUME TypeInv, Window(Now), NoTwins(Now), NEW k \in Keys, NEW f, Placeable(f),
         NEW c, c = Load(k, f), NEW e, Placeable(e), NEW ch \in 0 .. NCh - 1,
         Home(Now, e, ch),
         End(e) <= f.rowBase \/ \A h \in 0 .. NCh - 1 : HasRegion(Now, h, f)
  PROVE  /\ Home(c, e, ch)
         /\ \A i \in 1 .. Len(c.dense) : SamePlace(Reg(c, i), EmptyRegion(ch, e)) =>
              i \in 1 .. Len(dense) /\ SamePlace(Reg(Now, i), EmptyRegion(ch, e))
<1>1. /\ c.dense \in Seq(Nat) /\ NoTwins(c) /\ Len(dense) <= Len(c.dense)
      /\ \A i \in 1 .. Len(dense) : Kept(c, i)
      /\ \A i \in Len(dense) + 1 .. Len(c.dense) : Appended(c, f, i)
  BY LoadEffect
<1>2. PICK i \in 1 .. Len(dense) :
        /\ SamePlace(Reg(Now, i), EmptyRegion(ch, e))
        /\ \A j \in i + 1 .. Len(dense) : Reg(Now, j).ch = ch => End(e) <= Reg(Now, j).row0
  BY NowFacts DEF Home
<1>3. Len(dense) \in Nat /\ Len(c.dense) \in Nat
  BY <1>1, NowFacts, DramLengths
<1>4. i \in 1 .. Len(c.dense) /\ SamePlace(Reg(c, i), EmptyRegion(ch, e))
  <2>1. i \in 1 .. Len(c.dense)
    BY <1>1, <1>3
  <2>2. SamePlace(Reg(c, i), Reg(Now, i))
    BY <1>1 DEF Kept
  <2> QED
    BY <1>2, <2>1, <2>2, PlaceFacts
<1>5. ASSUME NEW j \in i + 1 .. Len(c.dense), Reg(c, j).ch = ch
      PROVE  End(e) <= Reg(c, j).row0
  <2>1. CASE j \in 1 .. Len(dense)
    <3>1. j \in i + 1 .. Len(dense)
      BY <1>3, <2>1
    <3>2. Reg(c, j).ch = Reg(Now, j).ch /\ Reg(c, j).row0 = Reg(Now, j).row0
      BY <1>1, <2>1 DEF Kept, SamePlace
    <3> QED
      BY <1>2, <1>5, <3>1, <3>2
  <2>2. CASE j \in Len(dense) + 1 .. Len(c.dense)
    <3>1. PICK h \in 0 .. NCh - 1 : /\ SamePlace(Reg(c, j), EmptyRegion(h, f))
                                     /\ ~HasRegion(Now, h, f)
      BY <1>1, <2>2 DEF Appended
    <3>2. Reg(c, j).row0 = f.rowBase
      BY <3>1, EmptyType DEF SamePlace
    <3> QED
      BY <3>1, <3>2
  <2> QED
    BY <1>3, <2>1, <2>2
<1>6. Home(c, e, ch)
  BY <1>4, <1>5 DEF Home
<1>7. ASSUME NEW j \in 1 .. Len(c.dense), SamePlace(Reg(c, j), EmptyRegion(ch, e))
      PROVE  j = i
  BY <1>1, <1>4, <1>7, PlaceFacts DEF NoTwins
<1> QED
  BY <1>2, <1>6, <1>7

\* The rows of another matrix are as they were.
LEMMA OtherKept ==
  ASSUME TypeInv, Window(Now), NoTwins(Now), NEW k \in Keys, NEW f, Placeable(f),
         NEW c, c = Load(k, f), NEW e, Placeable(e),
         End(e) <= f.rowBase \/ End(f) <= e.rowBase,
         NEW g \in Groups(e.shape), NEW i \in 1 .. Len(dense),
         SamePlace(Reg(Now, i), EmptyRegion(Ch(g), e))
  PROVE  Reg(c, i).slot[g \div NCh] = Reg(Now, i).slot[g \div NCh]
<1>1. /\ Ch(g) \in 0 .. NCh - 1 /\ g \div NCh \in 0 .. e.shape.groups - 1
  BY GroupFacts DEF Placeable
<1>2. Reg(Now, i).row0 = e.rowBase /\ Reg(Now, i).nRows = e.shape.groups
  BY <1>1, EmptyType DEF SamePlace
<1>3. /\ End(e) \in Nat /\ e.rowBase < End(e) /\ e.rowBase \in Nat
      /\ End(f) \in Nat /\ f.rowBase < End(f) /\ f.rowBase \in Nat
  BY EndFacts
<1>4. ASSUME NEW ch \in 0 .. NCh - 1 PROVE ~SamePlace(Reg(Now, i), EmptyRegion(ch, f))
  <2>1. EmptyRegion(ch, f).row0 = f.rowBase
    BY EmptyType
  <2>2. e.rowBase # f.rowBase
    BY <1>3
  <2> QED
    BY <1>2, <2>1, <2>2 DEF SamePlace
<1>5. ASSUME NEW h \in Groups(f.shape) PROVE Row(f, h) # Reg(Now, i).row0 + g \div NCh
  <2>1. /\ Row(e, g) \in Nat /\ e.rowBase <= Row(e, g) /\ Row(e, g) < End(e)
        /\ Row(e, g) = e.rowBase + g \div NCh
    BY RowFacts
  <2>2. Row(f, h) \in Nat /\ f.rowBase <= Row(f, h) /\ Row(f, h) < End(f)
    BY RowFacts
  <2>3. Row(f, h) # Row(e, g)
    BY <1>3, <2>1, <2>2
  <2> QED
    BY <1>2, <2>1, <2>3
<1>6. Untouched(c, f)
  BY LoadEffect
<1>7. g \div NCh \in 0 .. Reg(Now, i).nRows - 1
  BY <1>1, <1>2
<1> QED
  BY <1>4, <1>5, <1>6, <1>7 DEF Untouched

\* The matrix that was loaded has its regions, above all others that reach
\* its rows, and they hold it: because no region reached its rows, or because
\* its regions were there.
LEMMA LoadedHome ==
  ASSUME TypeInv, Window(Now), NoTwins(Now), NEW k \in Keys, NEW e, Placeable(e),
         NEW c, c = Load(k, e), ~c.refused,
         \/ \A i \in 1 .. Len(dense) : Reg(Now, i).row0 < e.rowBase
         \/ \A ch \in 0 .. NCh - 1 : Home(Now, e, ch),
         NEW ch \in 0 .. NCh - 1
  PROVE  Home(c, e, ch)
<1>1. /\ c.dense \in Seq(Nat) /\ NoTwins(c) /\ Len(dense) <= Len(c.dense)
      /\ \A i \in 1 .. Len(dense) : Kept(c, i)
      /\ \A i \in Len(dense) + 1 .. Len(c.dense) : Appended(c, e, i)
      /\ HasRegion(c, ch, e)
  BY LoadEffect
<1>2. Len(dense) \in Nat /\ Len(c.dense) \in Nat
  BY <1>1, NowFacts, DramLengths
<1>3. CASE \A h \in 0 .. NCh - 1 : Home(Now, e, h)
  <2>1. \A h \in 0 .. NCh - 1 : HasRegion(Now, h, e)
    BY <1>3, NowFacts DEF Home, HasRegion
  <2> QED
    BY <1>3, <2>1, HomeKept
<1>4. CASE \A i \in 1 .. Len(dense) : Reg(Now, i).row0 < e.rowBase
  <2>1. PICK i \in 1 .. Len(c.dense) : SamePlace(Reg(c, i), EmptyRegion(ch, e))
    BY <1>1 DEF HasRegion
  <2>2. i \notin 1 .. Len(dense)
    <3> SUFFICES ASSUME i \in 1 .. Len(dense) PROVE FALSE
      OBVIOUS
    <3>1. Reg(c, i).row0 = Reg(Now, i).row0
      BY <1>1 DEF Kept, SamePlace
    <3>2. Reg(c, i).row0 = e.rowBase
      BY <2>1, EmptyType DEF SamePlace
    <3>3. e.rowBase \in Nat
      BY DEF Placeable
    <3>4. Reg(Now, i).row0 < e.rowBase
      BY <1>4
    <3> QED
      BY <3>1, <3>2, <3>3, <3>4
  <2>3. ASSUME NEW j \in i + 1 .. Len(c.dense) PROVE Reg(c, j).ch # ch
    <3> SUFFICES ASSUME Reg(c, j).ch = ch PROVE FALSE
      OBVIOUS
    <3>1. j \in Len(dense) + 1 .. Len(c.dense) /\ j \in 1 .. Len(c.dense) /\ j # i
      BY <1>2, <2>2
    <3>2. PICK h \in 0 .. NCh - 1 : SamePlace(Reg(c, j), EmptyRegion(h, e))
      BY <1>1, <3>1 DEF Appended
    <3>3. h = ch
      BY <3>2, EmptyType DEF SamePlace
    <3>4. SamePlace(Reg(c, i), Reg(c, j))
      BY <2>1, <3>2, <3>3, PlaceFacts
    <3> QED
      BY <1>1, <3>1, <3>4 DEF NoTwins
  <2> QED
    BY <2>1, <2>3 DEF Home
<1> QED
  BY <1>3, <1>4

\* Once its regions are above all others the loaded matrix is in them.
LEMMA LoadedHolds ==
  ASSUME TypeInv, Window(Now), NoTwins(Now), NEW k \in Keys, NEW e, Placeable(e),
         NEW c, c = Load(k, e), \A ch \in 0 .. NCh - 1 : Home(c, e, ch)
  PROVE  Holds(c, k, e, version[k])
<1> SUFFICES ASSUME NEW g \in Groups(e.shape), NEW i \in 1 .. Len(c.dense),
                    SamePlace(Reg(c, i), EmptyRegion(Ch(g), e))
             PROVE  Reg(c, i).slot[g \div NCh] = <<k, version[k], g>>
  BY DEF Holds
<1>1. /\ c.dense \in Seq(Nat) /\ NoTwins(c) /\ Window(c) /\ c.regions \in Seq(Region)
      /\ (\A j \in i + 1 .. Len(c.dense) : ~Covers(Reg(c, j), Ch(g), Row(e, g)))
         => Reg(c, i).slot[g \div NCh] = <<k, version[k], g>>
  BY LoadEffect
<1>2. Ch(g) \in 0 .. NCh - 1
  BY GroupFacts DEF Placeable
<1>3. PICK a \in 1 .. Len(c.dense) :
        /\ SamePlace(Reg(c, a), EmptyRegion(Ch(g), e))
        /\ \A j \in a + 1 .. Len(c.dense) : Reg(c, j).ch = Ch(g) => End(e) <= Reg(c, j).row0
  BY <1>2 DEF Home
<1>4. a = i
  BY <1>1, <1>3, PlaceFacts DEF NoTwins
<1>5. ASSUME NEW j \in i + 1 .. Len(c.dense)
      PROVE  ~Covers(Reg(c, j), Ch(g), Row(e, g))
  <2> SUFFICES ASSUME Covers(Reg(c, j), Ch(g), Row(e, g)) PROVE FALSE
    OBVIOUS
  <2>1. /\ Reg(c, j).ch = Ch(g)
        /\ Row(e, g) \in Reg(c, j).row0 .. Reg(c, j).row0 + Reg(c, j).nRows - 1
    BY DEF Covers
  <2>2. End(e) <= Reg(c, j).row0
    BY <1>3, <1>4, <2>1
  <2>3. Row(e, g) \in Nat /\ Row(e, g) < End(e) /\ End(e) \in Nat
    BY RowFacts
  <2>4. Reg(c, j).row0 \in Nat
    <3>1. Len(c.dense) \in Nat
      BY <1>1
    <3>2. j \in 1 .. Len(c.dense)
      BY <3>1
    <3>3. Reg(c, j) \in Region
      BY <1>1, <3>2, RegInRegion
    <3> QED
      BY <3>3, RegionFacts
  <2> QED
    BY <2>1, <2>2, <2>3, <2>4
<1> QED
  BY <1>1, <1>5

\* One pim_prepare that loads k as e: no other given matrix has e's rows; a
\* region that is appended lies above every other matrix that fits; and no old
\* region reaches e's rows, unless e's regions are there, or e does not fit.
Separate(k, e) == \A j \in Keys \ {k} : Given(j) =>
  End(intern[j]) <= e.rowBase \/ End(e) <= intern[j].rowBase
Above(k, e) == \A j \in Keys \ {k} : Fits(j) =>
  End(intern[j]) <= e.rowBase \/ \A h \in 0 .. NCh - 1 : HasRegion(Now, h, e)
Reached(e) == \/ End(e) > NRows
              \/ \A i \in 1 .. Len(dense) : Reg(Now, i).row0 < e.rowBase
              \/ \A ch \in 0 .. NCh - 1 : Home(Now, e, ch)

\* Where every matrix that fits is after the load, and that its rows hold it.
LEMMA LoadParts ==
  ASSUME IInv, NEW k \in Keys, NEW e, Placeable(e), NEW c, c = Load(k, e), ~c.refused,
         Separate(k, e), ~refused => Above(k, e), ~refused => Reached(e)
  PROVE  /\ \A j \in Keys \ {k} : Fits(j) =>
              /\ \A ch \in 0 .. NCh - 1 : Home(c, intern[j], ch)
              /\ ~intern[j].stale => Holds(c, j, intern[j], version[j])
         /\ End(e) <= NRows =>
              /\ \A ch \in 0 .. NCh - 1 : Home(c, e, ch)
              /\ Holds(c, k, e, version[k])
<1>1. TypeInv /\ Window(Now) /\ NoTwins(Now)
  BY DEF IInv, RegionInv
<1>2. ~refused
  BY <1>1, LoadEffect
<1>3. /\ \A j \in Keys : Fits(j) => \A ch \in 0 .. NCh - 1 : Home(Now, intern[j], ch)
      /\ \A j \in Keys : Fits(j) /\ ~intern[j].stale => Holds(Now, j, intern[j], version[j])
  BY <1>2 DEF IInv, HomeInv, ContentInv
<1>4. ASSUME NEW j \in Keys \ {k}, Fits(j)
      PROVE  /\ \A ch \in 0 .. NCh - 1 : Home(c, intern[j], ch)
             /\ ~intern[j].stale => Holds(c, j, intern[j], version[j])
  <2> DEFINE f == intern[j]
  <2>1. Given(j) /\ Placeable(f)
    BY <1>1, <1>4, GivenPlaceable DEF Fits
  <2>2. /\ End(f) <= e.rowBase \/ End(e) <= f.rowBase
        /\ End(f) <= e.rowBase \/ \A h \in 0 .. NCh - 1 : HasRegion(Now, h, e)
    BY <1>2, <1>4, <2>1 DEF Separate, Above
  <2>3. /\ \A ch \in 0 .. NCh - 1 : Home(Now, f, ch)
        /\ ~f.stale => Holds(Now, j, f, version[j])
    BY <1>3, <1>4
  <2> HIDE DEF f
  <2>4. \A ch \in 0 .. NCh - 1 : /\ Home(c, f, ch)
          /\ \A i \in 1 .. Len(c.dense) : SamePlace(Reg(c, i), EmptyRegion(ch, f)) =>
               i \in 1 .. Len(dense) /\ SamePlace(Reg(Now, i), EmptyRegion(ch, f))
    BY <1>1, <2>1, <2>2, <2>3, HomeKept
  <2>5. ASSUME ~f.stale, NEW g \in Groups(f.shape), NEW i \in 1 .. Len(c.dense),
               SamePlace(Reg(c, i), EmptyRegion(Ch(g), f))
        PROVE  Reg(c, i).slot[g \div NCh] = <<j, version[j], g>>
    <3>1. Ch(g) \in 0 .. NCh - 1
      BY <2>1, GroupFacts DEF Placeable
    <3>2. i \in 1 .. Len(dense) /\ SamePlace(Reg(Now, i), EmptyRegion(Ch(g), f))
      BY <2>4, <2>5, <3>1
    <3>3. Reg(Now, i).slot[g \div NCh] = <<j, version[j], g>>
      BY <2>3, <2>5, <3>2, NowFacts, <1>1 DEF Holds
    <3>4. Reg(c, i).slot[g \div NCh] = Reg(Now, i).slot[g \div NCh]
      BY <1>1, <2>1, <2>2, <3>2, OtherKept
    <3> QED
      BY <3>3, <3>4
  <2>6. ~f.stale => Holds(c, j, f, version[j])
    BY <2>5 DEF Holds
  <2> QED
    BY <2>4, <2>6 DEF f
<1>5. ASSUME End(e) <= NRows
      PROVE  /\ \A ch \in 0 .. NCh - 1 : Home(c, e, ch)
             /\ Holds(c, k, e, version[k])
  <2>1. \/ \A i \in 1 .. Len(dense) : Reg(Now, i).row0 < e.rowBase
        \/ \A ch \in 0 .. NCh - 1 : Home(Now, e, ch)
    <3>1. End(e) \in Nat /\ NRows \in Nat
      BY EndFacts, Bounds
    <3>2. ~(End(e) > NRows)
      BY <1>5, <3>1
    <3> QED
      BY <1>2, <3>2 DEF Reached
  <2>2. \A ch \in 0 .. NCh - 1 : Home(c, e, ch)
    BY <1>1, <2>1, LoadedHome
  <2> QED
    BY <1>1, <2>2, LoadedHolds
<1> QED
  BY <1>4, <1>5

\* Only the regions of the DRAM and the rows and shape of the entry matter.
LEMMA SameView ==
  ASSUME NEW c, NEW d, c.regions = d.regions, c.dense = d.dense,
         NEW e, NEW f, e.rowBase = f.rowBase, e.shape = f.shape
  PROVE  /\ Window(c) <=> Window(d)
         /\ NoTwins(c) <=> NoTwins(d)
         /\ \A i : Reg(c, i) = Reg(d, i)
         /\ End(e) = End(f)
         /\ \A ch : Home(c, e, ch) <=> Home(d, f, ch)
         /\ \A k, v : Holds(c, k, e, v) <=> Holds(d, k, f, v)
<1>1. \A i : Reg(c, i) = Reg(d, i)
  BY DEF Reg
<1>2. End(e) = End(f) /\ \A ch : EmptyRegion(ch, e) = EmptyRegion(ch, f)
  BY DEF End, EmptyRegion
<1> QED
  BY <1>1, <1>2 DEF Window, NoTwins, Home, Holds

\* A load keeps the parts of the invariant that are about regions.
LEMMA LoadStep ==
  ASSUME IInv, NEW k \in Keys, NEW e, Placeable(e), NEW c, c = Load(k, e),
         Separate(k, e), ~refused => Above(k, e), ~refused => Reached(e),
         regions' = c.regions, dense' = c.dense, refused' = c.refused,
         version' = version, nextRow \in Nat, nextRow' \in Nat,
         nextRow <= nextRow', End(e) <= nextRow',
         \A j \in Keys \ {k} : intern'[j] = intern[j],
         intern'[k].rowBase = e.rowBase, intern'[k].shape = e.shape
  PROVE  RegionInv' /\ HomeInv' /\ ContentInv'
<1>1. TypeInv /\ Window(Now) /\ NoTwins(Now)
      /\ \A i \in 1 .. Len(dense) : Reg(Now, i).row0 < nextRow
  BY DEF IInv, RegionInv
<1>2. /\ Window(c) /\ NoTwins(c) /\ c.regions \in Seq(Region) /\ c.dense \in Seq(Nat)
      /\ \A i \in 1 .. Len(dense) : Kept(c, i)
      /\ \A i \in Len(dense) + 1 .. Len(c.dense) : Appended(c, e, i)
  BY <1>1, LoadEffect
<1>3. Now'.regions = c.regions /\ Now'.dense = c.dense
  BY DEF Now
<1>4. /\ e.rowBase \in Nat /\ End(e) \in Nat /\ e.rowBase < End(e)
  BY EndFacts
<1>5. ASSUME NEW i \in 1 .. Len(c.dense) PROVE Reg(c, i).row0 < nextRow'
  <2>1. Len(dense) \in Nat /\ Len(c.dense) \in Nat
    BY <1>1, <1>2, NowFacts, DramLengths
  <2>2. CASE i \in 1 .. Len(dense)
    <3>1. Reg(c, i).row0 = Reg(Now, i).row0 /\ Reg(Now, i).row0 < nextRow
      BY <1>1, <1>2, <2>2 DEF Kept, SamePlace
    <3>2. Reg(c, i).row0 \in Nat
      BY <1>2, RegInRegion, RegionFacts
    <3> QED
      BY <3>1, <3>2
  <2>3. CASE i \in Len(dense) + 1 .. Len(c.dense)
    <3>1. Reg(c, i).row0 = e.rowBase
      BY <1>2, <2>3, EmptyType DEF Appended, SamePlace
    <3> QED
      BY <1>4, <3>1
  <2> QED
    BY <2>1, <2>2, <2>3
<1>6. RegionInv'
  <2>1. Window(Now') /\ NoTwins(Now') /\ \A i : Reg(Now', i) = Reg(c, i)
    BY <1>2, <1>3, SameView
  <2> QED
    BY <1>5, <2>1 DEF RegionInv
<1>7. ASSUME ~refused', NEW j \in Keys, Fits(j)'
      PROVE  /\ \A ch \in 0 .. NCh - 1 : Home(Now', intern'[j], ch)
             /\ ~intern'[j].stale => Holds(Now', j, intern'[j], version'[j])
  <2>0. ~c.refused
    BY <1>7
  <2>1. CASE j = k
    <3>1. End(intern'[k]) <= NRows
      BY <1>7, <2>1 DEF Fits
    <3>2. End(e) <= NRows
      BY <3>1 DEF End
    <3>3. (\A ch \in 0 .. NCh - 1 : Home(c, e, ch)) /\ Holds(c, k, e, version[k])
      BY <2>0, <3>2, LoadParts
    <3> QED
      BY <1>3, <2>1, <3>3, SameView
  <2>2. CASE j # k
    <3>1. Fits(j) /\ intern'[j] = intern[j]
      BY <1>7, <2>2 DEF Fits, Given, Interned, End
    <3>2. /\ \A ch \in 0 .. NCh - 1 : Home(c, intern[j], ch)
          /\ ~intern[j].stale => Holds(c, j, intern[j], version[j])
      BY <2>0, <2>2, <3>1, LoadParts
    <3> QED
      BY <1>3, <3>1, <3>2, SameView
  <2> QED
    BY <2>1, <2>2
<1> QED
  BY <1>6, <1>7 DEF HomeInv, ContentInv

-----------------------------------------------------------------------------
(* Steps that touch only the table of entries and the row allocator.       *)

\* Marking an entry stale or fresh leaves its rows and its shape.
LEMMA EntryFacts ==
  ASSUME NEW e \in Entry, NEW b \in BOOLEAN
  PROVE  /\ [e EXCEPT !.stale = b] \in Entry
         /\ [e EXCEPT !.stale = b].rowBase = e.rowBase
         /\ [e EXCEPT !.stale = b].shape = e.shape
         /\ [e EXCEPT !.stale = b].stale = b
  BY DEF Entry

\* The rows of one entry change, the others' do not.
LEMMA RowStep ==
  ASSUME IInv, NEW k \in Keys, NEW e, \A j \in Keys \ {k} : intern'[j] = intern[j],
         nextRow' \in Nat, nextRow <= nextRow',
         Given(k)' => /\ intern'[k].rowBase = e.rowBase /\ intern'[k].shape = e.shape
                      /\ Separate(k, e) /\ End(e) <= nextRow'
  PROVE  RowInv'
<1>1. TypeInv /\ nextRow \in Nat
  BY DEF IInv, TypeInv
<1>2. /\ \A j \in Keys : Given(j) => End(intern[j]) <= nextRow
      /\ \A i, j \in Keys : i # j /\ Given(i) /\ Given(j) =>
           End(intern[i]) <= intern[j].rowBase \/ End(intern[j]) <= intern[i].rowBase
  BY DEF IInv, RowInv
<1>3. \A j \in Keys \ {k} : Given(j)' => Given(j) /\ intern'[j] = intern[j]
  BY DEF Given, Interned
<1>4. \A j \in Keys : Given(j) => End(intern[j]) \in Nat
  BY <1>1, GivenPlaceable, EndFacts
<1>5. Given(k)' => /\ End(intern'[k]) = End(e) /\ intern'[k].rowBase = e.rowBase
                   /\ Separate(k, e) /\ End(e) <= nextRow'
  BY DEF End
<1>6. ASSUME NEW j \in Keys, Given(j)' PROVE End(intern'[j]) <= nextRow'
  <2>1. CASE j = k
    BY <1>5, <1>6, <2>1
  <2>2. CASE j # k
    <3>1. End(intern'[j]) = End(intern[j]) /\ End(intern[j]) <= nextRow
          /\ End(intern[j]) \in Nat
      BY <1>2, <1>3, <1>4, <1>6, <2>2
    <3> QED
      BY <1>1, <3>1
  <2> QED
    BY <2>1, <2>2
<1>7. ASSUME NEW i \in Keys, NEW j \in Keys, i # j, Given(i)', Given(j)'
      PROVE  \/ End(intern'[i]) <= intern'[j].rowBase
             \/ End(intern'[j]) <= intern'[i].rowBase
  <2>1. CASE i = k
    BY <1>3, <1>5, <1>7, <2>1 DEF Separate
  <2>2. CASE j = k
    BY <1>3, <1>5, <1>7, <2>2 DEF Separate
  <2>3. CASE i # k /\ j # k
    BY <1>2, <1>3, <1>7, <2>3
  <2> QED
    BY <2>1, <2>2, <2>3
<1> QED
  BY <1>6, <1>7 DEF RowInv

\* A call that loads nothing keeps the regions and what they hold.
LEMMA QuietStep ==
  ASSUME IInv, UNCHANGED dram, nextRow' \in Nat, nextRow <= nextRow',
         \A j \in Keys : Fits(j)' =>
           /\ Fits(j) /\ intern'[j].rowBase = intern[j].rowBase
           /\ intern'[j].shape = intern[j].shape
           /\ ~intern'[j].stale => ~intern[j].stale /\ version'[j] = version[j]
  PROVE  RegionInv' /\ HomeInv' /\ ContentInv'
<1>1. /\ regions' = regions /\ dense' = dense /\ refused' = refused
      /\ Now' = Now
  BY DEF dram, Now
<1>2. TypeInv /\ nextRow \in Nat
  BY DEF IInv, TypeInv
<1>3. RegionInv'
  <2>1. ASSUME NEW i \in 1 .. Len(dense) PROVE Reg(Now, i).row0 < nextRow'
    <3>1. Now.regions \in Seq(Region) /\ Now.dense \in Seq(Nat) /\ Window(Now)
      BY <1>2, NowFacts, DramTypes DEF IInv, RegionInv
    <3>2. Reg(Now, i).row0 \in Nat
      BY <1>2, <3>1, NowFacts, RegInRegion, RegionFacts
    <3>3. Reg(Now, i).row0 < nextRow
      BY DEF IInv, RegionInv
    <3> QED
      BY <1>2, <3>2, <3>3
  <2>2. Window(Now) /\ NoTwins(Now)
    BY DEF IInv, RegionInv
  <2> QED
    BY <1>1, <2>1, <2>2 DEF RegionInv
<1>4. ASSUME ~refused', NEW j \in Keys, Fits(j)'
      PROVE  /\ \A ch \in 0 .. NCh - 1 : Home(Now', intern'[j], ch)
             /\ ~intern'[j].stale => Holds(Now', j, intern'[j], version'[j])
  <2>1. /\ Fits(j) /\ intern'[j].rowBase = intern[j].rowBase
        /\ intern'[j].shape = intern[j].shape
        /\ ~intern'[j].stale => ~intern[j].stale /\ version'[j] = version[j]
    BY <1>4
  <2>2. /\ \A ch \in 0 .. NCh - 1 : Home(Now, intern[j], ch)
        /\ ~intern[j].stale => Holds(Now, j, intern[j], version[j])
    BY <1>1, <1>4, <2>1 DEF IInv, HomeInv, ContentInv
  <2> QED
    BY <1>1, <2>1, <2>2, SameView
<1> QED
  BY <1>3, <1>4 DEF HomeInv, ContentInv

\* A step after which the client has no regions and no matrix has rows.
LEMMA EmptyStep ==
  ASSUME IInv, dense' = <<>>, regions' = regions, \A k \in Keys : ~Given(k)'
  PROVE  RowInv' /\ RegionInv' /\ HomeInv' /\ ContentInv'
<1>1. Now'.dense = <<>> /\ Now'.regions = regions /\ regions \in Seq(Region)
  BY DEF Now, IInv, TypeInv
<1>2. Window(Now') /\ NoTwins(Now')
  BY <1>1 DEF Window, NoTwins
<1> QED
  BY <1>2 DEF RowInv, RegionInv, HomeInv, ContentInv, Fits

-----------------------------------------------------------------------------
(* The calls keep the invariant.                                           *)

\* An entry that is interned again has no rows until it is prepared.
LEMMA InternInv ==
  ASSUME IInv, NEW k \in Keys, NEW s \in Shapes, Intern(k, s)
  PROVE  IInv'
<1> DEFINE e == [elems |-> s.groups * s.cols, shape |-> NoShape, rowBase |-> -1,
                 stale |-> TRUE]
<1>1. TypeInv /\ nextRow \in Nat
  BY DEF IInv, TypeInv
<1>2. /\ intern' = [intern EXCEPT ![k] = e] /\ version' = [version EXCEPT ![k] = @ + 1]
      /\ version[k] < MaxVersion /\ nextRow' = nextRow /\ UNCHANGED dram
  BY DEF Intern
<1>3. e \in Entry /\ e.rowBase = -1 /\ e.stale
  BY DEF Entry
<1> HIDE DEF e
<1>4. /\ intern'[k] = e
      /\ \A j \in Keys \ {k} : intern'[j] = intern[j] /\ version'[j] = version[j]
  BY <1>1, <1>2 DEF TypeInv
<1>5. ~Given(k)'
  BY <1>3, <1>4 DEF Given
<1>6. TypeInv'
  <2>1. intern' \in [Keys -> Entry \cup {Absent}]
    BY <1>1, <1>2, <1>3 DEF TypeInv
  <2>2. version' \in [Keys -> 0 .. MaxVersion]
    BY <1>1, <1>2, Bounds DEF TypeInv
  <2>3. \A j \in Interned' : IF intern'[j].rowBase >= 0 THEN intern'[j].shape \in Shapes
                                                         ELSE intern'[j].stale
    BY <1>1, <1>3, <1>4 DEF TypeInv, Interned
  <2> QED
    BY <1>1, <1>2, <2>1, <2>2, <2>3 DEF TypeInv, dram
<1>7. RowInv'
  BY <1>1, <1>2, <1>4, <1>5, RowStep
<1>8. \A j \in Keys : Fits(j)' => j # k /\ Fits(j)
  BY <1>4, <1>5 DEF Fits, Given, Interned
<1>9. RegionInv' /\ HomeInv' /\ ContentInv'
  BY <1>1, <1>2, <1>4, <1>8, QuietStep
<1> QED
  BY <1>6, <1>7, <1>9 DEF IInv

\* A write of the host makes the entry stale, its rows stay.
LEMMA HostWriteInv ==
  ASSUME IInv, NEW k \in Keys, HostWrite(k)
  PROVE  IInv'
<1> DEFINE e == intern[k]
<1>1. TypeInv /\ nextRow \in Nat
  BY DEF IInv, TypeInv
<1>2. /\ intern' = [intern EXCEPT ![k].stale = TRUE]
      /\ version' = [version EXCEPT ![k] = @ + 1]
      /\ version[k] < MaxVersion /\ nextRow' = nextRow /\ UNCHANGED dram /\ e # Absent
  BY DEF HostWrite
<1>3. e \in Entry /\ k \in Interned
  BY <1>1, <1>2 DEF TypeInv, Interned
<1>4. /\ intern'[k] = [e EXCEPT !.stale = TRUE]
      /\ \A j \in Keys \ {k} : intern'[j] = intern[j] /\ version'[j] = version[j]
  BY <1>1, <1>2 DEF TypeInv
<1>5. /\ intern'[k] \in Entry /\ intern'[k].rowBase = e.rowBase
      /\ intern'[k].shape = e.shape /\ intern'[k].stale
  BY <1>3, <1>4, EntryFacts
<1>6. Given(k)' => Given(k)
  BY <1>3, <1>5 DEF Given
<1>7. TypeInv'
  <2>1. intern' \in [Keys -> Entry \cup {Absent}]
    <3>1. intern' = [intern EXCEPT ![k] = intern'[k]]
      BY <1>1, <1>2 DEF TypeInv
    <3> QED
      BY <1>1, <1>5, <3>1 DEF TypeInv
  <2>2. version' \in [Keys -> 0 .. MaxVersion]
    BY <1>1, <1>2, Bounds DEF TypeInv
  <2>3. \A j \in Interned' : IF intern'[j].rowBase >= 0 THEN intern'[j].shape \in Shapes
                                                         ELSE intern'[j].stale
    BY <1>1, <1>3, <1>4, <1>5 DEF TypeInv, Interned
  <2> QED
    BY <1>1, <1>2, <2>1, <2>2, <2>3 DEF TypeInv, dram
<1>8. RowInv'
  <2>1. Given(k) => Separate(k, e) /\ End(e) <= nextRow
    BY DEF IInv, RowInv, Separate
  <2> QED
    BY <1>1, <1>2, <1>4, <1>5, <1>6, <2>1, RowStep
<1>9. RegionInv' /\ HomeInv' /\ ContentInv'
  <2>1. ASSUME NEW j \in Keys, Fits(j)'
        PROVE  /\ Fits(j) /\ intern'[j].rowBase = intern[j].rowBase
               /\ intern'[j].shape = intern[j].shape
               /\ ~intern'[j].stale => ~intern[j].stale /\ version'[j] = version[j]
    <3>1. CASE j = k
      <4>1. Fits(k)
        BY <1>5, <1>6, <2>1, <3>1 DEF Fits, End
      <4> QED
        BY <1>5, <3>1, <4>1
    <3>2. CASE j # k
      BY <1>4, <2>1, <3>2 DEF Fits, Given, Interned
    <3> QED
      BY <3>1, <3>2
  <2> QED
    BY <1>1, <1>2, <2>1, QuietStep
<1> QED
  BY <1>7, <1>8, <1>9 DEF IInv

\* Stale weights are loaded into the rows they have.
LEMMA PrepareReloadInv ==
  ASSUME IInv, NEW k \in Keys, NEW s \in Shapes, PrepareReload(k, s)
  PROVE  IInv'
<1> DEFINE e == intern[k]
           c == Load(k, e)
<1>1. TypeInv /\ nextRow \in Nat /\ Window(Now) /\ NoTwins(Now)
  BY DEF IInv, TypeInv, RegionInv
<1>2. /\ e # Absent /\ e.shape = s /\ e.rowBase >= 0
      /\ intern' = [intern EXCEPT ![k].stale = FALSE]
      /\ regions' = c.regions /\ dense' = c.dense /\ bump' = c.bump /\ refused' = c.refused
      /\ version' = version /\ nextRow' = nextRow
  BY DEF PrepareReload, InPlace
<1>3. e \in Entry /\ Given(k) /\ Placeable(e)
  BY <1>1, <1>2, GivenPlaceable DEF TypeInv, Given, Interned
<1>4. intern'[k] = [e EXCEPT !.stale = FALSE] /\ \A j \in Keys \ {k} : intern'[j] = intern[j]
  BY <1>1, <1>2 DEF TypeInv
<1>5. /\ intern'[k] \in Entry /\ intern'[k].rowBase = e.rowBase
      /\ intern'[k].shape = e.shape
  BY <1>3, <1>4, EntryFacts
<1>6. Separate(k, e) /\ End(e) <= nextRow
  BY <1>3 DEF IInv, RowInv, Separate
<1>7. /\ c.regions \in Seq(Region) /\ c.dense \in Seq(Nat)
      /\ c.bump \in Nat /\ c.refused \in BOOLEAN /\ Room(c)
  BY <1>1, <1>3, LoadEffect
<1> HIDE DEF c
<1>8. TypeInv'
  <2>1. intern' \in [Keys -> Entry \cup {Absent}]
    <3>1. intern' = [intern EXCEPT ![k] = intern'[k]]
      BY <1>1, <1>2 DEF TypeInv
    <3> QED
      BY <1>1, <1>5, <3>1 DEF TypeInv
  <2>2. \A j \in Interned' : IF intern'[j].rowBase >= 0 THEN intern'[j].shape \in Shapes
                                                         ELSE intern'[j].stale
    BY <1>1, <1>2, <1>4, <1>5 DEF TypeInv, Interned
  <2>3. Shared => bump' <= ArenaSize /\ Len(regions') <= MaxRegions
    BY <1>2, <1>7 DEF Room
  <2> QED
    BY <1>1, <1>2, <1>7, <2>1, <2>2, <2>3 DEF TypeInv
<1>9. RowInv'
  BY <1>1, <1>2, <1>4, <1>5, <1>6, RowStep
<1>10. ASSUME ~refused, End(e) <= NRows
       PROVE  \A ch \in 0 .. NCh - 1 : Home(Now, e, ch) /\ HasRegion(Now, ch, e)
  <2>1. Fits(k)
    BY <1>3, <1>10 DEF Fits
  <2>2. \A ch \in 0 .. NCh - 1 : Home(Now, e, ch)
    BY <1>10, <2>1 DEF IInv, HomeInv
  <2> QED
    BY <2>2 DEF Home, HasRegion
<1>11. End(e) \in Nat /\ NRows \in Nat /\ (End(e) <= NRows \/ End(e) > NRows)
  BY <1>3, EndFacts, Bounds
<1>12. ~refused => Above(k, e)
  <2> SUFFICES ASSUME ~refused, NEW j \in Keys \ {k}, Fits(j)
               PROVE  \/ End(intern[j]) <= e.rowBase
                      \/ \A h \in 0 .. NCh - 1 : HasRegion(Now, h, e)
    BY DEF Above
  <2>1. CASE End(e) <= NRows
    BY <1>10, <2>1
  <2>2. CASE End(e) > NRows
    <3>1. Given(j) /\ End(intern[j]) <= NRows
      BY DEF Fits
    <3>2. Placeable(intern[j])
      BY <1>1, <3>1, GivenPlaceable
    <3>3. /\ End(intern[j]) \in Nat /\ intern[j].rowBase < End(intern[j])
          /\ intern[j].rowBase \in Nat
      BY <3>2, EndFacts
    <3>4. End(intern[j]) <= e.rowBase \/ End(e) <= intern[j].rowBase
      BY <1>6, <3>1 DEF Separate
    <3> QED
      BY <1>11, <2>2, <3>1, <3>3, <3>4
  <2> QED
    BY <1>11, <2>1, <2>2
<1>13. ~refused => Reached(e)
  BY <1>10, <1>11 DEF Reached
<1>14. RegionInv' /\ HomeInv' /\ ContentInv'
  <2>1. nextRow' \in Nat /\ nextRow <= nextRow' /\ End(e) <= nextRow'
    BY <1>1, <1>2, <1>6
  <2> QED
    BY <1>2, <1>3, <1>4, <1>5, <1>6, <1>12, <1>13, <1>1, <2>1, LoadStep DEF c
<1> QED
  BY <1>8, <1>9, <1>14 DEF IInv

\* Weights are loaded into new rows, or turned down for want of rows.
LEMMA PreparePlaceInv ==
  ASSUME IInv, NEW k \in Keys, NEW s \in Shapes, PreparePlace(k, s)
  PROVE  IInv'
<1> DEFINE e == [elems |-> s.groups * s.cols, shape |-> s, rowBase |-> nextRow,
                 stale |-> FALSE]
           f == [e EXCEPT !.stale = intern[k].stale]
           c == Load(k, e)
<1>1. TypeInv /\ nextRow \in Nat /\ Window(Now) /\ NoTwins(Now)
  BY DEF IInv, TypeInv, RegionInv
<1>2. /\ intern[k] # Absent /\ nextRow + Waves(s) <= MaxRow
      /\ nextRow' = nextRow + Waves(s) /\ version' = version
  BY DEF PreparePlace
<1>3. \/ /\ nextRow + Waves(s) <= NRows
         /\ intern' = [intern EXCEPT ![k] = e]
         /\ regions' = c.regions /\ dense' = c.dense /\ bump' = c.bump
         /\ refused' = c.refused
      \/ /\ ~(nextRow + Waves(s) <= NRows)
         /\ intern' = [intern EXCEPT ![k] = f]
         /\ UNCHANGED dram
  BY DEF PreparePlace
<1>4. intern[k] \in Entry /\ k \in Interned /\ intern[k].stale \in BOOLEAN
  BY <1>1, <1>2 DEF TypeInv, Entry, Interned
<1>5. e \in Entry /\ e.rowBase = nextRow /\ e.shape = s
  BY <1>1 DEF Entry
<1>6. f \in Entry /\ f.rowBase = nextRow /\ f.shape = s
  BY <1>4, <1>5, EntryFacts
<1>7. Placeable(e) /\ End(e) = nextRow + Waves(s) /\ Waves(s) \in Nat
  BY <1>1, <1>5, ShapeFacts DEF Placeable, End
<1>8. /\ c.regions \in Seq(Region) /\ c.dense \in Seq(Nat)
      /\ c.bump \in Nat /\ c.refused \in BOOLEAN /\ Room(c)
  BY <1>1, <1>7, LoadEffect
<1> HIDE DEF e, f, c
<1>9. /\ intern' \in [Keys -> Entry \cup {Absent}]
      /\ intern'[k] = e \/ intern'[k] = f
      /\ \A j \in Keys \ {k} : intern'[j] = intern[j]
  BY <1>1, <1>3, <1>5, <1>6 DEF TypeInv
<1>10. intern'[k].rowBase = nextRow /\ intern'[k].shape = s
  BY <1>5, <1>6, <1>9
<1>11. nextRow' \in 0 .. MaxRow /\ nextRow' \in Nat /\ nextRow <= nextRow'
       /\ End(e) <= nextRow'
  BY <1>1, <1>2, <1>7, Bounds
<1>12. TypeInv'
  <2>1. \A j \in Interned' : IF intern'[j].rowBase >= 0 THEN intern'[j].shape \in Shapes
                                                         ELSE intern'[j].stale
    BY SMTT(30), <1>1, <1>9, <1>10 DEF TypeInv, Interned
  <2>2. /\ regions' \in Seq(Region) /\ dense' \in Seq(Nat)
        /\ bump' \in Nat /\ refused' \in BOOLEAN
        /\ Shared => bump' <= ArenaSize /\ Len(regions') <= MaxRegions
    BY <1>1, <1>3, <1>8 DEF TypeInv, Room, dram
  <2> QED
    BY <1>1, <1>2, <1>9, <1>11, <2>1, <2>2 DEF TypeInv
<1>13. \A j \in Keys : Given(j) => End(intern[j]) <= nextRow
  BY DEF IInv, RowInv
<1>14. Separate(k, e)
  BY <1>5, <1>13 DEF Separate
<1>15. RowInv'
  BY <1>5, <1>9, <1>10, <1>11, <1>14, RowStep
<1>16. CASE nextRow + Waves(s) <= NRows
  <2>1. /\ regions' = c.regions /\ dense' = c.dense /\ refused' = c.refused
    BY <1>3, <1>16
  <2>2. Above(k, e)
    BY <1>5, <1>13 DEF Above, Fits
  <2>3. Reached(e)
    <3>1. \A i \in 1 .. Len(dense) : Reg(Now, i).row0 < nextRow
      BY DEF IInv, RegionInv
    <3> QED
      BY <1>5, <3>1 DEF Reached
  <2>4. RegionInv' /\ HomeInv' /\ ContentInv'
    BY <1>1, <1>2, <1>5, <1>7, <1>9, <1>10, <1>11, <1>14, <2>1, <2>2, <2>3, LoadStep DEF c
  <2> QED
    BY <1>12, <1>15, <2>4 DEF IInv
<1>17. CASE ~(nextRow + Waves(s) <= NRows)
  <2>1. UNCHANGED dram
    BY <1>3, <1>17
  <2>2. ~Fits(k)'
    <3>1. End(intern'[k]) = nextRow + Waves(s)
      BY <1>10 DEF End
    <3> QED
      BY <1>17, <3>1 DEF Fits
  <2>3. \A j \in Keys : Fits(j)' => j # k /\ Fits(j)
    BY <1>9, <2>2 DEF Fits, Given, Interned
  <2>4. RegionInv' /\ HomeInv' /\ ContentInv'
    BY <1>2, <1>9, <1>11, <2>1, <2>3, QuietStep
  <2> QED
    BY <1>12, <1>15, <2>4 DEF IInv
<1> QED
  BY <1>16, <1>17

\* A new device starts with no regions, when nothing is interned.
LEMMA SetIssueModeInv ==
  ASSUME IInv, SetIssueMode
  PROVE  IInv'
<1>1. /\ Interned = {} /\ dense' = <<>> /\ regions' = regions /\ intern' = intern
      /\ version' = version /\ nextRow' = nextRow /\ bump' = bump /\ refused' = refused
  BY DEF SetIssueMode
<1>2. \A k \in Keys : ~Given(k)'
  BY <1>1 DEF Given, Interned
<1>3. TypeInv'
  BY <1>1 DEF IInv, TypeInv, Interned
<1>4. RowInv' /\ RegionInv' /\ HomeInv' /\ ContentInv'
  BY <1>1, <1>2, EmptyStep
<1> QED
  BY <1>3, <1>4 DEF IInv

\* After the shutdown nothing is interned.
LEMMA ShutdownInv ==
  ASSUME IInv, Shutdown
  PROVE  IInv'
<1>1. /\ intern' = [k \in Keys |-> Absent] /\ dense' = <<>> /\ regions' = regions
      /\ version' = version /\ nextRow' = 0 /\ bump' = bump /\ refused' = refused
  BY DEF Shutdown
<1>2. Interned' = {} /\ \A k \in Keys : ~Given(k)'
  BY <1>1 DEF Given, Interned
<1>3. TypeInv'
  BY <1>1, <1>2, Bounds DEF IInv, TypeInv
<1>4. RowInv' /\ RegionInv' /\ HomeInv' /\ ContentInv'
  BY <1>1, <1>2, EmptyStep
<1> QED
  BY <1>3, <1>4 DEF IInv

\* A step that changes nothing.
LEMMA StutterInv ==
  ASSUME IInv, UNCHANGED vars
  PROVE  IInv'
<1>1. /\ intern' = intern /\ version' = version /\ nextRow' = nextRow /\ UNCHANGED dram
  BY DEF vars, dram
<1>2. TypeInv' /\ RowInv'
  BY <1>1 DEF IInv, TypeInv, RowInv, Given, Interned, dram
<1>3. \A j \in Keys : Fits(j)' <=> Fits(j)
  BY <1>1 DEF Fits, Given, Interned
<1>4. RegionInv' /\ HomeInv' /\ ContentInv'
  BY <1>1, <1>3, QuietStep DEF IInv, TypeInv
<1> QED
  BY <1>2, <1>4 DEF IInv

\* Nothing is interned and nothing allocated at first.
LEMMA InitInv == Init => IInv
<1> SUFFICES ASSUME Init PROVE IInv
  OBVIOUS
<1>1. /\ intern = [k \in Keys |-> Absent] /\ version = [k \in Keys |-> 0] /\ nextRow = 0
      /\ regions = <<>> /\ dense = <<>> /\ bump = 0 /\ refused = FALSE
  BY DEF Init
<1>2. Interned = {} /\ \A k \in Keys : ~Given(k)
  BY <1>1 DEF Given, Interned
<1>3. TypeInv
  <2>1. regions \in Seq(Region) /\ dense \in Seq(Nat) /\ Len(regions) = 0
    BY <1>1
  <2>2. /\ intern \in [Keys -> Entry \cup {Absent}]
        /\ version \in [Keys -> 0 .. MaxVersion] /\ nextRow \in 0 .. MaxRow
        /\ bump \in Nat /\ refused \in BOOLEAN
    <3>1. 0 \in 0 .. MaxVersion /\ 0 \in 0 .. MaxRow
      BY Bounds
    <3>2. refused \in BOOLEAN
      BY <1>1
    <3>3. intern \in [Keys -> Entry \cup {Absent}]
      BY <1>1
    <3> QED
      BY <1>1, <3>1, <3>2, <3>3
  <2>3. Shared => bump <= ArenaSize /\ Len(regions) <= MaxRegions
    BY <1>1, <2>1, Bounds
  <2> QED
    BY <1>2, <2>1, <2>2, <2>3 DEF TypeInv
<1>4. Now.dense = <<>> /\ Now.regions = <<>>
  BY <1>1 DEF Now
<1>5. Window(Now) /\ NoTwins(Now)
  BY <1>4 DEF Window, NoTwins
<1> QED
  BY <1>1, <1>2, <1>3, <1>5 DEF IInv, RowInv, RegionInv, HomeInv, ContentInv, Fits

\* The invariant holds in every state, whatever is interned, prepared, turned
\* down for want of rows, written by the host and loaded again.
THEOREM Inductive == Spec => []IInv
<1>1. ASSUME IInv, [Next]_vars PROVE IInv'
  <2>1. CASE UNCHANGED vars
    BY <1>1, <2>1, StutterInv
  <2>2. ASSUME NEW k \in Keys, HostWrite(k) PROVE IInv'
    BY <1>1, <2>2, HostWriteInv
  <2>3. ASSUME NEW k \in Keys, NEW s \in Shapes, Intern(k, s) PROVE IInv'
    BY <1>1, <2>3, InternInv
  <2>4. ASSUME NEW k \in Keys, NEW s \in Shapes, PrepareReload(k, s) PROVE IInv'
    BY <1>1, <2>4, PrepareReloadInv
  <2>5. ASSUME NEW k \in Keys, NEW s \in Shapes, PreparePlace(k, s) PROVE IInv'
    BY <1>1, <2>5, PreparePlaceInv
  <2>6. CASE SetIssueMode
    BY <1>1, <2>6, SetIssueModeInv
  <2>7. CASE Shutdown
    BY <1>1, <2>7, ShutdownInv
  <2> QED
    BY <1>1, <2>1, <2>2, <2>3, <2>4, <2>5, <2>6, <2>7 DEF Next
<1> QED
  BY <1>1, InitInv, PTL DEF Spec

-----------------------------------------------------------------------------
(* The properties.                                                         *)

\* The table of entries, the row allocator and the table of regions have their
\* types; every index of the client names a region that was allocated, and the
\* arena and its table are never overrun.
THEOREM TypeCorrect == Spec => []TypeOK
<1>1. ASSUME IInv PROVE TypeOK
  <2>1. TypeInv /\ Window(Now)
    BY <1>1 DEF IInv, RegionInv
  <2>2. Range(dense) \subseteq DOMAIN regions
    <3>1. \A i \in 1 .. Len(dense) : dense[i] \in 1 .. Len(regions)
      BY <2>1, NowFacts, WindowFacts
    <3>2. DOMAIN dense = 1 .. Len(dense) /\ DOMAIN regions = 1 .. Len(regions)
      BY <2>1 DEF TypeInv
    <3> QED
      BY <3>1, <3>2 DEF Range
  <2>3. \A k \in Interned : intern[k] \in Entry
    BY <2>1 DEF TypeInv, Interned
  <2> QED
    BY <2>1, <2>2, <2>3 DEF TypeOK, TypeInv, Entry
<1> QED
  BY <1>1, Inductive, PTL

\* The rows of a matrix lie below the end of what it was given.
LEMMA RowsWithin ==
  ASSUME TypeInv, NEW k \in Keys, Given(k), NEW r \in RowsOf(k)
  PROVE  r \in Nat /\ intern[k].rowBase <= r /\ r < End(intern[k])
<1>1. PICK g \in Groups(intern[k].shape) : r = Row(intern[k], g)
  BY DEF RowsOf
<1> QED
  BY <1>1, GivenPlaceable, RowFacts

\* The rows of two matrices never overlap, in whatever order they were
\* interned, prepared, replaced and reloaded ("CentGemv rows are unique across
\* interned matrices", mem.h).
THEOREM DisjointRows == Spec => []RowsDisjoint
<1>1. ASSUME IInv PROVE RowsDisjoint
  <2> SUFFICES ASSUME NEW k \in Interned, NEW j \in Interned, k # j,
                      intern[k].rowBase >= 0, intern[j].rowBase >= 0,
                      NEW r \in RowsOf(k), r \in RowsOf(j)
               PROVE  FALSE
    BY DEF RowsDisjoint
  <2>1. TypeInv /\ k \in Keys /\ j \in Keys /\ Given(k) /\ Given(j)
    BY <1>1 DEF IInv, Given, Interned
  <2>2. /\ r \in Nat /\ intern[k].rowBase <= r /\ r < End(intern[k])
        /\ intern[j].rowBase <= r /\ r < End(intern[j])
    BY <2>1, RowsWithin
  <2>3. \/ End(intern[k]) <= intern[j].rowBase
        \/ End(intern[j]) <= intern[k].rowBase
    BY <1>1, <2>1 DEF IInv, RowInv
  <2>4. /\ End(intern[k]) \in Nat /\ End(intern[j]) \in Nat
        /\ intern[k].rowBase \in Nat /\ intern[j].rowBase \in Nat
    BY <2>1, GivenPlaceable, EndFacts
  <2> QED
    BY <2>2, <2>3, <2>4
<1> QED
  BY <1>1, Inductive, PTL

\* A prepared matrix was given rows, and they are in the banks unless the
\* property says otherwise.
LEMMA ReadyFits ==
  ASSUME TypeInv, NEW k \in Ready
  PROVE  /\ k \in Keys /\ Given(k) /\ Placeable(intern[k]) /\ ~intern[k].stale
         /\ ~Beyond(k) => Fits(k)
<1> DEFINE e == intern[k]
           s == e.shape
<1>1. k \in Keys /\ k \in Interned /\ ~e.stale
  BY DEF Ready, Interned
<1>2. Given(k)
  BY <1>1 DEF TypeInv, Given
<1>3. Placeable(e) /\ s \in Shapes
  BY <1>1, <1>2, GivenPlaceable DEF Placeable
<1>4. ASSUME ~Beyond(k) PROVE Fits(k)
  <2>1. s.groups - 1 \in Groups(s) /\ (s.groups - 1) \div NCh = Waves(s) - 1
    BY <1>3, LastWave
  <2>2. Row(e, s.groups - 1) \in 0 .. NRows - 1
    BY <1>4, <2>1 DEF Beyond, RowsOf
  <2>3. e.rowBase + (Waves(s) - 1) \in 0 .. NRows - 1
    BY <2>1, <2>2 DEF Row
  <2>4. e.rowBase \in Nat /\ Waves(s) \in Nat \ {0} /\ NRows \in Nat
    BY <1>3, ShapeFacts, Bounds DEF Placeable
  <2>5. e.rowBase + Waves(s) <= NRows
    <3> DEFINE w == Waves(s)
    <3> HIDE DEF w, e
    <3>1. e.rowBase + (w - 1) <= NRows - 1 /\ e.rowBase \in Nat /\ w \in Nat /\ NRows \in Nat
      BY <2>3, <2>4 DEF w
    <3> QED
      BY <3>1 DEF w
  <2> QED
    BY <1>2, <2>5 DEF Fits, End
<1> QED
  BY <1>1, <1>2, <1>3, <1>4

\* Where a group of a prepared matrix is: in its home, which no later region
\* of the channel covers.
LEMMA GroupHome ==
  ASSUME IInv, ~refused, NEW k \in Ready, ~Beyond(k), NEW g \in Groups(intern[k].shape)
  PROVE  \E i \in 1 .. Len(dense) :
           /\ SamePlace(Reg(Now, i), EmptyRegion(Ch(g), intern[k]))
           /\ Covers(Reg(Now, i), Ch(g), Row(intern[k], g))
           /\ Row(intern[k], g) - Reg(Now, i).row0 = g \div NCh
           /\ Reg(Now, i).slot[g \div NCh] = <<k, version[k], g>>
           /\ \A j \in i + 1 .. Len(dense) : ~Covers(Reg(Now, j), Ch(g), Row(intern[k], g))
<1> DEFINE e == intern[k]
<1>1. TypeInv /\ Window(Now)
  BY DEF IInv, RegionInv
<1>2. k \in Keys /\ Fits(k) /\ ~e.stale /\ Placeable(e)
  BY <1>1, ReadyFits
<1>3. (\A ch \in 0 .. NCh - 1 : Home(Now, e, ch)) /\ Holds(Now, k, e, version[k])
  BY <1>2 DEF IInv, HomeInv, ContentInv
<1> HIDE DEF e
<1>4. g \in Groups(e.shape)
  BY DEF e
<1>5. Ch(g) \in 0 .. NCh - 1 /\ g \div NCh \in 0 .. e.shape.groups - 1
  BY <1>2, <1>4, GroupFacts DEF Placeable
<1>6. PICK i \in 1 .. Len(dense) :
        /\ SamePlace(Reg(Now, i), EmptyRegion(Ch(g), e))
        /\ \A j \in i + 1 .. Len(dense) : Reg(Now, j).ch = Ch(g) => End(e) <= Reg(Now, j).row0
  BY <1>1, <1>3, <1>5, NowFacts DEF Home
<1>7. Reg(Now, i).slot[g \div NCh] = <<k, version[k], g>>
  BY <1>1, <1>3, <1>4, <1>6, NowFacts DEF Holds
<1>8. /\ Reg(Now, i).ch = Ch(g) /\ Reg(Now, i).row0 = e.rowBase
      /\ Reg(Now, i).nRows = e.shape.groups
  BY <1>2, <1>5, <1>6, EmptyType DEF SamePlace
<1>9. /\ Row(e, g) \in Nat /\ Row(e, g) < End(e) /\ End(e) \in Nat
      /\ Row(e, g) = e.rowBase + g \div NCh /\ e.rowBase \in Nat
  BY <1>2, <1>4, RowFacts DEF Placeable
<1>10. e.shape.groups \in Nat
  BY <1>2, ShapeFacts DEF Placeable
<1>11. /\ Row(e, g) - Reg(Now, i).row0 = g \div NCh
       /\ Row(e, g) \in e.rowBase .. e.rowBase + e.shape.groups - 1
  <2> DEFINE q == g \div NCh
             n == e.shape.groups
  <2>1. q \in 0 .. n - 1 /\ n \in Nat /\ Row(e, g) = e.rowBase + q /\ e.rowBase \in Nat
    BY <1>5, <1>9, <1>10
  <2> HIDE DEF q, n
  <2>2. Row(e, g) - e.rowBase = q /\ Row(e, g) \in e.rowBase .. e.rowBase + n - 1
    BY <2>1
  <2> QED
    BY <1>8, <2>2 DEF q, n
<1>12. Covers(Reg(Now, i), Ch(g), Row(e, g))
  BY <1>8, <1>11 DEF Covers
<1>13. ASSUME NEW j \in i + 1 .. Len(dense) PROVE ~Covers(Reg(Now, j), Ch(g), Row(e, g))
  <2> SUFFICES ASSUME Covers(Reg(Now, j), Ch(g), Row(e, g)) PROVE FALSE
    OBVIOUS
  <2>1. /\ Reg(Now, j).ch = Ch(g)
        /\ Row(e, g) \in Reg(Now, j).row0 .. Reg(Now, j).row0 + Reg(Now, j).nRows - 1
    BY DEF Covers
  <2>2. End(e) <= Reg(Now, j).row0
    BY <1>6, <2>1
  <2>3. Reg(Now, j).row0 \in Nat
    <3>1. Len(dense) \in Nat
      BY <1>1 DEF TypeInv
    <3>2. j \in 1 .. Len(dense)
      BY <3>1
    <3>3. Now.regions \in Seq(Region) /\ Now.dense \in Seq(Nat)
      BY <1>1, NowFacts, DramTypes
    <3> QED
      BY <1>1, <3>2, <3>3, NowFacts, RegInRegion, RegionFacts
  <2> QED
    BY <1>9, <2>1, <2>2, <2>3
<1> QED
  BY <1>6, <1>7, <1>11, <1>12, <1>13 DEF e

\* As long as the arena had room for every region, the client finds the present
\* weights of every prepared matrix in the banks, whatever was loaded, replaced,
\* reloaded or turned down since.
THEOREM ClientFinds == Spec => []ClientReads
<1>1. ASSUME IInv PROVE ClientReads
  <2> SUFFICES ASSUME ~refused, NEW k \in Ready, ~Beyond(k),
                      NEW g \in Groups(intern[k].shape)
               PROVE  ReadRow(regions, dense, store, Ch(g), Row(intern[k], g))
                        = <<k, version[k], g>>
    BY DEF ClientReads, Readable
  <2>1. PICK i \in 1 .. Len(dense) :
          /\ SamePlace(Reg(Now, i), EmptyRegion(Ch(g), intern[k]))
          /\ Row(intern[k], g) - Reg(Now, i).row0 = g \div NCh
          /\ Reg(Now, i).slot[g \div NCh] = <<k, version[k], g>>
          /\ \A j \in i + 1 .. Len(dense) : ~Covers(Reg(Now, j), Ch(g), Row(intern[k], g))
    BY <1>1, GroupHome
  <2>2. TypeInv /\ Window(Now) /\ Placeable(intern[k])
    BY <1>1, ReadyFits DEF IInv, RegionInv
  <2>3. RegionFor(regions, dense, Ch(g), Row(intern[k], g)) = dense[i]
    <3>1. RegionFor(Now.regions, Now.dense, Ch(g), Row(intern[k], g)) = Now.dense[i]
      BY <2>1, <2>2, NowFacts, RegionForHome
    <3> QED
      BY <2>2, <3>1, NowFacts
  <2>4. dense[i] \in 1 .. Len(regions) /\ dense[i] # 0
    <3>1. Now.dense[i] \in 1 .. Len(Now.regions) /\ Now.dense = dense /\ Now.regions = regions
      BY <2>2, NowFacts, WindowFacts
    <3>2. \A x : x \in 1 .. Len(regions) => x # 0
      OBVIOUS
    <3> QED
      BY <3>1, <3>2
  <2>5. Reg(Now, i) = regions[dense[i]]
    BY <2>2, NowFacts DEF Reg
  <2> QED
    BY <2>1, <2>3, <2>4, <2>5 DEF ReadRow
<1> QED
  BY <1>1, Inductive, PTL

\* So does the MAC worker, which takes every region of the shared table in the
\* order of the allocations, also those a client allocated that is gone.
THEOREM WorkerFinds == Spec => []WorkerReads
<1>1. ASSUME IInv PROVE WorkerReads
  <2> SUFFICES ASSUME ~refused, NEW k \in Ready, ~Beyond(k),
                      NEW g \in Groups(intern[k].shape)
               PROVE  ReadRow(regions, Adopted, <<>>, Ch(g), Row(intern[k], g))
                        = <<k, version[k], g>>
    BY DEF WorkerReads, Readable
  <2>1. PICK i \in 1 .. Len(dense) :
          /\ Covers(Reg(Now, i), Ch(g), Row(intern[k], g))
          /\ Row(intern[k], g) - Reg(Now, i).row0 = g \div NCh
          /\ Reg(Now, i).slot[g \div NCh] = <<k, version[k], g>>
          /\ \A j \in i + 1 .. Len(dense) : ~Covers(Reg(Now, j), Ch(g), Row(intern[k], g))
    BY <1>1, GroupHome
  <2>2. TypeInv /\ Window(Now)
    BY <1>1 DEF IInv, RegionInv
  <2>3. /\ \A j \in 1 .. Len(dense) : /\ dense[j] = Len(regions) - Len(dense) + j
                                      /\ dense[j] \in 1 .. Len(regions)
                                      /\ Reg(Now, j) = regions[dense[j]]
        /\ Len(dense) \in Nat /\ Len(regions) \in Nat /\ Len(dense) <= Len(regions)
    BY <2>2, NowFacts, WindowFacts, DramLengths DEF Reg
  <2> DEFINE m == Len(dense)
             n == Len(regions)
             hits == {a \in DOMAIN Adopted :
                        Covers(regions[Adopted[a]], Ch(g), Row(intern[k], g))}
  <2>4. DOMAIN Adopted = 1 .. n /\ \A a \in 1 .. n : Adopted[a] = a
    BY <2>2 DEF Adopted, TypeInv
  <2>5. dense[i] \in hits
    BY <2>1, <2>3, <2>4
  <2>6. ASSUME NEW a \in hits PROVE a <= dense[i]
    <3> SUFFICES ASSUME ~(a <= dense[i]) PROVE FALSE
      OBVIOUS
    <3>1. a \in 1 .. n /\ Covers(regions[a], Ch(g), Row(intern[k], g))
      BY <2>4
    <3> HIDE DEF hits, m, n
    <3>2. /\ m \in Nat /\ n \in Nat /\ m <= n /\ i \in 1 .. m /\ dense[i] = n - m + i
      BY <2>1, <2>3 DEF m, n
    <3>3. a - (n - m) \in i + 1 .. m /\ a - (n - m) \in 1 .. m /\ n - m + (a - (n - m)) = a
      BY <3>1, <3>2
    <3>4. PICK j \in i + 1 .. m : j \in 1 .. m /\ n - m + j = a
      BY <3>3
    <3>5. Reg(Now, j) = regions[a]
      BY <2>3, <3>4 DEF m, n
    <3> QED
      BY <2>1, <3>1, <3>4, <3>5 DEF m
  <2>7. hits \in SUBSET Nat
    BY <2>4, <2>3
  <2> HIDE DEF hits
  <2>8. Max(hits) = dense[i]
    <3> DEFINE t == dense[i]
    <3>1. t \in hits /\ \A y \in hits : y <= t
      BY <2>5, <2>6
    <3> HIDE DEF t
    <3>2. \A x \in hits : (\A y \in hits : x >= y) <=> x = t
      BY <2>7, <3>1
    <3> QED
      BY <3>1, <3>2 DEF Max, t
  <2>9. RegionFor(regions, Adopted, Ch(g), Row(intern[k], g)) = dense[i]
    <3>1. dense[i] \in 1 .. n /\ Adopted[dense[i]] = dense[i]
      BY <2>1, <2>3, <2>4
    <3> QED
      BY <2>5, <2>8, <3>1 DEF RegionFor, hits
  <2>10. dense[i] # 0 /\ Reg(Now, i) = regions[dense[i]]
    BY <2>1, <2>3
  <2> QED
    BY <2>1, <2>9, <2>10 DEF ReadRow
<1> QED
  BY <1>1, Inductive, PTL
=============================================================================
