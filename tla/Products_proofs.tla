--------------------------- MODULE Products_proofs ---------------------------
(***************************************************************************)
(* A product that is returned is the product that was asked for, on every  *)
(* path: the rows the host's threads computed, the waves this process or   *)
(* the MAC worker computed from the banks, or the orders the device        *)
(* executed.  The weights are in their rows and in the mailbox before they *)
(* are read; the waves of a plan accumulate one output in each bank; and   *)
(* what the threads have added up is, when they are joined, the product.   *)
(***************************************************************************)
EXTENDS Backends_proofs

-----------------------------------------------------------------------------
(* Weights in their rows.                                                  *)

\* The banks of d have the matrix v, from row base on.
InRows(d, h, v, nOut, nIn, base) ==
  \A o \in 0 .. nOut - 1, col \in 0 .. Ceil(nIn, Lanes) - 1 :
    DramRead(d, h.pim[1 + ((o \div Banks) % Len(h.pim))], o % Banks,
             ((o \div Banks) \div Len(h.pim)) + base, col)
      = ActivationBurst(v[o], nIn, col)
Placed(d, m) == InRows(d, hw, W[m], Info[m].nOut, Info[m].nIn, rowBase[m])

\* u has what an output's row and x give in each column.
RowTerms(u, d, o, x) ==
  \A col \in 0 .. NCols - 1 :
    u[col] = BurstDot(DramRead(d, hw.pim[PlaceOf(o) + 1], o % Banks,
                               rowBase[call.m] + WaveOf(o), col),
                      ActivationBurst(x, mat.nIn, col))

\* A row and a column of the banks and the burst of x give a part of the dot
\* product; all columns give all of it.
LEMMA RowDot ==
  ASSUME CallInv, call.m \in Mats, rowBase[call.m] \in Int, mat.nOut \in Nat, mat.nIn \in Nat,
         NEW d, Placed(d, call.m), NEW x, NEW o \in 0 .. mat.nOut - 1,
         Vectors(W[call.m][o], x, mat.nIn), NEW u, RowTerms(u, d, o, x)
  PROVE  /\ SumOver(u, 0 .. NCols - 1) = DotRange(W[call.m][o], x, 0, mat.nIn)
         /\ DotRange(W[call.m][o], x, 0, mat.nIn) \in Int
         /\ \A col \in 0 .. NCols - 1 : u[col] \in Int
<1>1. Len(hw.pim) \in Nat \ {0}
  BY HardwareFacts, LenProperties
<1>2. WaveOf(o) \in Int /\ PlaceOf(o) \in Int
  BY <1>1, OutputFacts
<1>3. /\ PlaceOf(o) + 1 = 1 + ((o \div Banks) % Len(hw.pim))
      /\ rowBase[call.m] + WaveOf(o) = ((o \div Banks) \div Len(hw.pim)) + rowBase[call.m]
  BY <1>2 DEF PlaceOf, WaveOf, GroupOf
<1>4. NCols = Ceil(mat.nIn, Lanes)
  BY DEF NCols
<1>5. ASSUME NEW col \in 0 .. NCols - 1
      PROVE  u[col] = BurstDot(ActivationBurst(W[call.m][o], mat.nIn, col),
                               ActivationBurst(x, mat.nIn, col))
  <2>1. DramRead(d, hw.pim[1 + ((o \div Banks) % Len(hw.pim))], o % Banks,
                 ((o \div Banks) \div Len(hw.pim)) + rowBase[call.m], col)
          = ActivationBurst(W[call.m][o], mat.nIn, col)
    BY <1>4 DEF Placed, InRows, mat
  <2> QED
    BY <1>3, <2>1 DEF RowTerms
<1> QED
  BY <1>4, <1>5, ColumnsAreDot

\* The waves over these rows compute the product.
LEMMA PlacedIsRight ==
  ASSUME CallInv, DeviceInv, call.ph # "idle", call.nTok = 1,
         NEW w, Memory(w), NEW d \in Dev(hw, w), Placed(d, call.m),
         NEW x, \A col \in 0 .. NCols - 1 :
                  x[col] = ActivationBurst(X[call.n][0], mat.nIn, col)
  PROVE  WavesRight(d, x, Dots(Job)) /\ Area = Firsts
<1>1. /\ mat.nOut \in Nat /\ mat.nIn \in Nat /\ NCols \in Nat /\ call.m \in Mats
      /\ rowBase[call.m] \in Int
  <2>1. call.m \in Mats
    BY DEF CallInv
  <2> QED
    BY <2>1, MatrixFacts DEF DeviceInv
<1>2. Area = Firsts
  <2>1. Area = (0 .. call.nTok - 1) \X (0 .. mat.nOut - 1) /\ 0 .. call.nTok - 1 = {0}
    BY JobFacts
  <2> QED
    BY <2>1 DEF Firsts
<1>3. Len(hw.pim) \in Nat \ {0}
  BY HardwareFacts, LenProperties
<1>4. ASSUME NEW o \in 0 .. mat.nOut - 1
      PROVE  MacWave(d, hw.pim[PlaceOf(o) + 1], rowBase[call.m] + WaveOf(o), NCols, x)[o % Banks]
               = Dots(Job)[<<0, o>>]
  <2> DEFINE ch == hw.pim[PlaceOf(o) + 1]
             row == rowBase[call.m] + WaveOf(o)
             b == o % Banks
             c == <<0, o>>
             u == ColumnDots(d, ch, b, row, NCols, x)
  <2>1. b \in BankIds
    BY <1>1, <1>3, OutputFacts
  <2>2. c \in Area
    BY <1>2 DEF Firsts
  <2>3. /\ Vectors(W[call.m][o], X[call.n][0], mat.nIn)
        /\ Dots(Job)[c] = DotRange(W[call.m][o], X[call.n][0], 0, mat.nIn)
    <3>1. c[1] = 0 /\ c[2] = o
      OBVIOUS
    <3> HIDE DEF c
    <3> QED
      BY <2>2, <3>1, JobFacts
  <2>4. \A col \in 0 .. NCols - 1 : x[col] \in Burst
    <3>1. \A i \in 0 .. mat.nIn - 1 : X[call.n][0][i] \in Int
      BY <2>3 DEF Vectors
    <3>2. \A col \in 0 .. Ceil(mat.nIn, Lanes) - 1 :
            ActivationBurst(X[call.n][0], mat.nIn, col) \in Burst
      BY <1>1, <3>1, ActivationType
    <3> QED
      BY <3>2 DEF NCols
  <2> HIDE DEF b, c
  <2>5. MacWave(d, ch, row, NCols, x)[b] = SumOver(u, 0 .. NCols - 1)
    <3> HIDE DEF ch, row, u
    <3>1. MacWave(d, ch, row, NCols, x)[b]
            = SumOver(ColumnDots(d, ch, b, row, NCols, x), 0 .. NCols - 1)
      BY <1>1, <2>1, <2>4, WaveIsSum
    <3> QED
      BY <3>1 DEF u
  <2>6. \A col \in 0 .. NCols - 1 :
          u[col] = BurstDot(DramRead(d, ch, b, row, col),
                            ActivationBurst(X[call.n][0], mat.nIn, col))
    <3> HIDE DEF ch, row
    <3> QED
      BY DEF u, ColumnDots
  <2>7. SumOver(u, 0 .. NCols - 1) = DotRange(W[call.m][o], X[call.n][0], 0, mat.nIn)
    <3> DEFINE xx == X[call.n][0]
    <3>1. Vectors(W[call.m][o], xx, mat.nIn)
      BY <2>3
    <3>2. RowTerms(u, d, o, xx)
      BY <2>6 DEF b, RowTerms
    <3> HIDE DEF u, xx
    <3>3. SumOver(u, 0 .. NCols - 1) = DotRange(W[call.m][o], xx, 0, mat.nIn)
      BY <1>1, <3>1, <3>2, RowDot
    <3> QED
      BY <3>3 DEF xx
  <2> HIDE DEF u
  <2> QED
    BY <2>3, <2>5, <2>7 DEF ch, row, b, c
<1>5. WavesRight(d, x, Dots(Job))
  BY <1>4 DEF WavesRight
<1> QED
  BY <1>2, <1>5

\* The channels of hardware are listed upwards, each once.
Rising(h) ==
  /\ Len(h.pim) \in Nat \ {0} /\ \A i \in 1 .. Len(h.pim) : h.pim[i] \in Int
  /\ \A i, j \in 1 .. Len(h.pim) : i < j => h.pim[i] < h.pim[j]

\* The rows of a matrix.
RowsOf(h, nOut) == Ceil(Ceil(nOut, Banks), Len(h.pim))

\* Where load_weights_f32 puts column col of output o.
RowPlace(h, base, o, col) ==
  <<h.pim[1 + ((o \div Banks) % Len(h.pim))], o % Banks,
    ((o \div Banks) \div Len(h.pim)) + base, col>>

\* map_weight puts column col of output o there.
LEMMA RowPlaceIs ==
  ASSUME NEW h, NEW base, NEW o, NEW col \in Nat
  PROVE  LET p == MapWeight(h, o, col * Lanes)
         IN <<p.ch, p.bank, p.row + base, p.col>> = RowPlace(h, base, o, col)
<1>1. (col * Lanes) \div Lanes = col
  <2>1. 0 \in 0 .. Lanes - 1 /\ Lanes \in Nat \ {0}
    BY DeviceAssumption
  <2>2. (col * Lanes + 0) \div Lanes = col
    BY <2>1, DivisionIs
  <2>3. col * Lanes + 0 = col * Lanes
    BY <2>1
  <2> QED
    BY <2>2, <2>3
<1> DEFINE c == (col * Lanes) \div Lanes
<1>2. LET p == MapWeight(h, o, col * Lanes)
      IN <<p.ch, p.bank, p.row + base, p.col>>
           = <<h.pim[1 + ((o \div Banks) % Len(h.pim))], o % Banks,
               ((o \div Banks) \div Len(h.pim)) + base, c>>
  BY DEF MapWeight
<1> QED
  BY <1>1, <1>2 DEF RowPlace

\* All of them are in the matrix' rows.
LEMMA RowPlaceIn ==
  ASSUME NEW h, Rising(h), NEW base \in Int, NEW nOut \in Nat,
         NEW o \in 0 .. nOut - 1, NEW col
  PROVE  RowPlace(h, base, o, col)[3] \in base .. base + RowsOf(h, nOut) - 1
<1> DEFINE L == Len(h.pim)
           G == Ceil(nOut, Banks)
           grp(q) == q \div Banks
<1>1. Banks \in Nat \ {0} /\ L \in Nat \ {0}
  BY DeviceAssumption DEF Rising
<1>2. G \in Nat /\ \A q \in 0 .. nOut - 1 : grp(q) \in 0 .. G - 1
  <2>1. Ceil(nOut, Banks) \in Nat /\ \A q \in 0 .. nOut - 1 : q \div Banks \in 0 .. Ceil(nOut, Banks) - 1
    BY <1>1, CeilFacts
  <2> QED
    BY <2>1
<1>3. RowsOf(h, nOut) = Ceil(G, L)
  BY DEF RowsOf
<1> HIDE DEF L, G, grp
<1>4. /\ Ceil(G, L) \in Nat
      /\ \A q \in 0 .. nOut - 1 : /\ grp(q) \in Nat /\ grp(q) \div L \in 0 .. Ceil(G, L) - 1
                                  /\ grp(q) % L \in 0 .. L - 1
  <2>1. Ceil(G, L) \in Nat /\ \A i \in 0 .. G - 1 : i \div L \in 0 .. Ceil(G, L) - 1
    BY <1>1, <1>2, CeilFacts
  <2>2. \A i \in Nat : i % L \in 0 .. L - 1
    BY <1>1, DivisionType
  <2> QED
    BY <1>2, <2>1, <2>2
<1>5. RowPlace(h, base, o, col)[3] \in base .. base + RowsOf(h, nOut) - 1
  <2>1. RowPlace(h, base, o, col)[3] = (grp(o) \div L) + base
    BY DEF RowPlace, grp, L
  <2>2. grp(o) \div L \in 0 .. Ceil(G, L) - 1
    BY <1>4
  <2> QED
    BY <1>3, <1>4, <2>1, <2>2
<1> QED
  BY <1>5

\* No two of them share a place.
LEMMA RowPlacesDiffer ==
  ASSUME NEW h, Rising(h), NEW base \in Int, NEW nOut \in Nat,
         NEW o \in 0 .. nOut - 1, NEW q \in 0 .. nOut - 1, NEW col, NEW b,
         RowPlace(h, base, o, col) = RowPlace(h, base, q, b)
  PROVE  q = o /\ b = col
<1> DEFINE L == Len(h.pim)
           grp(r) == r \div Banks
           i == grp(o) % L
           j == grp(q) % L
           e == grp(o) \div L
           f == grp(q) \div L
<1>1. Banks \in Nat \ {0} /\ L \in Nat \ {0}
  BY DeviceAssumption DEF Rising
<1>2. o \in Nat /\ q \in Nat
  OBVIOUS
<1>3. grp(o) \in Nat /\ grp(q) \in Nat
  BY <1>1, <1>2, DivisionType
<1>4. /\ h.pim[1 + i] = h.pim[1 + j] /\ o % Banks = q % Banks
      /\ e + base = f + base /\ b = col
  BY DEF RowPlace
<1> HIDE DEF grp, L
<1>5. i \in 0 .. L - 1 /\ j \in 0 .. L - 1 /\ e \in Int /\ f \in Int
  <2>1. \A k \in Nat : k \div L \in Nat /\ k % L \in 0 .. L - 1
    BY <1>1, DivisionType
  <2> QED
    BY <1>3, <2>1
<1>6. e = f
  <2> HIDE DEF e, f
  <2> QED
    BY <1>4, <1>5
<1>7. i = j
  <2> HIDE DEF i, j
  <2>1. 1 + i \in 1 .. Len(h.pim) /\ 1 + j \in 1 .. Len(h.pim)
    BY <1>1, <1>5 DEF L
  <2>2. ~(1 + i < 1 + j) /\ ~(1 + j < 1 + i)
    BY <1>4, <2>1 DEF Rising
  <2> QED
    BY <1>5, <2>2
<1>8. grp(o) = grp(q)
  BY <1>1, <1>3, <1>6, <1>7, DivisionUnique
<1>9. o = q
  <2>1. o \div Banks = q \div Banks
    BY <1>8 DEF grp
  <2> QED
    BY <1>1, <1>2, <1>4, <2>1, DivisionUnique
<1> QED
  BY <1>4, <1>9

\* load_weights_f32 puts the matrix into its rows and leaves the others alone.
LEMMA WeightsInRows ==
  ASSUME NEW h, Rising(h), NEW w, NEW d \in Dev(h, w), NEW v, NEW nOut \in Nat, NEW nIn \in Nat,
         NEW base \in Int
  PROVE  LET e == LoadWeights(d, h, v, nOut, nIn, base)
         IN /\ InRows(e, h, v, nOut, nIn, base)
            /\ \A ch, b, row, col : row \notin base .. base + RowsOf(h, nOut) - 1 =>
                 DramRead(e, ch, b, row, col) = DramRead(d, ch, b, row, col)
<1> DEFINE place(o, col) == LET p == MapWeight(h, o, col * Lanes)
                            IN <<p.ch, p.bank, p.row + base, p.col>>
           burst(o, col) == [l \in LaneIds |->
             IF col * Lanes + l < nIn THEN v[o][col * Lanes + l] ELSE 0]
           cells == (0 .. nOut - 1) \X (0 .. Ceil(nIn, Lanes) - 1)
           new == {place(c[1], c[2]) : c \in cells}
           pick(a) == CHOOSE c \in cells : place(c[1], c[2]) = a
           u == [a \in DOMAIN d.dram \cup new |->
                  IF a \in new THEN burst(pick(a)[1], pick(a)[2]) ELSE d.dram[a]]
           e == LoadWeights(d, h, v, nOut, nIn, base)
<1>1. e = [d EXCEPT !.dram = u]
  BY DEF LoadWeights
<1> HIDE DEF e, u
<1>2. e.dram = u
  <2>1. d = [gpr |-> d.gpr, gb |-> d.gb, acc |-> d.acc, dram |-> d.dram]
    BY DEF Dev
  <2> QED
    BY <1>1, <2>1
<1>3. \A o, col : burst(o, col) = ActivationBurst(v[o], nIn, col)
  BY DEF ActivationBurst
<1>4. \A c \in cells : place(c[1], c[2]) = RowPlace(h, base, c[1], c[2])
  <2> SUFFICES ASSUME NEW c \in cells
               PROVE  place(c[1], c[2]) = RowPlace(h, base, c[1], c[2])
    OBVIOUS
  <2>1. c[2] \in Nat
    BY DeviceAssumption DEF Ceil
  <2> QED
    BY <2>1, RowPlaceIs
<1> HIDE DEF burst, place
<1>5. DOMAIN u = DOMAIN d.dram \cup new
      /\ \A a \in DOMAIN u : u[a] = IF a \in new THEN burst(pick(a)[1], pick(a)[2]) ELSE d.dram[a]
  BY DEF u
<1>6. ASSUME NEW c \in cells
      PROVE  LET a == RowPlace(h, base, c[1], c[2])
             IN a \in DOMAIN u /\ u[a] = ActivationBurst(v[c[1]], nIn, c[2])
  <2> DEFINE a == RowPlace(h, base, c[1], c[2])
  <2>1. a \in new /\ place(c[1], c[2]) = a
    BY <1>4
  <2>2. pick(a) = c
    <3>1. ASSUME NEW q \in cells, place(q[1], q[2]) = a PROVE q = c
      <4>1. RowPlace(h, base, c[1], c[2]) = RowPlace(h, base, q[1], q[2])
        BY <1>4, <3>1
      <4>2. /\ c[1] \in 0 .. nOut - 1 /\ q[1] \in 0 .. nOut - 1
            /\ c = <<c[1], c[2]>> /\ q = <<q[1], q[2]>>
        OBVIOUS
      <4>3. q[1] = c[1] /\ q[2] = c[2]
        <5> DEFINE o == c[1]
                   col == c[2]
                   r == q[1]
                   b == q[2]
        <5>1. /\ o \in 0 .. nOut - 1 /\ r \in 0 .. nOut - 1
              /\ RowPlace(h, base, o, col) = RowPlace(h, base, r, b)
          BY <4>1, <4>2
        <5> HIDE DEF o, col, r, b, cells, new, e, u, pick
        <5>2. r = o /\ b = col
          BY <5>1, RowPlacesDiffer
        <5> QED
          BY <5>2 DEF o, col, r, b
      <4> QED
        BY <4>2, <4>3
    <3> HIDE DEF a, cells
    <3> QED
      BY <2>1, <3>1
  <2> HIDE DEF pick, new, a
  <2>3. a \in DOMAIN u /\ u[a] = burst(pick(a)[1], pick(a)[2])
    BY <1>5, <2>1
  <2>4. u[a] = ActivationBurst(v[c[1]], nIn, c[2])
    BY <1>3, <2>2, <2>3
  <2> QED
    BY <2>3, <2>4 DEF a
<1>7. InRows(e, h, v, nOut, nIn, base)
  <2> SUFFICES ASSUME NEW o \in 0 .. nOut - 1, NEW col \in 0 .. Ceil(nIn, Lanes) - 1
               PROVE  DramRead(e, h.pim[1 + ((o \div Banks) % Len(h.pim))], o % Banks,
                               ((o \div Banks) \div Len(h.pim)) + base, col)
                        = ActivationBurst(v[o], nIn, col)
    BY DEF InRows
  <2> DEFINE c == <<o, col>>
  <2>1. c \in cells /\ c[1] = o /\ c[2] = col
    OBVIOUS
  <2>2. RowPlace(h, base, o, col) \in DOMAIN e.dram
        /\ e.dram[RowPlace(h, base, o, col)] = ActivationBurst(v[o], nIn, col)
    <3> HIDE DEF c, cells
    <3> QED
      BY <1>2, <1>6, <2>1
  <2> QED
    BY <2>2 DEF DramRead, RowPlace
<1>8. ASSUME NEW ch, NEW b, NEW row, NEW col, row \notin base .. base + RowsOf(h, nOut) - 1
      PROVE  DramRead(e, ch, b, row, col) = DramRead(d, ch, b, row, col)
  <2> DEFINE a == <<ch, b, row, col>>
  <2>1. a \notin new
    <3> SUFFICES ASSUME NEW c \in cells, place(c[1], c[2]) = a PROVE FALSE
      OBVIOUS
    <3>1. RowPlace(h, base, c[1], c[2]) = a /\ c[1] \in 0 .. nOut - 1
      BY <1>4
    <3>2. RowPlace(h, base, c[1], c[2])[3] \in base .. base + RowsOf(h, nOut) - 1
      BY <3>1, RowPlaceIn
    <3> QED
      BY <1>8, <3>1, <3>2
  <2> HIDE DEF new, pick
  <2>2. (a \in DOMAIN e.dram <=> a \in DOMAIN d.dram) /\ (a \in DOMAIN d.dram => e.dram[a] = d.dram[a])
    <3> HIDE DEF a
    <3> QED
      BY <1>2, <1>5, <2>1
  <2> QED
    BY <2>2 DEF DramRead
<1> QED
  BY <1>7, <1>8 DEF e

\* Rows are given out once; rows that are not stale have their weights.
Waves(m) == RowsOf(hw, Info[m].nOut)
RowsInv ==
  /\ nextRow \in Nat /\ stale \in [Mats -> BOOLEAN]
  /\ \A m \in Mats : rowBase[m] < 0 \/ rowBase[m] + Waves(m) <= nextRow
  /\ \A m \in Mats : rowBase[m] < 0 => stale[m]
  /\ \A m, n \in Mats : m # n /\ rowBase[m] >= 0 /\ rowBase[n] >= 0 =>
       rowBase[m] + Waves(m) <= rowBase[n] \/ rowBase[n] + Waves(n) <= rowBase[m]
WeightsInv == \A m \in Mats : ~stale[m] => Placed(dev, m)

\* The channels in use are listed upwards.
LEMMA HardwareRises ==
  ASSUME CallInv
  PROVE  Rising(hw) /\ hw.pim[1] = 0 /\ Len(hw.pim) <= 8
<1>1. /\ conf \in Confs /\ hw.pim \in Seq(Channels(hw)) /\ Len(hw.pim) # 0
      /\ \A i \in DOMAIN hw.pim : hw.pim[i] \in Channels(hw)
  BY HardwareFacts DEF CallInv
<1>2. /\ hw.pim[1] = 0 /\ Len(hw.pim) <= 8
      /\ \A i, j \in 1 .. Len(hw.pim) : i < j => hw.pim[i] < hw.pim[j]
  BY <1>1, ChannelAssumption DEF hw
<1>3. Len(hw.pim) \in Nat \ {0} /\ DOMAIN hw.pim = 1 .. Len(hw.pim)
  BY <1>1, LenProperties
<1>4. \A i \in 1 .. Len(hw.pim) : hw.pim[i] \in Int
  BY <1>1, <1>3 DEF Channels
<1> QED
  BY <1>2, <1>3, <1>4 DEF Rising

\* A matrix' rows, as many as it has waves.
LEMMA WavesFacts ==
  ASSUME CallInv, NEW m \in Mats
  PROVE  Waves(m) \in Nat /\ (m = call.m => Waves(m) = NWaves)
<1>1. Info[m].nOut \in Nat /\ Banks \in Nat \ {0} /\ Len(hw.pim) \in Nat \ {0}
  BY LinearAssumption, DeviceAssumption, HardwareRises DEF Rising
<1>2. Ceil(Info[m].nOut, Banks) \in Nat
  BY <1>1, CeilFacts
<1>3. Ceil(Ceil(Info[m].nOut, Banks), Len(hw.pim)) \in Nat
  BY <1>1, <1>2, CeilFacts
<1> QED
  BY <1>3 DEF Waves, RowsOf, NWaves, mat

\* Whether a matrix is in its rows depends on what is read there.
LEMMA SameRows ==
  ASSUME NEW h, Rising(h), NEW nOut \in Nat, NEW nIn, NEW base \in Int, NEW v,
         NEW d, NEW e, InRows(d, h, v, nOut, nIn, base),
         \A ch, b, row, col : row \in base .. base + RowsOf(h, nOut) - 1 =>
           DramRead(e, ch, b, row, col) = DramRead(d, ch, b, row, col)
  PROVE  InRows(e, h, v, nOut, nIn, base)
<1> SUFFICES ASSUME NEW o \in 0 .. nOut - 1, NEW col \in 0 .. Ceil(nIn, Lanes) - 1
             PROVE  DramRead(e, h.pim[1 + ((o \div Banks) % Len(h.pim))], o % Banks,
                             ((o \div Banks) \div Len(h.pim)) + base, col)
                      = ActivationBurst(v[o], nIn, col)
  BY DEF InRows
<1> DEFINE row == ((o \div Banks) \div Len(h.pim)) + base
           ch == h.pim[1 + ((o \div Banks) % Len(h.pim))]
           b == o % Banks
<1>1. row \in base .. base + RowsOf(h, nOut) - 1
  <2>1. RowPlace(h, base, o, col)[3] \in base .. base + RowsOf(h, nOut) - 1
    BY RowPlaceIn
  <2> QED
    BY <2>1 DEF RowPlace
<1>2. DramRead(d, ch, b, row, col) = ActivationBurst(v[o], nIn, col)
  BY DEF InRows
<1> HIDE DEF row, ch, b
<1>3. DramRead(e, ch, b, row, col) = DramRead(d, ch, b, row, col)
  BY <1>1
<1> QED
  BY <1>2, <1>3 DEF row, ch, b

\* So do commands that leave the banks alone.
LEMMA SameBanks ==
  ASSUME NEW d, NEW e, e.dram = d.dram, NEW m
  PROVE  Placed(e, m) = Placed(d, m)
<1>1. \A ch, b, row, col : DramRead(e, ch, b, row, col) = DramRead(d, ch, b, row, col)
  BY DEF DramRead
<1> QED
  BY <1>1 DEF Placed, InRows

\* Other weights of the same values give the same rows.
LEMMA SameWeights ==
  ASSUME NEW d, NEW h, NEW nOut \in Nat, NEW nIn \in Nat, NEW base, NEW u, NEW v,
         \A o \in 0 .. nOut - 1 : \A i \in 0 .. nIn - 1 : u[o][i] = v[o][i],
         InRows(d, h, u, nOut, nIn, base)
  PROVE  InRows(d, h, v, nOut, nIn, base)
<1>1. ASSUME NEW o \in 0 .. nOut - 1, NEW col \in 0 .. Ceil(nIn, Lanes) - 1
      PROVE  ActivationBurst(u[o], nIn, col) = ActivationBurst(v[o], nIn, col)
  <2>1. \A l \in LaneIds : col * Lanes + l \in Nat
    BY DeviceAssumption DEF LaneIds, Ceil
  <2>2. \A l \in LaneIds : col * Lanes + l < nIn =>
          u[o][col * Lanes + l] = v[o][col * Lanes + l]
    <3> SUFFICES ASSUME NEW l \in LaneIds, col * Lanes + l < nIn
                 PROVE  u[o][col * Lanes + l] = v[o][col * Lanes + l]
      OBVIOUS
    <3> DEFINE i == col * Lanes + l
    <3>1. i \in Nat /\ i < nIn
      BY <2>1
    <3> HIDE DEF i
    <3>2. i \in 0 .. nIn - 1
      BY <3>1
    <3>3. u[o][i] = v[o][i]
      BY <3>2
    <3> QED
      BY <3>3 DEF i
  <2> QED
    BY <2>2 DEF ActivationBurst
<1> QED
  BY <1>1 DEF InRows

\* The weights of m are put into its rows; those of the others stay.
LEMMA InstallPlaces ==
  ASSUME CallInv, DeviceInv, RowsInv, conf' = conf, UNCHANGED rowBase,
         NEW m \in Mats, rowBase[m] >= 0, NEW v,
         \A o \in 0 .. Info[m].nOut - 1 : \A i \in 0 .. Info[m].nIn - 1 : v[o][i] = W[m][o][i],
         dev' = LoadWeights(dev, hw, v, Info[m].nOut, Info[m].nIn, rowBase[m])
  PROVE  /\ Placed(dev, m)'
         /\ \A n \in Mats : rowBase[n] >= 0 /\ Placed(dev, n) => Placed(dev, n)'
<1>1. PICK w : Memory(w) /\ dev \in Dev(hw, w)
  BY DEF DeviceInv, IsDevice
<1>2. /\ Info[m].nOut \in Nat /\ Info[m].nIn \in Nat /\ rowBase \in [Mats -> Int]
      /\ Rising(hw)
  BY LinearAssumption, HardwareRises DEF DeviceInv
<1>3. rowBase[m] \in Int
  BY <1>2
<1> DEFINE nOut == Info[m].nOut
           nIn == Info[m].nIn
           base == rowBase[m]
           h == hw
           d == dev
           e == LoadWeights(d, h, v, nOut, nIn, base)
<1>4. /\ InRows(e, h, v, nOut, nIn, base)
      /\ \A ch, b, row, col : row \notin base .. base + RowsOf(h, nOut) - 1 =>
           DramRead(e, ch, b, row, col) = DramRead(d, ch, b, row, col)
  <2> HIDE DEF nOut, nIn, base, h, d
  <2>1. nOut \in Nat /\ nIn \in Nat /\ base \in Int /\ Rising(h) /\ d \in Dev(h, w)
    BY <1>1, <1>2, <1>3 DEF nOut, nIn, base, h, d
  <2> QED
    BY <2>1, WeightsInRows
<1>5. InRows(e, h, W[m], nOut, nIn, base)
  <2>1. \A o \in 0 .. nOut - 1 : \A i \in 0 .. nIn - 1 : v[o][i] = W[m][o][i]
    OBVIOUS
  <2>2. nOut \in Nat /\ nIn \in Nat
    BY <1>2
  <2> DEFINE u == W[m]
  <2>3. \A o \in 0 .. nOut - 1 : \A i \in 0 .. nIn - 1 : v[o][i] = u[o][i]
    BY <2>1
  <2> HIDE DEF nOut, nIn, base, h, d, e, u
  <2>4. InRows(e, h, u, nOut, nIn, base)
    BY <1>4, <2>2, <2>3, SameWeights
  <2> QED
    BY <2>4 DEF u
<1>6. ASSUME NEW n \in Mats, rowBase[n] >= 0, Placed(dev, n), n # m
      PROVE  InRows(e, h, W[n], Info[n].nOut, Info[n].nIn, rowBase[n])
  <2> DEFINE p == Info[n].nOut
             q == Info[n].nIn
             r == rowBase[n]
             u == W[n]
  <2>1. p \in Nat /\ q \in Nat /\ r \in Int
    BY <1>2, LinearAssumption
  <2>2. RowsOf(h, nOut) \in Nat /\ RowsOf(h, p) \in Nat
    BY WavesFacts DEF Waves
  <2>3. base + RowsOf(h, nOut) <= r \/ r + RowsOf(h, p) <= base
    BY <1>6 DEF RowsInv, Waves
  <2>4. InRows(d, h, u, p, q, r)
    BY <1>6 DEF Placed
  <2>5. base \in Int /\ Rising(h)
    BY <1>2, <1>3
  <2> HIDE DEF nOut, nIn, base, h, d, e, u, p, q, r
  <2>6. \A row : row \in r .. r + RowsOf(h, p) - 1 => row \notin base .. base + RowsOf(h, nOut) - 1
    BY <2>1, <2>2, <2>3, <2>5
  <2>7. \A ch, b, row, col : row \in r .. r + RowsOf(h, p) - 1 =>
          DramRead(e, ch, b, row, col) = DramRead(d, ch, b, row, col)
    BY <1>4, <2>6
  <2>8. InRows(e, h, u, p, q, r)
    BY <2>1, <2>4, <2>5, <2>7, SameRows
  <2> QED
    BY <2>8 DEF u, p, q, r
<1>7. dev' = e /\ hw' = h /\ rowBase' = rowBase
  BY DEF hw
<1> HIDE DEF e
<1>8. Placed(dev, m)'
  BY <1>5, <1>7 DEF Placed
<1>9. ASSUME NEW n \in Mats, rowBase[n] >= 0, Placed(dev, n) PROVE Placed(dev, n)'
  <2>1. CASE n = m
    BY <1>8, <2>1
  <2>2. CASE n # m
    BY <1>6, <1>7, <1>9, <2>2 DEF Placed
  <2> QED
    BY <2>1, <2>2
<1> QED
  BY <1>8, <1>9

\* The mailbox has a job while its weights are awaited: they are in their
\* rows, or they will be copied, or the host has pushed the first of them.
Flat(m, k) == W[m][k \div Info[m].nIn][k % Info[m].nIn]
Pushed(b, m, n) == \A i \in 0 .. n - 1 : b[i + 1] = Flat(m, i)
MailRight ==
  /\ hook.nOut = mat.nOut /\ hook.nIn = mat.nIn
  /\ hook.base = rowBase[call.m] /\ rowBase[call.m] >= 0
  /\ call.pushed < mat.nOut * mat.nIn /\ (call.ph = "status" => call.pushed = 0)
  /\ \/ ~hook.pending /\ hook.filled = mat.nOut * mat.nIn /\ Placed(dev, call.m)
     \/ /\ hook.pending /\ hook.va = call.m /\ hook.filled = call.pushed
        /\ Pushed(hook.buf, call.m, call.pushed)
MailInv ==
  /\ hook.pending => call.ph \in {"status", "push"}
  /\ call.ph \in {"status", "push"} => MailRight
  /\ call.ph = "prepare" /\ stale[call.m] => call.pushed = 0

\* What is offloaded has one token and a row, and y is as the caller left it
\* until commands are fired for weights that are in their rows.
OffloadInv == call.ph \in {"prepare", "status", "push", "remote", "fire", "isr"} =>
  /\ call.nTok = 1 /\ mat.nOut > 0 /\ mat.nIn > 0
  /\ call.ph \notin {"fire", "isr"} => \A i \in Cells : y[i] = y0[i]
  /\ call.ph \in {"fire", "isr"} => Fits /\ ~stale[call.m]

SupplyInv == RowsInv /\ WeightsInv /\ MailInv /\ OffloadInv

\* What leaves rows, banks and mailbox alone, and awaits no weights.
LEMMA SupplySame ==
  ASSUME SupplyInv, conf' = conf, UNCHANGED <<rowBase, stale, nextRow, hook>>,
         dev'.dram = dev.dram, ~hook.pending,
         call'.ph \notin {"status", "push"},
         call'.ph = "prepare" => call'.pushed = 0, OffloadInv'
  PROVE  SupplyInv'
<1>1. hw' = hw /\ \A m : Waves(m)' = Waves(m)
  BY DEF hw, Waves
<1>2. RowsInv'
  BY <1>1 DEF SupplyInv, RowsInv
<1>3. \A m : Placed(dev, m)' = Placed(dev', m)
  BY <1>1 DEF Placed
<1>4. \A m : Placed(dev', m) = Placed(dev, m)
  BY SameBanks
<1>5. WeightsInv'
  BY <1>3, <1>4 DEF SupplyInv, WeightsInv
<1>6. MailInv'
  BY DEF MailInv
<1> QED
  BY <1>2, <1>5, <1>6 DEF SupplyInv

\* Rows are given to a matrix.
LEMMA PlaceRowsSupplies ==
  ASSUME LinearInv, DeviceInv, SupplyInv, PlaceRows
  PROVE  SupplyInv'
<1>1. /\ call.ph = "prepare" /\ rowBase[call.m] < 0 /\ call.m \in Mats
      /\ rowBase' = [rowBase EXCEPT ![call.m] = nextRow] /\ nextRow' = nextRow + NWaves
      /\ UNCHANGED <<conf, y, y0, dev, stale, hook>>
      /\ call'.m = call.m /\ call'.nTok = call.nTok /\ call'.pushed = call.pushed
      /\ call'.ph \in {"prepare", "work"} /\ CallInv
  BY DEF PlaceRows, FallBack, LinearInv, CallInv
<1>2. /\ rowBase \in [Mats -> Int] /\ nextRow \in Nat /\ NWaves \in Nat
      /\ \A m \in Mats : Waves(m) \in Nat /\ (m = call.m => Waves(m) = NWaves)
  <2>1. \A m \in Mats : Waves(m) \in Nat /\ (m = call.m => Waves(m) = NWaves)
    BY <1>1, WavesFacts
  <2> QED
    BY <1>1, <2>1 DEF DeviceInv, SupplyInv, RowsInv
<1>3. \A m \in Mats : rowBase'[m] = IF m = call.m THEN nextRow ELSE rowBase[m]
  BY <1>1, <1>2
<1>4. hw' = hw /\ mat' = mat /\ \A m : Waves(m)' = Waves(m)
  BY <1>1 DEF hw, mat, Waves
<1>5. RowsInv'
  <2>1. nextRow' \in Nat /\ stale' \in [Mats -> BOOLEAN] /\ nextRow <= nextRow'
    BY <1>1, <1>2 DEF SupplyInv, RowsInv
  <2>2. ASSUME NEW m \in Mats PROVE rowBase'[m] < 0 \/ rowBase'[m] + Waves(m) <= nextRow'
    <3>1. CASE m = call.m
      BY <1>1, <1>2, <1>3, <3>1
    <3>2. CASE m # call.m
      <4>1. rowBase[m] < 0 \/ rowBase[m] + Waves(m) <= nextRow
        BY DEF SupplyInv, RowsInv
      <4>2. rowBase[m] \in Int /\ Waves(m) \in Nat
        BY <1>2
      <4> QED
        BY <1>2, <1>3, <2>1, <3>2, <4>1, <4>2
    <3> QED
      BY <3>1, <3>2
  <2>3. \A m \in Mats : rowBase'[m] < 0 => stale'[m]
    BY <1>1, <1>2, <1>3 DEF SupplyInv, RowsInv
  <2>4. ASSUME NEW m \in Mats, NEW n \in Mats, m # n, rowBase'[m] >= 0, rowBase'[n] >= 0
        PROVE  rowBase'[m] + Waves(m) <= rowBase'[n] \/ rowBase'[n] + Waves(n) <= rowBase'[m]
    <3>1. \A k \in Mats : rowBase[k] \in Int /\ (rowBase[k] < 0 \/ rowBase[k] + Waves(k) <= nextRow)
      BY <1>2 DEF SupplyInv, RowsInv
    <3>2. CASE m = call.m
      BY <1>3, <2>4, <3>1, <3>2
    <3>3. CASE n = call.m
      BY <1>3, <2>4, <3>1, <3>3
    <3>4. CASE m # call.m /\ n # call.m
      BY <1>3, <2>4, <3>4 DEF SupplyInv, RowsInv
    <3> QED
      BY <3>2, <3>3, <3>4
  <2> QED
    BY <1>4, <2>1, <2>2, <2>3, <2>4 DEF RowsInv
<1>6. WeightsInv'
  <2> SUFFICES ASSUME NEW m \in Mats, ~stale[m] PROVE Placed(dev, m)'
    BY <1>1 DEF WeightsInv
  <2>1. m # call.m
    BY <1>1 DEF SupplyInv, RowsInv
  <2>2. rowBase'[m] = rowBase[m]
    BY <1>3, <2>1
  <2>3. Placed(dev, m)
    BY DEF SupplyInv, WeightsInv
  <2> QED
    BY <1>1, <1>4, <2>2, <2>3 DEF Placed
<1>7. stale[call.m]
  BY <1>1 DEF SupplyInv, RowsInv
<1>8. MailInv'
  BY <1>1, <1>7 DEF SupplyInv, MailInv
<1>9. OffloadInv'
  BY <1>1, <1>4 DEF SupplyInv, OffloadInv
<1> QED
  BY <1>5, <1>6, <1>8, <1>9 DEF SupplyInv

\* v has the weights of m.
SameMatrix(v, m) ==
  \A o \in 0 .. Info[m].nOut - 1 : \A i \in 0 .. Info[m].nIn - 1 : v[o][i] = W[m][o][i]

\* When weights are put into the rows of m, those of all matrices stay where
\* they are, also if their entry is marked valid at once.
LEMMA InstallKeeps ==
  ASSUME CallInv, DeviceInv, SupplyInv, conf' = conf, UNCHANGED <<rowBase, nextRow>>,
         NEW m \in Mats, rowBase[m] >= 0, NEW v, SameMatrix(v, m),
         dev' = LoadWeights(dev, hw, v, Info[m].nOut, Info[m].nIn, rowBase[m]),
         NEW s \in BOOLEAN, stale' = [stale EXCEPT ![m] = s]
  PROVE  RowsInv' /\ WeightsInv' /\ Placed(dev, m)'
<1>1. /\ Placed(dev, m)'
      /\ \A n \in Mats : rowBase[n] >= 0 /\ Placed(dev, n) => Placed(dev, n)'
  BY InstallPlaces DEF SupplyInv, SameMatrix
<1>2. /\ stale \in [Mats -> BOOLEAN] /\ stale' \in [Mats -> BOOLEAN]
      /\ rowBase \in [Mats -> Int]
      /\ \A n \in Mats : stale'[n] = IF n = m THEN s ELSE stale[n]
  BY DEF SupplyInv, RowsInv, DeviceInv
<1>3. \A n : Waves(n)' = Waves(n)
  BY DEF Waves, hw
<1>4. \A n \in Mats : rowBase'[n] < 0 => stale'[n]
  BY <1>2 DEF SupplyInv, RowsInv
<1>5. RowsInv'
  BY <1>2, <1>3, <1>4 DEF SupplyInv, RowsInv
<1>6. WeightsInv'
  <2> SUFFICES ASSUME NEW n \in Mats, ~stale'[n] PROVE Placed(dev, n)'
    BY DEF WeightsInv
  <2>1. CASE n = m
    BY <1>1, <2>1
  <2>2. CASE n # m
    <3>1. ~stale[n]
      BY <1>2, <2>2
    <3>2. rowBase[n] >= 0
      BY <1>2, <3>1 DEF SupplyInv, RowsInv
    <3> QED
      BY <1>1, <3>1, <3>2 DEF SupplyInv, WeightsInv
  <2> QED
    BY <2>1, <2>2
<1> QED
  BY <1>1, <1>5, <1>6

\* This process puts them there.
LEMMA LoadRowsSupplies ==
  ASSUME LinearInv, DeviceInv, SupplyInv, LoadRows
  PROVE  SupplyInv'
<1>1. /\ call.ph = "prepare" /\ rowBase[call.m] >= 0 /\ call.m \in Mats /\ CallInv
      /\ dev' = LoadWeights(dev, hw, W[call.m], mat.nOut, mat.nIn, rowBase[call.m])
      /\ stale' = [stale EXCEPT ![call.m] = FALSE]
      /\ UNCHANGED <<conf, call, y, y0, rowBase, nextRow, hook>>
  BY DEF LoadRows, LinearInv, CallInv
<1>2. RowsInv' /\ WeightsInv'
  <2> DEFINE m == call.m
             v == W[call.m]
  <2>1. /\ m \in Mats /\ rowBase[m] >= 0
        /\ dev' = LoadWeights(dev, hw, v, Info[m].nOut, Info[m].nIn, rowBase[m])
        /\ SameMatrix(v, m)
    BY <1>1 DEF mat, SameMatrix
  <2>2. conf' = conf /\ UNCHANGED <<rowBase, nextRow>> /\ stale' = [stale EXCEPT ![m] = FALSE]
    BY <1>1
  <2> HIDE DEF m, v
  <2> QED
    BY <1>1, <2>1, <2>2, FALSE \in BOOLEAN, InstallKeeps
<1>3. ~stale'[call.m]
  BY <1>1 DEF SupplyInv, RowsInv
<1>4. MailInv'
  BY <1>1, <1>3 DEF SupplyInv, MailInv
<1>5. OffloadInv'
  BY <1>1 DEF SupplyInv, OffloadInv, mat
<1> QED
  BY <1>2, <1>4, <1>5 DEF SupplyInv

-----------------------------------------------------------------------------
(* The mailbox's weights are those of the matrix.                          *)

\* Number o * nIn + i is the weight of output o and input i.
LEMMA FlatPlace ==
  ASSUME NEW m \in Mats, NEW o \in 0 .. Info[m].nOut - 1, NEW i \in 0 .. Info[m].nIn - 1
  PROVE  Flat(m, o * Info[m].nIn + i) = W[m][o][i]
<1> DEFINE n == Info[m].nIn
           p == Info[m].nOut
<1>0. n \in Nat /\ p \in Nat
  BY LinearAssumption
<1>1. i \in 0 .. n - 1 /\ n \in Nat \ {0} /\ o \in Nat
  BY <1>0
<1> HIDE DEF n, p
<1>2. (o * n + i) \div n = o /\ (o * n + i) % n = i
  BY <1>1, DivisionIs
<1> QED
  BY <1>2 DEF Flat, n

\* One or two weights are taken from number k on.
LEMMA PairIs ==
  ASSUME NEW m \in Mats, NEW k \in Nat, k < Info[m].nOut * Info[m].nIn
  PROVE  /\ Pair(m, k) \in Seq(Int) /\ Len(Pair(m, k)) \in {1, 2}
         /\ Len(Pair(m, k)) <= Info[m].nOut * Info[m].nIn - k
         /\ k + 2 <= Info[m].nOut * Info[m].nIn => Len(Pair(m, k)) = 2
         /\ \A i \in 1 .. Len(Pair(m, k)) : Pair(m, k)[i] = Flat(m, k + i - 1)
<1> DEFINE t == Info[m].nOut * Info[m].nIn
           n == Min({2, t - k})
<1>1. t \in Nat
  <2>1. Info[m].nOut \in Nat /\ Info[m].nIn \in Nat
    BY LinearAssumption
  <2> QED
    BY <2>1
<1>2. n \in {1, 2} /\ n <= t - k /\ (k + 2 <= t => n = 2)
  <2> DEFINE l == t - k
  <2>1. l \in Int /\ 2 \in Int /\ 1 <= l
    BY <1>1
  <2> HIDE DEF t, l
  <2>2. Min({2, l}) \in {2, l} /\ Min({2, l}) <= 2 /\ Min({2, l}) <= l
    BY <2>1, LesserGreater
  <2> QED
    BY <1>1, <2>1, <2>2 DEF l
<1>3. Pair(m, k) = [i \in 1 .. n |-> Flat(m, k + i - 1)]
  BY DEF Pair, Flat
<1> HIDE DEF n, t
<1>4. DOMAIN Pair(m, k) = 1 .. n /\ Pair(m, k) \in Seq(Int)
  BY <1>3, PairType
<1>5. Len(Pair(m, k)) = n
  BY <1>2, <1>4, LenProperties
<1> QED
  BY <1>2, <1>3, <1>4, <1>5 DEF t

\* What is pushed follows what is there; when the buffer is full nothing does.
LEMMA HookPushIs ==
  ASSUME NEW j, JobInv(j), NEW v \in Seq(Int), NEW n \in Nat,
         \/ n = Len(v) /\ Len(v) <= j.nOut * j.nIn - j.filled
         \/ n = 0 /\ j.filled = j.nOut * j.nIn
  PROVE  LET k == HookPush(j, v)
         IN /\ k.nOut = j.nOut /\ k.nIn = j.nIn /\ k.base = j.base
            /\ k.pending = j.pending /\ k.va = j.va /\ k.filled = j.filled + n
            /\ \A i \in 1 .. j.nOut * j.nIn :
                 k.buf[i] = IF i \in j.filled + 1 .. j.filled + n THEN v[i - j.filled]
                            ELSE j.buf[i]
<1> DEFINE N == j.nOut * j.nIn
           a == Len(v)
           c == Len(j.buf) - j.filled
<1>1. /\ N \in Nat /\ Len(j.buf) = N /\ j.filled \in Nat /\ j.filled <= N
      /\ DOMAIN j.buf = 1 .. N /\ j \in Jobs
  BY BufferLength DEF JobInv, Jobs
<1>2. Min({a, c}) = n
  <2>1. a \in Nat /\ c \in Nat /\ c = N - j.filled
    BY <1>1, LenProperties
  <2>2. (n = a /\ a <= c) \/ (n = 0 /\ c = 0)
    BY <1>1, <2>1
  <2> HIDE DEF a, c
  <2>3. a \in Int /\ c \in Int
    BY <2>1
  <2>4. Min({a, c}) \in {a, c} /\ Min({a, c}) <= a /\ Min({a, c}) <= c
    BY <2>3, LesserGreater, Zenon
  <2> QED
    BY <2>1, <2>2, <2>4
<1> DEFINE b == [i \in 1 .. N |-> IF i \in j.filled + 1 .. j.filled + n
                                  THEN v[i - j.filled] ELSE j.buf[i]]
           f == j.filled + n
           k == HookPush(j, v)
<1>3. k = [j EXCEPT !.buf = b, !.filled = f]
  BY <1>1, <1>2 DEF HookPush
<1>4. \A i \in 1 .. N : b[i] = IF i \in j.filled + 1 .. j.filled + n
                               THEN v[i - j.filled] ELSE j.buf[i]
  OBVIOUS
<1> HIDE DEF b, k, f
<1>5. /\ k.nOut = j.nOut /\ k.nIn = j.nIn /\ k.base = j.base
      /\ k.pending = j.pending /\ k.va = j.va /\ k.filled = f /\ k.buf = b
  BY <1>1, <1>3 DEF Jobs
<1> QED
  BY <1>4, <1>5 DEF k, f

\* The rows of the matrix are wanted: the mailbox is begun for them.
LEMMA InstallSupplies ==
  ASSUME LinearInv, DeviceInv, SupplyInv, Install
  PROVE  SupplyInv'
<1>1. /\ conf' = conf /\ UNCHANGED <<dev, rowBase, stale, nextRow, y, y0>> /\ call.ph = "prepare"
      /\ call' = [call EXCEPT !.ph = "status"] /\ rowBase[call.m] >= 0 /\ stale[call.m]
      /\ hook' = HookRequestCopy(HookBegin(mat.nOut, mat.nIn, rowBase[call.m]), call.m)
  BY DEF Install, pimvars
<1>2. call.m \in Mats /\ CallInv
  BY <1>1 DEF LinearInv, CallInv
<1>3. mat.nOut \in Nat /\ mat.nIn \in Nat /\ mat.nOut > 0 /\ mat.nIn > 0 /\ call.nTok = 1
  BY <1>1, <1>2, LinearAssumption DEF mat, SupplyInv, OffloadInv
<1> DEFINE p == mat.nOut
           q == mat.nIn
           b == [i \in 1 .. p * q |-> 0]
<1>4. hook' = [nOut |-> p, nIn |-> q, base |-> rowBase[call.m], filled |-> 0,
               pending |-> b # <<>>, va |-> call.m, buf |-> b]
  BY <1>1 DEF HookRequestCopy, HookBegin
<1>5. p * q \in Nat /\ 0 < p * q
  <2>1. p \in Nat /\ q \in Nat /\ p > 0 /\ q > 0
    BY <1>3
  <2> HIDE DEF p, q
  <2> QED
    BY <2>1
<1>6. b # <<>>
  <2>1. DOMAIN b = 1 .. p * q /\ 1 \in DOMAIN b
    BY <1>5
  <2>2. DOMAIN << >> = {}
    OBVIOUS
  <2> HIDE DEF b
  <2> QED
    BY <2>1, <2>2
<1>7. /\ call'.m = call.m /\ call'.ph = "status" /\ call'.pushed = call.pushed
      /\ call'.nTok = call.nTok
  BY <1>1, <1>2 DEF CallInv
<1>8. mat' = mat /\ hw' = hw /\ \A m : Waves(m)' = Waves(m)
  BY <1>1, <1>7 DEF mat, hw, Waves
<1> HIDE DEF b
<1>9. MailInv'
  <2>1. call.pushed = 0
    BY <1>1 DEF SupplyInv, MailInv
  <2>2. /\ hook'.nOut = p /\ hook'.nIn = q /\ hook'.base = rowBase[call.m]
        /\ hook'.pending /\ hook'.va = call.m /\ hook'.filled = 0
    BY <1>4, <1>6
  <2>3. MailRight'
    <3>1. Pushed(hook.buf, call.m, call.pushed)'
      BY <1>7, <2>1 DEF Pushed
    <3> QED
      BY <1>1, <1>5, <1>7, <1>8, <2>1, <2>2, <3>1 DEF MailRight
  <2> QED
    BY <1>7, <2>3 DEF MailInv
<1>10. RowsInv' /\ WeightsInv'
  BY <1>1, <1>8 DEF SupplyInv, RowsInv, WeightsInv, Placed
<1>11. OffloadInv'
  BY <1>1, <1>3, <1>7, <1>8 DEF SupplyInv, OffloadInv
<1> QED
  BY <1>9, <1>10, <1>11 DEF SupplyInv

\* Nothing is awaited once the buffer is full.
LEMMA StatusIs ==
  ASSUME JobInv(hook)
  PROVE  /\ HookStatus(hook) \in {0, 1}
         /\ HookStatus(hook) = 0 <=> hook.filled >= hook.nOut * hook.nIn
BY BufferLength DEF HookStatus

\* STATUS is read.
LEMMA ReadStatusSupplies ==
  ASSUME LinearInv, DeviceInv, SupplyInv, ReadStatus
  PROVE  SupplyInv'
<1> DEFINE m == call.m
           s == HookStatus(hook) # 0
<1>1. /\ conf' = conf /\ UNCHANGED <<dev, rowBase, nextRow, y, y0, hook>> /\ call.ph = "status"
      /\ call' = [call EXCEPT !.ph = IF s THEN "push" ELSE "prepare"]
      /\ stale' = [stale EXCEPT ![m] = s]
  BY DEF ReadStatus
<1>2. m \in Mats /\ CallInv /\ MailRight /\ call.pushed = 0
  BY <1>1 DEF LinearInv, CallInv, SupplyInv, MailInv, MailRight
<1>3. /\ call'.m = m /\ call'.pushed = call.pushed /\ call'.nTok = call.nTok
      /\ call'.ph = IF s THEN "push" ELSE "prepare"
  BY <1>1, <1>2 DEF CallInv
<1>4. mat' = mat /\ hw' = hw /\ \A n : Waves(n)' = Waves(n)
  BY <1>1, <1>3 DEF mat, hw, Waves
<1>5. s <=> hook.filled < hook.nOut * hook.nIn
  <2>1. JobInv(hook)
    BY DEF DeviceInv
  <2>2. hook.filled \in Nat /\ hook.nOut * hook.nIn \in Nat
    BY <2>1, BufferLength DEF JobInv, Jobs
  <2> QED
    BY <2>1, <2>2, StatusIs
<1> HIDE DEF m, s
<1>6. /\ s = hook.pending /\ rowBase[m] >= 0 /\ (~s => Placed(dev, m))
  <2>1. hook.filled \in Nat /\ hook.nOut * hook.nIn \in Nat
    BY BufferLength DEF DeviceInv, JobInv, Jobs
  <2>2. ASSUME hook.pending PROVE s
    <3>1. hook.filled = call.pushed /\ call.pushed < hook.nOut * hook.nIn
      BY <1>2, <2>2 DEF MailRight
    <3> QED
      BY <1>2, <1>5, <2>1, <2>2, <3>1 DEF MailRight, m
  <2>3. ASSUME ~hook.pending PROVE ~s /\ Placed(dev, m)
    <3>1. hook.filled = hook.nOut * hook.nIn /\ Placed(dev, m)
      BY <1>2, <2>3 DEF MailRight, m
    <3> QED
      BY <1>2, <1>5, <2>1, <2>3, <3>1 DEF MailRight, m
  <2>4. s \in BOOLEAN /\ hook.pending \in BOOLEAN
    BY DEF DeviceInv, JobInv, Jobs, s
  <2>5. rowBase[m] >= 0
    BY <1>2 DEF MailRight, m
  <2> QED
    BY <2>2, <2>3, <2>4, <2>5, Zenon
<1>7. \A n \in Mats : stale'[n] = IF n = m THEN s ELSE stale[n]
  BY <1>1 DEF SupplyInv, RowsInv
<1>8. RowsInv'
  <2>1. stale' \in [Mats -> BOOLEAN] /\ stale \in [Mats -> BOOLEAN]
    BY <1>1 DEF SupplyInv, RowsInv, s
  <2>2. \A n \in Mats : rowBase[n] < 0 => stale'[n]
    <3> SUFFICES ASSUME NEW n \in Mats, rowBase[n] < 0 PROVE stale'[n]
      OBVIOUS
    <3>1. n # m
      BY <1>2, <1>6 DEF DeviceInv, m
    <3> QED
      BY <1>7, <3>1 DEF SupplyInv, RowsInv
  <2> QED
    BY <1>1, <1>4, <2>1, <2>2 DEF SupplyInv, RowsInv
<1>9. WeightsInv'
  BY <1>1, <1>4, <1>6, <1>7 DEF SupplyInv, WeightsInv, Placed
<1>10. MailInv'
  <2>1. ASSUME s PROVE MailRight'
    <3>1. hook' = hook /\ rowBase' = rowBase /\ call'.m = call.m /\ call'.pushed = call.pushed
      BY <1>1, <1>3 DEF m
    <3>2. hook.pending /\ call'.ph = "push"
      BY <1>3, <1>6, <2>1
    <3>3. hook.va = call.m /\ hook.filled = call.pushed /\ Pushed(hook.buf, call.m, call.pushed)
      BY <1>2, <3>2 DEF MailRight
    <3>4. Pushed(hook.buf, call.m, call.pushed)'
      BY <3>1, <3>3 DEF Pushed, Flat
    <3> QED
      BY <1>2, <1>4, <3>1, <3>2, <3>3, <3>4 DEF MailRight
  <2> QED
    BY <1>1, <1>2, <1>3, <1>6, <1>7, <2>1 DEF MailInv
<1>11. OffloadInv'
  BY <1>1, <1>3, <1>4 DEF SupplyInv, OffloadInv
<1> QED
  BY <1>8, <1>9, <1>10, <1>11 DEF SupplyInv

\* The mailbox's job j is completed with the weights of m: they are in their
\* rows then, and those of the others stay.
LEMMA CompleteKeeps ==
  ASSUME CallInv, DeviceInv, SupplyInv, conf' = conf, UNCHANGED <<rowBase, nextRow>>,
         NEW m \in Mats, rowBase[m] >= 0, NEW j, JobInv(j), NEW v, SameMatrix(v, m),
         j.nOut = Info[m].nOut, j.nIn = Info[m].nIn, j.base = rowBase[m],
         HookComplete(j, v), NEW s \in BOOLEAN, stale' = [stale EXCEPT ![m] = s]
  PROVE  /\ RowsInv' /\ WeightsInv' /\ Placed(dev, m)'
         /\ ~hook'.pending /\ hook'.filled = Info[m].nOut * Info[m].nIn
         /\ hook'.nOut = Info[m].nOut /\ hook'.nIn = Info[m].nIn /\ hook'.base = rowBase[m]
<1> DEFINE n == Len(j.buf)
<1>1. /\ hook' = [j EXCEPT !.pending = FALSE, !.filled = n]
      /\ dev' = LoadWeights(dev, hw, v, Info[m].nOut, Info[m].nIn, rowBase[m])
  BY DEF HookComplete
<1>2. n = Info[m].nOut * Info[m].nIn /\ n \in Nat /\ j \in Jobs
  BY BufferLength DEF JobInv
<1> HIDE DEF n
<1>4. /\ ~hook'.pending /\ hook'.filled = n
      /\ hook'.nOut = j.nOut /\ hook'.nIn = j.nIn /\ hook'.base = j.base
  BY <1>1, <1>2 DEF Jobs
<1>5. RowsInv' /\ WeightsInv' /\ Placed(dev, m)'
  BY <1>1, InstallKeeps
<1> QED
  BY <1>2, <1>4, <1>5

\* The simulator copies the weights the mailbox was begun for.
LEMMA SimCopiesSupplies ==
  ASSUME LinearInv, DeviceInv, SupplyInv, SimCopies
  PROVE  SupplyInv'
<1>1. /\ conf' = conf /\ UNCHANGED <<call, y, y0, rowBase, stale, nextRow>>
      /\ hook.pending /\ HookComplete(hook, W[hook.va]) /\ CallInv
  BY DEF SimCopies, LinearInv
<1>2. PICK m : m = call.m
  OBVIOUS
<1>3. /\ call.ph \in {"status", "push"} /\ MailRight /\ m \in Mats /\ hook.va = m
      /\ rowBase[m] >= 0 /\ mat = Info[m]
  BY <1>1, <1>2 DEF LinearInv, CallInv, SupplyInv, MailInv, MailRight, mat
<1>4. /\ hook.nOut = Info[m].nOut /\ hook.nIn = Info[m].nIn /\ hook.base = rowBase[m]
      /\ JobInv(hook)
  BY <1>2, <1>3 DEF MailRight, DeviceInv
<1>5. stale \in [Mats -> BOOLEAN] /\ stale[m] \in BOOLEAN
  BY <1>3 DEF SupplyInv, RowsInv
<1>6. stale' = [stale EXCEPT ![m] = stale[m]]
  BY <1>1, <1>5
<1>7. SameMatrix(W[m], m)
  BY DEF SameMatrix
<1>8. HookComplete(hook, W[m])
  BY <1>1, <1>3
<1>9. /\ RowsInv' /\ WeightsInv' /\ Placed(dev, m)'
      /\ ~hook'.pending /\ hook'.filled = Info[m].nOut * Info[m].nIn
      /\ hook'.nOut = Info[m].nOut /\ hook'.nIn = Info[m].nIn /\ hook'.base = rowBase[m]
  BY <1>1, <1>3, <1>4, <1>5, <1>6, <1>7, <1>8, CompleteKeeps
<1>10. mat' = mat /\ call' = call /\ rowBase' = rowBase
  BY <1>1 DEF mat
<1>11. MailInv'
  <2>2. MailRight'
    BY <1>2, <1>3, <1>9, <1>10 DEF MailRight
  <2> QED
    BY <1>3, <1>9, <1>10, <2>2 DEF MailInv
<1>12. OffloadInv'
  BY <1>1, <1>3, <1>10 DEF SupplyInv, OffloadInv
<1> QED
  BY <1>9, <1>11, <1>12 DEF SupplyInv

\* A full mailbox has the matrix in its buffer, if each place has its weight.
LEMMA BufferIsMatrix ==
  ASSUME NEW m \in Mats, NEW j, j.nOut = Info[m].nOut, j.nIn = Info[m].nIn,
         Pushed(j.buf, m, Info[m].nOut * Info[m].nIn)
  PROVE  SameMatrix([o \in 0 .. j.nOut - 1 |-> [i \in 0 .. j.nIn - 1 |-> j.buf[o * j.nIn + i + 1]]], m)
<1> DEFINE p == Info[m].nOut
           q == Info[m].nIn
           v == [o \in 0 .. p - 1 |-> [i \in 0 .. q - 1 |-> j.buf[o * q + i + 1]]]
<1>1. p \in Nat /\ q \in Nat
  BY LinearAssumption
<1>2. ASSUME NEW o \in 0 .. p - 1, NEW i \in 0 .. q - 1 PROVE v[o][i] = W[m][o][i]
  <2>1. v[o][i] = j.buf[o * q + i + 1]
    OBVIOUS
  <2>2. Flat(m, o * q + i) = W[m][o][i]
    BY FlatPlace
  <2>3. o * q + i \in 0 .. p * q - 1
    <3> HIDE DEF p, q
    <3>1. o * q + i + 1 \in 1 .. p * q
      BY <1>1, PlaceInRows
    <3>2. o * q \in Nat /\ i \in Nat /\ p * q \in Nat
      BY <1>1
    <3> QED
      BY <3>1, <3>2
  <2> DEFINE k == o * q + i
  <2>4. j.buf[k + 1] = Flat(m, k)
    BY <2>3 DEF Pushed
  <2> QED
    BY <2>1, <2>2, <2>4
<1>3. v = [o \in 0 .. j.nOut - 1 |-> [i \in 0 .. j.nIn - 1 |-> j.buf[o * j.nIn + i + 1]]]
  OBVIOUS
<1> HIDE DEF v
<1>4. SameMatrix(v, m)
  BY <1>2 DEF SameMatrix
<1> QED
  BY <1>3, <1>4

\* One or two weights are pushed.  Either the simulator has filled the mailbox
\* already and they are dropped, or they follow the ones pushed before; the
\* last ones complete the buffer, and it goes to the rows.
LEMMA PushSupplies ==
  ASSUME LinearInv, DeviceInv, SupplyInv, Push
  PROVE  SupplyInv'
<1>1. PICK m : m = call.m
  OBVIOUS
<1> DEFINE v == Pair(call.m, call.pushed)
           j == HookPush(hook, v)
           u == [o \in 0 .. j.nOut - 1 |-> [i \in 0 .. j.nIn - 1 |-> j.buf[o * j.nIn + i + 1]]]
           k == call.pushed
           t == Info[m].nOut * Info[m].nIn
           last == k + 2 >= t
<1>2. /\ call.ph = "push" /\ conf' = conf /\ UNCHANGED <<rowBase, nextRow, y, y0>>
      /\ IF HookStatus(j) = 0 /\ HookStatus(hook) # 0
         THEN HookComplete(j, u) ELSE hook' = j /\ dev' = dev
      /\ call' = [call EXCEPT !.pushed = @ + 2, !.ph = IF last THEN "prepare" ELSE "push"]
      /\ stale' = [stale EXCEPT ![m] = ~last]
  BY <1>1 DEF Push, mat
<1>3. /\ m \in Mats /\ CallInv /\ MailRight /\ mat = Info[m] /\ k \in Nat /\ rowBase[m] >= 0
  BY <1>1, <1>2 DEF LinearInv, CallInv, SupplyInv, MailInv, MailRight, mat
<1>4. /\ call'.m = m /\ call'.nTok = call.nTok /\ call'.pushed = k + 2
      /\ call'.ph = IF last THEN "prepare" ELSE "push"
  BY <1>1, <1>2, <1>3 DEF CallInv
<1>5. mat' = mat /\ hw' = hw /\ \A n : Waves(n)' = Waves(n)
  BY <1>1, <1>2, <1>4 DEF mat, hw, Waves
<1>6. t \in Nat /\ k < t /\ JobInv(hook) /\ hook.filled \in Nat
  <2>1. Info[m].nOut \in Nat /\ Info[m].nIn \in Nat
    BY <1>3, LinearAssumption
  <2>2. t \in Nat
    BY <2>1
  <2> QED
    BY <1>3, <2>2 DEF MailRight, DeviceInv, JobInv, Jobs
<1>7. /\ v \in Seq(Int) /\ Len(v) \in {1, 2} /\ Len(v) <= t - k
      /\ (k + 2 <= t => Len(v) = 2)
      /\ \A i \in 1 .. Len(v) : v[i] = Flat(m, k + i - 1)
  BY <1>1, <1>3, <1>6, PairIs
<1>8. JobInv(j)
  BY <1>6, <1>7, HookPushType
<1>9. /\ HookStatus(hook) = 0 <=> hook.filled >= t
      /\ HookStatus(j) = 0 <=> j.filled >= j.nOut * j.nIn
      /\ hook.nOut = Info[m].nOut /\ hook.nIn = Info[m].nIn /\ hook.base = rowBase[m]
  <2>1. hook.nOut = Info[m].nOut /\ hook.nIn = Info[m].nIn /\ hook.base = rowBase[m]
    BY <1>1, <1>3 DEF MailRight
  <2>2. Len(hook.buf) = t
    BY <1>6, <2>1, BufferLength
  <2>3. Len(j.buf) = j.nOut * j.nIn
    BY <1>8, BufferLength
  <2> HIDE DEF j, t
  <2> QED
    BY <2>1, <2>2, <2>3 DEF HookStatus
<1>10. \A n \in Mats : stale'[n] = IF n = m THEN ~last ELSE stale[n]
  BY <1>2 DEF SupplyInv, RowsInv
<1> DEFINE s == ~last
<1>11. s \in BOOLEAN /\ stale' = [stale EXCEPT ![m] = s]
  BY <1>2
<1>12. OffloadInv'
  BY <1>2, <1>4, <1>5 DEF SupplyInv, OffloadInv
<1>13. ASSUME dev' = dev, last => Placed(dev, m) PROVE RowsInv' /\ WeightsInv'
  <2>1. stale' \in [Mats -> BOOLEAN] /\ stale \in [Mats -> BOOLEAN]
    BY <1>11 DEF SupplyInv, RowsInv
  <2>2. \A n \in Mats : rowBase[n] < 0 => stale'[n]
    <3> SUFFICES ASSUME NEW n \in Mats, rowBase[n] < 0 PROVE stale'[n]
      OBVIOUS
    <3>1. n # m
      BY <1>3 DEF DeviceInv
    <3> QED
      BY <1>10, <3>1 DEF SupplyInv, RowsInv
  <2>3. RowsInv'
    BY <1>2, <1>5, <2>1, <2>2 DEF SupplyInv, RowsInv
  <2> HIDE DEF last
  <2>4. WeightsInv'
    BY <1>2, <1>5, <1>10, <1>13 DEF SupplyInv, WeightsInv, Placed
  <2> QED
    BY <2>3, <2>4
<1> HIDE DEF j, u, v, last, t, s
<1>14. CASE ~hook.pending
  <2>1. hook.filled = t /\ Placed(dev, m)
    BY <1>1, <1>3, <1>14 DEF MailRight, t
  <2>2. hook' = j /\ dev' = dev
    BY <1>2, <1>6, <1>9, <2>1
  <2>3. /\ j.nOut = hook.nOut /\ j.nIn = hook.nIn /\ j.base = hook.base
        /\ j.pending = hook.pending /\ j.filled = hook.filled
    <3>1. hook.filled = hook.nOut * hook.nIn /\ 0 \in Nat
      BY <1>9, <2>1 DEF t
    <3>2. j.filled = hook.filled + 0
      BY <1>6, <1>7, <3>1, HookPushIs DEF j
    <3> QED
      BY <1>6, <1>7, <3>1, <3>2, HookPushIs DEF j
  <2>4. RowsInv' /\ WeightsInv'
    BY <1>13, <2>1, <2>2
  <2>5. Placed(dev, m)'
    BY <1>2, <1>5, <2>1, <2>2 DEF Placed
  <2>6. ~last => k + 2 < t
    BY <1>3, <1>6 DEF last
  <2>7. MailInv'
    <3>1. ~last => MailRight'
      BY <1>2, <1>3, <1>4, <1>5, <1>9, <1>14, <2>1, <2>2, <2>3, <2>5, <2>6 DEF MailRight, t
    <3> QED
      BY <1>3, <1>4, <1>10, <1>14, <2>2, <2>3, <3>1 DEF MailInv
  <2> QED
    BY <1>12, <2>4, <2>7 DEF SupplyInv
<1>15. CASE hook.pending
  <2>1. /\ hook.va = m /\ hook.filled = k
        /\ Pushed(hook.buf, m, k)
    BY <1>1, <1>3, <1>15 DEF MailRight
  <2> DEFINE n == Len(v)
  <2>0. n \in {1, 2} /\ n <= t - k /\ (k + 2 <= t => n = 2) /\ n = Len(v)
    BY <1>7
  <2>2. n \in Nat /\ (n = Len(v) /\ Len(v) <= hook.nOut * hook.nIn - hook.filled)
    BY <1>7, <1>9, <2>1 DEF t
  <2>3. /\ j.nOut = hook.nOut /\ j.nIn = hook.nIn /\ j.base = hook.base
        /\ j.pending = hook.pending /\ j.va = hook.va /\ j.filled = hook.filled + n
        /\ \A i \in 1 .. hook.nOut * hook.nIn :
             j.buf[i] = IF i \in hook.filled + 1 .. hook.filled + n THEN v[i - hook.filled]
                        ELSE hook.buf[i]
    <3> HIDE DEF n
    <3> QED
      BY SMTT(30), <1>6, <1>7, <2>2, HookPushIs DEF j
  <2> HIDE DEF n
  <2>4. Pushed(j.buf, m, k + n)
    <3> DEFINE f == k + n
    <3> HIDE DEF f
    <3> SUFFICES ASSUME NEW i \in 0 .. f - 1 PROVE j.buf[i + 1] = Flat(m, i)
      BY DEF Pushed, f
    <3>1. i \in Nat /\ i + 1 \in 1 .. hook.nOut * hook.nIn
      BY <1>3, <1>6, <1>9, <2>0 DEF t, f
    <3>2. CASE i < k
      <4>1. i \in 0 .. k - 1 /\ i + 1 \notin hook.filled + 1 .. hook.filled + n
        BY <1>3, <2>1, <3>1, <3>2
      <4>2. hook.buf[i + 1] = Flat(m, i)
        BY <2>1, <4>1 DEF Pushed
      <4> DEFINE l == i + 1
      <4>3. l \in 1 .. hook.nOut * hook.nIn /\ l \notin hook.filled + 1 .. hook.filled + n
        BY <3>1, <4>1
      <4> HIDE DEF l
      <4>4. j.buf[l] = hook.buf[l]
        BY <2>3, <4>3
      <4> QED
        BY <4>2, <4>4 DEF l
    <3>3. CASE i >= k
      <4> DEFINE l == i + 1 - k
      <4>1. l \in 1 .. n /\ i = k + l - 1 /\ i + 1 \in k + 1 .. k + n
        BY <1>3, <2>2, <3>1, <3>3 DEF f
      <4>2. j.buf[i + 1] = v[l]
        <5> DEFINE e == i + 1
        <5>0. e \in 1 .. hook.nOut * hook.nIn /\ e \in hook.filled + 1 .. hook.filled + n
          BY <2>1, <3>1, <4>1
        <5> HIDE DEF e
        <5>2. j.buf[e] = v[e - hook.filled]
          BY <2>3, <5>0
        <5>1. j.buf[i + 1] = v[i + 1 - hook.filled]
          BY <1>6, <3>1, <5>2 DEF e
        <5> QED
          BY <2>1, <5>1
      <4> HIDE DEF l
      <4>3. v[l] = Flat(m, k + l - 1)
        BY <1>7, <2>0, <4>1
      <4> QED
        BY <4>1, <4>2, <4>3
    <3> QED
      BY <1>3, <3>1, <3>2, <3>3
  <2>5. HookStatus(hook) # 0
    BY <1>6, <1>9, <2>1
  <2>6. CASE last
    <3>1. k + n = t
      <4>1. k + 2 >= t
        BY <2>6 DEF last
      <4>2. k \in Nat /\ t \in Nat /\ k < t
        BY <1>3, <1>6
      <4>3. n \in {1, 2} /\ n <= t - k /\ (k + 2 <= t => n = 2)
        BY <2>0
      <4> HIDE DEF k, n, t
      <4> QED
        BY <4>1, <4>2, <4>3
    <3>2. HookStatus(j) = 0
      BY <1>6, <1>9, <2>1, <2>3, <3>1 DEF t
    <3>3. HookComplete(j, u)
      BY <1>2, <2>5, <3>2
    <3>4. SameMatrix(u, m)
      <4>1. Pushed(j.buf, m, Info[m].nOut * Info[m].nIn)
        <5>1. t = Info[m].nOut * Info[m].nIn
          BY DEF t
        <5> QED
          BY <2>4, <3>1, <5>1
      <4> QED
        BY <1>3, <1>9, <2>3, <4>1, BufferIsMatrix DEF u
    <3>5. j.nOut = Info[m].nOut /\ j.nIn = Info[m].nIn /\ j.base = rowBase[m]
      BY <1>9, <2>3
    <3>6. RowsInv' /\ WeightsInv' /\ ~hook'.pending
      BY <1>2, <1>3, <1>8, <1>11, <3>3, <3>4, <3>5, CompleteKeeps
    <3>7. MailInv'
      BY <1>3, <1>4, <1>10, <2>6, <3>6 DEF MailInv
    <3> QED
      BY <1>12, <3>6, <3>7 DEF SupplyInv
  <2>7. CASE ~last
    <3>1. n = 2 /\ k + 2 < t
      BY <1>3, <1>6, <2>0, <2>7 DEF last
    <3>2. HookStatus(j) # 0
      BY <1>3, <1>6, <1>9, <2>1, <2>3, <3>1 DEF t
    <3>3. hook' = j /\ dev' = dev
      BY <1>2, <3>2
    <3>4. RowsInv' /\ WeightsInv'
      BY <1>13, <2>7, <3>3
    <3>5. MailRight'
      <4>1. Pushed(hook'.buf, m, call'.pushed)
        <5>1. call'.pushed = k + n /\ hook' = j
          BY <1>4, <3>1, <3>3
        <5> QED
          BY <2>4, <5>1
      <4>2. Pushed(hook.buf, call.m, call.pushed)' <=> Pushed(hook'.buf, m, call'.pushed)
        BY <1>4 DEF Flat, Pushed
      <4> QED
        BY <1>2, <1>3, <1>4, <1>5, <1>9, <1>15, <2>1, <2>3, <2>7, <3>1, <3>3, <4>1, <4>2
           DEF MailRight, t
    <3>6. MailInv'
      BY <1>4, <2>7, <3>5 DEF MailInv
    <3> QED
      BY <1>12, <3>4, <3>6 DEF SupplyInv
  <2> QED
    BY <2>6, <2>7
<1> QED
  BY <1>14, <1>15

-----------------------------------------------------------------------------
(* The commands of the plan.                                               *)

\* Lists of n elements each, one after the other.
AllLong(ss, n) == \A i \in 1 .. Len(ss) : Len(ss[i]) = n
LaidOut(s, ss, n) ==
  /\ Len(s) = Len(ss) * n
  /\ \A q \in 0 .. Len(ss) - 1 : \A r \in 1 .. n : s[q * n + r] = ss[q + 1][r]

\* Sequences of one length n, laid end to end: which one a place is in is its div n.
LEMMA FlattenEven ==
  ASSUME NEW T, NEW n \in Nat \ {0}, NEW ss \in Seq(Seq(T)), ss # <<>>, AllLong(ss, n)
  PROVE  FlattenSeq(ss) \in Seq(T) /\ LaidOut(FlattenSeq(ss), ss, n)
<1>1. PICK f : /\ Joined(f, ss) /\ Len(ss) \in Nat \ {0}
               /\ \A i \in 1 .. Len(ss) : ss[i] \in Seq(T) /\ f[i] \in Seq(T)
  BY FlattenRounds
<1> DEFINE N == Len(ss)
           Good(k) == /\ Len(f[k]) = k * n
                      /\ \A q \in 0 .. k - 1 : \A r \in 1 .. n : f[k][q * n + r] = ss[q + 1][r]
           D == {k \in 0 .. N : k = 0 \/ Good(k)}
<1>2. 0 \in D
  BY <1>1
<1>3. ASSUME NEW k \in 1 .. N, k - 1 \in D PROVE k \in D
  <2>1. CASE k = 1
    <3>1. f[1] = ss[1] /\ Len(ss[1]) = n
      BY <1>1 DEF Joined, AllLong
    <3>2. \A q \in 0 .. 1 - 1 : q = 0
      OBVIOUS
    <3>3. Good(1)
      <4>1. \A r \in 1 .. n : 0 * n + r = r /\ 1 * n = n
        OBVIOUS
      <4> QED
        BY <3>1, <3>2, <4>1
    <3> QED
      BY <2>1, <3>3
  <2>2. CASE k # 1
    <3> DEFINE l == k - 1
    <3>1. /\ f[k] = f[l] \o ss[k] /\ Len(ss[k]) = n /\ ss[k] \in Seq(T) /\ f[l] \in Seq(T)
          /\ l \in Nat \ {0} /\ k = l + 1
      <4>1. k \in 2 .. Len(ss) /\ k \in 1 .. Len(ss) /\ l \in 1 .. Len(ss) /\ l \in Nat \ {0} /\ k = l + 1
        BY <1>1, <2>2
      <4>2. f[k] = f[k - 1] \o ss[k]
        BY <1>1, <4>1 DEF Joined
      <4>3. Len(ss[k]) = n
        BY <4>1 DEF AllLong
      <4> HIDE DEF Good
      <4> QED
        BY <1>1, <4>1, <4>2, <4>3
    <3>2. Good(l)
      BY <1>3, <3>1
    <3>3. l * n \in Nat /\ k * n = l * n + n
      BY <3>1
    <3>4. /\ Len(f[k]) = l * n + n
          /\ \A i \in 1 .. l * n : f[k][i] = f[l][i]
          /\ \A i \in 1 .. n : f[k][l * n + i] = ss[k][i]
      <4> DEFINE a == f[l]
                 b == ss[k]
                 m == l * n
      <4>1. a \in Seq(T) /\ b \in Seq(T) /\ Len(a) = m /\ Len(b) = n /\ f[k] = a \o b /\ m \in Nat
        BY <3>1, <3>2, <3>3
      <4> HIDE DEF a, b, m
      <4>2. /\ Len(a \o b) = m + n
            /\ \A i \in 1 .. m : (a \o b)[i] = a[i]
            /\ \A i \in 1 .. n : (a \o b)[m + i] = b[i]
        <5>1. /\ Len(a \o b) = m + n
              /\ \A i \in 1 .. m + n : (a \o b)[i] = IF i <= m THEN a[i] ELSE b[i - m]
          BY ZenonT(30), <4>1, ConcatProperties
        <5> DEFINE c == a \o b
        <5>2. Len(c) = m + n /\ \A i \in 1 .. m + n : c[i] = IF i <= m THEN a[i] ELSE b[i - m]
          BY <5>1
        <5> HIDE DEF c
        <5>3. \A i \in 1 .. n : m + i \in 1 .. m + n /\ ~(m + i <= m) /\ (m + i) - m = i
          BY <4>1
        <5>4. \A i \in 1 .. n : c[m + i] = b[i]
          BY <5>2, <5>3
        <5>5. \A i \in 1 .. m : c[i] = a[i]
          BY <4>1, <5>2
        <5> QED
          BY <5>2, <5>4, <5>5 DEF c
      <4> QED
        BY <4>1, <4>2 DEF a, b, m
    <3> HIDE DEF l
    <3>5. ASSUME NEW q \in 0 .. k - 1, NEW r \in 1 .. n PROVE f[k][q * n + r] = ss[q + 1][r]
      <4>1. CASE q = l
        BY <3>1, <3>4, <4>1
      <4>2. CASE q # l
        <5>1. q \in 0 .. l - 1 /\ q + 1 \in Nat /\ q + 1 <= l
          BY <3>1, <4>2
        <5>2. n * (q + 1) <= n * l /\ n * (q + 1) = q * n + n /\ q * n \in Nat /\ n * l = l * n
          <6>1. n * (q + 1) <= n * l
            BY <3>1, <5>1, TimesMonotone
          <6>2. q \in Nat
            BY <5>1
          <6> QED
            BY <3>1, <6>1, <6>2
        <5>3. q * n + r \in 1 .. l * n
          <6> DEFINE a == q * n
                     b == l * n
          <6>1. a \in Nat /\ b \in Nat /\ a + n <= b
            BY <3>3, <5>2
          <6> HIDE DEF a, b
          <6>2. a + r \in 1 .. b
            BY <6>1
          <6> QED
            BY <6>2 DEF a, b
        <5>4. f[l][q * n + r] = ss[q + 1][r]
          BY <3>2, <5>1
        <5> QED
          BY <3>4, <5>3, <5>4
      <4> QED
        BY <4>1, <4>2
    <3>6. Good(k)
      BY <3>3, <3>4, <3>5
    <3> QED
      BY <3>6
  <2> QED
    BY <2>1, <2>2
<1> HIDE DEF D
<1>4. 0 .. N \subseteq D
  <2>1. N \in Nat /\ \A k \in 1 .. N : k - 1 \in D => k \in D
    BY <1>1, <1>3
  <2> HIDE DEF N
  <2> QED
    BY <1>2, <2>1, LoopInduction
<1>5. N \in D /\ N # 0 /\ N \in 1 .. N
  BY <1>1, <1>4
<1>6. Good(N) /\ f[N] = FlattenSeq(ss) /\ f[N] \in Seq(T)
  BY <1>1, <1>5 DEF D, Joined
<1> QED
  BY <1>6 DEF LaidOut

\* e is b with one element before it, that of a, and one after it, that of c.
Frames(e, a, b, c) ==
  /\ Len(e) = Len(b) + 2 /\ e[1] = a[1] /\ e[Len(b) + 2] = c[1]
  /\ \A i \in 1 .. Len(b) : e[i + 1] = b[i]

\* One list between two elements.
LEMMA Framed ==
  ASSUME NEW C, NEW a \in Seq(C), NEW b \in Seq(C), NEW c \in Seq(C), Len(a) = 1, Len(c) = 1
  PROVE  Frames(a \o b \o c, a, b, c)
<1> DEFINE m == Len(b)
           d == a \o b
           e == d \o c
<1>1. m \in Nat
  BY LenProperties
<1>2. /\ d \in Seq(C) /\ Len(d) = 1 + m
      /\ \A i \in 1 .. 1 + m : d[i] = IF i <= 1 THEN a[i] ELSE b[i - 1]
  <2>1. /\ d \in Seq(C) /\ Len(d) = Len(a) + Len(b)
        /\ \A i \in 1 .. Len(a) + Len(b) : d[i] = IF i <= Len(a) THEN a[i] ELSE b[i - Len(a)]
    BY ConcatProperties
  <2> HIDE DEF d
  <2> QED
    BY <2>1
<1> HIDE DEF d
<1>3. /\ Len(e) = (1 + m) + 1
      /\ \A i \in 1 .. (1 + m) + 1 : e[i] = IF i <= 1 + m THEN d[i] ELSE c[i - (1 + m)]
  <2>1. /\ Len(e) = Len(d) + Len(c)
        /\ \A i \in 1 .. Len(d) + Len(c) : e[i] = IF i <= Len(d) THEN d[i] ELSE c[i - Len(d)]
    BY <1>2, ConcatProperties
  <2> HIDE DEF e, m
  <2> QED
    BY <1>2, <2>1
<1> HIDE DEF e, m
<1>4. e[1] = a[1]
  BY <1>1, <1>2, <1>3
<1>5. e[m + 2] = c[1]
  <2> DEFINE k == m + 2
  <2>1. k \in 1 .. (1 + m) + 1 /\ ~(k <= 1 + m) /\ k - (1 + m) = 1
    BY <1>1
  <2> HIDE DEF k
  <2>2. e[k] = c[k - (1 + m)]
    BY <1>3, <2>1
  <2> QED
    BY <2>1, <2>2 DEF k
<1>6. ASSUME NEW i \in 1 .. m PROVE e[i + 1] = b[i]
  <2> DEFINE k == i + 1
  <2>1. k \in 1 .. (1 + m) + 1 /\ k <= 1 + m /\ ~(k <= 1) /\ k - 1 = i /\ k \in 1 .. 1 + m
    BY <1>1
  <2> HIDE DEF k
  <2>2. e[k] = d[k] /\ d[k] = b[k - 1]
    BY <1>2, <1>3, <2>1
  <2> QED
    BY <2>1, <2>2 DEF k
<1> QED
  BY <1>1, <1>3, <1>4, <1>5, <1>6 DEF e, d, m, Frames

\* The plan of the call: the order of the buffer, those of each wave, and the
\* end.
ThePlan == Plan(hw, mat.nOut, mat.nIn, rowBase[call.m])
PerWave == Len(hw.pim) + 2
BufferOrder == Cmd("WR_GB", NCols, 0, ToSet(hw.pim), 0)
BiasOrder == Cmd("WR_BIAS", -1, NCols, ToSet(hw.pim), 0)
MacOrder(w) == Cmd("MAC_ABK", NCols, 0, ToSet(hw.pim), rowBase[call.m] + w)
ReadOrder(i) == Cmd("RD_MAC", -1, NCols + i, {hw.pim[i]}, 0)
EndOrder == Cmd("EOC", -1, 0, {}, 0)

\* The biases are an order.
LEMMA BiasIsOrder ==
  ASSUME CallInv, NEW gpr \in Int
  PROVE  Cmd("WR_BIAS", -1, gpr, ToSet(hw.pim), 0) \in Orders(hw)
<1>1. \A size, row \in Int : Cmd("WR_BIAS", size, gpr, ToSet(hw.pim), row) \in Orders(hw)
  BY CmdIsOrder
<1>2. -1 \in Int /\ 0 \in Int
  OBVIOUS
<1> QED
  BY <1>1, <1>2

\* The orders of the plan, by their place in it.
LEMMA PlanAt ==
  ASSUME CallInv, call.m \in Mats, rowBase[call.m] \in Int, NWaves # 0
  PROVE  /\ Len(ThePlan) = NWaves * PerWave + 2 /\ NWaves \in Nat
         /\ ThePlan[1] = BufferOrder /\ ThePlan[NWaves * PerWave + 2] = EndOrder
         /\ \A w \in 0 .. NWaves - 1 :
              /\ ThePlan[(w * PerWave + 1) + 1] = BiasOrder
              /\ ThePlan[(w * PerWave + 2) + 1] = MacOrder(w)
              /\ \A i \in 1 .. Len(hw.pim) : ThePlan[(w * PerWave + (i + 2)) + 1] = ReadOrder(i)
<1> DEFINE base == rowBase[call.m]
           cols == Ceil(mat.nIn, Lanes)
           pim == ToSet(hw.pim)
           C == Orders(hw)
           a(w) == <<Cmd("WR_BIAS", -1, cols, pim, 0), Cmd("MAC_ABK", cols, 0, pim, base + w)>>
           b == [i \in DOMAIN hw.pim |-> Cmd("RD_MAC", -1, cols + i, {hw.pim[i]}, 0)]
           N == Ceil(Ceil(mat.nOut, Banks), Len(hw.pim))
           groups == [k \in 1 .. N |-> a(k - 1) \o b]
           first == <<Cmd("WR_GB", cols, 0, pim, 0)>>
           last == <<Cmd("EOC", -1, 0, {}, 0)>>
           L == Len(hw.pim)
<1>1. ThePlan = first \o FlattenSeq(groups) \o last
  BY DEF ThePlan, Plan
<1>2. cols \in Nat /\ -1 \in Int /\ 0 \in Int
  BY MatrixFacts
<1>19. cols = NCols
  BY DEF NCols
<1>3. DOMAIN hw.pim = 1 .. L /\ L \in Nat /\ L # 0
  BY HardwareFacts
<1>4. N \in Nat \ {0} /\ N = NWaves
  <2>0. N = NWaves
    BY DEF NWaves
  <2>1. mat.nOut \in Nat
    BY MatrixFacts
  <2>2. Ceil(mat.nOut, Banks) \in Nat
    BY <2>1, DeviceAssumption DEF Ceil
  <2> QED
    BY <1>3, <2>0, <2>2 DEF Ceil
<1> HIDE DEF cols, N, L, base
<1>5. first \in Seq(C) /\ last \in Seq(C) /\ Len(first) = 1 /\ Len(last) = 1
  <2>1. Cmd("WR_GB", cols, 0, pim, 0) \in C
    BY <1>2, CmdIsOrder
  <2>2. Cmd("EOC", -1, 0, {}, 0) \in C
    BY <1>2, CmdIsOrder
  <2> QED
    BY <2>1, <2>2
<1>6. \A w \in Nat : a(w) \in Seq(C)
  <2>1. \A w \in Nat : base + w \in Int
    BY DEF base
  <2>2. Cmd("WR_BIAS", -1, cols, pim, 0) \in C
    BY <1>2, BiasIsOrder
  <2>3. \A w \in Nat : Cmd("MAC_ABK", cols, 0, pim, base + w) \in C
    BY <1>2, <2>1, CmdIsOrder
  <2> HIDE DEF C, pim
  <2> QED
    BY <2>2, <2>3
<1>7. b \in Seq(C) /\ Len(b) = L
  <2>1. \A i \in DOMAIN hw.pim : cols + i \in Int
    BY <1>2, <1>3
  <2>2. \A i \in DOMAIN hw.pim : b[i] \in C
    BY <1>2, <2>1, CmdIsOrder
  <2>3. DOMAIN b = 1 .. L /\ b = [i \in DOMAIN b |-> b[i]]
    BY <1>3
  <2> HIDE DEF C, b
  <2>4. b \in Seq(C)
    BY <1>3, <2>2, <2>3, ListIn
  <2> QED
    BY <1>3, <2>3, <2>4, LenProperties
<1>8. \A w : Len(a(w)) = 2 /\ a(w)[1] = Cmd("WR_BIAS", -1, cols, pim, 0)
             /\ a(w)[2] = Cmd("MAC_ABK", cols, 0, pim, base + w)
  OBVIOUS
<1>9. \A i \in 1 .. L : b[i] = Cmd("RD_MAC", -1, cols + i, {hw.pim[i]}, 0)
  BY <1>3
<1>10. first[1] = Cmd("WR_GB", cols, 0, pim, 0) /\ last[1] = Cmd("EOC", -1, 0, {}, 0)
  OBVIOUS
<1> HIDE DEF a, b, C, first, last, pim
<1>11. \A w \in Nat : /\ a(w) \o b \in Seq(C) /\ Len(a(w) \o b) = L + 2
                      /\ (a(w) \o b)[1] = a(w)[1] /\ (a(w) \o b)[2] = a(w)[2]
                      /\ \A i \in 1 .. L : (a(w) \o b)[i + 2] = b[i]
  <2> SUFFICES ASSUME NEW w \in Nat
               PROVE  /\ a(w) \o b \in Seq(C) /\ Len(a(w) \o b) = L + 2
                      /\ (a(w) \o b)[1] = a(w)[1] /\ (a(w) \o b)[2] = a(w)[2]
                      /\ \A i \in 1 .. L : (a(w) \o b)[i + 2] = b[i]
    OBVIOUS
  <2> DEFINE e == a(w) \o b
             f == a(w)
  <2>1. /\ e \in Seq(C) /\ Len(e) = 2 + L
        /\ \A i \in 1 .. 2 + L : e[i] = IF i <= 2 THEN f[i] ELSE b[i - 2]
    <3>1. /\ e \in Seq(C) /\ Len(e) = Len(f) + Len(b)
          /\ \A i \in 1 .. Len(f) + Len(b) : e[i] = IF i <= Len(f) THEN f[i] ELSE b[i - Len(f)]
      BY <1>6, <1>7, ConcatProperties
    <3>2. Len(f) = 2
      BY <1>8
    <3> HIDE DEF e, f
    <3> QED
      BY <1>3, <1>7, <3>1, <3>2
  <2> HIDE DEF e, f
  <2>2. e[1] = f[1] /\ e[2] = f[2]
    BY <1>3, <2>1
  <2>3. ASSUME NEW i \in 1 .. L PROVE e[i + 2] = b[i]
    <3> DEFINE k == i + 2
    <3>1. k \in 1 .. 2 + L /\ ~(k <= 2) /\ k - 2 = i
      BY <1>3
    <3> HIDE DEF k
    <3>2. e[k] = b[k - 2]
      BY <2>1, <3>1
    <3> QED
      BY <3>1, <3>2 DEF k
  <2> QED
    BY <1>3, <2>1, <2>2, <2>3 DEF e, f
<1> DEFINE n == L + 2
<1>12. groups \in Seq(Seq(C)) /\ Len(groups) = N /\ groups # <<>>
  <2>0. \A k \in 1 .. N : k - 1 \in Nat
    BY <1>4
  <2>1. \A k \in 1 .. N : k - 1 \in Nat /\ a(k - 1) \o b \in Seq(C)
    <3> SUFFICES ASSUME NEW k \in 1 .. N PROVE k - 1 \in Nat /\ a(k - 1) \o b \in Seq(C)
      OBVIOUS
    <3> DEFINE w == k - 1
    <3>1. w \in Nat
      BY <2>0
    <3> HIDE DEF w
    <3>2. a(w) \o b \in Seq(C)
      BY <3>1, <1>11
    <3> QED
      BY <3>1, <3>2 DEF w
  <2>2. groups \in [1 .. N -> Seq(C)] /\ DOMAIN groups = 1 .. N
    BY <2>1
  <2> HIDE DEF groups
  <2>3. groups \in Seq(Seq(C)) /\ N \in Nat /\ N # 0
    BY <1>4, <2>2, ListIn
  <2>4. Len(groups) = N
    BY <2>2, <2>3, LenProperties
  <2> QED
    BY <2>3, <2>4, EmptySeq
<1>13. \A i \in 1 .. N : groups[i] = a(i - 1) \o b /\ Len(groups[i]) = n
  <2> SUFFICES ASSUME NEW i \in 1 .. N PROVE groups[i] = a(i - 1) \o b /\ Len(groups[i]) = n
    OBVIOUS
  <2>1. i - 1 \in Nat
    BY <1>4
  <2>2. Len(a(i - 1) \o b) = n
    BY <1>11, <2>1
  <2> QED
    BY <2>2
<1> HIDE DEF groups, n
<1> DEFINE F == FlattenSeq(groups)
<1>14. /\ F \in Seq(C) /\ Len(F) = N * n
       /\ \A q \in 0 .. N - 1 : \A r \in 1 .. n : F[q * n + r] = groups[q + 1][r]
  <2>1. n \in Nat \ {0}
    BY <1>3 DEF n
  <2>2. AllLong(groups, n)
    BY <1>12, <1>13 DEF AllLong
  <2>3. F \in Seq(C) /\ LaidOut(F, groups, n)
    BY <1>12, <2>1, <2>2, FlattenEven
  <2> HIDE DEF F
  <2> QED
    BY <1>12, <2>3 DEF LaidOut
<1> HIDE DEF F
<1>15. /\ Len(ThePlan) = N * n + 2
       /\ ThePlan[1] = first[1] /\ ThePlan[N * n + 2] = last[1]
       /\ \A i \in 1 .. N * n : ThePlan[i + 1] = F[i]
  <2>1. ThePlan = first \o F \o last
    BY <1>1 DEF F
  <2>2. F \in Seq(C) /\ Len(F) = N * n
    BY <1>14
  <2>3. Frames(ThePlan, first, F, last)
    BY <1>5, <2>1, <2>2, Framed
  <2> QED
    BY <2>2, <2>3 DEF Frames
<1>16. ASSUME NEW w \in 0 .. N - 1, NEW r \in 1 .. n
       PROVE  ThePlan[(w * n + r) + 1] = groups[w + 1][r]
  <2>1. w \in Nat /\ w + 1 \in Nat /\ w + 1 <= N /\ n \in Nat /\ r \in Nat /\ r <= n /\ 1 <= r
    BY <1>3, <1>4 DEF n
  <2>2. n * (w + 1) <= n * N
    BY <1>4, <2>1, TimesMonotone
  <2>3. n * (w + 1) = w * n + n /\ n * N = N * n /\ w * n \in Nat /\ N * n \in Nat
    BY <1>4, <2>1
  <2> DEFINE i == w * n + r
  <2>4. i \in 1 .. N * n
    BY <2>1, <2>2, <2>3
  <2>5. F[i] = groups[w + 1][r]
    BY <1>14
  <2> HIDE DEF i
  <2>6. ThePlan[i + 1] = F[i]
    BY <1>15, <2>4
  <2> QED
    BY <2>5, <2>6 DEF i
<1>17. ASSUME NEW w \in 0 .. N - 1
       PROVE  /\ ThePlan[(w * n + 1) + 1] = BiasOrder
              /\ ThePlan[(w * n + 2) + 1] = MacOrder(w)
              /\ \A i \in 1 .. L : ThePlan[(w * n + (i + 2)) + 1] = ReadOrder(i)
  <2>1. 1 \in 1 .. n /\ 2 \in 1 .. n /\ \A i \in 1 .. L : i + 2 \in 1 .. n
    BY <1>3 DEF n
  <2>2. w \in Nat /\ w + 1 \in 1 .. N /\ (w + 1) - 1 = w
    BY <1>4
  <2>3. groups[w + 1] = a(w) \o b
    BY <1>13, <2>2
  <2> DEFINE e == groups[w + 1]
  <2>4. e[1] = BiasOrder /\ e[2] = MacOrder(w)
    BY <1>2, <1>8, <1>11, <1>19, <2>2, <2>3 DEF BiasOrder, MacOrder, base, pim
  <2>5. \A i \in 1 .. L : e[i + 2] = ReadOrder(i)
    BY <1>2, <1>9, <1>11, <1>19, <2>2, <2>3 DEF ReadOrder
  <2>6. \A r \in 1 .. n : ThePlan[(w * n + r) + 1] = e[r]
    BY <1>16
  <2> HIDE DEF e
  <2>7. \A i \in 1 .. L : ThePlan[(w * n + (i + 2)) + 1] = e[i + 2]
    BY <2>1, <2>6
  <2> QED
    BY <2>1, <2>4, <2>5, <2>6, <2>7
<1>18. n = PerWave
  BY DEF n, L, PerWave
<1> QED
  BY <1>4, <1>10, <1>15, <1>17, <1>18, <1>19 DEF BufferOrder, EndOrder, pim, L

-----------------------------------------------------------------------------
(* A command, channel by channel and column by column.                     *)

\* With or without the fast paths, a micro command that does not read does what
\* they do to a channel, and RD_MAC reads one channel.
LEMMA MicroAll ==
  ASSUME NEW h, Hardware(h), NEW w, Memory(w), NEW d \in Dev(h, w),
         NEW q \in Cmds(h), q.op \in Ops \ {"RD_MAC"}, q.chs # {}, NEW fast \in BOOLEAN,
         NEW ch \in Channels(h) \cup {-1}
  PROVE  ExecuteMicro(d, h, fast, q, ch) = ChannelsFast(d, h, q, ch)
<1>1. q.op # "EOC" /\ q.op # "RD_MAC"
  BY DEF Ops
<1>2. ChannelsFast(d, h, q, ch) = ScalarMicro(d, h, q, ch)
  BY ChannelsAreSteps
<1> QED
  BY <1>1, <1>2 DEF ExecuteMicro

\* So it does with the fast paths.
LEMMA MicroFast ==
  ASSUME NEW h, Hardware(h), NEW w, Memory(w), NEW d \in Dev(h, w),
         NEW q \in Cmds(h), q.op \in Ops \ {"RD_MAC"}, q.chs # {},
         NEW ch \in Channels(h) \cup {-1}
  PROVE  ExecuteMicro(d, h, TRUE, q, ch) = ChannelsFast(d, h, q, ch)
<1>1. q.op # "EOC" /\ q.op # "RD_MAC"
  BY DEF Ops
<1>2. ChannelsFast(d, h, q, ch) = ScalarMicro(d, h, q, ch)
  BY ChannelsAreSteps
<1> QED
  BY <1>1, <1>2 DEF ExecuteMicro

\* With or without the fast paths, RD_MAC reads the one channel it is for.
LEMMA MicroRead ==
  ASSUME NEW h, Hardware(h), NEW w, Memory(w), NEW d \in Dev(h, w),
         NEW q \in Cmds(h), q.op = "RD_MAC", NEW fast \in BOOLEAN,
         NEW ch \in Channels(h) \cup {-1}, NEW c \in Channels(h), ChannelsOf(h, q, ch) = {c}
  PROVE  ExecuteMicro(d, h, fast, q, ch) = RdMacFast(d, h, q, ch)
<1>1. RdMacFast(d, h, q, ch) = ScalarMicro(d, h, q, ch)
  BY ReadIsSteps
<1> QED
  BY <1>1 DEF ExecuteMicro

\* q is the command, for one column.
Micro(q, h, cmd, col) ==
  /\ q \in Cmds(h) /\ q.op = cmd.op /\ q.gpr0 = cmd.gpr0 /\ q.row = cmd.row
  /\ q.chs = cmd.chs /\ Col(q) = col

\* R has devices with the channels and columns that are still to be done; what
\* is done to one of them leads to a device of R without it.
Kept(R, h, w, cmd, cols) ==
  /\ R \subseteq Dev(h, w) \X SUBSET (Channels(h) \X Nat)
  /\ \A d, rem, c, col, q :
       <<d, rem>> \in R /\ c \in cmd.chs /\ col \in cols /\ <<c, col>> \in rem
         /\ Micro(q, h, cmd, col)
       => <<ChannelFast(d, q, c), rem \ {<<c, col>>}>> \in R

\* One column on all channels.
LEMMA ColumnKept ==
  ASSUME NEW h, Hardware(h), NEW w, Memory(w), NEW cmd \in Cmds(h),
         cmd.op \in Ops \ {"RD_MAC"}, NEW cols, NEW R, Kept(R, h, w, cmd, cols),
         NEW d, NEW rem, <<d, rem>> \in R, NEW col \in cols, NEW q, Micro(q, h, cmd, col),
         cmd.chs \X {col} \subseteq rem
  PROVE  <<ChannelsFast(d, h, q, -1), rem \ (cmd.chs \X {col})>> \in R
<1> DEFINE C == cmd.chs
           left(s) == rem \ (s \X {col})
<1>1. d \in Dev(h, w) /\ q \in Cmds(h) /\ q.op = cmd.op /\ q.chs = C /\ -1 \in Channels(h) \cup {-1}
  BY DEF Kept, Micro
<1>2. Masked(h, q, -1) = C /\ Bounded(C)
  BY <1>1, ChannelFacts
<1>3. PICK f : ChannelsFastRun(f, h, w, d, q, -1)
  BY <1>1, ChannelsFastRounds
<1>4. /\ f[{}] = d /\ ChannelsFast(d, h, q, -1) = f[C]
      /\ \A s \in SUBSET C : s # {} => f[s] = ChannelFast(f[s \ {Max(s)}], q, Max(s))
  BY <1>2, <1>3 DEF ChannelsFastRun, States
<1>5. PICK N \in Nat : C \in SUBSET (0 .. N)
  BY <1>2 DEF Bounded
<1> DEFINE T == {s \in SUBSET C : <<f[s], left(s)>> \in R}
<1> HIDE DEF C
<1>6. {} \in T
  <2>1. left({}) = rem
    OBVIOUS
  <2> HIDE DEF left
  <2> QED
    BY <1>4, <2>1
<1>7. ASSUME NEW s \in SUBSET C, s # {}, s \ {Max(s)} \in T PROVE s \in T
  <2> DEFINE m == Max(s)
             r == s \ {m}
  <2>1. m \in s /\ m \in C
    BY <1>5, <1>7, Greatest
  <2> HIDE DEF m
  <2>2. <<f[r], left(r)>> \in R /\ f[s] = ChannelFast(f[r], q, m)
    BY <1>4, <1>7 DEF m
  <2>3. <<m, col>> \in left(r) /\ left(r) \ {<<m, col>>} = left(s)
    <3>1. <<m, col>> \in rem
      BY <2>1 DEF C
    <3>2. \A c \in s : c = m \/ c \in r
      OBVIOUS
    <3> QED
      BY <2>1, <3>1
  <2> HIDE DEF r, left
  <2>4. <<ChannelFast(f[r], q, m), left(r) \ {<<m, col>>}>> \in R
    BY <2>1, <2>2, <2>3 DEF Kept, C
  <2>5. <<f[s], left(s)>> \in R
    BY <2>2, <2>3, <2>4
  <2> QED
    BY <2>5
<1>8. SUBSET C \subseteq T
  <2> HIDE DEF T
  <2> QED
    BY <1>5, <1>6, <1>7, EachInduction
<1>9. <<f[C], left(C)>> \in R
  BY <1>8
<1> QED
  BY <1>4, <1>9 DEF C

\* All columns.
LEMMA ColumnsKept ==
  ASSUME NEW h, Hardware(h), NEW w, Memory(w), NEW cmd \in Cmds(h),
         cmd.op \in Ops \ {"RD_MAC"}, cmd.chs # {}, NEW R, Kept(R, h, w, cmd, Columns(cmd)),
         NEW d, <<d, cmd.chs \X Columns(cmd)>> \in R
  PROVE  <<ExecuteColumns(d, h, TRUE, cmd, -1), {}>> \in R
<1> DEFINE C == cmd.chs
           I == Columns(cmd)
           left(s) == C \X (I \ s)
<1>1. d \in Dev(h, w) /\ -1 \in Channels(h) \cup {-1} /\ TRUE \in BOOLEAN
  BY DEF Kept
<1>2. /\ Bounded(I) /\ I \subseteq Nat
      /\ \A col \in I : AtCol(cmd, col) \in Cmds(h) /\ Micro(AtCol(cmd, col), h, cmd, col)
  <2>1. \A col : AtCol(cmd, col).gpr0 = cmd.gpr0
    BY DEF AtCol, Cmds
  <2> QED
    BY <2>1, ColumnFacts DEF Micro
<1>3. PICK f : ExecuteColumnsRun(f, h, w, d, TRUE, cmd, -1)
  BY <1>1, ExecuteColumnsRounds
<1>4. /\ f[{}] = d /\ ExecuteColumns(d, h, TRUE, cmd, -1) = f[I] /\ f \in [SUBSET I -> Dev(h, w)]
      /\ \A s \in SUBSET I : s # {} =>
           f[s] = ExecuteMicro(f[s \ {Max(s)}], h, TRUE, AtCol(cmd, Max(s)), -1)
  BY <1>3 DEF ExecuteColumnsRun, States
<1>5. PICK N \in Nat : I \in SUBSET (0 .. N)
  BY <1>2 DEF Bounded
<1> DEFINE T == {s \in SUBSET I : <<f[s], left(s)>> \in R}
<1> HIDE DEF I
<1>6. {} \in T
  <2>1. left({}) = C \X I
    OBVIOUS
  <2> HIDE DEF left
  <2> QED
    BY <1>4, <2>1 DEF I
<1>7. ASSUME NEW s \in SUBSET I, s # {}, s \ {Max(s)} \in T PROVE s \in T
  <2> DEFINE m == Max(s)
             r == s \ {m}
             q == AtCol(cmd, m)
  <2>1. m \in s /\ m \in I /\ r \in SUBSET I
    BY <1>5, <1>7, Greatest
  <2> HIDE DEF m
  <2>2. <<f[r], left(r)>> \in R /\ f[s] = ExecuteMicro(f[r], h, TRUE, q, -1) /\ f[r] \in Dev(h, w)
    BY <1>4, <1>7, <2>1 DEF m
  <2>3. q \in Cmds(h) /\ Micro(q, h, cmd, m) /\ q.op = cmd.op /\ q.chs = cmd.chs
    BY <1>2, <2>1 DEF Micro
  <2> HIDE DEF q
  <2>4. f[s] = ChannelsFast(f[r], h, q, -1)
    <3> DEFINE e == f[r]
    <3>1. e \in Dev(h, w) /\ f[s] = ExecuteMicro(e, h, TRUE, q, -1)
      BY <2>2
    <3>2. q.op \in Ops \ {"RD_MAC"} /\ q.chs # {}
      BY <2>3
    <3> DEFINE every == -1
    <3>4. every \in Channels(h) \cup {-1}
      BY <1>1
    <3> HIDE DEF e, every
    <3>3. ExecuteMicro(e, h, TRUE, q, every) = ChannelsFast(e, h, q, every)
      BY <2>3, <3>1, <3>2, <3>4, MicroFast
    <3> QED
      BY <3>1, <3>3 DEF e, every
  <2>5. C \X {m} \subseteq left(r) /\ left(r) \ (C \X {m}) = left(s)
    BY <2>1
  <2> HIDE DEF r, left
  <2>6. <<ChannelsFast(f[r], h, q, -1), left(r) \ (cmd.chs \X {m})>> \in R
    BY <2>1, <2>2, <2>3, <2>5, ColumnKept DEF I
  <2>7. <<f[s], left(s)>> \in R
    BY <2>4, <2>5, <2>6
  <2> QED
    BY <2>7
<1>8. SUBSET I \subseteq T
  <2> HIDE DEF T
  <2> QED
    BY <1>5, <1>6, <1>7, EachInduction
<1>9. <<f[I], left(I)>> \in R
  BY <1>8
<1>10. left(I) = {}
  OBVIOUS
<1> QED
  BY <1>4, <1>9, <1>10

\* A command that does not read, as this process executes it.
OnColumns(cmd) == IF Unrolls(cmd) THEN Columns(cmd) ELSE {0}
\* What every micro command of a command keeps, the whole command keeps.
LEMMA ExecuteKept ==
  ASSUME NEW h, Hardware(h), NEW w, Memory(w), NEW cmd \in Cmds(h),
         cmd.op \in Ops \ {"RD_MAC"}, cmd.chs # {}, cmd.col = -1, NEW fast \in BOOLEAN,
         NEW R, Kept(R, h, w, cmd, OnColumns(cmd)),
         NEW d, <<d, cmd.chs \X OnColumns(cmd)>> \in R
  PROVE  <<Execute(d, h, fast, cmd), {}>> \in R
<1>1. d \in Dev(h, w) /\ -1 \in Channels(h) \cup {-1} /\ OneReading(h, cmd)
  BY DEF Kept, OneReading
<1>2. CASE Unrolls(cmd)
  <2>1. Execute(d, h, FALSE, cmd) = ExecuteColumns(d, h, FALSE, cmd, -1)
    BY <1>2 DEF Execute
  <2>2. Execute(d, h, TRUE, cmd) = Execute(d, h, FALSE, cmd)
    BY <1>1, ExecuteAgrees
  <2>3. ExecuteColumns(d, h, TRUE, cmd, -1) = ExecuteColumns(d, h, FALSE, cmd, -1)
    BY <1>1, ColumnsAgree
  <2>4. OnColumns(cmd) = Columns(cmd)
    BY <1>2 DEF OnColumns
  <2>5. <<ExecuteColumns(d, h, TRUE, cmd, -1), {}>> \in R
    <3>1. Kept(R, h, w, cmd, Columns(cmd)) /\ <<d, cmd.chs \X Columns(cmd)>> \in R
      BY <2>4
    <3> QED
      BY <3>1, ColumnsKept
  <2>6. fast = TRUE \/ fast = FALSE
    OBVIOUS
  <2> QED
    BY <2>1, <2>2, <2>3, <2>5, <2>6
<1>3. CASE ~Unrolls(cmd)
  <2>1. Execute(d, h, fast, cmd) = ExecuteMicro(d, h, fast, cmd, -1)
    BY <1>3 DEF Execute, Unrolls
  <2>2. ExecuteMicro(d, h, fast, cmd, -1) = ChannelsFast(d, h, cmd, -1)
    BY <1>1, MicroAll
  <2>3. Col(cmd) = 0
    <3>1. -1 \in Int /\ 0 \in Int
      OBVIOUS
    <3>2. Max({-1, 0}) \in {-1, 0} /\ Max({-1, 0}) >= 0
      BY <3>1, LesserGreater
    <3> QED
      BY <3>2 DEF Col
  <2>4. Micro(cmd, h, cmd, 0) /\ OnColumns(cmd) = {0} /\ 0 \in {0}
    BY <1>3, <2>3 DEF Micro, OnColumns
  <2> DEFINE rem == cmd.chs \X OnColumns(cmd)
  <2>5. rem = cmd.chs \X {0} /\ rem \ (cmd.chs \X {0}) = {} /\ <<d, rem>> \in R
    BY <2>4
  <2>6. Kept(R, h, w, cmd, {0})
    BY <2>4
  <2> HIDE DEF rem
  <2>7. <<ChannelsFast(d, h, cmd, -1), rem \ (cmd.chs \X {0})>> \in R
    BY <2>4, <2>5, <2>6, ColumnKept
  <2> QED
    BY <2>1, <2>2, <2>5, <2>7
<1> QED
  BY <1>2, <1>3

\* A micro command, as it retires.
LEMMA RetireKept ==
  ASSUME NEW h, Hardware(h), NEW w, Memory(w), NEW cmd \in Cmds(h),
         cmd.op \in Ops \ {"RD_MAC"}, cmd.chs # {}, NEW fast \in BOOLEAN,
         NEW cols, NEW R, Kept(R, h, w, cmd, cols),
         NEW d, NEW rem, <<d, rem>> \in R, NEW c \in cmd.chs, NEW col \in cols,
         <<c, col>> \in rem, NEW q, Micro(q, h, cmd, col)
  PROVE  <<ExecuteMicro(d, h, fast, q, c), rem \ {<<c, col>>}>> \in R
<1>1. /\ d \in Dev(h, w) /\ c \in Channels(h) /\ c \in Channels(h) \cup {-1}
      /\ q \in Cmds(h) /\ q.op \in Ops \ {"RD_MAC"} /\ q.chs # {}
  BY DEF Kept, Micro, Cmds
<1>2. ExecuteMicro(d, h, fast, q, c) = ChannelsFast(d, h, q, c)
  BY <1>1, MicroAll
<1>3. ChannelsFast(d, h, q, c) = ChannelFast(d, q, c)
  BY <1>1, OneChannel
<1>4. <<ChannelFast(d, q, c), rem \ {<<c, col>>}>> \in R
  BY DEF Kept
<1> QED
  BY <1>2, <1>3, <1>4

-----------------------------------------------------------------------------
(* What a command does to a channel.                                       *)

\* WR_GB on channel c: one column of its buffer is a register's burst.
LEMMA BufferEffect ==
  ASSUME NEW h, Hardware(h), NEW w, Memory(w), NEW d \in Dev(h, w), NEW q \in Cmds(h),
         q.op = "WR_GB", NEW c \in Channels(h), Col(q) \in 0 .. h.gbCols - 1,
         NEW e, e = ChannelFast(d, q, c)
  PROVE  /\ e \in Dev(h, w) /\ e.gpr = d.gpr /\ e.acc = d.acc
         /\ \A k, col : GbRead(e, k, col) =
              IF k = c /\ col = Col(q) THEN GprRead(d, q.gpr0 + Col(q)) ELSE GbRead(d, k, col)
<1> DEFINE n == Col(q)
           b == GprRead(d, q.gpr0 + n)
<1>1. e = GbWrite(d, c, n, b)
  BY DEF ChannelFast, WrGbFast
<1>2. b \in Burst
  BY ReadTypes
<1>3. <<c, n>> \in DOMAIN d.gb
  BY DEF Dev
<1> HIDE DEF n, b
<1>4. /\ e \in Dev(h, w) /\ e.gpr = d.gpr /\ e.acc = d.acc
      /\ e.gb = [k \in DOMAIN d.gb |-> IF k = <<c, n>> THEN b ELSE d.gb[k]]
  BY <1>1, <1>2, GbWriteFields
<1>5. \A k, col : GbRead(e, k, col) = IF k = c /\ col = n THEN b ELSE GbRead(d, k, col)
  BY <1>3, <1>4 DEF GbRead
<1> QED
  BY <1>4, <1>5 DEF n, b

\* WR_BIAS on channel c: its accumulators are the lanes of a register.
LEMMA BiasEffect ==
  ASSUME NEW h, Hardware(h), NEW w, Memory(w), NEW d \in Dev(h, w), NEW q \in Cmds(h),
         q.op = "WR_BIAS", NEW c \in Channels(h), NEW e, e = ChannelFast(d, q, c)
  PROVE  /\ e \in Dev(h, w) /\ e.gpr = d.gpr /\ e.gb = d.gb
         /\ \A k \in Channels(h) : \A b \in BankIds :
              e.acc[k][b] = IF k = c THEN GprRead(d, q.gpr0)[b] ELSE d.acc[k][b]
<1> DEFINE a == [b \in BankIds |-> GprRead(d, q.gpr0)[b]]
<1>1. e = MacWriteAll(d, c, a)
  BY DEF ChannelFast, WrBiasFast
<1>2. a \in [BankIds -> Int]
  BY ReadTypes, Numbers DEF Burst
<1>3. DOMAIN d.acc = Channels(h)
  BY DEF Dev
<1>4. \A b \in BankIds : a[b] = GprRead(d, q.gpr0)[b]
  OBVIOUS
<1> HIDE DEF a
<1>5. /\ e \in Dev(h, w) /\ e.gpr = d.gpr /\ e.gb = d.gb
      /\ e.acc = [k \in DOMAIN d.acc |-> IF k = c THEN a ELSE d.acc[k]]
  BY <1>1, <1>2, MacWriteAllFields
<1> QED
  BY <1>3, <1>4, <1>5

\* MAC_ABK on channel c: each bank adds the dot product of its burst and the column.
LEMMA MacEffect ==
  ASSUME NEW h, Hardware(h), NEW w, Memory(w), NEW d \in Dev(h, w), NEW q \in Cmds(h),
         q.op = "MAC_ABK", NEW c \in Channels(h), NEW e, e = ChannelFast(d, q, c)
  PROVE  /\ e \in Dev(h, w) /\ e.gpr = d.gpr /\ e.gb = d.gb
         /\ \A k \in Channels(h) : \A b \in BankIds :
              e.acc[k][b] = IF k = c
                            THEN d.acc[k][b] + BurstDot(DramRead(d, c, b, q.row, Col(q)),
                                                        GbRead(d, c, Col(q)))
                            ELSE d.acc[k][b]
<1> DEFINE x == GbRead(d, c, Col(q))
           a == MacCol(d, c, q.row, Col(q), d.acc[c], x)
<1>1. e = MacWriteAll(d, c, a)
  BY DEF ChannelFast, MacAbkFast
<1>2. a \in [BankIds -> Int]
  <2>1. x \in Burst /\ d.acc[c] \in [BankIds -> Int]
    BY ReadTypes DEF Dev
  <2> HIDE DEF x
  <2> QED
    BY <2>1, MacColType
<1>3. DOMAIN d.acc = Channels(h)
  BY DEF Dev
<1>4. \A b \in BankIds : a[b] = d.acc[c][b] + BurstDot(DramRead(d, c, b, q.row, Col(q)), x)
  BY DEF MacCol
<1> HIDE DEF a, x
<1>5. /\ e \in Dev(h, w) /\ e.gpr = d.gpr /\ e.gb = d.gb
      /\ e.acc = [k \in DOMAIN d.acc |-> IF k = c THEN a ELSE d.acc[k]]
  BY <1>1, <1>2, MacWriteAllFields
<1> QED
  BY <1>3, <1>4, <1>5 DEF x

\* RD_MAC: a register holds the accumulators of the channel.
LEMMA ReadEffect ==
  ASSUME NEW h, Hardware(h), NEW w, Memory(w), NEW d \in Dev(h, w), NEW q \in Cmds(h),
         q.gpr0 \in 0 .. h.gprs - 1, NEW ch, NEW c \in Channels(h), ChannelsOf(h, q, ch) = {c},
         NEW e, e = RdMacFast(d, h, q, ch)
  PROVE  /\ e \in Dev(h, w) /\ e.gb = d.gb /\ e.acc = d.acc
         /\ \A i : i # q.gpr0 => GprRead(e, i) = GprRead(d, i)
         /\ \A b \in BankIds : GprRead(e, q.gpr0)[b] = d.acc[c][b]
<1> DEFINE n == q.gpr0
           v == [l \in LaneIds |-> IF l \in BankIds THEN d.acc[c][l] ELSE GprRead(d, n)[l]]
<1>1. ReadChannel(h, q, ch) = c
  <2>1. Min({c}) = c
    <3>1. c \in Int
      BY DEF Channels
    <3>2. Min({c, c}) \in {c, c}
      BY <3>1, LesserGreater
    <3>3. {c, c} = {c}
      OBVIOUS
    <3> QED
      BY <3>2, <3>3
  <2> QED
    BY <2>1 DEF ReadChannel
<1>2. e = GprWrite(d, n, v)
  BY <1>1 DEF RdMacFast
<1>3. v \in Burst
  <2>1. d.acc[c] \in [BankIds -> Int] /\ GprRead(d, n) \in Burst
    BY ReadTypes DEF Dev
  <2> HIDE DEF n
  <2> QED
    BY <2>1 DEF Burst
<1>4. \A b \in BankIds : v[b] = d.acc[c][b]
  BY Numbers
<1>5. n \in DOMAIN d.gpr
  BY DEF Dev
<1> HIDE DEF n, v
<1>6. /\ e \in Dev(h, w) /\ e.gb = d.gb /\ e.acc = d.acc
      /\ e.gpr = [k \in DOMAIN d.gpr |-> IF k = n THEN v ELSE d.gpr[k]]
  BY <1>2, <1>3, GprWriteFields
<1>7. GprRead(e, n) = v /\ \A i : i # n => GprRead(e, i) = GprRead(d, i)
  BY <1>5, <1>6 DEF GprRead
<1> QED
  BY <1>4, <1>6, <1>7 DEF n

-----------------------------------------------------------------------------
(* The device while a plan is fired.                                       *)

\* The burst of x in a column, an output's dot product, what each column gives
\* to it, and the channel that computes it.
Input(col) == ActivationBurst(X[call.n][0], mat.nIn, col)
DotOf(o) == DotRange(W[call.m][o], X[call.n][0], 0, mat.nIn)
ColDot(o) == [col \in 0 .. NCols - 1 |->
                BurstDot(ActivationBurst(W[call.m][o], mat.nIn, col), Input(col))]
ChOf(o) == hw.pim[PlaceOf(o) + 1]
ColsLeft(ch, rem) == {col \in 0 .. NCols - 1 : <<ch, col>> \in rem}

\* The registers have x and the zero; the buffers have x, the accumulators zeros
\* or the sums of the columns, except what is left to be done.
Loaded(d) ==
  /\ \A col \in 0 .. NCols - 1 : GprRead(d, col) = Input(col)
  /\ GprRead(d, NCols) = ZeroBurst
Buffered(d, rem) ==
  \A ch \in ToSet(hw.pim), col \in 0 .. NCols - 1 :
    <<ch, col>> \notin rem => GbRead(d, ch, col) = Input(col)
Cleared(d, rem) ==
  \A ch \in ToSet(hw.pim), b \in BankIds : <<ch, 0>> \notin rem => d.acc[ch][b] = 0
Summed(d, w, rem) ==
  \A o \in 0 .. mat.nOut - 1 : WaveOf(o) = w =>
    d.acc[ChOf(o)][o % Banks] + SumOver(ColDot(o), ColsLeft(ChOf(o), rem)) = DotOf(o)

\* The accumulators of a wave are its outputs' dot products; the first i
\* channels' have been read.
Computed(d, w) ==
  \A o \in 0 .. mat.nOut - 1 : WaveOf(o) = w => d.acc[ChOf(o)][o % Banks] = DotOf(o)
Taken(d, w, i) ==
  \A o \in 0 .. mat.nOut - 1 : WaveOf(o) = w /\ PlaceOf(o) < i =>
    GprRead(d, NCols + 1 + PlaceOf(o))[o % Banks] = DotOf(o)

\* A call whose plan is fired: it fits, and its weights have rows.
Fired ==
  /\ CallInv /\ DeviceInv /\ call.ph # "idle" /\ call.nTok = 1
  /\ mat.nOut > 0 /\ mat.nIn > 0 /\ Fits /\ rowBase[call.m] >= 0

\* The numbers of a plan that is being fired.
LEMMA FiredFacts ==
  ASSUME Fired
  PROVE  /\ Hardware(hw) /\ conf.fast \in BOOLEAN /\ call.m \in Mats
         /\ mat.nOut \in Nat /\ mat.nIn \in Nat /\ NCols \in Nat \ {0} /\ NWaves \in Nat \ {0}
         /\ NCols <= hw.gbCols /\ NCols + 8 < hw.gprs /\ hw.gprs \in Nat /\ hw.gbCols \in Nat
         /\ rowBase[call.m] \in Int
<1>1. call.m \in Mats /\ CallInv /\ DeviceInv
  BY DEF Fired, CallInv
<1>2. Hardware(hw) /\ conf.fast \in BOOLEAN /\ Len(hw.pim) \in Nat \ {0}
  BY <1>1, HardwareFacts, LenProperties
<1>3. mat.nOut \in Nat /\ mat.nIn \in Nat /\ mat.nOut > 0 /\ mat.nIn > 0
  BY <1>1, MatrixFacts DEF Fired
<1>4. NCols \in Nat \ {0}
  <2>1. Lanes \in Nat \ {0} /\ mat.nIn \in Nat \ {0}
    BY <1>3, DeviceAssumption
  <2> DEFINE n == mat.nIn
             C == Ceil(n, Lanes)
  <2>2. n \in Nat /\ 0 \in 0 .. n - 1
    BY <2>1
  <2> HIDE DEF n
  <2>3. C \in Nat /\ \A i \in 0 .. n - 1 : i \div Lanes \in 0 .. C - 1
    BY <2>1, <2>2, CeilFacts
  <2> HIDE DEF C
  <2>4. C \in Nat \ {0}
    BY <2>2, <2>3
  <2> QED
    BY <2>4 DEF NCols, C, n
<1>5. NWaves \in Nat \ {0}
  <2>1. WaveOf(0) \in 0 .. NWaves - 1 /\ 0 \in 0 .. mat.nOut - 1
    BY <1>2, <1>3, OutputFacts
  <2>2. NWaves \in Nat
    BY <1>1, WavesFacts DEF Waves, NWaves, mat
  <2> QED
    BY <2>1, <2>2
<1>6. rowBase[call.m] \in Int
  BY <1>1 DEF DeviceInv
<1>7. NCols <= hw.gbCols /\ NCols + 8 < hw.gprs /\ hw.gprs \in Nat /\ hw.gbCols \in Nat
  BY <1>2 DEF Fired, Fits, Hardware
<1> QED
  BY <1>1, <1>2, <1>3, <1>4, <1>5, <1>6, <1>7

\* The channels of the call: they are of the hardware, no more than eight, and
\* each has one place.
LEMMA ChannelPlaces ==
  ASSUME Fired
  PROVE  /\ Len(hw.pim) \in 1 .. 8 /\ ToSet(hw.pim) \in SUBSET Channels(hw) /\ ToSet(hw.pim) # {}
         /\ \A i \in 1 .. Len(hw.pim) : hw.pim[i] \in ToSet(hw.pim) /\ hw.pim[i] \in Channels(hw)
         /\ \A i, j \in 1 .. Len(hw.pim) : hw.pim[i] = hw.pim[j] => i = j
         /\ hw.pim[1] = 0 /\ Last(hw.pim) = hw.pim[Len(hw.pim)]
<1>1. CallInv
  BY DEF Fired
<1>2. /\ Len(hw.pim) \in Nat /\ Len(hw.pim) # 0 /\ DOMAIN hw.pim = 1 .. Len(hw.pim)
      /\ ToSet(hw.pim) \in SUBSET Channels(hw) /\ ToSet(hw.pim) # {}
      /\ \A i \in DOMAIN hw.pim : hw.pim[i] \in Channels(hw)
  BY <1>1, HardwareFacts, LenProperties
<1>3. Rising(hw) /\ hw.pim[1] = 0 /\ Len(hw.pim) <= 8
  BY <1>1, HardwareRises
<1>4. \A i \in 1 .. Len(hw.pim) : hw.pim[i] \in ToSet(hw.pim)
  BY <1>2 DEF ToSet
<1>5. \A i, j \in 1 .. Len(hw.pim) : hw.pim[i] = hw.pim[j] => i = j
  BY <1>2, <1>3 DEF Rising, Channels
<1>6. Len(hw.pim) \in 1 .. 8
  <2> DEFINE n == Len(hw.pim)
  <2>1. n \in Nat /\ n # 0 /\ n <= 8
    BY <1>2, <1>3
  <2> HIDE DEF n
  <2>2. n \in 1 .. 8
    BY <2>1
  <2> QED
    BY <2>2 DEF n
<1>7. Last(hw.pim) = hw.pim[Len(hw.pim)]
  BY DEF Last
<1> QED
  BY <1>2, <1>3, <1>4, <1>5, <1>6, <1>7

\* An output has a channel and a bank; its columns add up to its dot product.
LEMMA OutputSums ==
  ASSUME Fired, NEW o \in 0 .. mat.nOut - 1
  PROVE  /\ PlaceOf(o) \in 0 .. Len(hw.pim) - 1 /\ ChOf(o) \in ToSet(hw.pim)
         /\ ChOf(o) \in Channels(hw) /\ o % Banks \in BankIds /\ WaveOf(o) \in 0 .. NWaves - 1
         /\ SumOver(ColDot(o), 0 .. NCols - 1) = DotOf(o) /\ DotOf(o) \in Int
         /\ \A col \in 0 .. NCols - 1 : ColDot(o)[col] \in Int
<1>1. /\ mat.nOut \in Nat /\ mat.nIn \in Nat /\ Len(hw.pim) \in Nat \ {0} /\ call.m \in Mats
  BY FiredFacts, ChannelPlaces
<1>2. /\ PlaceOf(o) \in 0 .. Len(hw.pim) - 1 /\ o % Banks \in BankIds
      /\ WaveOf(o) \in 0 .. NWaves - 1
  BY <1>1, OutputFacts
<1>3. PlaceOf(o) + 1 \in 1 .. Len(hw.pim)
  BY <1>1, <1>2
<1>4. ChOf(o) \in ToSet(hw.pim) /\ ChOf(o) \in Channels(hw)
  BY <1>3, ChannelPlaces DEF ChOf
<1>5. Vectors(W[call.m][o], X[call.n][0], mat.nIn)
  <2>1. <<0, o>> \in Area /\ <<0, o>>[1] = 0 /\ <<0, o>>[2] = o
    BY JobFacts DEF Fired
  <2> QED
    BY <2>1, JobFacts DEF Fired
<1> DEFINE v == ColDot(o)
           n == mat.nIn
           a == W[call.m][o]
           x == X[call.n][0]
<1>6. \A col \in 0 .. Ceil(n, Lanes) - 1 :
        v[col] = BurstDot(ActivationBurst(a, n, col), ActivationBurst(x, n, col))
  BY DEF ColDot, Input, NCols
<1>7. n \in Nat /\ Vectors(a, x, n)
  BY <1>1, <1>5
<1> HIDE DEF v, n, a, x
<1>8. /\ SumOver(v, 0 .. Ceil(n, Lanes) - 1) = DotRange(a, x, 0, n)
      /\ DotRange(a, x, 0, n) \in Int
      /\ \A col \in 0 .. Ceil(n, Lanes) - 1 : v[col] \in Int
  BY <1>6, <1>7, ColumnsAreDot
<1> QED
  BY <1>2, <1>4, <1>8 DEF v, n, a, x, NCols, DotOf

\* Devices with banks u and what is left to be done.
InRounds(u) == Dev(hw, u) \X SUBSET (Channels(hw) \X Nat)
InBuffer(u) == {r \in InRounds(u) : Loaded(r[1]) /\ Buffered(r[1], r[2])}
InBias(u) == {r \in InRounds(u) : Loaded(r[1]) /\ Buffered(r[1], {}) /\ Cleared(r[1], r[2])}
InMac(u, w) == {r \in InRounds(u) : Loaded(r[1]) /\ Buffered(r[1], {}) /\ Summed(r[1], w, r[2])}

\* What does not touch the registers leaves x in them.
LEMMA LoadedSame ==
  ASSUME NEW d, NEW e, e.gpr = d.gpr
  PROVE  Loaded(e) = Loaded(d) /\ \A i : GprRead(e, i) = GprRead(d, i)
<1>1. \A i : GprRead(e, i) = GprRead(d, i)
  BY DEF GprRead
<1> QED
  BY <1>1 DEF Loaded

\* What does not touch the buffers leaves x in them.
LEMMA BufferedSame ==
  ASSUME NEW d, NEW e, e.gb = d.gb, NEW rem
  PROVE  Buffered(e, rem) = Buffered(d, rem) /\ \A c, col : GbRead(e, c, col) = GbRead(d, c, col)
<1>1. \A c, col : GbRead(e, c, col) = GbRead(d, c, col)
  BY DEF GbRead
<1> QED
  BY <1>1 DEF Buffered

\* WR_GB: x is written to the buffers.
LEMMA BufferKept ==
  ASSUME Fired, NEW u, Memory(u)
  PROVE  Kept(InBuffer(u), hw, u, BufferOrder, 0 .. NCols - 1)
<1>1. ASSUME NEW d, NEW rem, NEW c, NEW col, NEW q, <<d, rem>> \in InBuffer(u),
             c \in BufferOrder.chs, col \in 0 .. NCols - 1, <<c, col>> \in rem,
             Micro(q, hw, BufferOrder, col)
      PROVE  <<ChannelFast(d, q, c), rem \ {<<c, col>>}>> \in InBuffer(u)
  <2> DEFINE e == ChannelFast(d, q, c)
  <2>1. d \in Dev(hw, u) /\ rem \in SUBSET (Channels(hw) \X Nat) /\ Loaded(d) /\ Buffered(d, rem)
    BY <1>1 DEF InBuffer, InRounds
  <2>2. /\ q \in Cmds(hw) /\ q.op = "WR_GB" /\ q.gpr0 = 0 /\ Col(q) = col
        /\ c \in ToSet(hw.pim) /\ c \in Channels(hw)
    BY <1>1, ChannelPlaces DEF Micro, BufferOrder, Cmd
  <2>3. Col(q) \in 0 .. hw.gbCols - 1 /\ q.gpr0 + Col(q) = col /\ Hardware(hw)
    BY <1>1, <2>2, FiredFacts
  <2>4. /\ e \in Dev(hw, u) /\ e.gpr = d.gpr
        /\ \A k, l : GbRead(e, k, l) = IF k = c /\ l = Col(q) THEN GprRead(d, q.gpr0 + Col(q))
                                       ELSE GbRead(d, k, l)
    BY <2>1, <2>2, <2>3, BufferEffect
  <2>5. GprRead(d, col) = Input(col)
    BY <1>1, <2>1 DEF Loaded
  <2> HIDE DEF e
  <2>6. Loaded(e)
    BY <2>1, <2>4, LoadedSame
  <2>7. Buffered(e, rem \ {<<c, col>>})
    <3> SUFFICES ASSUME NEW k \in ToSet(hw.pim), NEW l \in 0 .. NCols - 1,
                        <<k, l>> \notin rem \ {<<c, col>>}
                 PROVE  GbRead(e, k, l) = Input(l)
      BY DEF Buffered
    <3>1. CASE k = c /\ l = col
      BY <2>2, <2>3, <2>4, <2>5, <3>1
    <3>2. CASE ~(k = c /\ l = col)
      BY <2>1, <2>2, <2>4, <3>2 DEF Buffered
    <3> QED
      BY <3>1, <3>2
  <2> QED
    BY <2>1, <2>4, <2>6, <2>7 DEF InBuffer, InRounds, e
<1>2. InBuffer(u) \subseteq Dev(hw, u) \X SUBSET (Channels(hw) \X Nat)
  BY DEF InBuffer, InRounds
<1> QED
  BY <1>1, <1>2 DEF Kept

\* WR_BIAS: the zero register is written to the accumulators.
LEMMA BiasKept ==
  ASSUME Fired, NEW u, Memory(u)
  PROVE  Kept(InBias(u), hw, u, BiasOrder, {0})
<1>1. ASSUME NEW d, NEW rem, NEW c, NEW col, NEW q, <<d, rem>> \in InBias(u),
             c \in BiasOrder.chs, col \in {0}, <<c, col>> \in rem,
             Micro(q, hw, BiasOrder, col)
      PROVE  <<ChannelFast(d, q, c), rem \ {<<c, col>>}>> \in InBias(u)
  <2> DEFINE e == ChannelFast(d, q, c)
  <2>1. /\ d \in Dev(hw, u) /\ rem \in SUBSET (Channels(hw) \X Nat)
        /\ Loaded(d) /\ Buffered(d, {}) /\ Cleared(d, rem)
    BY <1>1 DEF InBias, InRounds
  <2>2. /\ q \in Cmds(hw) /\ q.op = "WR_BIAS" /\ q.gpr0 = NCols /\ col = 0
        /\ c \in ToSet(hw.pim) /\ c \in Channels(hw) /\ Hardware(hw)
    BY <1>1, ChannelPlaces, FiredFacts DEF Micro, BiasOrder, Cmd
  <2>3. /\ e \in Dev(hw, u) /\ e.gpr = d.gpr /\ e.gb = d.gb
        /\ \A k \in Channels(hw) : \A b \in BankIds :
             e.acc[k][b] = IF k = c THEN GprRead(d, q.gpr0)[b] ELSE d.acc[k][b]
    BY <2>1, <2>2, BiasEffect
  <2>4. \A b \in BankIds : GprRead(d, q.gpr0)[b] = 0
    <3>1. GprRead(d, q.gpr0) = ZeroBurst
      BY <2>1, <2>2 DEF Loaded
    <3> QED
      BY <3>1, Numbers DEF ZeroBurst
  <2> HIDE DEF e
  <2>5. Loaded(e) /\ Buffered(e, {})
    BY <2>1, <2>3, LoadedSame, BufferedSame
  <2>6. Cleared(e, rem \ {<<c, col>>})
    <3> SUFFICES ASSUME NEW k \in ToSet(hw.pim), NEW b \in BankIds,
                        <<k, 0>> \notin rem \ {<<c, col>>}
                 PROVE  e.acc[k][b] = 0
      BY DEF Cleared
    <3>1. k \in Channels(hw)
      BY ChannelPlaces
    <3>2. CASE k = c
      BY <2>3, <2>4, <3>1, <3>2
    <3>3. CASE k # c
      BY <2>1, <2>2, <2>3, <3>1, <3>3 DEF Cleared
    <3> QED
      BY <3>2, <3>3
  <2> QED
    BY <2>1, <2>3, <2>5, <2>6 DEF InBias, InRounds, e
<1>2. InBias(u) \subseteq Dev(hw, u) \X SUBSET (Channels(hw) \X Nat)
  BY DEF InBias, InRounds
<1> QED
  BY <1>1, <1>2 DEF Kept

\* The banks have the weights of the call.
InBanks(u) == Memory(u) /\ \A d \in Dev(hw, u) : Placed(d, call.m)

\* The burst of an output's weights in a column.
LEMMA PlacedBurst ==
  ASSUME Fired, NEW d, Placed(d, call.m), NEW o \in 0 .. mat.nOut - 1, NEW col \in 0 .. NCols - 1
  PROVE  DramRead(d, ChOf(o), o % Banks, rowBase[call.m] + WaveOf(o), col)
           = ActivationBurst(W[call.m][o], mat.nIn, col)
<1>1. PlaceOf(o) \in Int /\ WaveOf(o) \in Int /\ rowBase[call.m] \in Int
  BY OutputSums, FiredFacts
<1>2. DramRead(d, hw.pim[1 + ((o \div Banks) % Len(hw.pim))], o % Banks,
               ((o \div Banks) \div Len(hw.pim)) + rowBase[call.m], col)
        = ActivationBurst(W[call.m][o], mat.nIn, col)
  BY DEF Placed, InRows, NCols, mat
<1>3. /\ ChOf(o) = hw.pim[1 + ((o \div Banks) % Len(hw.pim))]
      /\ rowBase[call.m] + WaveOf(o) = ((o \div Banks) \div Len(hw.pim)) + rowBase[call.m]
  BY <1>1 DEF ChOf, PlaceOf, WaveOf, GroupOf
<1> QED
  BY <1>2, <1>3

\* MAC_ABK: a column's products are added to the accumulators.
LEMMA MacKept ==
  ASSUME Fired, NEW u, InBanks(u), NEW w
  PROVE  Kept(InMac(u, w), hw, u, MacOrder(w), 0 .. NCols - 1)
<1>1. ASSUME NEW d, NEW rem, NEW c, NEW col, NEW q, <<d, rem>> \in InMac(u, w),
             c \in MacOrder(w).chs, col \in 0 .. NCols - 1, <<c, col>> \in rem,
             Micro(q, hw, MacOrder(w), col)
      PROVE  <<ChannelFast(d, q, c), rem \ {<<c, col>>}>> \in InMac(u, w)
  <2> DEFINE e == ChannelFast(d, q, c)
             less == rem \ {<<c, col>>}
  <2>1. /\ d \in Dev(hw, u) /\ rem \in SUBSET (Channels(hw) \X Nat)
        /\ Loaded(d) /\ Buffered(d, {}) /\ Summed(d, w, rem)
    BY <1>1 DEF InMac, InRounds
  <2>2. /\ q \in Cmds(hw) /\ q.op = "MAC_ABK" /\ q.row = rowBase[call.m] + w /\ Col(q) = col
        /\ c \in ToSet(hw.pim) /\ c \in Channels(hw) /\ Hardware(hw)
    BY <1>1, ChannelPlaces, FiredFacts DEF Micro, MacOrder, Cmd
  <2>3. /\ e \in Dev(hw, u) /\ e.gpr = d.gpr /\ e.gb = d.gb
        /\ \A k \in Channels(hw) : \A b \in BankIds :
             e.acc[k][b] = IF k = c
                           THEN d.acc[k][b] + BurstDot(DramRead(d, c, b, q.row, Col(q)),
                                                       GbRead(d, c, Col(q)))
                           ELSE d.acc[k][b]
    <3>1. Memory(u)
      BY DEF InBanks
    <3> QED
      BY <2>1, <2>2, <3>1, MacEffect
  <2> HIDE DEF e
  <2>4. Loaded(e) /\ Buffered(e, {})
    BY <2>1, <2>3, LoadedSame, BufferedSame
  <2>5. GbRead(d, c, col) = Input(col)
    BY <1>1, <2>1, <2>2 DEF Buffered
  <2>6. ASSUME NEW o \in 0 .. mat.nOut - 1, WaveOf(o) = w
        PROVE  e.acc[ChOf(o)][o % Banks] + SumOver(ColDot(o), ColsLeft(ChOf(o), less)) = DotOf(o)
    <3> DEFINE k == ChOf(o)
               b == o % Banks
               v == ColDot(o)
    <3>1. k \in Channels(hw) /\ b \in BankIds /\ \A l \in 0 .. NCols - 1 : v[l] \in Int
      BY OutputSums
    <3>2. d.acc[k][b] + SumOver(v, ColsLeft(k, rem)) = DotOf(o)
      BY <2>1, <2>6 DEF Summed
    <3>3. CASE k # c
      <4>1. ColsLeft(k, less) = ColsLeft(k, rem)
        BY <3>3 DEF ColsLeft
      <4>2. e.acc[k][b] = d.acc[k][b]
        BY <2>3, <3>1, <3>3
      <4> QED
        BY <3>2, <4>1, <4>2
    <3>4. CASE k = c
      <4>1. col \in ColsLeft(k, rem) /\ ColsLeft(k, less) = ColsLeft(k, rem) \ {col}
        BY <1>1, <3>4 DEF ColsLeft
      <4>2. e.acc[k][b] = d.acc[k][b] + v[col]
        <5>1. Placed(d, call.m)
          BY <2>1 DEF InBanks
        <5>2. DramRead(d, c, b, q.row, col) = ActivationBurst(W[call.m][o], mat.nIn, col)
          BY <1>1, <2>2, <2>6, <3>4, <5>1, PlacedBurst
        <5>3. v[col] = BurstDot(DramRead(d, c, b, q.row, col), Input(col))
          BY <1>1, <5>2 DEF ColDot
        <5> HIDE DEF k, b, v
        <5> QED
          BY <2>2, <2>3, <2>5, <3>1, <3>4, <5>3
      <4> DEFINE s == ColsLeft(k, rem)
                 J == 0 .. NCols - 1
      <4>3. s \in SUBSET J /\ Bounded(J)
        <5>1. s \in SUBSET J
          BY DEF ColsLeft
        <5>2. NCols \in Nat
          BY FiredFacts
        <5>3. J \in SUBSET (0 .. NCols)
          BY <5>2
        <5> QED
          BY <5>1, <5>2, <5>3 DEF Bounded
      <4>4. SumOver(v, s) = SumOver(v, s \ {col}) + v[col] /\ SumOver(v, s \ {col}) \in Int
        <5>1. s \ {col} \in SUBSET J /\ col \in s /\ \A l \in J : v[l] \in Int
          BY <3>1, <4>1, <4>3
        <5> HIDE DEF v, s, J
        <5> QED
          BY <4>3, <5>1, SumFacts
      <4>5. d.acc[k][b] \in Int /\ v[col] \in Int
        <5>1. d.acc \in [Channels(hw) -> [BankIds -> Int]]
          BY <2>1 DEF Dev
        <5> HIDE DEF v, b, k
        <5> QED
          BY <1>1, <3>1, <5>1
      <4> DEFINE t == SumOver(v, s \ {col})
                 a == d.acc[k][b]
                 f == v[col]
      <4>6. a + (t + f) = DotOf(o) /\ e.acc[k][b] = a + f /\ SumOver(v, ColsLeft(k, less)) = t
        BY <3>2, <4>1, <4>2, <4>4
      <4>7. a \in Int /\ t \in Int /\ f \in Int
        BY <4>4, <4>5
      <4> HIDE DEF t, a, f, v, k, b
      <4>8. (a + f) + t = DotOf(o)
        BY <4>6, <4>7
      <4> QED
        BY <4>6, <4>8 DEF k, v, b
    <3> QED
      BY <3>3, <3>4
  <2>7. Summed(e, w, less)
    BY <2>6 DEF Summed
  <2> QED
    BY <2>1, <2>3, <2>4, <2>7 DEF InMac, InRounds, e
<1>2. InMac(u, w) \subseteq Dev(hw, u) \X SUBSET (Channels(hw) \X Nat)
  BY DEF InMac, InRounds
<1> QED
  BY <1>1, <1>2 DEF Kept

\* A wave's dot products are in the accumulators; i channels have been read.
Reading(d, w, i) == Loaded(d) /\ Buffered(d, {}) /\ Computed(d, w) /\ Taken(d, w, i)

\* RD_MAC takes the next channel's accumulators into a register of their own.
LEMMA ReadStep ==
  ASSUME Fired, NEW u, Memory(u), NEW d \in Dev(hw, u), NEW w,
         NEW i \in 1 .. Len(hw.pim), Reading(d, w, i - 1),
         NEW q \in Cmds(hw), q.gpr0 = NCols + i, NEW ch, ChannelsOf(hw, q, ch) = {hw.pim[i]},
         NEW e, e = RdMacFast(d, hw, q, ch)
  PROVE  e \in Dev(hw, u) /\ Reading(e, w, i)
<1> DEFINE c == hw.pim[i]
<1>1. /\ NCols \in Nat /\ Len(hw.pim) \in 1 .. 8 /\ c \in Channels(hw)
      /\ NCols + 8 < hw.gprs /\ hw.gprs \in Nat /\ Hardware(hw)
  BY FiredFacts, ChannelPlaces
<1>2. q.gpr0 \in 0 .. hw.gprs - 1
  <2> DEFINE n == q.gpr0
             r == hw.gprs
  <2>1. n = NCols + i /\ NCols + 8 < r /\ r \in Nat /\ NCols \in Nat /\ i \in Nat /\ i <= 8
    BY SMTT(30), <1>1
  <2> HIDE DEF n, r
  <2>2. n \in 0 .. r - 1
    BY <2>1
  <2> QED
    BY <2>2 DEF n, r
<1>7. ChannelsOf(hw, q, ch) = {c} /\ Hardware(hw) /\ c \in Channels(hw)
  BY <1>1
<1> HIDE DEF c
<1>3. /\ e \in Dev(hw, u) /\ e.gb = d.gb /\ e.acc = d.acc
      /\ \A k : k # q.gpr0 => GprRead(e, k) = GprRead(d, k)
      /\ \A b \in BankIds : GprRead(e, q.gpr0)[b] = d.acc[c][b]
  BY <1>2, <1>7, ReadEffect
<1>4. Loaded(e)
  <2>1. \A col \in 0 .. NCols : col # NCols + i
    BY <1>1
  <2>2. \A col \in 0 .. NCols : GprRead(e, col) = GprRead(d, col)
    BY <1>3, <2>1
  <2>3. NCols \in 0 .. NCols /\ \A col \in 0 .. NCols - 1 : col \in 0 .. NCols
    BY <1>1
  <2>4. Loaded(d)
    BY DEF Reading
  <2> QED
    BY <2>2, <2>3, <2>4 DEF Loaded
<1>5. Buffered(e, {}) /\ Computed(e, w)
  <2>1. Buffered(d, {}) /\ Computed(d, w)
    BY DEF Reading
  <2> QED
    BY <1>3, <2>1, BufferedSame DEF Computed
<1>6. ASSUME NEW o \in 0 .. mat.nOut - 1, WaveOf(o) = w, PlaceOf(o) < i
      PROVE  GprRead(e, NCols + 1 + PlaceOf(o))[o % Banks] = DotOf(o)
  <2> DEFINE p == PlaceOf(o)
             b == o % Banks
  <2>1. p \in 0 .. Len(hw.pim) - 1 /\ b \in BankIds
    BY OutputSums
  <2>2. /\ Taken(d, w, i - 1) /\ Computed(d, w)
        /\ p < i - 1 => GprRead(d, NCols + 1 + p)[b] = DotOf(o)
        /\ d.acc[hw.pim[p + 1]][b] = DotOf(o)
    BY <1>6 DEF Reading, Taken, Computed, ChOf
  <2>3. p < i
    BY <1>6
  <2> HIDE DEF p, b
  <2>4. CASE p < i - 1
    <3>1. NCols + 1 + p # NCols + i
      BY <1>1, <2>1, <2>4
    <3> QED
      BY <1>3, <2>2, <2>4, <3>1 DEF p, b
  <2>5. CASE ~(p < i - 1)
    <3>1. p + 1 = i /\ NCols + 1 + p = NCols + i
      BY <1>1, <2>1, <2>3, <2>5
    <3> QED
      BY <1>3, <2>1, <2>2, <3>1 DEF p, b, c
  <2> QED
    BY <2>4, <2>5
<1> QED
  BY <1>3, <1>4, <1>5, <1>6 DEF Reading, Taken

\* The orders of the plan, as commands.
LEMMA OrderFacts ==
  ASSUME Fired
  PROVE  /\ BufferOrder \in Cmds(hw) /\ BiasOrder \in Cmds(hw)
         /\ \A w \in Int : MacOrder(w) \in Cmds(hw)
         /\ \A i \in 1 .. Len(hw.pim) : ReadOrder(i) \in Cmds(hw)
         /\ OnColumns(BufferOrder) = 0 .. NCols - 1 /\ OnColumns(BiasOrder) = {0}
         /\ \A w : OnColumns(MacOrder(w)) = 0 .. NCols - 1
<1>1. NCols \in Nat \ {0} /\ rowBase[call.m] \in Int /\ CallInv /\ Len(hw.pim) \in 1 .. 8
  BY FiredFacts, ChannelPlaces DEF Fired
<1>2. DOMAIN hw.pim = 1 .. Len(hw.pim)
  BY <1>1, HardwareFacts
<1>3. -1 \in Int /\ 0 \in Int /\ NCols \in Int
  BY <1>1
<1>4. BufferOrder \in Cmds(hw) /\ BiasOrder \in Cmds(hw)
  BY <1>1, <1>3, CmdIsOrder DEF BufferOrder, BiasOrder, Orders
<1>5. ASSUME NEW w \in Int PROVE MacOrder(w) \in Cmds(hw)
  <2>1. rowBase[call.m] + w \in Int
    BY <1>1
  <2> QED
    BY <1>1, <1>3, <2>1, CmdIsOrder DEF MacOrder, Orders
<1>6. ASSUME NEW i \in 1 .. Len(hw.pim) PROVE ReadOrder(i) \in Cmds(hw)
  <2>1. NCols + i \in Int
    BY <1>1
  <2> QED
    BY <1>1, <1>2, <1>3, <2>1, CmdIsOrder DEF ReadOrder, Orders
<1>7. 0 .. Max({NCols, 1}) - 1 = 0 .. NCols - 1
  <2>1. Max({NCols, 1}) \in {NCols, 1} /\ Max({NCols, 1}) >= NCols
    <3>1. NCols \in Int /\ 1 \in Int
      BY <1>1
    <3> QED
      BY <3>1, LesserGreater
  <2> QED
    BY <1>1, <2>1
<1>8. OnColumns(BufferOrder) = 0 .. NCols - 1
  BY <1>7 DEF OnColumns, Unrolls, Columns, BufferOrder, Cmd
<1>9. ASSUME NEW w PROVE OnColumns(MacOrder(w)) = 0 .. NCols - 1
  BY <1>7 DEF OnColumns, Unrolls, Columns, MacOrder, Cmd
<1>10. OnColumns(BiasOrder) = {0}
  BY DEF OnColumns, Unrolls, BiasOrder, Cmd
<1> QED
  BY <1>4, <1>5, <1>6, <1>8, <1>9, <1>10

\* RD_MAC, as this process executes it and as it retires.
LEMMA ReadDone ==
  ASSUME Fired, NEW u, Memory(u), NEW d \in Dev(hw, u), NEW w,
         NEW i \in 1 .. Len(hw.pim), Reading(d, w, i - 1), NEW fast \in BOOLEAN
  PROVE  /\ Execute(d, hw, fast, ReadOrder(i)) \in Dev(hw, u)
         /\ Reading(Execute(d, hw, fast, ReadOrder(i)), w, i)
<1> DEFINE q == ReadOrder(i)
           c == hw.pim[i]
           e == RdMacFast(d, hw, q, -1)
<1>1. q \in Cmds(hw) /\ Hardware(hw) /\ c \in Channels(hw)
  BY OrderFacts, FiredFacts, ChannelPlaces
<1>2. q.op = "RD_MAC" /\ q.gpr0 = NCols + i /\ q.chs = {c} /\ q.col = -1
  BY DEF ReadOrder, Cmd
<1> HIDE DEF q, c
<1>3. -1 \in Channels(hw) \cup {-1} /\ ChannelsOf(hw, q, -1) = {c}
  <2>1. q.chs # {} /\ -1 \in Channels(hw) \cup {-1}
    BY <1>2
  <2>2. /\ q.chs # {} => ChannelsOf(hw, q, -1) = Masked(hw, q, -1)
        /\ -1 = -1 => Masked(hw, q, -1) = q.chs
    BY <1>1, <2>1, ChannelFacts
  <2> QED
    BY <1>2, <2>1, <2>2
<1>4. Execute(d, hw, fast, q) = ExecuteMicro(d, hw, fast, q, -1)
  BY <1>2 DEF Execute, Unrolls
<1>5. ExecuteMicro(d, hw, fast, q, -1) = RdMacFast(d, hw, q, -1)
  BY <1>1, <1>2, <1>3, MicroRead
<1> HIDE DEF e
<1>6. e \in Dev(hw, u) /\ Reading(e, w, i)
  BY <1>1, <1>2, <1>3, ReadStep DEF e, c
<1> QED
  BY <1>4, <1>5, <1>6 DEF e, q

\* Reading the group of the wave's next channel leaves one group more read.
LEMMA ReadRetires ==
  ASSUME Fired, NEW u, Memory(u), NEW d \in Dev(hw, u), NEW w,
         NEW i \in 1 .. Len(hw.pim), Reading(d, w, i - 1), NEW fast \in BOOLEAN,
         NEW col, NEW q, Micro(q, hw, ReadOrder(i), col)
  PROVE  /\ ExecuteMicro(d, hw, fast, q, hw.pim[i]) \in Dev(hw, u)
         /\ Reading(ExecuteMicro(d, hw, fast, q, hw.pim[i]), w, i)
<1> DEFINE c == hw.pim[i]
           e == RdMacFast(d, hw, q, c)
<1>1. q \in Cmds(hw) /\ Hardware(hw) /\ c \in Channels(hw) /\ c \in Channels(hw) \cup {-1}
  BY FiredFacts, ChannelPlaces DEF Micro
<1>2. q.op = "RD_MAC" /\ q.gpr0 = NCols + i
  BY DEF ReadOrder, Cmd, Micro
<1> HIDE DEF c
<1>3. ChannelsOf(hw, q, c) = {c}
  BY <1>1, ChannelFacts
<1>4. ExecuteMicro(d, hw, fast, q, c) = RdMacFast(d, hw, q, c)
  BY <1>1, <1>2, <1>3, MicroRead
<1> HIDE DEF e
<1>5. e \in Dev(hw, u) /\ Reading(e, w, i)
  BY <1>1, <1>2, <1>3, ReadStep DEF e, c
<1> QED
  BY <1>4, <1>5 DEF e, c

-----------------------------------------------------------------------------
(* Where the firing of a plan is.                                          *)

\* What is left of the plan when p orders have been executed, and y when the
\* first n waves have been taken into it.
TodoIs(p) ==
  /\ Len(todo) = Len(ThePlan) - p
  /\ \A i \in 1 .. Len(todo) : todo[i] = ThePlan[p + i]
YRight(n) ==
  \A i \in Cells : y[i] = IF i < mat.nOut /\ WaveOf(i) < n THEN Reference(i) ELSE y0[i]

\* The micro commands of an order.
Micros(cmd) == IF cmd.op = "EOC" THEN {} ELSE cmd.chs \X OnColumns(cmd)

\* The device is at an order, of which rem is still to be done.
AtBuffer(d, rem) ==
  TodoIs(0) /\ wave = -1 /\ YRight(0) /\ Loaded(d) /\ Buffered(d, rem)
AtBias(d, rem, w) ==
  /\ TodoIs(w * PerWave + 1) /\ wave = w - 1 /\ YRight(w)
  /\ Loaded(d) /\ Buffered(d, {}) /\ Cleared(d, rem)
AtMac(d, rem, w) ==
  /\ TodoIs(w * PerWave + 2) /\ wave = w /\ YRight(w)
  /\ Loaded(d) /\ Buffered(d, {}) /\ Summed(d, w, rem)
AtRead(d, rem, w, i) ==
  /\ TodoIs(w * PerWave + (i + 2)) /\ wave = w /\ YRight(w)
  /\ Reading(d, w, IF rem = {} THEN i ELSE i - 1)
AtEnd(d, rem) == TodoIs(NWaves * PerWave + 1) /\ YRight(NWaves) /\ rem = {}
Firing(d, rem) ==
  \/ AtBuffer(d, rem)
  \/ \E w \in 0 .. NWaves - 1 :
       \/ AtBias(d, rem, w) \/ AtMac(d, rem, w)
       \/ \E i \in 1 .. Len(hw.pim) : AtRead(d, rem, w, i)
  \/ AtEnd(d, rem)
FireInv ==
  /\ call.ph = "fire" => \E d, rem : d = dev /\ rem = Micros(Head(todo)) /\ Firing(d, rem)
  /\ call.ph = "isr" => \E d, rem : /\ d = dev /\ rem = isr /\ rem \subseteq Micros(Head(todo))
                                   /\ Firing(d, rem)

\* Where it is decides which order comes next.
LEMMA NextIs ==
  ASSUME todo # <<>>, NEW C, todo \in Seq(C), NEW p \in Nat, NEW n \in Nat, Len(ThePlan) = n,
         TodoIs(p)
  PROVE  /\ Head(todo) = ThePlan[p + 1] /\ (Len(todo) = 1 <=> p = n - 1)
         /\ todo' = Tail(todo) /\ ThePlan' = ThePlan => TodoIs(p + 1)'
<1> DEFINE k == Len(todo)
           t == Tail(todo)
<1>1. k \in Nat /\ k # 0 /\ k = n - p /\ Head(todo) = todo[1]
  BY LenProperties, EmptySeq DEF TodoIs
<1>2. \A i \in 1 .. k : todo[i] = ThePlan[p + i]
  BY DEF TodoIs
<1>3. Len(t) = k - 1 /\ \A i \in 1 .. Len(t) : t[i] = todo[i + 1]
  BY HeadTailProperties
<1> HIDE DEF k, t
<1>4. 1 \in 1 .. k
  BY <1>1
<1>5. Head(todo) = ThePlan[p + 1]
  BY <1>1, <1>2, <1>4
<1>6. k = 1 <=> p = n - 1
  BY <1>1
<1>7. ASSUME todo' = t, ThePlan' = ThePlan PROVE TodoIs(p + 1)'
  <2>1. Len(t) = n - (p + 1)
    BY <1>1, <1>3
  <2>2. ASSUME NEW i \in 1 .. Len(t) PROVE t[i] = ThePlan[(p + 1) + i]
    <3> DEFINE j == i + 1
    <3>1. j \in 1 .. k /\ p + j = (p + 1) + i
      BY <1>1, <1>3
    <3> HIDE DEF j
    <3>2. todo[j] = ThePlan[p + j]
      BY <1>2, <3>1
    <3> QED
      BY <1>3, <3>1, <3>2 DEF j
  <2> QED
    BY <1>7, <2>1, <2>2 DEF TodoIs
<1> QED
  BY <1>5, <1>6, <1>7 DEF k, t

\* A step of the firing leaves what is said of devices alone.
SameCall ==
  /\ hw' = hw /\ mat' = mat /\ NCols' = NCols /\ NWaves' = NWaves /\ ThePlan' = ThePlan
  /\ PerWave' = PerWave /\ call'.m = call.m
  /\ \A i : Reference(i)' = Reference(i) /\ WaveOf(i)' = WaveOf(i)
  /\ \A d : Loaded(d)' <=> Loaded(d)
  /\ \A d, rem : Buffered(d, rem)' <=> Buffered(d, rem)
  /\ \A d, rem : Cleared(d, rem)' <=> Cleared(d, rem)
  /\ \A d, w, rem : Summed(d, w, rem)' <=> Summed(d, w, rem)
  /\ \A d, w, i : Reading(d, w, i)' <=> Reading(d, w, i)
\* A step that only moves on in a call does not change what the call is.
LEMMA CallSame ==
  ASSUME conf' = conf, UNCHANGED <<rowBase, y0>>, call'.m = call.m, call'.n = call.n,
         call'.acc = call.acc, call'.nTok = call.nTok
  PROVE  SameCall
<1>1. hw' = hw /\ mat' = mat
  BY DEF hw, mat
<1>2. NCols' = NCols /\ NWaves' = NWaves /\ PerWave' = PerWave /\ ThePlan' = ThePlan
  BY <1>1 DEF NCols, NWaves, PerWave, ThePlan
<1>3. \A i : GroupOf(i)' = GroupOf(i) /\ WaveOf(i)' = WaveOf(i) /\ PlaceOf(i)' = PlaceOf(i)
  BY <1>1 DEF GroupOf, WaveOf, PlaceOf
<1>4. \A i : Reference(i)' = Reference(i)
  BY <1>1 DEF Reference
<1>5. \A col : Input(col)' = Input(col)
  BY <1>1 DEF Input
<1>6. \A o : ChOf(o)' = ChOf(o) /\ DotOf(o)' = DotOf(o)
  BY <1>1, <1>3 DEF ChOf, DotOf
<1>7. \A o : ColDot(o)' = ColDot(o)
  BY <1>1, <1>2, <1>5 DEF ColDot
<1>8. \A ch, rem : ColsLeft(ch, rem)' = ColsLeft(ch, rem)
  BY <1>2 DEF ColsLeft
<1>9. \A d : Loaded(d)' <=> Loaded(d)
  BY <1>2, <1>5 DEF Loaded
<1>10. \A d, rem : Buffered(d, rem)' <=> Buffered(d, rem)
  BY <1>1, <1>2, <1>5 DEF Buffered
<1>11. \A d, rem : Cleared(d, rem)' <=> Cleared(d, rem)
  BY <1>1 DEF Cleared
<1>12. ASSUME NEW d, NEW w, NEW rem PROVE Summed(d, w, rem)' <=> Summed(d, w, rem)
  BY <1>1, <1>3, <1>6, <1>7, <1>8 DEF Summed
<1>13. ASSUME NEW d, NEW w, NEW i PROVE Reading(d, w, i)' <=> Reading(d, w, i)
  <2>1. Computed(d, w)' <=> Computed(d, w)
    BY <1>1, <1>3, <1>6 DEF Computed
  <2>2. Taken(d, w, i)' <=> Taken(d, w, i)
    BY <1>1, <1>2, <1>3, <1>6 DEF Taken
  <2> QED
    BY <1>9, <1>10, <2>1, <2>2 DEF Reading
<1> QED
  BY <1>1, <1>2, <1>3, <1>4, <1>9, <1>10, <1>11, <1>12, <1>13 DEF SameCall

-----------------------------------------------------------------------------
(* One order has been executed, the next one begins.                       *)

\* The plan's places.
LEMMA PlanPlaces ==
  ASSUME Fired
  PROVE  /\ PerWave \in Nat /\ NWaves * PerWave \in Nat /\ Len(ThePlan) = NWaves * PerWave + 2
         /\ Len(ThePlan) \in Nat
         /\ \A w \in 0 .. NWaves - 1 :
              /\ w * PerWave \in Nat /\ w * PerWave + PerWave <= NWaves * PerWave
              /\ (w + 1) * PerWave = w * PerWave + PerWave
<1>1. /\ CallInv /\ call.m \in Mats /\ rowBase[call.m] \in Int /\ NWaves \in Nat \ {0}
      /\ Len(hw.pim) \in 1 .. 8
  BY FiredFacts, ChannelPlaces DEF Fired
<1>2. PerWave \in Nat
  BY <1>1 DEF PerWave
<1>3. Len(ThePlan) = NWaves * PerWave + 2
  BY <1>1, PlanAt
<1> DEFINE k == PerWave
           n == NWaves
<1>4. k \in Nat /\ n \in Nat \ {0}
  BY <1>1, <1>2
<1> HIDE DEF k, n
<1>5. n * k \in Nat /\ n * k + 2 \in Nat
  BY <1>4
<1>6. ASSUME NEW w \in 0 .. n - 1
      PROVE  w * k \in Nat /\ w * k + k <= n * k /\ (w + 1) * k = w * k + k
  <2>1. w \in Nat /\ w + 1 \in Nat /\ w + 1 <= n /\ n \in Nat
    BY <1>4
  <2>2. k * (w + 1) <= k * n
    BY <1>4, <2>1, TimesMonotone
  <2>3. k * (w + 1) = w * k + k /\ k * n = n * k /\ (w + 1) * k = w * k + k /\ w * k \in Nat
    BY <1>4, <2>1
  <2> QED
    BY <2>2, <2>3
<1> QED
  BY <1>2, <1>3, <1>5, <1>6 DEF k, n

\* The order before the last one leaves y and the call alone, except a read of
\* the last channel.
Goes(d, cmd) ==
  /\ Executed(d, cmd) /\ SameCall /\ UNCHANGED y0
  /\ call.ph \in {"fire", "isr"}

\* An order has a channel, and so something to be done.
LEMMA MicrosAre ==
  ASSUME Fired
  PROVE  /\ Micros(BufferOrder) = ToSet(hw.pim) \X (0 .. NCols - 1)
         /\ Micros(BiasOrder) = ToSet(hw.pim) \X {0}
         /\ \A w : Micros(MacOrder(w)) = ToSet(hw.pim) \X (0 .. NCols - 1)
         /\ \A i \in 1 .. Len(hw.pim) : Micros(ReadOrder(i)) = {hw.pim[i]} \X {0}
         /\ Micros(EndOrder) = {}
<1>1. /\ BufferOrder.op = "WR_GB" /\ BufferOrder.chs = ToSet(hw.pim)
      /\ BiasOrder.op = "WR_BIAS" /\ BiasOrder.chs = ToSet(hw.pim)
      /\ \A w : MacOrder(w).op = "MAC_ABK" /\ MacOrder(w).chs = ToSet(hw.pim)
      /\ \A i : ReadOrder(i).op = "RD_MAC" /\ ReadOrder(i).chs = {hw.pim[i]}
      /\ EndOrder.op = "EOC"
  BY DEF BufferOrder, BiasOrder, MacOrder, ReadOrder, EndOrder, Cmd
<1>2. /\ OnColumns(BufferOrder) = 0 .. NCols - 1 /\ OnColumns(BiasOrder) = {0}
      /\ \A w : OnColumns(MacOrder(w)) = 0 .. NCols - 1
  BY OrderFacts
<1>3. \A i : OnColumns(ReadOrder(i)) = {0}
  BY <1>1 DEF OnColumns, Unrolls
<1> QED
  BY <1>1, <1>2, <1>3 DEF Micros

\* The order of each place is the first one that is left.
LEMMA OrderAt ==
  ASSUME Fired, call.ph \in {"fire", "isr"}, NEW d, NEW rem
  PROVE  /\ AtBuffer(d, rem) => Head(todo) = BufferOrder
         /\ AtEnd(d, rem) => Head(todo) = EndOrder
         /\ \A w \in 0 .. NWaves - 1 :
              /\ AtBias(d, rem, w) => Head(todo) = BiasOrder
              /\ AtMac(d, rem, w) => Head(todo) = MacOrder(w)
              /\ \A i \in 1 .. Len(hw.pim) : AtRead(d, rem, w, i) => Head(todo) = ReadOrder(i)
<1>1. /\ todo # <<>> /\ todo \in Seq(Orders(hw)) /\ CallInv /\ Len(ThePlan) \in Nat
      /\ NWaves * PerWave \in Nat /\ call.m \in Mats /\ rowBase[call.m] \in Int /\ NWaves # 0
  BY PlanPlaces, FiredFacts DEF Fired, DeviceInv
<1>2. ASSUME NEW p \in Nat, TodoIs(p) PROVE Head(todo) = ThePlan[p + 1]
  <2> DEFINE n == Len(ThePlan)
  <2>1. n \in Nat /\ Len(ThePlan) = n
    BY <1>1
  <2> HIDE DEF n
  <2> QED
    BY <1>1, <1>2, <2>1, NextIs
<1>3. AtBuffer(d, rem) => Head(todo) = BufferOrder
  <2> SUFFICES ASSUME AtBuffer(d, rem) PROVE Head(todo) = BufferOrder
    OBVIOUS
  <2>1. Head(todo) = ThePlan[0 + 1]
    BY <1>2, 0 \in Nat DEF AtBuffer
  <2>2. 0 + 1 = 1 /\ ThePlan[1] = BufferOrder
    BY <1>1, PlanAt
  <2> QED
    BY <2>1, <2>2
<1>4. AtEnd(d, rem) => Head(todo) = EndOrder
  <2> SUFFICES ASSUME AtEnd(d, rem) PROVE Head(todo) = EndOrder
    OBVIOUS
  <2> DEFINE a == NWaves * PerWave
  <2>1. a \in Nat /\ TodoIs(a + 1)
    BY <1>1 DEF AtEnd
  <2>2. ThePlan[a + 2] = EndOrder
    BY <1>1, PlanAt
  <2> HIDE DEF a
  <2>3. a + 1 \in Nat /\ (a + 1) + 1 = a + 2
    BY <2>1
  <2>4. Head(todo) = ThePlan[(a + 1) + 1]
    BY <1>2, <2>1, <2>3
  <2> QED
    BY <2>2, <2>3, <2>4
<1>5. ASSUME NEW w \in 0 .. NWaves - 1
      PROVE  /\ AtBias(d, rem, w) => Head(todo) = BiasOrder
             /\ AtMac(d, rem, w) => Head(todo) = MacOrder(w)
             /\ \A i \in 1 .. Len(hw.pim) : AtRead(d, rem, w, i) => Head(todo) = ReadOrder(i)
  <2>1. /\ w * PerWave + 1 \in Nat /\ w * PerWave + 2 \in Nat
        /\ \A i \in 1 .. Len(hw.pim) : w * PerWave + (i + 2) \in Nat
    <3> DEFINE a == w * PerWave
    <3>1. a \in Nat
      BY PlanPlaces
    <3> HIDE DEF a
    <3>2. a + 1 \in Nat /\ a + 2 \in Nat /\ \A i \in 1 .. Len(hw.pim) : a + (i + 2) \in Nat
      BY <3>1
    <3> QED
      BY <3>2 DEF a
  <2>2. /\ ThePlan[(w * PerWave + 1) + 1] = BiasOrder
        /\ ThePlan[(w * PerWave + 2) + 1] = MacOrder(w)
        /\ \A i \in 1 .. Len(hw.pim) : ThePlan[(w * PerWave + (i + 2)) + 1] = ReadOrder(i)
    BY <1>1, PlanAt
  <2>3. AtBias(d, rem, w) => Head(todo) = BiasOrder
    BY <1>2, <2>1, <2>2 DEF AtBias
  <2>4. AtMac(d, rem, w) => Head(todo) = MacOrder(w)
    BY <1>2, <2>1, <2>2 DEF AtMac
  <2>5. ASSUME NEW i \in 1 .. Len(hw.pim), AtRead(d, rem, w, i) PROVE Head(todo) = ReadOrder(i)
    BY <1>2, <2>1, <2>2, <2>5 DEF AtRead
  <2> QED
    BY <2>3, <2>4, <2>5
<1> QED
  BY <1>3, <1>4, <1>5

\* An order before the last one has been executed: the next one is fired.
LEMMA Advances ==
  ASSUME Fired, NEW d, Goes(d, Head(todo)), NEW p \in 0 .. NWaves * PerWave, TodoIs(p)
  PROVE  /\ Head(todo') = ThePlan[(p + 1) + 1] /\ TodoIs(p + 1)' /\ call'.ph = "fire"
         /\ Head(todo).op # "WR_BIAS" => wave' = wave
         /\ Head(todo).op = "WR_BIAS" => wave' = wave + 1
         /\ Head(todo).op # "RD_MAC" \/ Head(todo).chs # {Last(hw.pim)} => y' = y
<1>1. /\ todo # <<>> /\ todo \in Seq(Orders(hw)) /\ CallInv
      /\ Executed(d, Head(todo)) /\ SameCall
  BY DEF Goes, Fired, DeviceInv
<1>2. NWaves * PerWave \in Nat /\ Len(ThePlan) = NWaves * PerWave + 2
  BY PlanPlaces
<1> DEFINE n == NWaves * PerWave + 2
<1>3. n \in Nat /\ Len(ThePlan) = n /\ p \in Nat /\ p # n - 1
  BY <1>2
<1> HIDE DEF n
<1>4. todo' = Tail(todo) /\ ThePlan' = ThePlan
  BY <1>1 DEF Executed, SameCall
<1>5. (Len(todo) = 1 <=> p = n - 1) /\ TodoIs(p + 1)'
  BY <1>1, <1>3, <1>4, NextIs
<1>8. Head(todo') = ThePlan[(p + 1) + 1]
  <2>1. todo' \in Seq(Orders(hw)) /\ Len(todo') = Len(todo) - 1 /\ Len(todo) \in Nat
    BY <1>1, <1>4, HeadTailProperties, LenProperties
  <2>2. Len(todo) # 0 /\ Len(todo) # 1
    BY <1>1, <1>3, <1>5, EmptySeq
  <2>3. 1 \in 1 .. Len(todo') /\ Head(todo') = todo'[1]
    BY <2>1, <2>2
  <2>4. \A i \in 1 .. Len(todo') : todo'[i] = ThePlan[(p + 1) + i]
    BY <1>4, <1>5 DEF TodoIs
  <2> QED
    BY <2>3, <2>4
<1>6. call'.ph = "fire"
  BY <1>1, <1>3, <1>5 DEF Executed, CallInv
<1>7. /\ Head(todo).op # "WR_BIAS" => wave' = wave
      /\ Head(todo).op = "WR_BIAS" => wave' = wave + 1
      /\ Head(todo).op # "RD_MAC" \/ Head(todo).chs # {Last(hw.pim)} => y' = y
  BY <1>1 DEF Executed
<1> QED
  BY <1>5, <1>6, <1>7, <1>8

\* y is left alone.
LEMMA YSame ==
  ASSUME SameCall, UNCHANGED <<y, y0>>, NEW n, YRight(n)
  PROVE  YRight(n)'
BY DEF YRight, SameCall

\* The buffers are written: the first wave begins.
LEMMA BufferDone ==
  ASSUME Fired, NEW d, Goes(d, Head(todo)), AtBuffer(d, {}), NEW rem, rem = Micros(Head(todo'))
  PROVE  call'.ph = "fire" /\ AtBias(d, rem, 0)'
<1>1. SameCall /\ UNCHANGED y0
  BY DEF Goes
<1>2. NWaves * PerWave \in Nat /\ PerWave \in Nat
  BY PlanPlaces
<1>3. 0 \in 0 .. NWaves - 1 /\ ThePlan[(0 * PerWave + 1) + 1] = BiasOrder
  <2>1. 0 \in 0 .. NWaves - 1
    BY FiredFacts
  <2> QED
    BY <2>1, FiredFacts, PlanAt DEF Fired
<1>4. TodoIs(0) /\ wave = -1 /\ YRight(0) /\ Loaded(d) /\ Buffered(d, {})
  BY DEF AtBuffer
<1> DEFINE p == 0
<1>5. p \in 0 .. NWaves * PerWave /\ TodoIs(p) /\ p + 1 = 1
  BY <1>2, <1>4
<1> HIDE DEF p
<1>6. /\ Head(todo') = ThePlan[(p + 1) + 1] /\ TodoIs(p + 1)' /\ call'.ph = "fire"
      /\ Head(todo).op # "WR_BIAS" => wave' = wave
      /\ Head(todo).op # "RD_MAC" \/ Head(todo).chs # {Last(hw.pim)} => y' = y
  BY <1>5, Advances
<1>7. Head(todo) = BufferOrder
  BY OrderAt DEF Goes
<1>8. Head(todo).op = "WR_GB"
  BY <1>7 DEF BufferOrder, Cmd
<1>9. wave' = -1 /\ y' = y
  BY <1>4, <1>6, <1>8
<1>10. YRight(0)'
  BY <1>1, <1>4, <1>9, YSame
<1>11. TodoIs(0 * PerWave + 1)'
  <2>1. (0 * PerWave + 1)' = p + 1
    BY <1>1, <1>2, <1>5 DEF SameCall
  <2> QED
    BY <1>6, <2>1 DEF TodoIs
<1>12. rem = ToSet(hw.pim) \X {0}
  <2>1. 0 * PerWave + 1 = p + 1
    BY <1>2, <1>5
  <2> QED
    BY <1>3, <1>6, <2>1, MicrosAre
<1>13. Cleared(d, rem)
  BY <1>12 DEF Cleared
<1>14. wave' = 0 - 1
  BY <1>9
<1>15. AtBias(d, rem, 0)'
  BY <1>1, <1>4, <1>10, <1>11, <1>13, <1>14 DEF AtBias, SameCall
<1> QED
  BY <1>6, <1>15

\* The accumulators are zero: all columns are to be added.
LEMMA BiasDone ==
  ASSUME Fired, NEW d, Goes(d, Head(todo)), NEW w \in 0 .. NWaves - 1, AtBias(d, {}, w),
         NEW rem, rem = Micros(Head(todo'))
  PROVE  call'.ph = "fire" /\ AtMac(d, rem, w)'
<1>1. SameCall /\ UNCHANGED y0
  BY DEF Goes
<1>2. /\ PerWave \in Nat /\ w * PerWave \in Nat /\ w * PerWave + PerWave <= NWaves * PerWave
      /\ NWaves * PerWave \in Nat
  BY PlanPlaces
<1>3. ThePlan[(w * PerWave + 2) + 1] = MacOrder(w)
  BY FiredFacts, PlanAt DEF Fired
<1>4. TodoIs(w * PerWave + 1) /\ wave = w - 1 /\ YRight(w) /\ Loaded(d) /\ Buffered(d, {})
  BY DEF AtBias
<1>5. PerWave >= 2
  BY ChannelPlaces DEF PerWave
<1>6. w * PerWave + 1 \in 0 .. NWaves * PerWave
  <2> DEFINE a == w * PerWave
             b == NWaves * PerWave
  <2>1. a \in Nat /\ a + PerWave <= b /\ b \in Nat
    BY <1>2
  <2> HIDE DEF a, b
  <2>2. a + 1 \in 0 .. b
    BY <1>2, <1>5, <2>1
  <2> QED
    BY <2>2 DEF a, b
<1>7. PICK p \in 0 .. NWaves * PerWave : p = w * PerWave + 1 /\ TodoIs(p)
  BY <1>4, <1>6
<1>8. /\ Head(todo') = ThePlan[(p + 1) + 1] /\ TodoIs(p + 1)' /\ call'.ph = "fire"
      /\ Head(todo).op = "WR_BIAS" => wave' = wave + 1
      /\ Head(todo).op # "RD_MAC" \/ Head(todo).chs # {Last(hw.pim)} => y' = y
  BY <1>7, Advances
<1>9. Head(todo) = BiasOrder
  BY OrderAt DEF Goes
<1>10. Head(todo).op = "WR_BIAS"
  BY <1>9 DEF BiasOrder, Cmd
<1>11. wave' = w /\ y' = y
  BY <1>4, <1>8, <1>10
<1>12. YRight(w)'
  BY <1>1, <1>4, <1>11, YSame
<1>13. TodoIs(w * PerWave + 2)'
  <2>1. (w * PerWave + 2)' = p + 1
    <3>1. w * PerWave + 2 = p + 1
      BY <1>2, <1>7
    <3> QED
      BY <1>1, <3>1 DEF SameCall
  <2> QED
    BY <1>8, <2>1 DEF TodoIs
<1>14. rem = ToSet(hw.pim) \X (0 .. NCols - 1)
  <2>1. w * PerWave + 2 = p + 1
    BY <1>2, <1>7
  <2> QED
    BY <1>3, <1>8, <2>1, MicrosAre
<1>15. ASSUME NEW o \in 0 .. mat.nOut - 1
       PROVE  d.acc[ChOf(o)][o % Banks] + SumOver(ColDot(o), ColsLeft(ChOf(o), rem)) = DotOf(o)
  <2>1. /\ ChOf(o) \in ToSet(hw.pim) /\ o % Banks \in BankIds /\ DotOf(o) \in Int
        /\ SumOver(ColDot(o), 0 .. NCols - 1) = DotOf(o)
    BY OutputSums
  <2>2. ColsLeft(ChOf(o), rem) = 0 .. NCols - 1
    BY <1>14, <2>1 DEF ColsLeft
  <2>3. d.acc[ChOf(o)][o % Banks] = 0
    BY <2>1 DEF AtBias, Cleared
  <2> QED
    BY <2>1, <2>2, <2>3
<1>16. Summed(d, w, rem)
  BY <1>15 DEF Summed
<1>17. AtMac(d, rem, w)'
  BY <1>1, <1>4, <1>11, <1>12, <1>13, <1>16 DEF AtMac, SameCall
<1> QED
  BY <1>8, <1>17

\* The columns are added up: the channels are to be read.
LEMMA MacDone ==
  ASSUME Fired, NEW u, NEW d \in Dev(hw, u), Goes(d, Head(todo)),
         NEW w \in 0 .. NWaves - 1, AtMac(d, {}, w), NEW rem, rem = Micros(Head(todo'))
  PROVE  call'.ph = "fire" /\ AtRead(d, rem, w, 1)'
<1>1. SameCall /\ UNCHANGED y0
  BY DEF Goes
<1>2. /\ PerWave \in Nat /\ w * PerWave \in Nat /\ w * PerWave + PerWave <= NWaves * PerWave
      /\ NWaves * PerWave \in Nat
  BY PlanPlaces
<1>3. 1 \in 1 .. Len(hw.pim) /\ ThePlan[(w * PerWave + (1 + 2)) + 1] = ReadOrder(1)
  <2>1. 1 \in 1 .. Len(hw.pim)
    BY ChannelPlaces
  <2> QED
    BY <2>1, FiredFacts, PlanAt DEF Fired
<1>4. TodoIs(w * PerWave + 2) /\ wave = w /\ YRight(w) /\ Loaded(d) /\ Buffered(d, {})
  BY DEF AtMac
<1>5. PerWave >= 2
  BY ChannelPlaces DEF PerWave
<1>6. w * PerWave + 2 \in 0 .. NWaves * PerWave
  <2> DEFINE a == w * PerWave
             b == NWaves * PerWave
  <2>1. a \in Nat /\ a + PerWave <= b /\ b \in Nat
    BY <1>2
  <2> HIDE DEF a, b
  <2>2. a + 2 \in 0 .. b
    BY <1>2, <1>5, <2>1
  <2> QED
    BY <2>2 DEF a, b
<1>7. PICK p \in 0 .. NWaves * PerWave : p = w * PerWave + 2 /\ TodoIs(p)
  BY <1>4, <1>6
<1>8. /\ Head(todo') = ThePlan[(p + 1) + 1] /\ TodoIs(p + 1)' /\ call'.ph = "fire"
      /\ Head(todo).op # "WR_BIAS" => wave' = wave
      /\ Head(todo).op # "RD_MAC" \/ Head(todo).chs # {Last(hw.pim)} => y' = y
  BY <1>7, Advances
<1>9. Head(todo) = MacOrder(w)
  BY OrderAt DEF Goes
<1>10. Head(todo).op = "MAC_ABK"
  BY <1>9 DEF MacOrder, Cmd
<1>11. wave' = w /\ y' = y
  BY <1>4, <1>8, <1>10
<1>12. YRight(w)'
  BY <1>1, <1>4, <1>11, YSame
<1>13. TodoIs(w * PerWave + (1 + 2))'
  <2>1. w * PerWave + (1 + 2) = p + 1
    BY <1>2, <1>7
  <2>2. (w * PerWave + (1 + 2))' = p + 1
    BY <1>1, <2>1 DEF SameCall
  <2> QED
    BY <1>8, <2>2 DEF TodoIs
<1>14. Computed(d, w)
  <2> SUFFICES ASSUME NEW o \in 0 .. mat.nOut - 1, WaveOf(o) = w
               PROVE  d.acc[ChOf(o)][o % Banks] = DotOf(o)
    BY DEF Computed
  <2> DEFINE v == ColDot(o)
             I == 0 .. NCols - 1
             a == d.acc[ChOf(o)][o % Banks]
  <2>1. a + SumOver(v, ColsLeft(ChOf(o), {})) = DotOf(o)
    BY DEF AtMac, Summed
  <2>2. ColsLeft(ChOf(o), {}) = {}
    BY DEF ColsLeft
  <2>3. \A i \in I : v[i] \in Int
    BY OutputSums
  <2>4. Bounded(I)
    <3>1. NCols \in Nat /\ I \in SUBSET (0 .. NCols)
      BY FiredFacts
    <3> QED
      BY <3>1 DEF Bounded
  <2>5. a \in Int
    <3>1. ChOf(o) \in Channels(hw) /\ o % Banks \in BankIds
      BY OutputSums
    <3>2. d.acc \in [Channels(hw) -> [BankIds -> Int]]
      BY DEF Dev
    <3> QED
      BY <3>1, <3>2
  <2> HIDE DEF v, I, a
  <2>6. SumOver(v, {}) = 0
    BY <2>3, <2>4, SumFacts
  <2>7. a + 0 = DotOf(o)
    BY <2>1, <2>2, <2>6
  <2>8. a = DotOf(o)
    BY <2>5, <2>7
  <2> QED
    BY <2>8 DEF a
<1>15. Reading(d, w, 1 - 1)
  <2>1. Taken(d, w, 1 - 1)
    <3>1. \A o \in 0 .. mat.nOut - 1 : ~(PlaceOf(o) < 1 - 1)
      BY OutputSums
    <3> QED
      BY <3>1 DEF Taken
  <2> QED
    BY <1>4, <1>14, <2>1 DEF Reading
<1>16. rem # {}
  <2>1. w * PerWave + (1 + 2) = p + 1
    BY <1>2, <1>7
  <2>2. rem = {hw.pim[1]} \X {0}
    BY <1>3, <1>8, <2>1, MicrosAre
  <2>3. <<hw.pim[1], 0>> \in rem
    BY <2>2
  <2> QED
    BY <2>3
<1>17. AtRead(d, rem, w, 1)'
  BY <1>1, <1>11, <1>12, <1>13, <1>15, <1>16 DEF AtRead, SameCall
<1> QED
  BY <1>8, <1>17

\* What was in y is numbers.
OldInv == \A i \in Cells : y0[i] \in Int

\* A call of one token: the cell of an output gets its dot product.
LEMMA OneToken ==
  ASSUME Fired, OldInv, NEW i \in Cells
  PROVE  /\ i >= mat.nOut => Reference(i) = y0[i]
         /\ i < mat.nOut => /\ i \in 0 .. mat.nOut - 1
                            /\ Reference(i) = (IF call.acc THEN y0[i] ELSE 0) + DotOf(i)
<1>1. mat.nOut \in Nat /\ mat.nOut > 0 /\ call.nTok = 1 /\ i \in Nat
  <2>1. mat.nOut \in Nat /\ mat.nOut > 0 /\ call.nTok = 1
    BY FiredFacts DEF Fired
  <2>2. i \in Nat
    BY DEF Cells
  <2> QED
    BY <2>1, <2>2
<1>2. call.nTok * mat.nOut = mat.nOut
  BY <1>1
<1>3. i >= mat.nOut => Reference(i) = y0[i]
  BY <1>1, <1>2 DEF Reference
<1>4. ASSUME i < mat.nOut
      PROVE  Reference(i) = (IF call.acc THEN y0[i] ELSE 0) + DotOf(i)
  <2> DEFINE n == mat.nOut
             t == i \div n
             o == i % n
             old == IF call.acc THEN y0[i] ELSE 0
  <2>1. n \in Nat \ {0} /\ i \in 0 .. n - 1
    BY <1>1, <1>4
  <2>2. t = 0 /\ o = i
    <3> HIDE DEF n
    <3>1. 0 * n + i = i /\ 0 \in Nat
      BY <2>1
    <3>2. (0 * n + i) \div n = 0 /\ (0 * n + i) % n = i
      BY <2>1, <3>1, DivisionIs
    <3> QED
      BY <3>1, <3>2
  <2>3. ~(i >= call.nTok * mat.nOut)
    BY <1>1, <1>2, <1>4
  <2>4. Reference(i) = DotRange(W[call.m][o], X[call.n][t], 0, mat.nIn) + old
    BY <2>3 DEF Reference
  <2>5. Reference(i) = DotOf(i) + old
    BY <2>2, <2>4 DEF DotOf
  <2>6. DotOf(i) \in Int /\ old \in Int
    BY <2>1, OutputSums DEF OldInv
  <2> HIDE DEF old
  <2>7. DotOf(i) + old = old + DotOf(i)
    BY <2>6
  <2> QED
    BY <2>5, <2>7 DEF old
<1> QED
  BY <1>1, <1>3, <1>4

\* The registers of a wave are taken into y.
LEMMA UnpackRight ==
  ASSUME Fired, OldInv, NEW w \in Int, YRight(w), NEW d, Taken(d, w, Len(hw.pim)),
         NEW i \in Cells
  PROVE  Unpack(d, w)[i] = IF i < mat.nOut /\ WaveOf(i) < w + 1 THEN Reference(i) ELSE y0[i]
<1> DEFINE mine == {o \in 0 .. mat.nOut - 1 : (o \div Banks) \div Len(hw.pim) = w}
           v(o) == GprRead(d, NCols + 1 + ((o \div Banks) % Len(hw.pim)))[o % Banks]
<1>1. Unpack(d, w)[i] = IF i \in mine THEN (IF call.acc THEN y[i] ELSE 0) + v(i) ELSE y[i]
  BY DEF Unpack
<1>2. y[i] = IF i < mat.nOut /\ WaveOf(i) < w THEN Reference(i) ELSE y0[i]
  BY DEF YRight
<1>3. i \in mine <=> i \in 0 .. mat.nOut - 1 /\ WaveOf(i) = w
  BY DEF WaveOf, GroupOf
<1>4. v(i) = GprRead(d, NCols + 1 + PlaceOf(i))[i % Banks]
  BY DEF PlaceOf, GroupOf
<1> HIDE DEF mine, v
<1>5. CASE i < mat.nOut
  <2>1. /\ i \in 0 .. mat.nOut - 1
        /\ Reference(i) = (IF call.acc THEN y0[i] ELSE 0) + DotOf(i)
    BY <1>5, OneToken
  <2>2. WaveOf(i) \in Int /\ PlaceOf(i) < Len(hw.pim)
    <3>1. WaveOf(i) \in 0 .. NWaves - 1 /\ PlaceOf(i) \in 0 .. Len(hw.pim) - 1
      BY <2>1, OutputSums
    <3>2. Len(hw.pim) \in Nat
      BY ChannelPlaces
    <3> QED
      BY <3>1, <3>2
  <2>3. CASE WaveOf(i) = w
    <3>1. v(i) = DotOf(i)
      BY <1>4, <2>1, <2>2, <2>3 DEF Taken
    <3>2. y[i] = y0[i] /\ WaveOf(i) < w + 1
      BY <1>2, <2>2, <2>3
    <3> QED
      BY <1>1, <1>3, <1>5, <2>1, <2>3, <3>1, <3>2
  <2>4. CASE WaveOf(i) # w
    <3>1. WaveOf(i) < w <=> WaveOf(i) < w + 1
      BY <2>2, <2>4
    <3> QED
      BY <1>1, <1>2, <1>3, <2>4, <3>1
  <2> QED
    BY <2>3, <2>4
<1>6. CASE ~(i < mat.nOut)
  <2>1. i \notin 0 .. mat.nOut - 1
    <3>1. mat.nOut \in Nat /\ i \in Int
      BY FiredFacts DEF Cells
    <3> QED
      BY <1>6, <3>1
  <2> QED
    BY <1>1, <1>2, <1>3, <1>6, <2>1
<1> QED
  BY <1>5, <1>6

\* A channel has been read, and it is not the last one.
LEMMA ChannelDone ==
  ASSUME Fired, NEW d, Goes(d, Head(todo)), NEW w \in 0 .. NWaves - 1,
         NEW i \in 1 .. Len(hw.pim) - 1, AtRead(d, {}, w, i), NEW rem, rem = Micros(Head(todo'))
  PROVE  call'.ph = "fire" /\ AtRead(d, rem, w, i + 1)'
<1>1. SameCall /\ UNCHANGED y0
  BY DEF Goes
<1>2. /\ PerWave \in Nat /\ w * PerWave \in Nat /\ w * PerWave + PerWave <= NWaves * PerWave
      /\ NWaves * PerWave \in Nat
  BY PlanPlaces
<1>3. i \in Nat /\ i + 1 \in 1 .. Len(hw.pim) /\ i \in 1 .. Len(hw.pim) /\ PerWave >= i + 2
      /\ i + 1 # i /\ Len(hw.pim) # i /\ Len(hw.pim) \in 1 .. Len(hw.pim)
  BY ChannelPlaces DEF PerWave
<1>4. ThePlan[(w * PerWave + ((i + 1) + 2)) + 1] = ReadOrder(i + 1)
  BY <1>3, FiredFacts, PlanAt DEF Fired
<1>5. TodoIs(w * PerWave + (i + 2)) /\ wave = w /\ YRight(w) /\ Reading(d, w, i)
  BY DEF AtRead
<1>6. w * PerWave + (i + 2) \in 0 .. NWaves * PerWave
  <2> DEFINE a == w * PerWave
             b == NWaves * PerWave
  <2>1. a \in Nat /\ a + PerWave <= b /\ b \in Nat
    BY <1>2
  <2> HIDE DEF a, b
  <2>2. a + (i + 2) \in 0 .. b
    BY <1>2, <1>3, <2>1
  <2> QED
    BY <2>2 DEF a, b
<1>7. PICK p \in 0 .. NWaves * PerWave : p = w * PerWave + (i + 2) /\ TodoIs(p)
  BY <1>5, <1>6
<1>8. /\ Head(todo') = ThePlan[(p + 1) + 1] /\ TodoIs(p + 1)' /\ call'.ph = "fire"
      /\ Head(todo).op # "WR_BIAS" => wave' = wave
      /\ Head(todo).op # "RD_MAC" \/ Head(todo).chs # {Last(hw.pim)} => y' = y
  BY <1>7, Advances
<1>9. Head(todo) = ReadOrder(i)
  BY <1>3, OrderAt DEF Goes
<1>10. Head(todo).op = "RD_MAC" /\ Head(todo).chs = {hw.pim[i]}
  BY <1>9 DEF ReadOrder, Cmd
<1>11. {hw.pim[i]} # {Last(hw.pim)}
  BY <1>3, ChannelPlaces
<1>12. wave' = w /\ y' = y
  BY <1>5, <1>8, <1>10, <1>11
<1>13. YRight(w)'
  BY <1>1, <1>5, <1>12, YSame
<1>14. TodoIs(w * PerWave + ((i + 1) + 2))'
  <2>1. w * PerWave + ((i + 1) + 2) = p + 1
    BY <1>2, <1>3, <1>7
  <2>2. (w * PerWave + ((i + 1) + 2))' = p + 1
    BY <1>1, <2>1 DEF SameCall
  <2> QED
    BY <1>8, <2>2 DEF TodoIs
<1>15. (i + 1) - 1 = i
  BY <1>3
<1>16. rem # {}
  <2>1. w * PerWave + ((i + 1) + 2) = p + 1
    BY <1>2, <1>3, <1>7
  <2>2. rem = {hw.pim[i + 1]} \X {0}
    BY <1>3, <1>4, <1>8, <2>1, MicrosAre
  <2>3. <<hw.pim[i + 1], 0>> \in rem
    BY <2>2
  <2> QED
    BY <2>3
<1>17. AtRead(d, rem, w, i + 1)'
  BY <1>1, <1>5, <1>12, <1>13, <1>14, <1>15, <1>16 DEF AtRead, SameCall
<1> QED
  BY <1>8, <1>17

\* The last channel of a wave has been read, and y has its outputs: the next
\* wave begins, or the plan ends.
LEMMA WaveDone ==
  ASSUME Fired, OldInv, NEW d, Goes(d, Head(todo)), NEW w \in 0 .. NWaves - 1,
         AtRead(d, {}, w, Len(hw.pim)), NEW rem, rem = Micros(Head(todo'))
  PROVE  /\ call'.ph = "fire"
         /\ \/ w + 1 \in 0 .. NWaves - 1 /\ AtBias(d, rem, w + 1)'
            \/ AtEnd(d, rem)'
<1> DEFINE L == Len(hw.pim)
<1>1. SameCall /\ UNCHANGED y0 /\ Executed(d, Head(todo))
  BY DEF Goes
<1>2. /\ PerWave \in Nat /\ w * PerWave \in Nat /\ w * PerWave + PerWave <= NWaves * PerWave
      /\ NWaves * PerWave \in Nat /\ (w + 1) * PerWave = w * PerWave + PerWave
  BY PlanPlaces
<1>3. L \in Nat /\ L \in 1 .. L /\ PerWave = L + 2 /\ hw.pim[L] = Last(hw.pim)
  BY ChannelPlaces DEF PerWave
<1>4. TodoIs(w * PerWave + (L + 2)) /\ wave = w /\ YRight(w) /\ Reading(d, w, L)
  BY DEF AtRead
<1>5. w * PerWave + (L + 2) \in 0 .. NWaves * PerWave
  <2> DEFINE a == w * PerWave
             b == NWaves * PerWave
  <2>1. a \in Nat /\ a + PerWave <= b /\ b \in Nat
    BY <1>2
  <2> HIDE DEF a, b
  <2>2. a + (L + 2) \in 0 .. b
    BY <1>2, <1>3, <2>1
  <2> QED
    BY <2>2 DEF a, b
<1>6. PICK p \in 0 .. NWaves * PerWave : p = w * PerWave + (L + 2) /\ TodoIs(p)
  BY <1>4, <1>5
<1>7. /\ Head(todo') = ThePlan[(p + 1) + 1] /\ TodoIs(p + 1)' /\ call'.ph = "fire"
      /\ Head(todo).op # "WR_BIAS" => wave' = wave
  BY <1>6, Advances
<1>8. Head(todo) = ReadOrder(L)
  BY <1>3, OrderAt DEF Goes
<1>9. Head(todo).op = "RD_MAC" /\ Head(todo).chs = {Last(hw.pim)}
  BY <1>3, <1>8 DEF ReadOrder, Cmd
<1>10. w \in Int /\ wave >= 0
  BY <1>4
<1>11. wave' = w /\ y' = Unpack(d, w)
  BY <1>1, <1>4, <1>9, <1>10 DEF Executed
<1>12. YRight(w + 1)'
  <2>1. \A i \in Cells :
          y'[i] = IF i < mat.nOut /\ WaveOf(i) < w + 1 THEN Reference(i) ELSE y0[i]
    BY <1>4, <1>10, <1>11, UnpackRight DEF Reading
  <2> QED
    BY <1>1, <2>1 DEF YRight, SameCall
<1>13. p + 1 = (w + 1) * PerWave + 1
  <2> DEFINE a == w * PerWave
             b == (w + 1) * PerWave
  <2>1. a \in Nat /\ b = a + (L + 2) /\ p = a + (L + 2)
    BY <1>2, <1>3, <1>6
  <2> HIDE DEF a, b
  <2>2. p + 1 = b + 1
    BY <1>3, <2>1
  <2> QED
    BY <2>2 DEF b
<1>14. TodoIs((w + 1) * PerWave + 1)'
  <2>1. ((w + 1) * PerWave + 1)' = p + 1
    BY <1>1, <1>13 DEF SameCall
  <2> QED
    BY <1>7, <2>1 DEF TodoIs
<1>15. NWaves \in Nat \ {0} /\ CallInv /\ call.m \in Mats /\ rowBase[call.m] \in Int /\ NWaves # 0
  BY FiredFacts DEF Fired
<1>16. CASE w + 1 \in 0 .. NWaves - 1
  <2>1. ThePlan[((w + 1) * PerWave + 1) + 1] = BiasOrder
    BY <1>15, <1>16, PlanAt
  <2>2. rem = ToSet(hw.pim) \X {0}
    BY <1>7, <1>13, <2>1, MicrosAre
  <2>3. Cleared(d, rem)
    BY <2>2 DEF Cleared
  <2>4. wave' = (w + 1) - 1
    BY <1>10, <1>11
  <2>5. Loaded(d) /\ Buffered(d, {})
    BY <1>4 DEF Reading
  <2>6. AtBias(d, rem, w + 1)'
    BY <1>1, <1>12, <1>14, <2>3, <2>4, <2>5 DEF AtBias, SameCall
  <2> QED
    BY <1>7, <1>16, <2>6
<1>17. CASE w + 1 \notin 0 .. NWaves - 1
  <2>1. w + 1 = NWaves
    BY <1>15, <1>17
  <2>2. ThePlan[NWaves * PerWave + 2] = EndOrder
    BY <1>15, PlanAt
  <2>3. (p + 1) + 1 = NWaves * PerWave + 2
    <3> DEFINE b == NWaves * PerWave
    <3>1. p + 1 = b + 1 /\ b \in Nat
      BY <1>2, <1>13, <2>1
    <3> HIDE DEF b
    <3>2. (p + 1) + 1 = b + 2
      BY <3>1
    <3> QED
      BY <3>2 DEF b
  <2>4. rem = {}
    BY <1>7, <2>2, <2>3, MicrosAre
  <2>5. TodoIs(NWaves * PerWave + 1)'
    <3>1. (NWaves * PerWave + 1)' = ((w + 1) * PerWave + 1)'
      BY <1>1, <2>1 DEF SameCall
    <3> QED
      BY <1>14, <3>1 DEF TodoIs
  <2>6. YRight(NWaves)'
    <3>1. NWaves' = (w + 1)'
      BY <1>1, <2>1 DEF SameCall
    <3> QED
      BY <1>12, <3>1 DEF YRight
  <2>7. AtEnd(d, rem)'
    BY <2>4, <2>5, <2>6 DEF AtEnd
  <2> QED
    BY <1>7, <2>7
<1> QED
  BY <1>16, <1>17

\* The plan has ended: y is the product.
LEMMA EndDone ==
  ASSUME Fired, OldInv, NEW d, Goes(d, Head(todo)), NEW rem, AtEnd(d, rem)
  PROVE  call'.ph = "done" /\ ProductRight'
<1>1. /\ todo # <<>> /\ todo \in Seq(Orders(hw)) /\ CallInv
      /\ SameCall /\ UNCHANGED y0 /\ Executed(d, Head(todo))
  BY DEF Goes, Fired, DeviceInv
<1>2. Head(todo).op = "EOC"
  <2>1. Head(todo) = EndOrder
    BY OrderAt DEF Goes
  <2> QED
    BY <2>1 DEF EndOrder, Cmd
<1>3. y' = y
  BY <1>1, <1>2 DEF Executed
<1>4. Len(todo) = 1
  <2> DEFINE a == NWaves * PerWave
  <2>1. a \in Nat /\ Len(ThePlan) = a + 2 /\ TodoIs(a + 1)
    BY PlanPlaces DEF AtEnd
  <2> HIDE DEF a
  <2> QED
    BY <2>1 DEF TodoIs
<1>5. call'.ph = "done"
  BY <1>1, <1>4 DEF Executed, CallInv
<1>6. ASSUME NEW i \in Cells PROVE y[i] = Reference(i)
  <2>1. y[i] = IF i < mat.nOut /\ WaveOf(i) < NWaves THEN Reference(i) ELSE y0[i]
    BY DEF AtEnd, YRight
  <2>2. CASE i < mat.nOut
    <3>1. i \in 0 .. mat.nOut - 1
      BY <2>2, OneToken
    <3>2. WaveOf(i) \in 0 .. NWaves - 1 /\ NWaves \in Nat
      BY <3>1, OutputSums, FiredFacts
    <3>3. WaveOf(i) < NWaves
      BY <3>2
    <3> QED
      BY <2>1, <2>2, <3>3
  <2>3. CASE ~(i < mat.nOut)
    <3>1. i >= mat.nOut
      <4>1. mat.nOut \in Nat /\ i \in Int
        BY FiredFacts DEF Cells
      <4> QED
        BY <2>3, <4>1
    <3> QED
      BY <2>1, <2>3, <3>1, OneToken
  <2> QED
    BY <2>2, <2>3
<1>7. \A i \in Cells : y'[i] = Reference(i)'
  BY <1>1, <1>3, <1>6 DEF SameCall
<1> QED
  BY <1>5, <1>7 DEF ProductRight

\* An order has been executed: the plan goes on, or y is the product.
LEMMA OrderDone ==
  ASSUME Fired, OldInv, NEW u, NEW d \in Dev(hw, u), Goes(d, Head(todo)), Firing(d, {}),
         dev' = d
  PROVE  /\ FireInv' /\ ProductRight' /\ call'.ph \in {"fire", "done"}
<1>1. PICK rem : rem = Micros(Head(todo'))
  OBVIOUS
<1>2. NWaves' = NWaves /\ hw' = hw
  BY DEF Goes, SameCall
<1>3. 0 \in 0 .. NWaves - 1 /\ 1 \in 1 .. Len(hw.pim) /\ Len(hw.pim) \in Nat
  BY SMTT(30), FiredFacts, ChannelPlaces
<1>4. ASSUME call'.ph = "fire", Firing(d, rem)'
      PROVE  FireInv' /\ ProductRight' /\ call'.ph \in {"fire", "done"}
  <2>1. FireInv'
    BY <1>1, <1>4 DEF FireInv
  <2> QED
    BY <1>4, <2>1 DEF ProductRight
<1>5. CASE AtBuffer(d, {})
  <2>1. call'.ph = "fire" /\ AtBias(d, rem, 0)'
    BY <1>1, <1>5, BufferDone
  <2>2. Firing(d, rem)'
    BY <1>2, <1>3, <2>1 DEF Firing
  <2> QED
    BY <1>4, <2>1, <2>2
<1>6. ASSUME NEW w \in 0 .. NWaves - 1, AtBias(d, {}, w)
      PROVE  call'.ph = "fire" /\ Firing(d, rem)'
  <2>1. call'.ph = "fire" /\ AtMac(d, rem, w)'
    BY <1>1, <1>6, BiasDone
  <2> QED
    BY <1>2, <2>1 DEF Firing
<1>7. ASSUME NEW w \in 0 .. NWaves - 1, AtMac(d, {}, w)
      PROVE  call'.ph = "fire" /\ Firing(d, rem)'
  <2>1. call'.ph = "fire" /\ AtRead(d, rem, w, 1)'
    BY <1>1, <1>7, MacDone
  <2> QED
    BY <1>2, <1>3, <2>1 DEF Firing
<1>8. ASSUME NEW w \in 0 .. NWaves - 1, NEW i \in 1 .. Len(hw.pim), AtRead(d, {}, w, i)
      PROVE  call'.ph = "fire" /\ Firing(d, rem)'
  <2>1. CASE i = Len(hw.pim)
    <3>1. /\ call'.ph = "fire"
          /\ \/ w + 1 \in 0 .. NWaves - 1 /\ AtBias(d, rem, w + 1)'
             \/ AtEnd(d, rem)'
      BY <1>1, <1>8, <2>1, WaveDone
    <3> QED
      BY <1>2, <3>1 DEF Firing
  <2>2. CASE i # Len(hw.pim)
    <3>1. i \in 1 .. Len(hw.pim) - 1 /\ i + 1 \in 1 .. Len(hw.pim)
      BY <1>3, <2>2
    <3>2. call'.ph = "fire" /\ AtRead(d, rem, w, i + 1)'
      BY <1>1, <1>8, <3>1, ChannelDone
    <3> QED
      BY <1>2, <3>1, <3>2 DEF Firing
  <2> QED
    BY <2>1, <2>2
<1>9. CASE AtEnd(d, {})
  <2>1. call'.ph = "done" /\ ProductRight'
    BY <1>9, EndDone
  <2> QED
    BY <2>1 DEF FireInv
<1>10. CASE \E w \in 0 .. NWaves - 1 :
              \/ AtBias(d, {}, w) \/ AtMac(d, {}, w)
              \/ \E i \in 1 .. Len(hw.pim) : AtRead(d, {}, w, i)
  <2>1. call'.ph = "fire" /\ Firing(d, rem)'
    BY <1>6, <1>7, <1>8, <1>10
  <2> QED
    BY <1>4, <2>1
<1> QED
  BY <1>5, <1>9, <1>10 DEF Firing

-----------------------------------------------------------------------------
(* The steps that fire a plan.                                             *)

\* While a plan is fired, its weights are in their rows.
LEMMA FiringFacts ==
  ASSUME LinearInv, DeviceInv, SupplyInv, call.ph \in {"fire", "isr"}
  PROVE  Fired /\ \E u : InBanks(u) /\ dev \in Dev(hw, u)
<1>1. CallInv /\ call.ph # "idle" /\ call.m \in Mats
  BY DEF LinearInv, CallInv
<1>2. /\ call.nTok = 1 /\ mat.nOut > 0 /\ mat.nIn > 0 /\ Fits /\ ~stale[call.m]
  BY DEF SupplyInv, OffloadInv
<1>3. rowBase[call.m] >= 0
  BY <1>1, <1>2 DEF SupplyInv, RowsInv, DeviceInv
<1>4. Fired
  BY <1>1, <1>2, <1>3 DEF Fired
<1>5. Placed(dev, call.m)
  BY <1>1, <1>2 DEF SupplyInv, WeightsInv
<1>6. PICK u : Memory(u) /\ dev \in Dev(hw, u)
  BY DEF DeviceInv, IsDevice
<1>7. ASSUME NEW d \in Dev(hw, u) PROVE Placed(d, call.m)
  <2>1. d.dram = dev.dram
    BY <1>6 DEF Dev
  <2> QED
    BY <1>5, <2>1, SameBanks
<1> QED
  BY <1>4, <1>6, <1>7 DEF InBanks

\* What an order is done to, and its columns.
LEMMA OrderParts ==
  ASSUME Fired
  PROVE  /\ BufferOrder.op = "WR_GB" /\ BufferOrder.chs = ToSet(hw.pim) /\ BufferOrder.col = -1
         /\ BiasOrder.op = "WR_BIAS" /\ BiasOrder.chs = ToSet(hw.pim) /\ BiasOrder.col = -1
         /\ \A w : MacOrder(w).op = "MAC_ABK" /\ MacOrder(w).chs = ToSet(hw.pim)
                   /\ MacOrder(w).col = -1
         /\ \A i : ReadOrder(i).op = "RD_MAC" /\ ReadOrder(i).chs = {hw.pim[i]}
         /\ EndOrder.op = "EOC" /\ EndOrder.col = -1
         /\ ToSet(hw.pim) # {} /\ {"WR_GB", "WR_BIAS", "MAC_ABK"} \subseteq Ops \ {"RD_MAC"}
         /\ ToSet(hw.pim) \X (0 .. NCols - 1) \in SUBSET (Channels(hw) \X Nat)
         /\ ToSet(hw.pim) \X {0} \in SUBSET (Channels(hw) \X Nat)
         /\ \A i \in 1 .. Len(hw.pim) : {hw.pim[i]} \X {0} \in SUBSET (Channels(hw) \X Nat)
<1>1. /\ ToSet(hw.pim) \in SUBSET Channels(hw) /\ ToSet(hw.pim) # {} /\ NCols \in Nat
      /\ \A i \in 1 .. Len(hw.pim) : hw.pim[i] \in Channels(hw)
  BY ChannelPlaces, FiredFacts
<1>2. 0 .. NCols - 1 \subseteq Nat
  BY <1>1
<1>3. {"WR_GB", "WR_BIAS", "MAC_ABK"} \subseteq Ops \ {"RD_MAC"}
  BY DEF Ops
<1>4. /\ BufferOrder.op = "WR_GB" /\ BufferOrder.chs = ToSet(hw.pim) /\ BufferOrder.col = -1
      /\ BiasOrder.op = "WR_BIAS" /\ BiasOrder.chs = ToSet(hw.pim) /\ BiasOrder.col = -1
      /\ \A w : MacOrder(w).op = "MAC_ABK" /\ MacOrder(w).chs = ToSet(hw.pim)
                /\ MacOrder(w).col = -1
      /\ \A i : ReadOrder(i).op = "RD_MAC" /\ ReadOrder(i).chs = {hw.pim[i]}
      /\ EndOrder.op = "EOC" /\ EndOrder.col = -1
  BY DEF BufferOrder, BiasOrder, MacOrder, ReadOrder, EndOrder, Cmd
<1>5. /\ ToSet(hw.pim) \X (0 .. NCols - 1) \in SUBSET (Channels(hw) \X Nat)
      /\ ToSet(hw.pim) \X {0} \in SUBSET (Channels(hw) \X Nat)
      /\ \A i \in 1 .. Len(hw.pim) : {hw.pim[i]} \X {0} \in SUBSET (Channels(hw) \X Nat)
  BY <1>1, <1>2
<1> QED
  BY <1>1, <1>3, <1>4, <1>5

\* An order that is executed at once.
LEMMA OrderRuns ==
  ASSUME Fired, call.ph \in {"fire", "isr"}, NEW u, InBanks(u), NEW d \in Dev(hw, u),
         NEW fast \in BOOLEAN, Firing(d, Micros(Head(todo))),
         NEW e, e = Execute(d, hw, fast, Head(todo))
  PROVE  e \in Dev(hw, u) /\ Firing(e, {})
<1> DEFINE rem == Micros(Head(todo))
<1>1. /\ Hardware(hw) /\ Memory(u) /\ ToSet(hw.pim) # {}
      /\ {"WR_GB", "WR_BIAS", "MAC_ABK"} \subseteq Ops \ {"RD_MAC"}
      /\ ToSet(hw.pim) \X (0 .. NCols - 1) \in SUBSET (Channels(hw) \X Nat)
      /\ ToSet(hw.pim) \X {0} \in SUBSET (Channels(hw) \X Nat)
  BY FiredFacts, OrderParts DEF InBanks
<1>2. CASE AtBuffer(d, rem)
  <2> DEFINE cmd == BufferOrder
             C == OnColumns(cmd)
             R == InBuffer(u)
  <2>1. Head(todo) = cmd
    BY <1>2, OrderAt
  <2>2. rem = cmd.chs \X C /\ C = 0 .. NCols - 1 /\ cmd \in Cmds(hw) /\ cmd.chs = ToSet(hw.pim)
        /\ cmd.op \in Ops \ {"RD_MAC"} /\ cmd.chs # {} /\ cmd.col = -1
    BY <1>1, <2>1, OrderParts, OrderFacts DEF Micros
  <2>3. Kept(R, hw, u, cmd, C)
    BY <1>1, <2>2, BufferKept
  <2>4. <<d, cmd.chs \X C>> \in R
    BY <1>1, <1>2, <2>2 DEF AtBuffer, InBuffer, InRounds
  <2>5. e = Execute(d, hw, fast, cmd)
    BY <2>1
  <2> HIDE DEF cmd, R
  <2>6. <<Execute(d, hw, fast, cmd), {}>> \in R
    BY <1>1, <2>2, <2>3, <2>4, ExecuteKept
  <2>7. e \in Dev(hw, u) /\ Loaded(e) /\ Buffered(e, {})
    BY <2>5, <2>6 DEF R, InBuffer, InRounds
  <2>8. AtBuffer(e, {})
    BY <1>2, <2>7 DEF AtBuffer
  <2> QED
    BY <2>7, <2>8 DEF Firing
<1>3. ASSUME NEW w \in 0 .. NWaves - 1, AtBias(d, rem, w)
      PROVE  e \in Dev(hw, u) /\ Firing(e, {})
  <2> DEFINE cmd == BiasOrder
             C == OnColumns(cmd)
             R == InBias(u)
  <2>1. Head(todo) = cmd
    BY <1>3, OrderAt
  <2>2. rem = cmd.chs \X C /\ C = {0} /\ cmd \in Cmds(hw) /\ cmd.chs = ToSet(hw.pim)
        /\ cmd.op \in Ops \ {"RD_MAC"} /\ cmd.chs # {} /\ cmd.col = -1
    BY <1>1, <2>1, OrderParts, OrderFacts DEF Micros
  <2>3. Kept(R, hw, u, cmd, C)
    BY <1>1, <2>2, BiasKept
  <2>4. <<d, cmd.chs \X C>> \in R
    BY <1>1, <1>3, <2>2 DEF AtBias, InBias, InRounds
  <2>5. e = Execute(d, hw, fast, cmd)
    BY <2>1
  <2> HIDE DEF cmd, R
  <2>6. <<Execute(d, hw, fast, cmd), {}>> \in R
    BY <1>1, <2>2, <2>3, <2>4, ExecuteKept
  <2>7. e \in Dev(hw, u) /\ Loaded(e) /\ Buffered(e, {}) /\ Cleared(e, {})
    BY <2>5, <2>6 DEF R, InBias, InRounds
  <2>8. AtBias(e, {}, w)
    BY <1>3, <2>7 DEF AtBias
  <2> QED
    BY <2>7, <2>8 DEF Firing
<1>4. ASSUME NEW w \in 0 .. NWaves - 1, AtMac(d, rem, w)
      PROVE  e \in Dev(hw, u) /\ Firing(e, {})
  <2> DEFINE cmd == MacOrder(w)
             C == OnColumns(cmd)
             R == InMac(u, w)
  <2>1. Head(todo) = cmd
    BY <1>4, OrderAt
  <2>2. rem = cmd.chs \X C /\ C = 0 .. NCols - 1 /\ cmd \in Cmds(hw) /\ cmd.chs = ToSet(hw.pim)
        /\ cmd.op \in Ops \ {"RD_MAC"} /\ cmd.chs # {} /\ cmd.col = -1
    BY <1>1, <2>1, OrderParts, OrderFacts DEF Micros
  <2>3. Kept(R, hw, u, cmd, C)
    BY <2>2, MacKept
  <2>4. <<d, cmd.chs \X C>> \in R
    BY <1>1, <1>4, <2>2 DEF AtMac, InMac, InRounds
  <2>5. e = Execute(d, hw, fast, cmd)
    BY <2>1
  <2> HIDE DEF cmd, R
  <2>6. <<Execute(d, hw, fast, cmd), {}>> \in R
    BY <1>1, <2>2, <2>3, <2>4, ExecuteKept
  <2>7. e \in Dev(hw, u) /\ Loaded(e) /\ Buffered(e, {}) /\ Summed(e, w, {})
    BY <2>5, <2>6 DEF R, InMac, InRounds
  <2>8. AtMac(e, {}, w)
    BY <1>4, <2>7 DEF AtMac
  <2> QED
    BY <2>7, <2>8 DEF Firing
<1>5. ASSUME NEW w \in 0 .. NWaves - 1, NEW i \in 1 .. Len(hw.pim), AtRead(d, rem, w, i)
      PROVE  e \in Dev(hw, u) /\ Firing(e, {})
  <2>1. Head(todo) = ReadOrder(i)
    BY <1>5, OrderAt
  <2>2. rem # {}
    <3>1. rem = {hw.pim[i]} \X {0}
      BY <2>1, MicrosAre
    <3>2. <<hw.pim[i], 0>> \in rem
      BY <3>1
    <3> QED
      BY <3>2
  <2>3. Reading(d, w, i - 1)
    BY <1>5, <2>2 DEF AtRead
  <2>4. e \in Dev(hw, u) /\ Reading(e, w, i)
    BY <1>1, <2>1, <2>3, ReadDone
  <2>5. AtRead(e, {}, w, i)
    BY <1>5, <2>4 DEF AtRead
  <2> QED
    BY <2>4, <2>5 DEF Firing
<1>6. CASE AtEnd(d, rem)
  <2>1. Head(todo) = EndOrder
    BY <1>6, OrderAt
  <2>2. Head(todo).op = "EOC"
    BY <2>1, OrderParts
  <2>3. e = d
    BY <2>2 DEF Execute, ExecuteMicro, Unrolls
  <2>4. AtEnd(e, {})
    BY <1>6, <2>3 DEF AtEnd
  <2> QED
    BY <2>3, <2>4 DEF Firing
<1>7. Firing(d, rem)
  OBVIOUS
<1> HIDE DEF rem
<1> QED
  BY <1>2, <1>3, <1>4, <1>5, <1>6, <1>7 DEF Firing

\* A micro command of an order retires.
LEMMA OrderRetires ==
  ASSUME Fired, call.ph \in {"fire", "isr"}, NEW u, InBanks(u), NEW d \in Dev(hw, u),
         NEW fast \in BOOLEAN, NEW rem, rem \subseteq Micros(Head(todo)), Firing(d, rem),
         NEW c, NEW col, <<c, col>> \in rem, NEW q,
         NEW cmd, cmd = Head(todo), Micro(q, hw, cmd, col),
         NEW e, e = ExecuteMicro(d, hw, fast, q, c)
  PROVE  e \in Dev(hw, u) /\ Firing(e, rem \ {<<c, col>>})
<1> DEFINE less == rem \ {<<c, col>>}
           C == OnColumns(cmd)
<1>1. /\ Hardware(hw) /\ Memory(u) /\ ToSet(hw.pim) # {}
      /\ {"WR_GB", "WR_BIAS", "MAC_ABK"} \subseteq Ops \ {"RD_MAC"}
      /\ ToSet(hw.pim) \X (0 .. NCols - 1) \in SUBSET (Channels(hw) \X Nat)
      /\ ToSet(hw.pim) \X {0} \in SUBSET (Channels(hw) \X Nat)
  BY FiredFacts, OrderParts DEF InBanks
<1>2. ASSUME cmd.op # "EOC" PROVE c \in cmd.chs /\ col \in C
  BY <1>2 DEF Micros
<1>3. CASE AtBuffer(d, rem)
  <2> DEFINE R == InBuffer(u)
  <2>1. cmd = BufferOrder
    BY <1>3, OrderAt
  <2>2. /\ C = 0 .. NCols - 1 /\ cmd \in Cmds(hw) /\ cmd.chs = ToSet(hw.pim)
        /\ cmd.op \in Ops \ {"RD_MAC"} /\ cmd.chs # {} /\ c \in cmd.chs /\ col \in C
    BY <1>1, <1>2, <2>1, OrderParts, OrderFacts
  <2>3. Kept(R, hw, u, cmd, C)
    BY <1>1, <2>1, <2>2, BufferKept
  <2>4. <<d, rem>> \in R
    <3>1. rem \in SUBSET (Channels(hw) \X Nat)
      BY <1>1, <2>1, MicrosAre
    <3> QED
      BY <1>3, <3>1 DEF AtBuffer, InBuffer, InRounds
  <2> HIDE DEF C, R
  <2>5. <<ExecuteMicro(d, hw, fast, q, c), rem \ {<<c, col>>}>> \in R
    BY <1>1, <2>2, <2>3, <2>4, RetireKept
  <2>6. e \in Dev(hw, u) /\ Loaded(e) /\ Buffered(e, less)
    BY <2>5 DEF R, InBuffer, InRounds
  <2>7. AtBuffer(e, less)
    BY <1>3, <2>6 DEF AtBuffer
  <2> QED
    BY <2>6, <2>7 DEF Firing
<1>4. ASSUME NEW w \in 0 .. NWaves - 1, AtBias(d, rem, w)
      PROVE  e \in Dev(hw, u) /\ Firing(e, less)
  <2> DEFINE R == InBias(u)
  <2>1. cmd = BiasOrder
    BY <1>4, OrderAt
  <2>2. /\ C = {0} /\ cmd \in Cmds(hw) /\ cmd.chs = ToSet(hw.pim)
        /\ cmd.op \in Ops \ {"RD_MAC"} /\ cmd.chs # {} /\ c \in cmd.chs /\ col \in C
    BY <1>1, <1>2, <2>1, OrderParts, OrderFacts
  <2>3. Kept(R, hw, u, cmd, C)
    BY <1>1, <2>1, <2>2, BiasKept
  <2>4. <<d, rem>> \in R
    <3>1. rem \in SUBSET (Channels(hw) \X Nat)
      BY <1>1, <2>1, MicrosAre
    <3> QED
      BY <1>4, <3>1 DEF AtBias, InBias, InRounds
  <2> HIDE DEF C, R
  <2>5. <<ExecuteMicro(d, hw, fast, q, c), rem \ {<<c, col>>}>> \in R
    BY <1>1, <2>2, <2>3, <2>4, RetireKept
  <2>6. e \in Dev(hw, u) /\ Loaded(e) /\ Buffered(e, {}) /\ Cleared(e, less)
    BY <2>5 DEF R, InBias, InRounds
  <2>7. AtBias(e, less, w)
    BY <1>4, <2>6 DEF AtBias
  <2> QED
    BY <2>6, <2>7 DEF Firing
<1>5. ASSUME NEW w \in 0 .. NWaves - 1, AtMac(d, rem, w)
      PROVE  e \in Dev(hw, u) /\ Firing(e, less)
  <2> DEFINE R == InMac(u, w)
  <2>1. cmd = MacOrder(w)
    BY <1>5, OrderAt
  <2>2. /\ C = 0 .. NCols - 1 /\ cmd \in Cmds(hw) /\ cmd.chs = ToSet(hw.pim)
        /\ cmd.op \in Ops \ {"RD_MAC"} /\ cmd.chs # {} /\ c \in cmd.chs /\ col \in C
    BY <1>1, <1>2, <2>1, OrderParts, OrderFacts
  <2>3. Kept(R, hw, u, cmd, C)
    BY <2>1, <2>2, MacKept
  <2>4. <<d, rem>> \in R
    <3>1. rem \in SUBSET (Channels(hw) \X Nat)
      BY <1>1, <2>1, MicrosAre
    <3> QED
      BY <1>5, <3>1 DEF AtMac, InMac, InRounds
  <2> HIDE DEF C, R
  <2>5. <<ExecuteMicro(d, hw, fast, q, c), rem \ {<<c, col>>}>> \in R
    BY <1>1, <2>2, <2>3, <2>4, RetireKept
  <2>6. e \in Dev(hw, u) /\ Loaded(e) /\ Buffered(e, {}) /\ Summed(e, w, less)
    BY <2>5 DEF R, InMac, InRounds
  <2>7. AtMac(e, less, w)
    BY <1>5, <2>6 DEF AtMac
  <2> QED
    BY <2>6, <2>7 DEF Firing
<1>6. ASSUME NEW w \in 0 .. NWaves - 1, NEW i \in 1 .. Len(hw.pim), AtRead(d, rem, w, i)
      PROVE  e \in Dev(hw, u) /\ Firing(e, less)
  <2>1. cmd = ReadOrder(i)
    BY <1>6, OrderAt
  <2>2. rem \subseteq {hw.pim[i]} \X {0}
    BY <2>1, MicrosAre
  <2>3. rem = {<<c, col>>} /\ c = hw.pim[i] /\ less = {} /\ rem # {}
    BY <2>2
  <2>4. Reading(d, w, i - 1) /\ Micro(q, hw, ReadOrder(i), col)
    BY <1>6, <2>1, <2>3 DEF AtRead
  <2>5. e \in Dev(hw, u) /\ Reading(e, w, i)
    BY <1>1, <2>3, <2>4, ReadRetires
  <2>6. AtRead(e, {}, w, i)
    BY <1>6, <2>5 DEF AtRead
  <2> QED
    BY <2>3, <2>5, <2>6 DEF Firing
<1>7. ~AtEnd(d, rem)
  BY DEF AtEnd
<1>8. \/ AtBuffer(d, rem)
      \/ \E w \in 0 .. NWaves - 1 :
           \/ AtBias(d, rem, w) \/ AtMac(d, rem, w)
           \/ \E i \in 1 .. Len(hw.pim) : AtRead(d, rem, w, i)
  BY <1>7 DEF Firing
<1>9. CASE \E w \in 0 .. NWaves - 1 :
             \/ AtBias(d, rem, w) \/ AtMac(d, rem, w)
             \/ \E i \in 1 .. Len(hw.pim) : AtRead(d, rem, w, i)
  BY <1>4, <1>5, <1>6, <1>9, Zenon
<1> QED
  BY <1>3, <1>8, <1>9, Zenon

\* This process executes the next order.
LEMMA FireRight ==
  ASSUME LinearInv, DeviceInv, SupplyInv, OldInv, FireInv, Fire
  PROVE  FireInv' /\ ProductRight' /\ call'.ph \in {"fire", "done"} /\ dev'.dram = dev.dram
<1>1. /\ call.ph = "fire" /\ UNCHANGED <<conf, y0, rowBase>>
      /\ dev' = Execute(dev, hw, conf.fast, Head(todo)) /\ Executed(dev', Head(todo))
  BY DEF Fire
<1>2. Fired /\ conf.fast \in BOOLEAN
  BY <1>1, FiringFacts, FiredFacts
<1>3. PICK u : InBanks(u) /\ dev \in Dev(hw, u)
  BY <1>1, FiringFacts
<1>4. PICK d : d = dev
  OBVIOUS
<1>5. PICK e : e = dev'
  OBVIOUS
<1>6. Firing(d, Micros(Head(todo)))
  BY <1>1, <1>4 DEF FireInv
<1>7. e \in Dev(hw, u) /\ Firing(e, {})
  BY <1>1, <1>2, <1>3, <1>4, <1>5, <1>6, OrderRuns
<1>8. Goes(e, Head(todo))
  <2>1. /\ call'.m = call.m /\ call'.n = call.n /\ call'.acc = call.acc
        /\ call'.nTok = call.nTok
    BY <1>1, <1>2 DEF Executed, Fired, CallInv
  <2>2. SameCall
    BY <1>1, <2>1, CallSame
  <2> QED
    BY <1>1, <1>5, <2>2 DEF Goes
<1>9. FireInv' /\ ProductRight' /\ call'.ph \in {"fire", "done"}
  BY <1>2, <1>5, <1>7, <1>8, OrderDone
<1>10. dev'.dram = dev.dram
  BY <1>3, <1>5, <1>7 DEF Dev
<1> QED
  BY <1>9, <1>10

\* All micro commands of an order have retired.
LEMMA IdleRight ==
  ASSUME LinearInv, DeviceInv, SupplyInv, OldInv, FireInv, Idle
  PROVE  FireInv' /\ ProductRight' /\ call'.ph \in {"fire", "done"}
<1>1. /\ call.ph = "isr" /\ isr = {} /\ UNCHANGED <<conf, y0, rowBase, dev>>
      /\ Executed(dev, Head(todo))
  BY DEF Idle, pimvars
<1>2. Fired
  BY <1>1, FiringFacts
<1>3. PICK u : InBanks(u) /\ dev \in Dev(hw, u)
  BY <1>1, FiringFacts
<1>4. PICK d : d = dev
  OBVIOUS
<1>5. d \in Dev(hw, u) /\ Firing(d, {}) /\ dev' = d
  BY <1>1, <1>3, <1>4 DEF FireInv
<1>6. Goes(d, Head(todo))
  <2>1. /\ call'.m = call.m /\ call'.n = call.n /\ call'.acc = call.acc
        /\ call'.nTok = call.nTok
    BY <1>1, <1>2 DEF Executed, Fired, CallInv
  <2>2. SameCall
    BY <1>1, <2>1, CallSame
  <2> QED
    BY <1>1, <1>4, <2>2 DEF Goes
<1> QED
  BY <1>2, <1>5, <1>6, OrderDone

\* The place in the plan stays what it is while only the device changes.
LEMMA FiringSame ==
  ASSUME SameCall, UNCHANGED <<y, y0, todo, wave>>, NEW d, NEW rem, Firing(d, rem)
  PROVE  Firing(d, rem)'
<1>1. \A n : YRight(n) => YRight(n)'
  BY DEF YRight, SameCall
<1>2. \A p : TodoIs(p) => TodoIs(p)'
  BY DEF TodoIs, SameCall
<1>3. PerWave' = PerWave /\ NWaves' = NWaves /\ hw' = hw
  BY DEF SameCall
<1>4. CASE AtBuffer(d, rem)
  <2>1. AtBuffer(d, rem)'
    BY <1>1, <1>2, <1>4 DEF AtBuffer, SameCall
  <2> QED
    BY <2>1 DEF Firing
<1>5. ASSUME NEW w \in 0 .. NWaves - 1, AtBias(d, rem, w) PROVE Firing(d, rem)'
  <2>1. TodoIs(w * PerWave + 1)'
    BY <1>2, <1>3, <1>5 DEF AtBias, TodoIs, SameCall
  <2>2. AtBias(d, rem, w)'
    BY <1>1, <1>5, <2>1 DEF AtBias, SameCall
  <2> QED
    BY <1>3, <2>2 DEF Firing
<1>6. ASSUME NEW w \in 0 .. NWaves - 1, AtMac(d, rem, w) PROVE Firing(d, rem)'
  <2>1. TodoIs(w * PerWave + 2)'
    BY <1>2, <1>3, <1>6 DEF AtMac, TodoIs, SameCall
  <2>2. AtMac(d, rem, w)'
    BY <1>1, <1>6, <2>1 DEF AtMac, SameCall
  <2> QED
    BY <1>3, <2>2 DEF Firing
<1>7. ASSUME NEW w \in 0 .. NWaves - 1, NEW i \in 1 .. Len(hw.pim), AtRead(d, rem, w, i)
      PROVE  Firing(d, rem)'
  <2>1. TodoIs(w * PerWave + (i + 2))'
    BY <1>2, <1>3, <1>7 DEF AtRead, TodoIs, SameCall
  <2>2. AtRead(d, rem, w, i)'
    BY <1>1, <1>7, <2>1 DEF AtRead, SameCall
  <2> QED
    BY <1>3, <2>2 DEF Firing
<1>8. CASE AtEnd(d, rem)
  <2>1. TodoIs(NWaves * PerWave + 1)' /\ YRight(NWaves)'
    BY <1>3, <1>8 DEF AtEnd, TodoIs, YRight, SameCall
  <2>2. AtEnd(d, rem)'
    BY <1>8, <2>1 DEF AtEnd
  <2> QED
    BY <2>2 DEF Firing
<1>9. CASE \E w \in 0 .. NWaves - 1 :
             \/ AtBias(d, rem, w) \/ AtMac(d, rem, w)
             \/ \E i \in 1 .. Len(hw.pim) : AtRead(d, rem, w, i)
  BY <1>5, <1>6, <1>7, <1>9, Zenon
<1> QED
  BY <1>4, <1>8, <1>9 DEF Firing

\* The orders there are.
LEMMA SomeOrder ==
  ASSUME Fired, call.ph \in {"fire", "isr"}, NEW d, NEW rem, Firing(d, rem)
  PROVE  \/ Head(todo) \in {BufferOrder, BiasOrder, EndOrder}
         \/ \E w \in 0 .. NWaves - 1 : Head(todo) = MacOrder(w)
         \/ \E i \in 1 .. Len(hw.pim) : Head(todo) = ReadOrder(i)
<1>1. CASE AtBuffer(d, rem) \/ AtEnd(d, rem)
  BY <1>1, OrderAt
<1>2. CASE \E w \in 0 .. NWaves - 1 :
             \/ AtBias(d, rem, w) \/ AtMac(d, rem, w)
             \/ \E i \in 1 .. Len(hw.pim) : AtRead(d, rem, w, i)
  BY <1>2, OrderAt
<1> QED
  BY <1>1, <1>2 DEF Firing

\* An order becomes its micro commands.
LEMMA IssueRight ==
  ASSUME LinearInv, DeviceInv, SupplyInv, FireInv, Issue
  PROVE  FireInv' /\ ProductRight' /\ call'.ph = "isr"
<1> DEFINE c == Head(todo)
           chs == IF c.op = "RD_MAC" THEN c.chs ELSE ToSet(hw.pim)
           cols == IF c.op \in {"WR_GB", "MAC_ABK"} THEN 0 .. c.opsize - 1 ELSE {0}
<1>1. /\ call.ph = "fire" /\ UNCHANGED <<conf, y, y0, todo, wave, dev, rowBase>>
      /\ call' = [call EXCEPT !.ph = "isr"]
      /\ isr' = IF c.op = "EOC" THEN {} ELSE chs \X cols
  BY DEF Issue, pimvars
<1>2. Fired
  BY <1>1, FiringFacts
<1>3. PICK d, rem : d = dev /\ rem = Micros(Head(todo)) /\ Firing(d, rem)
  BY <1>1 DEF FireInv
<1>4. isr' = rem
  <2>1. /\ BufferOrder.opsize = NCols /\ BufferOrder.op = "WR_GB"
        /\ \A w : MacOrder(w).opsize = NCols /\ MacOrder(w).op = "MAC_ABK"
        /\ BiasOrder.op = "WR_BIAS" /\ EndOrder.op = "EOC"
        /\ \A i : ReadOrder(i).op = "RD_MAC" /\ ReadOrder(i).chs = {hw.pim[i]}
    BY DEF BufferOrder, MacOrder, BiasOrder, EndOrder, ReadOrder, Cmd
  <2>2. CASE c = BufferOrder
    BY <1>1, <1>2, <1>3, <2>1, <2>2, MicrosAre
  <2>3. CASE c = BiasOrder
    BY <1>1, <1>2, <1>3, <2>1, <2>3, MicrosAre
  <2>4. CASE c = EndOrder
    BY <1>1, <1>2, <1>3, <2>1, <2>4, MicrosAre
  <2>5. ASSUME NEW w \in 0 .. NWaves - 1, c = MacOrder(w) PROVE isr' = rem
    BY <1>1, <1>2, <1>3, <2>1, <2>5, MicrosAre
  <2>6. ASSUME NEW i \in 1 .. Len(hw.pim), c = ReadOrder(i) PROVE isr' = rem
    BY <1>1, <1>2, <1>3, <2>1, <2>6, MicrosAre
  <2> QED
    BY <1>1, <1>2, <1>3, <2>2, <2>3, <2>4, <2>5, <2>6, SomeOrder
<1>5. /\ call'.m = call.m /\ call'.n = call.n /\ call'.acc = call.acc
      /\ call'.nTok = call.nTok /\ call'.ph = "isr"
  BY <1>1, <1>2 DEF Fired, CallInv
<1>6. SameCall
  BY <1>1, <1>5, CallSame
<1>7. Firing(d, rem)'
  BY <1>1, <1>3, <1>6, FiringSame
<1> HIDE DEF chs, cols
<1>8. FireInv'
  BY <1>1, <1>3, <1>4, <1>5, <1>7 DEF FireInv
<1> QED
  BY <1>5, <1>8 DEF ProductRight

\* A micro command retires.
LEMMA RetireRight ==
  ASSUME LinearInv, DeviceInv, SupplyInv, FireInv, Retire
  PROVE  FireInv' /\ ProductRight' /\ call' = call /\ call.ph = "isr" /\ dev'.dram = dev.dram
<1>1. /\ call.ph = "isr" /\ UNCHANGED <<conf, call, y, y0, rowBase, todo, wave>>
  BY DEF Retire
<1>2. PICK m \in isr :
        /\ isr' = isr \ {m}
        /\ dev' = ExecuteMicro(dev, hw, conf.fast,
                    [Head(todo) EXCEPT !.col = m[2], !.opsize = 1], m[1])
  BY DEF Retire
<1>3. Fired /\ conf.fast \in BOOLEAN
  BY <1>1, FiringFacts, FiredFacts
<1>4. PICK u : InBanks(u) /\ dev \in Dev(hw, u)
  BY <1>1, FiringFacts
<1>5. PICK d, rem : d = dev /\ rem = isr /\ rem \subseteq Micros(Head(todo)) /\ Firing(d, rem)
  BY <1>1 DEF FireInv
<1>6. PICK c, col : c = m[1] /\ col = m[2]
  OBVIOUS
<1>7. m = <<c, col>> /\ col \in Nat
  BY <1>1, <1>6 DEF DeviceInv
<1> DEFINE cmd == Head(todo)
           q == [cmd EXCEPT !.col = col, !.opsize = 1]
<1>8. cmd \in Cmds(hw)
  BY <1>1, NextOrder
<1>9. Micro(q, hw, cmd, col)
  <2>1. Hardware(hw) /\ col \in Int /\ 1 \in Int
    BY <1>3, <1>7, FiredFacts
  <2> HIDE DEF cmd
  <2>2. /\ q \in Cmds(hw) /\ q.op = cmd.op /\ q.gpr0 = cmd.gpr0 /\ q.row = cmd.row
        /\ q.chs = cmd.chs /\ q.col = col
    BY <1>8, <2>1 DEF Cmds
  <2> HIDE DEF q
  <2>3. Col(q) = col
    BY <1>7, <2>1, <2>2, CommandFacts
  <2> QED
    BY <2>2, <2>3 DEF Micro
<1>10. PICK e : e = dev'
  OBVIOUS
<1>11. e = ExecuteMicro(d, hw, conf.fast, q, c) /\ <<c, col>> \in rem /\ d \in Dev(hw, u)
  BY <1>2, <1>4, <1>5, <1>6, <1>7, <1>10
<1>12. cmd = Head(todo)
  OBVIOUS
<1> HIDE DEF cmd, q
<1>13. e \in Dev(hw, u) /\ Firing(e, rem \ {<<c, col>>})
  BY <1>1, <1>3, <1>4, <1>5, <1>9, <1>11, <1>12, OrderRetires
<1>14. PICK less : less = rem \ {<<c, col>>}
  OBVIOUS
<1>15. SameCall
  BY <1>1, CallSame
<1>16. Firing(e, less)'
  BY <1>1, <1>13, <1>14, <1>15, FiringSame
<1>17. less = isr' /\ less \subseteq Micros(Head(todo')) /\ e = dev'
  BY <1>1, <1>2, <1>5, <1>7, <1>10, <1>14
<1>18. FireInv'
  BY <1>1, <1>16, <1>17 DEF FireInv
<1>19. dev'.dram = dev.dram
  BY <1>4, <1>10, <1>13 DEF Dev
<1> QED
  BY <1>1, <1>18, <1>19 DEF ProductRight

-----------------------------------------------------------------------------
(* How a product begins.                                                   *)

\* What says which product the call is stays: its cells and values are those
\* of before.
LEMMA JobSame ==
  ASSUME conf' = conf, call'.m = call.m, call'.n = call.n, call'.nTok = call.nTok
  PROVE  /\ hw' = hw /\ mat' = mat /\ Job' = Job /\ Area' = Area /\ Dots(Job)' = Dots(Job)
         /\ \A c : At(c)' = At(c)
<1>1. hw' = hw /\ mat' = mat
  BY DEF hw, mat
<1>2. Job' = Job
  BY DEF Job, Product
<1>3. Area' = Area /\ Dots(Job)' = Dots(Job)
  BY <1>2 DEF Area, CellsIn, Dots
<1>4. \A c : At(c)' = At(c)
  BY <1>1 DEF At
<1> QED
  BY <1>1, <1>2, <1>3, <1>4

\* The threads of a product of the host start with nothing in their hands.
LEMMA NothingHeld ==
  ASSUME NEW p, NEW quant, CpuJob(p, quant)
  PROVE  \A t \in DOMAIN work' : held'[t] = <<>>
<1> DEFINE n == IF conf.backend = "plain" THEN 1 ELSE conf.threads
<1>1. DOMAIN work' = 0 .. n - 1
  BY DEF CpuJob, StartPool
<1>2. held' = [t \in 0 .. n - 1 |-> <<>>]
  BY DEF CpuJob, StartPool
<1> QED
  BY <1>1, <1>2

\* A product of the process has sizes and numbers.
LEMMA ProductFacts ==
  ASSUME NEW m \in Mats, NEW n \in 1 .. MaxCalls, NEW nTok \in Tokens
  PROVE  IsProduct(Product(m, n, nTok))
<1> DEFINE p == Product(m, n, nTok)
<1>1. /\ p.w = W[m] /\ p.x = X[n] /\ p.nTok = nTok
      /\ p.nOut = Info[m].nOut /\ p.nIn = Info[m].nIn
  BY DEF Product
<1>2. Info[m].nOut \in Nat /\ Info[m].nIn \in Nat /\ nTok \in Nat \ {0}
  BY LinearAssumption
<1>3. ASSUME NEW o \in 0 .. Info[m].nOut - 1, NEW t \in 0 .. nTok - 1
      PROVE  Vectors(W[m][o], X[n][t], Info[m].nIn)
  BY LinearAssumption DEF Vectors
<1> HIDE DEF p
<1>4. IsProduct(p)
  BY <1>1, <1>2, <1>3 DEF IsProduct
<1> QED
  BY <1>4 DEF p

\* y is as the caller has left it.
Untouched == \A i \in Cells : y[i] = y0[i]

\* The threads of the host begin with a product.
LEMMA CpuBegins ==
  ASSUME CallInv, conf' = conf, NEW m \in Mats, NEW n \in 1 .. MaxCalls, NEW nTok \in Tokens,
         call'.m = m, call'.n = n, call'.nTok = nTok, call'.ph = "work",
         NEW quant, CpuJob(Product(m, n, nTok), quant), Untouched'
  PROVE  PoolRight'
<1> DEFINE p == Product(m, n, nTok)
<1>1. IsProduct(p) /\ CpuJob(p, quant)
  BY ProductFacts
<1>2. Job' = p
  BY DEF Job, Product
<1> HIDE DEF p
<1>3. Area' = CellsIn(p) /\ Dots(Job)' = Dots(p)
  BY <1>2 DEF Area, CellsIn, Dots
<1>4. conf.threads \in Nat \ {0}
  BY LinearAssumption DEF CallInv
<1>5. Dealt(work', Area', Dots(Job)')
  BY <1>1, <1>3, <1>4, CpuDealt
<1>6. \A t \in DOMAIN work' : held'[t] = <<>>
  BY <1>1, NothingHeld
<1>7. RestKept'
  BY DEF RestKept, Untouched
<1>8. \A c \in Area' : At(c)' \in Cells /\ call'.acc => Target'[At(c)'] = y0'[At(c)']
  <2>1. Target' = y'
    BY DEF Target
  <2> QED
    BY <2>1 DEF Untouched
<1> QED
  BY <1>5, <1>6, <1>7, <1>8, PoolBegins

\* What is not taken by the device is begun by the CPU.
LEMMA FallBackRight ==
  ASSUME LinearInv, DeviceInv, SupplyInv, call.ph = "prepare", FallBack,
         UNCHANGED <<conf, y, y0>>
  PROVE  PoolRight' /\ call'.ph = "work"
<1>1. /\ call' = [call EXCEPT !.ph = "work"]
      /\ CpuJob(Product(call.m, call.n, call.nTok), FALSE)
  BY DEF FallBack
<1>2. PICK m, n, nTok : m = call.m /\ n = call.n /\ nTok = call.nTok
  OBVIOUS
<1>3. m \in Mats /\ n \in 1 .. MaxCalls /\ nTok \in Tokens /\ CallInv
  BY <1>2 DEF LinearInv, CallInv, DeviceInv
<1>4. call'.m = m /\ call'.n = n /\ call'.nTok = nTok /\ call'.ph = "work"
  BY <1>1, <1>2, <1>3 DEF CallInv
<1>5. Untouched'
  BY DEF SupplyInv, OffloadInv, Untouched
<1>6. CpuJob(Product(m, n, nTok), FALSE)
  BY <1>1, <1>2
<1> QED
  BY <1>3, <1>4, <1>5, <1>6, CpuBegins

\* A call that will use the device, in the state its product begins.
LEMMA GemvFacts ==
  ASSUME LinearInv, DeviceInv, SupplyInv, call.ph = "prepare", Ready
  PROVE  /\ CallInv /\ call.m \in Mats /\ call.nTok = 1 /\ mat.nOut > 0 /\ mat.nIn > 0
         /\ rowBase[call.m] >= 0 /\ Untouched /\ Placed(dev, call.m) /\ (Fits => Fired)
         /\ \E u : InBanks(u) /\ dev \in Dev(hw, u)
<1>1. CallInv /\ call.m \in Mats /\ rowBase[call.m] >= 0 /\ ~stale[call.m] /\ call.ph # "idle"
  BY DEF LinearInv, CallInv, Ready
<1>2. call.nTok = 1 /\ mat.nOut > 0 /\ mat.nIn > 0 /\ Untouched
  BY DEF SupplyInv, OffloadInv, Untouched
<1>3. Placed(dev, call.m)
  BY <1>1 DEF SupplyInv, WeightsInv
<1>4. Fits => Fired
  BY <1>1, <1>2 DEF Fired
<1>5. PICK u : Memory(u) /\ dev \in Dev(hw, u)
  BY DEF DeviceInv, IsDevice
<1>6. ASSUME NEW d \in Dev(hw, u) PROVE Placed(d, call.m)
  <2>1. d.dram = dev.dram
    BY <1>5 DEF Dev
  <2> QED
    BY <1>3, <2>1, SameBanks
<1> QED
  BY <1>1, <1>2, <1>3, <1>4, <1>5, <1>6 DEF InBanks

\* x in its registers, and the zero in the one behind them.
Written(d) == GprWrite(LoadActivation(d, X[call.n][0], mat.nIn), NCols, ZeroBurst)

\* With x written to the registers, the device is loaded.
LEMMA WrittenIsLoaded ==
  ASSUME Fired, NEW u, Memory(u), NEW d \in Dev(hw, u)
  PROVE  Written(d) \in Dev(hw, u) /\ Loaded(Written(d))
<1> DEFINE n == mat.nIn
           x == X[call.n][0]
           C == Ceil(n, Lanes)
           I == 0 .. C - 1
           a == LoadActivation(d, x, n)
           v(col) == ActivationBurst(x, n, col)
<1>1. /\ Hardware(hw) /\ n \in Nat /\ NCols \in Nat \ {0} /\ NCols + 8 < hw.gprs
      /\ hw.gprs \in Nat /\ C = NCols
  BY FiredFacts DEF NCols
<1>2. \A i \in 0 .. n - 1 : x[i] \in Int
  <2>1. call.m \in Mats /\ call.n \in 1 .. MaxCalls /\ call.nTok \in Tokens /\ call.nTok = 1
    BY DEF Fired, CallInv, DeviceInv
  <2>2. 0 \in 0 .. call.nTok - 1
    BY <2>1
  <2>3. \A t \in 0 .. call.nTok - 1, i \in 0 .. Info[call.m].nIn - 1 : X[call.n][t][i] \in Int
    BY <2>1, LinearAssumption
  <2> QED
    BY <2>2, <2>3 DEF mat
<1> HIDE DEF n, x
<1>3. a \in Dev(hw, u) /\ \E f : LoadActivationRun(f, hw, u, d, x, n)
  BY <1>1, <1>2, LoadActivationRounds
<1>4. PICK f : LoadActivationRun(f, hw, u, d, x, n)
  BY <1>3
<1>5. /\ f[{}] = d /\ a = f[I] /\ \A s \in SUBSET I : f[s] \in Dev(hw, u)
      /\ \A s \in SUBSET I : s # {} => f[s] = GprWrite(f[s \ {Max(s)}], Max(s), v(Max(s)))
  BY <1>4 DEF LoadActivationRun, States
<1>6. \A col \in I : v(col) \in Burst
  BY <1>1, <1>2, ActivationType
<1> HIDE DEF C, a, v
<1> DEFINE T == {s \in SUBSET I : \A col \in s : GprRead(f[s], col) = v(col)}
<1>7. {} \in T
  OBVIOUS
<1>8. ASSUME NEW s \in SUBSET I, s # {}, s \ {Max(s)} \in T PROVE s \in T
  <2> DEFINE m == Max(s)
             r == s \ {m}
  <2>1. m \in s /\ m \in I /\ r \in SUBSET I
    <3>1. C - 1 \in Nat /\ s \in SUBSET (0 .. C - 1)
      BY <1>1
    <3>2. m \in s
      BY <1>8, <3>1, Greatest
    <3> QED
      BY <3>2
  <2> HIDE DEF m
  <2>2. /\ f[s] = GprWrite(f[r], m, v(m)) /\ f[r] \in Dev(hw, u)
        /\ \A col \in r : GprRead(f[r], col) = v(col)
    BY <1>5, <1>8, <2>1 DEF m
  <2>3. v(m) \in Burst
    BY <1>6, <2>1
  <2>4. f[s].gpr = [k \in DOMAIN f[r].gpr |-> IF k = m THEN v(m) ELSE f[r].gpr[k]]
    <3> DEFINE b == v(m)
               o == f[r]
    <3>1. o \in Dev(hw, u) /\ b \in Burst /\ f[s] = GprWrite(o, m, b)
      BY <2>2, <2>3
    <3> HIDE DEF b, o
    <3>2. f[s].gpr = [k \in DOMAIN o.gpr |-> IF k = m THEN b ELSE o.gpr[k]]
      BY <3>1, GprWriteFields
    <3> QED
      BY <3>2 DEF b, o
  <2>5. DOMAIN f[r].gpr = 0 .. hw.gprs - 1 /\ DOMAIN f[s].gpr = 0 .. hw.gprs - 1
    BY <2>2, <2>4 DEF Dev
  <2>6. m \in 0 .. hw.gprs - 1
    BY <1>1, <2>1
  <2>7. ASSUME NEW col \in s PROVE GprRead(f[s], col) = v(col)
    <3>1. CASE col = m
      BY <2>4, <2>5, <2>6, <3>1 DEF GprRead
    <3>2. CASE col # m
      <4>1. col \in r
        BY <3>2
      <4>2. GprRead(f[s], col) = GprRead(f[r], col)
        BY <2>4, <2>5, <3>2 DEF GprRead
      <4> QED
        BY <2>2, <4>1, <4>2
    <3> QED
      BY <3>1, <3>2
  <2> QED
    BY <2>7
<1>9. SUBSET I \subseteq T
  <2>1. C - 1 \in Nat /\ I \in SUBSET (0 .. C - 1)
    BY <1>1
  <2> HIDE DEF T, I
  <2> QED
    BY <1>7, <1>8, <2>1, EachInduction
<1>10. \A col \in I : GprRead(a, col) = v(col)
  <2>1. I \in T
    BY <1>9
  <2> QED
    BY <1>5, <2>1
<1> DEFINE e == GprWrite(a, NCols, ZeroBurst)
<1>11. /\ e \in Dev(hw, u)
       /\ e.gpr = [k \in DOMAIN a.gpr |-> IF k = NCols THEN ZeroBurst ELSE a.gpr[k]]
  BY <1>3, ZeroIsBurst, GprWriteFields
<1>12. DOMAIN a.gpr = 0 .. hw.gprs - 1 /\ NCols \in 0 .. hw.gprs - 1
  BY <1>1, <1>3 DEF Dev
<1> HIDE DEF e
<1>13. GprRead(e, NCols) = ZeroBurst
  BY <1>11, <1>12 DEF GprRead
<1>14. ASSUME NEW col \in 0 .. NCols - 1 PROVE GprRead(e, col) = Input(col)
  <2>1. col \in I /\ col # NCols
    BY <1>1
  <2>2. GprRead(e, col) = GprRead(a, col)
    BY <1>11, <1>12, <2>1 DEF GprRead
  <2>3. v(col) = Input(col)
    BY DEF v, Input, x, n
  <2> QED
    BY <1>10, <2>1, <2>2, <2>3
<1>15. e \in Dev(hw, u) /\ Loaded(e)
  BY <1>11, <1>13, <1>14 DEF Loaded
<1>16. e = Written(d)
  BY DEF Written, e, a, x, n
<1> QED
  BY <1>15, <1>16

\* The burst of x in each column.
HasInput(x) == \A col \in 0 .. NCols - 1 : x[col] = Input(col)

\* y, or what the MAC worker's threads write instead of it, is as the caller
\* has left it where the product goes.
Opens == \A c \in Area : At(c) \in Cells /\ call.acc => Target[At(c)] = y0[At(c)]

\* The waves of a product are dealt out.
LEMMA WavesBegin ==
  ASSUME LinearInv, DeviceInv, SupplyInv, call.ph = "prepare", Ready, UNCHANGED <<conf, y, y0>>,
         NEW w, Memory(w), NEW d \in Dev(hw, w), Placed(d, call.m), NEW x, HasInput(x),
         WaveJob(d, x), NEW ph \in {"work", "remote"}, call' = [call EXCEPT !.ph = ph], Opens'
  PROVE  PoolRight' /\ call'.ph = ph
<1>1. CallInv /\ call.m \in Mats /\ call.nTok = 1 /\ Untouched
  BY GemvFacts
<1>2. /\ call'.m = call.m /\ call'.n = call.n /\ call'.nTok = call.nTok /\ call'.ph = ph
      /\ call'.acc = call.acc
  BY <1>1 DEF CallInv
<1>3. Area' = Area /\ Dots(Job)' = Dots(Job)
  BY <1>2, JobSame
<1>4. WavesRight(d, x, Dots(Job)) /\ Area = Firsts
  <2>1. \A col \in 0 .. NCols - 1 : x[col] = ActivationBurst(X[call.n][0], mat.nIn, col)
    BY DEF HasInput, Input
  <2>2. call.ph # "idle"
    OBVIOUS
  <2> QED
    BY <1>1, <2>1, <2>2, PlacedIsRight
<1>5. PICK v : v = Dots(Job)
  OBVIOUS
<1>6. Len(hw.pim) \in Nat \ {0} /\ mat.nOut \in Nat /\ conf.threads \in Nat \ {0}
  <2>1. Len(hw.pim) \in Nat \ {0}
    BY <1>1, HardwareFacts, LenProperties
  <2>2. conf.threads \in Nat \ {0}
    BY <1>1, LinearAssumption DEF CallInv
  <2> QED
    BY <1>1, <2>1, <2>2, MatrixFacts
<1>7. Dealt(work', Firsts, v) /\ \A t \in DOMAIN work' : held'[t] = <<>>
  BY <1>4, <1>5, <1>6, WaveDealt
<1>8. RestKept'
  BY <1>1, <1>2 DEF RestKept, Untouched
<1>9. \A c \in Area' : At(c)' \in Cells /\ call'.acc => Target'[At(c)'] = y0'[At(c)']
  BY DEF Opens
<1>10. Dealt(work', Area', Dots(Job)')
  BY <1>3, <1>4, <1>5, <1>7
<1> QED
  BY <1>2, <1>7, <1>8, <1>9, <1>10, PoolBegins

\* The product is handed to the MAC worker.
LEMMA RemoteRight ==
  ASSUME LinearInv, DeviceInv, SupplyInv, call.ph = "prepare", Ready, UNCHANGED <<conf, y, y0>>,
         call' = [call EXCEPT !.ph = "remote"], WaveJob(dev, Bursts(X[call.n][0])),
         arena' = IF call.acc THEN [i \in Cells |-> IF i < mat.nOut THEN y[i] ELSE arena[i]]
                  ELSE arena
  PROVE  PoolRight' /\ call'.ph = "remote"
<1>1. /\ CallInv /\ call.m \in Mats /\ call.nTok = 1 /\ Untouched /\ Placed(dev, call.m)
      /\ mat.nOut \in Nat
  BY GemvFacts, MatrixFacts
<1>2. PICK u : Memory(u) /\ dev \in Dev(hw, u)
  BY GemvFacts DEF InBanks
<1>3. PICK d : d = dev
  OBVIOUS
<1>4. PICK x : x = Bursts(X[call.n][0])
  OBVIOUS
<1>5. HasInput(x)
  BY <1>4 DEF HasInput, Input, Bursts, ActivationBurst
<1>6. /\ call'.m = call.m /\ call'.n = call.n /\ call'.nTok = call.nTok /\ call'.ph = "remote"
      /\ call'.acc = call.acc
  BY <1>1 DEF CallInv
<1>7. Opens'
  <2>1. Area' = Area /\ Target' = arena' /\ \A c : At(c)' = At(c)
    BY <1>6, JobSame DEF Target
  <2>2. Area = (0 .. call.nTok - 1) \X (0 .. mat.nOut - 1)
    BY <1>1, JobFacts
  <2>3. ASSUME NEW c \in Area, At(c) \in Cells, call.acc PROVE arena'[At(c)] = y0[At(c)]
    <3>1. c[1] = 0 /\ c[2] \in 0 .. mat.nOut - 1
      BY <1>1, <2>2
    <3>2. At(c) = c[2]
      BY <1>1, <3>1 DEF At
    <3> DEFINE i == At(c)
    <3>3. i \in Cells /\ i < mat.nOut
      BY <1>1, <2>3, <3>1, <3>2
    <3> HIDE DEF i
    <3>4. arena'[i] = y[i]
      BY <2>3, <3>3
    <3>5. y[i] = y0[i]
      BY <1>1, <3>3 DEF Untouched
    <3> QED
      BY <3>4, <3>5 DEF i
  <2> QED
    BY <1>6, <2>1, <2>3 DEF Opens
<1>8. d \in Dev(hw, u) /\ Placed(d, call.m) /\ WaveJob(d, x)
  BY <1>1, <1>2, <1>3, <1>4
<1>9. "remote" \in {"work", "remote"}
  OBVIOUS
<1> QED
  BY <1>2, <1>5, <1>7, <1>8, <1>9, WavesBegin

\* WR_GB, as pim_backend_gemv executes it.
BufferWritten(d) == Execute(d, hw, conf.fast, BufferOrder)

\* With the registers copied to the buffers of all channels, x is in every buffer.
LEMMA BufferIsWritten ==
  ASSUME Fired, NEW u, Memory(u), NEW d \in Dev(hw, u), Loaded(d)
  PROVE  /\ BufferWritten(d) \in Dev(hw, u) /\ Loaded(BufferWritten(d))
         /\ Buffered(BufferWritten(d), {})
<1> DEFINE cmd == BufferOrder
           C == OnColumns(cmd)
           R == InBuffer(u)
           e == BufferWritten(d)
<1>1. /\ Hardware(hw) /\ conf.fast \in BOOLEAN /\ ToSet(hw.pim) # {}
      /\ ToSet(hw.pim) \X (0 .. NCols - 1) \in SUBSET (Channels(hw) \X Nat)
  BY FiredFacts, OrderParts
<1>2. /\ C = 0 .. NCols - 1 /\ cmd \in Cmds(hw) /\ cmd.chs = ToSet(hw.pim)
      /\ cmd.op \in Ops \ {"RD_MAC"} /\ cmd.chs # {} /\ cmd.col = -1
  BY <1>1, OrderParts, OrderFacts
<1>3. Kept(R, hw, u, cmd, C)
  BY <1>2, BufferKept
<1>4. Buffered(d, cmd.chs \X C)
  BY <1>2 DEF Buffered
<1>5. <<d, cmd.chs \X C>> \in R
  BY <1>1, <1>2, <1>4 DEF InBuffer, InRounds
<1> HIDE DEF cmd, R
<1>6. <<Execute(d, hw, conf.fast, cmd), {}>> \in R
  BY <1>1, <1>2, <1>3, <1>5, ExecuteKept
<1>7. e \in Dev(hw, u) /\ Loaded(e) /\ Buffered(e, {})
  BY <1>6 DEF R, InBuffer, InRounds, BufferWritten, cmd
<1> QED
  BY <1>7

\* The waves are split over this process's pool.
LEMMA ParallelRight ==
  ASSUME LinearInv, DeviceInv, SupplyInv, call.ph = "prepare", Ready, UNCHANGED <<conf, y, y0>>,
         Fits, Parallel, call' = [call EXCEPT !.ph = "work"],
         NEW e, e = BufferWritten(Written(dev)),
         WaveJob(e, [col \in 0 .. NCols - 1 |-> GbRead(e, 0, col)])
  PROVE  PoolRight' /\ call'.ph = "work" /\ e.dram = dev.dram
<1>1. /\ CallInv /\ call.m \in Mats /\ call.nTok = 1 /\ Untouched /\ Fired
  BY GemvFacts
<1>2. PICK u : InBanks(u) /\ dev \in Dev(hw, u)
  BY GemvFacts
<1>3. PICK d : d = dev
  OBVIOUS
<1>4. PICK l : l = Written(d)
  OBVIOUS
<1>5. Memory(u) /\ l \in Dev(hw, u) /\ Loaded(l)
  BY <1>1, <1>2, <1>3, <1>4, WrittenIsLoaded DEF InBanks
<1>6. e = BufferWritten(l)
  BY <1>3, <1>4
<1>7. e \in Dev(hw, u) /\ Buffered(e, {})
  BY <1>1, <1>5, <1>6, BufferIsWritten
<1>8. Placed(e, call.m) /\ e.dram = dev.dram
  BY <1>2, <1>7 DEF InBanks, Dev
<1>9. PICK x : x = [col \in 0 .. NCols - 1 |-> GbRead(e, 0, col)]
  OBVIOUS
<1>10. HasInput(x)
  <2>1. 0 \in ToSet(hw.pim)
    <3>1. 1 \in 1 .. Len(hw.pim) /\ hw.pim[1] = 0
      BY <1>1, ChannelPlaces
    <3> QED
      BY <1>1, <3>1, ChannelPlaces
  <2> QED
    BY <1>7, <1>9, <2>1 DEF HasInput, Buffered
<1>11. call'.m = call.m /\ call'.n = call.n /\ call'.nTok = call.nTok /\ call'.ph = "work"
  BY <1>1 DEF CallInv
<1>12. Opens'
  <2>1. Target' = y
    BY <1>11 DEF Target
  <2> QED
    BY <1>1, <2>1 DEF Opens, Untouched
<1>13. WaveJob(e, x) /\ "work" \in {"work", "remote"}
  BY <1>9
<1> QED
  BY <1>5, <1>7, <1>8, <1>10, <1>12, <1>13, WavesBegin

\* A plan is fired from its first order on.
LEMMA PlanRight ==
  ASSUME LinearInv, DeviceInv, SupplyInv, call.ph = "prepare", Ready,
         UNCHANGED <<conf, y, y0, rowBase>>, Fits, call' = [call EXCEPT !.ph = "fire"],
         dev' = Written(dev), todo' = ThePlan, wave' = -1
  PROVE  FireInv' /\ call'.ph = "fire" /\ dev'.dram = dev.dram
<1>1. CallInv /\ call.m \in Mats /\ Untouched /\ Fired
  BY GemvFacts
<1>2. PICK u : InBanks(u) /\ dev \in Dev(hw, u)
  BY GemvFacts
<1>3. PICK d : d = dev
  OBVIOUS
<1>4. PICK e : e = Written(d)
  OBVIOUS
<1>5. e \in Dev(hw, u) /\ Loaded(e) /\ e = dev'
  BY <1>1, <1>2, <1>3, <1>4, WrittenIsLoaded DEF InBanks
<1>6. call'.m = call.m /\ call'.n = call.n /\ call'.nTok = call.nTok /\ call'.ph = "fire"
      /\ call'.acc = call.acc
  BY <1>1 DEF CallInv
<1>7. SameCall
  BY <1>6, CallSame
<1>8. /\ NWaves # 0 /\ NWaves \in Nat /\ rowBase[call.m] \in Int /\ mat.nOut \in Nat
      /\ Len(hw.pim) \in Nat \ {0}
  BY <1>1, FiredFacts, ChannelPlaces
<1>9. Head(todo') = BufferOrder
  <2>1. ThePlan # <<>> /\ ThePlan \in Seq(Orders(hw))
    BY <1>1, <1>8, PlanType DEF ThePlan
  <2>2. Head(ThePlan) = ThePlan[1]
    BY <2>1, HeadTailProperties
  <2> QED
    BY <1>1, <1>8, <2>2, PlanAt
<1>10. PICK rem : rem = Micros(Head(todo'))
  OBVIOUS
<1>11. Buffered(e, rem)
  <2>1. BufferOrder.op = "WR_GB" /\ BufferOrder.chs = ToSet(hw.pim)
        /\ OnColumns(BufferOrder) = 0 .. NCols - 1
    BY <1>1, OrderParts, OrderFacts
  <2>2. rem = ToSet(hw.pim) \X (0 .. NCols - 1)
    BY <1>9, <1>10, <2>1 DEF Micros
  <2> QED
    BY <2>2 DEF Buffered
<1>12. TodoIs(0)'
  <2>1. Len(ThePlan) \in Nat
    BY <1>1, <1>8, PlanType, LenProperties DEF ThePlan
  <2>2. \A i \in 1 .. Len(ThePlan) : ThePlan[i] = ThePlan[0 + i]
    BY <2>1
  <2>3. ThePlan' = ThePlan
    BY <1>7 DEF SameCall
  <2>4. Len(ThePlan) = Len(ThePlan) - 0
    BY <2>1
  <2> QED
    BY <2>2, <2>3, <2>4 DEF TodoIs
<1>13. YRight(0)'
  <2> SUFFICES ASSUME NEW i \in Cells, i < mat.nOut, WaveOf(i) < 0 PROVE FALSE
    BY <1>1, <1>7 DEF YRight, Untouched, SameCall
  <2>1. i \in 0 .. mat.nOut - 1
    BY <1>8 DEF Cells
  <2>2. WaveOf(i) \in 0 .. NWaves - 1
    BY <1>8, <2>1, OutputFacts
  <2> QED
    BY <1>8, <2>2
<1>14. Loaded(e)' /\ Buffered(e, rem)'
  BY <1>5, <1>7, <1>11 DEF SameCall
<1>15. AtBuffer(e, rem)'
  BY <1>12, <1>13, <1>14 DEF AtBuffer
<1>16. Firing(e, rem)'
  BY <1>15 DEF Firing
<1>17. FireInv'
  BY <1>5, <1>6, <1>10, <1>16 DEF FireInv
<1>18. dev'.dram = dev.dram
  BY <1>2, <1>5 DEF Dev
<1> QED
  BY <1>6, <1>17, <1>18

\* What is not fired has nothing to be fired, and so on.
LEMMA NotFired == ASSUME call'.ph \notin {"fire", "isr"} PROVE FireInv'
BY DEF FireInv

\* Without threads at work there is nothing to be right about them.
LEMMA NotAtWork == ASSUME call'.ph \notin {"work", "remote"} PROVE PoolRight'
BY DEF PoolRight, AtWork

\* A call that is not done has promised nothing yet.
LEMMA NotDone == ASSUME call'.ph # "done" PROVE ProductRight'
BY DEF ProductRight

\* pim_backend_gemv begins the product, on each of its paths.
LEMMA GemvRight ==
  ASSUME LinearInv, DeviceInv, SupplyInv, Gemv
  PROVE  SupplyInv' /\ PoolRight' /\ FireInv' /\ ProductRight'
<1> DEFINE x == X[call.n][0]
           d == GprWrite(LoadActivation(dev, x, mat.nIn), NCols, ZeroBurst)
           e == Execute(d, hw, conf.fast, Cmd("WR_GB", NCols, 0, ToSet(hw.pim), 0))
<1>1. d = Written(dev) /\ e = BufferWritten(Written(dev))
  BY DEF Written, BufferWritten, BufferOrder
<1>2. /\ call.ph = "prepare" /\ Ready /\ UNCHANGED <<conf, y, y0, rowBase, stale, nextRow, hook>>
      /\ \/ ~Fits /\ FallBack /\ UNCHANGED dev
         \/ Fits /\ FallBack /\ dev' = d
         \/ /\ Fits /\ call' = [call EXCEPT !.ph = "remote"] /\ dev' = d
            /\ WaveJob(dev, Bursts(x))
            /\ arena' = IF call.acc THEN [i \in Cells |-> IF i < mat.nOut THEN y[i] ELSE arena[i]]
                        ELSE arena
         \/ /\ Fits /\ Parallel /\ call' = [call EXCEPT !.ph = "work"] /\ dev' = e
            /\ WaveJob(e, [col \in 0 .. NCols - 1 |-> GbRead(e, 0, col)])
         \/ /\ Fits /\ call' = [call EXCEPT !.ph = "fire"] /\ dev' = d
            /\ todo' = Plan(hw, mat.nOut, mat.nIn, rowBase[call.m]) /\ wave' = -1
  BY DEF Gemv
<1> HIDE DEF x, d, e
<1>3. /\ CallInv /\ call.m \in Mats /\ call.nTok = 1 /\ mat.nOut > 0 /\ mat.nIn > 0
      /\ Untouched /\ ~stale[call.m] /\ (Fits => Fired)
  BY <1>2, GemvFacts DEF Ready
<1>4. PICK u : InBanks(u) /\ dev \in Dev(hw, u)
  BY <1>2, GemvFacts
<1>5. ASSUME call'.ph \in {"work", "remote"}, PoolRight', dev'.dram = dev.dram,
             call'.m = call.m, call'.nTok = call.nTok
      PROVE  SupplyInv' /\ PoolRight' /\ FireInv' /\ ProductRight'
  <2>1. OffloadInv'
    BY <1>2, <1>3, <1>5 DEF OffloadInv, Untouched, mat
  <2>2. ~hook.pending
    BY <1>2 DEF SupplyInv, MailInv
  <2>3. SupplyInv'
    BY <1>2, <1>5, <2>1, <2>2, SupplySame
  <2> QED
    BY <1>5, <2>3, NotFired, NotDone
<1>6. CASE ~Fits /\ FallBack /\ UNCHANGED dev
  <2>1. call'.m = call.m /\ call'.nTok = call.nTok
    BY <1>3, <1>6 DEF FallBack, CallInv
  <2> QED
    BY <1>2, <1>5, <1>6, <2>1, FallBackRight
<1>7. ASSUME Fits, dev' = d
      PROVE  dev'.dram = dev.dram
  <2>1. PICK b : b = dev
    OBVIOUS
  <2>2. Fired /\ Memory(u) /\ b \in Dev(hw, u)
    BY <1>3, <1>4, <1>7, <2>1 DEF InBanks
  <2>3. Written(b) \in Dev(hw, u)
    BY <2>2, WrittenIsLoaded
  <2>4. d \in Dev(hw, u)
    BY <1>1, <2>1, <2>3
  <2> QED
    BY <1>4, <1>7, <2>4 DEF Dev
<1>8. CASE Fits /\ FallBack /\ dev' = d
  <2>1. call'.m = call.m /\ call'.nTok = call.nTok
    BY <1>3, <1>8 DEF FallBack, CallInv
  <2>2. PoolRight' /\ call'.ph = "work"
    BY <1>2, <1>8, FallBackRight
  <2> QED
    BY <1>5, <1>7, <1>8, <2>1, <2>2
<1>9. CASE /\ Fits /\ call' = [call EXCEPT !.ph = "remote"] /\ dev' = d
           /\ WaveJob(dev, Bursts(x))
           /\ arena' = IF call.acc THEN [i \in Cells |-> IF i < mat.nOut THEN y[i] ELSE arena[i]]
                       ELSE arena
  <2>1. call'.m = call.m /\ call'.nTok = call.nTok
    BY <1>3, <1>9 DEF CallInv
  <2>2. PoolRight' /\ call'.ph = "remote"
    BY <1>2, <1>9, RemoteRight DEF x
  <2> QED
    BY <1>5, <1>9, <1>7, <2>1, <2>2
<1>10. CASE /\ Fits /\ Parallel /\ call' = [call EXCEPT !.ph = "work"] /\ dev' = e
           /\ WaveJob(e, [col \in 0 .. NCols - 1 |-> GbRead(e, 0, col)])
  <2>1. call'.m = call.m /\ call'.nTok = call.nTok
    BY <1>3, <1>10 DEF CallInv
  <2>2. PICK f : f = e
    OBVIOUS
  <2>3. /\ f = BufferWritten(Written(dev)) /\ dev' = f
        /\ WaveJob(f, [col \in 0 .. NCols - 1 |-> GbRead(f, 0, col)])
    BY <1>1, <1>10, <2>2
  <2>4. PoolRight' /\ call'.ph = "work" /\ f.dram = dev.dram
    BY <1>2, <1>10, <2>3, ParallelRight
  <2> QED
    BY <1>5, <2>1, <2>3, <2>4
<1>11. CASE /\ Fits /\ call' = [call EXCEPT !.ph = "fire"] /\ dev' = d
           /\ todo' = Plan(hw, mat.nOut, mat.nIn, rowBase[call.m]) /\ wave' = -1
  <2>1. call'.m = call.m /\ call'.nTok = call.nTok
    BY <1>3, <1>11 DEF CallInv
  <2>2. todo' = ThePlan /\ dev' = Written(dev)
    BY <1>1, <1>11 DEF ThePlan
  <2>3. FireInv' /\ call'.ph = "fire" /\ dev'.dram = dev.dram
    BY <1>2, <1>11, <2>2, PlanRight
  <2>4. mat' = mat /\ Fits' = Fits
    BY <1>2, <2>1 DEF mat, Fits, NCols, hw
  <2>5. OffloadInv'
    BY <1>2, <1>3, <1>11, <2>1, <2>3, <2>4 DEF OffloadInv
  <2>6. ~hook.pending
    BY <1>2 DEF SupplyInv, MailInv
  <2>7. SupplyInv'
    BY <1>2, <2>3, <2>5, <2>6, SupplySame
  <2> QED
    BY <2>3, <2>7, NotAtWork, NotDone
<1> QED
  BY <1>2, <1>6, <1>9, <1>10, <1>11, <1>8

-----------------------------------------------------------------------------
(* The invariant.                                                          *)

\* The weights are where the device looks for them, threads compute the
\* product, a plan is fired up to where it is, and what is done is right.
ResultInv == SupplyInv /\ OldInv /\ PoolRight /\ FireInv /\ ProductRight

\* In the beginning nothing is called, supplied or fired.
LEMMA InitResult ==
  ASSUME Init
  PROVE  ResultInv
<1>1. /\ call.ph = "idle" /\ rowBase = [m \in Mats |-> -1] /\ stale = [m \in Mats |-> TRUE]
      /\ nextRow = 0 /\ ~hook.pending /\ y0 = OldY(0)
  BY DEF Init, NoJob
<1>2. RowsInv
  <2>1. \A m \in Mats : rowBase[m] = -1 /\ stale[m]
    BY <1>1
  <2>2. nextRow \in Nat /\ stale \in [Mats -> BOOLEAN]
    BY <1>1
  <2>3. \A m \in Mats : rowBase[m] < 0 /\ ~(rowBase[m] >= 0)
    BY <2>1
  <2> QED
    BY <2>1, <2>2, <2>3 DEF RowsInv
<1>3. WeightsInv
  BY <1>1 DEF WeightsInv
<1>4. MailInv /\ OffloadInv
  BY <1>1 DEF MailInv, OffloadInv
<1>5. OldInv
  BY <1>1 DEF OldInv, OldY, Cells
<1>6. PoolRight /\ FireInv /\ ProductRight
  BY <1>1 DEF PoolRight, AtWork, FireInv, ProductRight
<1> QED
  BY <1>2, <1>3, <1>4, <1>5, <1>6 DEF ResultInv, SupplyInv

\* A call goes to the device or begins on the CPU.
LEMMA CallRight ==
  ASSUME LinearInv, DeviceInv, ResultInv, NEW m \in Mats, NEW nTok \in Tokens,
         NEW acc \in BOOLEAN, Call(m, nTok, acc)
  PROVE  ResultInv'
<1> DEFINE n == call.n + 1
           quant == Info[m].type # "f32" /\ ~(conf.backend = "pim")
           p == Product(m, n, nTok)
<1>1. /\ call.ph = "idle" /\ call.n < MaxCalls /\ y' = OldY(n) /\ y0' = OldY(n)
      /\ UNCHANGED <<conf, dev, rowBase, stale, nextRow, hook>>
      /\ call'.m = m /\ call'.nTok = nTok /\ call'.n = n /\ call'.pushed = 0
      /\ \/ /\ call'.ph = "prepare" /\ nTok = 1 /\ Info[m].nOut > 0 /\ Info[m].nIn > 0
         \/ call'.ph = "work" /\ CpuJob(p, quant)
  BY DEF Call, pimvars
<1>2. n \in 1 .. MaxCalls /\ n \in Nat /\ CallInv
  <2>1. call.n \in Nat /\ CallInv /\ MaxCalls \in Nat
    BY LinearAssumption DEF LinearInv, CallInv
  <2> QED
    BY <1>1, <2>1
<1> HIDE DEF n, quant
<1>3. Untouched'
  BY <1>1 DEF Untouched
<1>4. OldInv'
  BY <1>1, <1>2 DEF OldInv, OldY, Cells
<1>5. SupplyInv'
  <2>1. mat' = Info[m]
    BY <1>1 DEF mat
  <2>2. OffloadInv'
    BY <1>1, <1>3, <2>1 DEF OffloadInv, Untouched
  <2>3. ~hook.pending /\ dev'.dram = dev.dram /\ SupplyInv
    BY <1>1 DEF ResultInv, SupplyInv, MailInv
  <2> HIDE DEF p
  <2>4. call'.ph \notin {"status", "push"} /\ (call'.ph = "prepare" => call'.pushed = 0)
    BY <1>1
  <2> QED
    BY <1>1, <2>2, <2>3, <2>4, SupplySame
<1>6. PoolRight'
  <2>1. CASE call'.ph = "prepare"
    BY <2>1, NotAtWork
  <2>2. CASE call'.ph = "work" /\ CpuJob(p, quant)
    BY <1>1, <1>2, <1>3, <2>2, CpuBegins
  <2> QED
    BY <1>1, <2>1, <2>2
<1>7. FireInv' /\ ProductRight'
  <2>1. call'.ph \in {"prepare", "work"}
    BY <1>1
  <2> QED
    BY <2>1, NotFired, NotDone
<1> QED
  BY <1>4, <1>5, <1>6, <1>7 DEF ResultInv

\* The weights come to their rows.
LEMMA PrepareRight ==
  ASSUME LinearInv, DeviceInv, ResultInv,
         PlaceRows \/ LoadRows \/ Install \/ ReadStatus \/ Push
  PROVE  ResultInv'
<1>1. SupplyInv /\ OldInv /\ UNCHANGED <<conf, y, y0>> /\ CallInv
  BY DEF ResultInv, LinearInv, PlaceRows, LoadRows, Install, ReadStatus, Push
<1>2. SupplyInv'
  BY <1>1, PlaceRowsSupplies, LoadRowsSupplies, InstallSupplies, ReadStatusSupplies, PushSupplies
<1>3. OldInv'
  BY <1>1 DEF OldInv
<1>4. PoolRight' /\ call'.ph \in {"prepare", "status", "push", "work"}
  <2>1. CASE call'.ph \in {"prepare", "status", "push"}
    BY <2>1, NotAtWork
  <2>2. CASE PlaceRows /\ FallBack
    <3>1. call.ph = "prepare"
      BY <2>2 DEF PlaceRows
    <3> QED
      BY <1>1, <2>2, <3>1, FallBackRight
  <2>3. \/ call'.ph \in {"prepare", "status", "push"}
        \/ PlaceRows /\ FallBack
    BY <1>1 DEF PlaceRows, LoadRows, Install, ReadStatus, Push, CallInv
  <2> QED
    BY <2>1, <2>2, <2>3
<1>5. FireInv' /\ ProductRight'
  BY <1>4, NotFired, NotDone
<1> QED
  BY <1>2, <1>3, <1>4, <1>5 DEF ResultInv

\* The simulator copies weights while the host looks or pushes.
LEMMA SimCopiesRight ==
  ASSUME LinearInv, DeviceInv, ResultInv, SimCopies
  PROVE  ResultInv'
<1>1. SupplyInv /\ OldInv /\ UNCHANGED <<call, y0>> /\ hook.pending
  BY DEF ResultInv, SimCopies
<1>2. call'.ph \in {"status", "push"}
  BY <1>1 DEF SupplyInv, MailInv
<1>3. SupplyInv'
  BY <1>1, SimCopiesSupplies
<1>4. OldInv'
  BY <1>1 DEF OldInv
<1> QED
  BY <1>2, <1>3, <1>4, NotAtWork, NotFired, NotDone DEF ResultInv

\* The threads of the pool.
LEMMA ThreadsRight ==
  ASSUME LinearInv, DeviceInv, ResultInv,
         Join \/ \E t \in DOMAIN work : LoadBlock(t) \/ StoreBlock(t)
  PROVE  ResultInv'
<1>1. /\ SupplyInv /\ OldInv /\ PoolRight /\ CallInv /\ AtWork
      /\ UNCHANGED <<conf, y0, dev, rowBase, stale, nextRow, hook>>
  BY DEF ResultInv, LinearInv, Join, LoadBlock, StoreBlock, pimvars
<1>2. OldInv'
  BY <1>1 DEF OldInv
<1>3. ~hook.pending
  BY <1>1 DEF SupplyInv, MailInv, AtWork
<1>4. CASE Join
  <2>1. call'.ph = "done"
    BY <1>1, <1>4 DEF Join, CallInv
  <2>2. OffloadInv'
    BY <2>1 DEF OffloadInv
  <2>3. SupplyInv'
    BY <1>1, <1>3, <2>1, <2>2, SupplySame
  <2>4. ProductRight'
    BY <1>1, <1>4, JoinRight
  <2> QED
    BY <1>2, <2>1, <2>3, <2>4, NotAtWork, NotFired DEF ResultInv
<1>5. ASSUME NEW t \in DOMAIN work, LoadBlock(t) \/ StoreBlock(t) PROVE ResultInv'
  <2>1. call' = call /\ call'.ph \in {"work", "remote"}
    BY <1>1, <1>5 DEF LoadBlock, StoreBlock, AtWork
  <2>2. OffloadInv'
    <3>1. mat' = mat
      BY <1>1, <2>1 DEF mat
    <3>2. call.ph = "remote" => UNCHANGED y
      BY <1>5 DEF LoadBlock, StoreBlock
    <3> QED
      BY <1>1, <2>1, <3>1, <3>2 DEF SupplyInv, OffloadInv
  <2>3. SupplyInv'
    BY <1>1, <1>3, <2>1, <2>2, SupplySame
  <2>4. PoolRight'
    BY <1>1, <1>5, LoadRight, StoreRight
  <2> QED
    BY <1>2, <2>1, <2>3, <2>4, NotFired, NotDone DEF ResultInv
<1> QED
  BY <1>4, <1>5

\* The commands of a plan.
LEMMA CommandsRight ==
  ASSUME LinearInv, DeviceInv, ResultInv, Fire \/ Issue \/ Retire \/ Idle
  PROVE  ResultInv'
<1>1. /\ SupplyInv /\ OldInv /\ FireInv /\ CallInv /\ call.ph \in {"fire", "isr"}
      /\ UNCHANGED <<conf, y0, rowBase, stale, nextRow, hook>>
  BY DEF ResultInv, LinearInv, Fire, Issue, Retire, Idle, pimvars
<1>2. /\ FireInv' /\ ProductRight' /\ call'.ph \in {"fire", "isr", "done"}
      /\ dev'.dram = dev.dram
  <2>1. CASE Fire
    BY <1>1, <2>1, FireRight
  <2>2. CASE Issue
    <3>1. dev' = dev
      BY <2>2 DEF Issue, pimvars
    <3> QED
      BY <1>1, <2>2, <3>1, IssueRight
  <2>3. CASE Retire
    BY <1>1, <2>3, RetireRight
  <2>4. CASE Idle
    <3>1. dev' = dev
      BY <2>4 DEF Idle, pimvars
    <3> QED
      BY <1>1, <2>4, <3>1, IdleRight
  <2> QED
    BY <2>1, <2>2, <2>3, <2>4
<1>3. OldInv'
  BY <1>1 DEF OldInv
<1>4. ~hook.pending
  BY <1>1 DEF SupplyInv, MailInv
<1>5. OffloadInv'
  <2>1. call'.m = call.m /\ call'.nTok = call.nTok
    BY <1>1 DEF Fire, Issue, Retire, Idle, Executed, CallInv
  <2>2. mat' = mat /\ Fits' = Fits
    BY <1>1, <2>1 DEF mat, Fits, NCols, hw
  <2> QED
    BY <1>1, <1>2, <2>1, <2>2 DEF SupplyInv, OffloadInv
<1>6. SupplyInv'
  BY <1>1, <1>2, <1>4, <1>5, SupplySame
<1>7. PoolRight'
  BY <1>2, NotAtWork
<1> QED
  BY <1>2, <1>3, <1>6, <1>7 DEF ResultInv

\* The call returns, or nothing happens.
LEMMA ReturnRight ==
  ASSUME LinearInv, DeviceInv, ResultInv, Return
  PROVE  ResultInv'
<1>1. /\ SupplyInv /\ OldInv /\ CallInv /\ call.ph = "done"
      /\ call' = [call EXCEPT !.ph = "idle"]
      /\ UNCHANGED <<conf, y0, dev, rowBase, stale, nextRow, hook>>
  BY DEF ResultInv, LinearInv, Return, pimvars
<1>2. call'.ph = "idle"
  BY <1>1 DEF CallInv
<1>3. OldInv'
  BY <1>1 DEF OldInv
<1>4. ~hook.pending /\ OffloadInv'
  BY <1>1, <1>2 DEF SupplyInv, MailInv, OffloadInv
<1>5. SupplyInv'
  BY <1>1, <1>2, <1>4, SupplySame
<1> QED
  BY <1>2, <1>3, <1>5, NotAtWork, NotFired, NotDone DEF ResultInv

\* What changes nothing of the calls keeps the invariant.
LEMMA ResultSame ==
  ASSUME ResultInv, UNCHANGED vars
  PROVE  ResultInv'
<1>1. UNCHANGED <<conf, call, y, y0, dev, rowBase, stale, nextRow, todo, wave, isr, work, held,
                  arena, hook>>
  BY DEF vars
<1>2. hw' = hw /\ mat' = mat
  BY <1>1 DEF hw, mat
<1>3. RowsInv' = RowsInv /\ WeightsInv' = WeightsInv /\ MailInv' = MailInv /\ OffloadInv' = OffloadInv
  <2>1. \A m : Placed(dev, m)' = Placed(dev, m) /\ Waves(m)' = Waves(m)
    BY <1>1, <1>2 DEF Placed, Waves
  <2>2. Fits' = Fits
    BY <1>2 DEF Fits, NCols
  <2> QED
    BY <1>1, <1>2, <2>1, <2>2 DEF RowsInv, WeightsInv, MailInv, MailRight, OffloadInv
<1>4. SupplyInv' /\ OldInv'
  BY <1>1, <1>3 DEF ResultInv, SupplyInv, OldInv
<1>5. PoolRight'
  <2>1. Job' = Job /\ Area' = Area /\ Target' = Target /\ (\A c : At(c)' = At(c))
    BY <1>1, <1>2, JobSame DEF Target
  <2>2. \A c : Added(c)' = Added(c) /\ Opened(c)' = Opened(c)
    BY <1>1, <2>1 DEF Added, Opened
  <2>3. BlocksRight' = BlocksRight /\ CellsRight' = CellsRight
    BY <1>1, <2>1, <2>2 DEF BlocksRight, CellsRight
  <2>4. HeldRight' = HeldRight
    BY <1>1, <2>1, <2>2 DEF HeldRight
  <2>5. RestKept' = RestKept
    BY <1>1, <1>2 DEF RestKept
  <2> QED
    BY <1>1, <2>3, <2>4, <2>5 DEF ResultInv, PoolRight, AtWork
<1>6. FireInv'
  <2>1. SameCall
    BY <1>1, CallSame
  <2>2. ASSUME NEW d, NEW rem, Firing(d, rem) PROVE Firing(d, rem)'
    BY <1>1, <2>1, <2>2, FiringSame
  <2> QED
    BY <1>1, <2>2 DEF ResultInv, FireInv
<1>7. ProductRight'
  <2>1. \A i : Reference(i)' = Reference(i)
    BY <1>1, <1>2 DEF Reference
  <2> QED
    BY <1>1, <2>1 DEF ResultInv, ProductRight
<1> QED
  BY <1>4, <1>5, <1>6, <1>7 DEF ResultInv

\* No step breaks it.
LEMMA ResultKeeps ==
  ASSUME LinearInv, DeviceInv, ResultInv, Next
  PROVE  ResultInv'
<1>1. CASE \E m \in Mats, n \in Tokens, a \in BOOLEAN : Call(m, n, a)
  BY <1>1, CallRight
<1>2. CASE PlaceRows \/ LoadRows \/ Install \/ ReadStatus \/ Push
  BY <1>2, PrepareRight
<1>3. CASE SimCopies
  BY <1>3, SimCopiesRight
<1>4. CASE Gemv
  <2>1. SupplyInv /\ OldInv /\ UNCHANGED y0
    BY <1>4 DEF ResultInv, Gemv
  <2>2. OldInv'
    BY <2>1 DEF OldInv
  <2> QED
    BY <1>4, <2>1, <2>2, GemvRight DEF ResultInv
<1>5. CASE Fire \/ Issue \/ Retire \/ Idle
  BY <1>5, CommandsRight
<1>6. CASE Join \/ \E t \in DOMAIN work : LoadBlock(t) \/ StoreBlock(t)
  BY <1>6, ThreadsRight
<1>7. CASE Return
  BY <1>7, ReturnRight
<1>8. CASE Stopped
  BY <1>8, ResultSame DEF Stopped
<1> QED
  BY <1>1, <1>2, <1>3, <1>4, <1>5, <1>6, <1>7, <1>8 DEF Next, Step

-----------------------------------------------------------------------------
(* The theorems.                                                           *)

\* Weights, pool and plan stay as they should be, on every path and after any
\* calls before: rows of matrices do not overlap, what is not stale is in the
\* banks, and what threads and commands have still to do is what is missing.
THEOREM Results == BuiltSpec => []ResultInv
<1>1. BuiltInit => ResultInv
  BY InitResult DEF BuiltInit
<1>2. LinearInv /\ DeviceInv /\ ResultInv /\ [LinearStep \/ GpuStep]_allVars => ResultInv'
  <2> SUFFICES ASSUME LinearInv, DeviceInv, ResultInv, [LinearStep \/ GpuStep]_allVars
               PROVE  ResultInv'
    OBVIOUS
  <2>1. CASE LinearStep
    BY <2>1, ResultKeeps DEF LinearStep
  <2>2. CASE UNCHANGED vars
    BY <2>2, ResultSame
  <2> QED
    BY <2>1, <2>2 DEF GpuStep, allVars
<1> QED
  BY <1>1, <1>2, Shares, Commands, PTL DEF BuiltSpec

\* Every path computes y = W x or y += W x, and writes nothing behind y: the
\* host's kernels and threads, the PIM backend's plan on its own device or with
\* micro commands that retire in any order, and the MAC worker; whatever calls
\* came before, for any matrices, activations, and numbers of threads,
\* channels, banks, lanes, registers and rows.
THEOREM Products == BuiltSpec => []ProductRight
<1>1. ResultInv => ProductRight
  BY DEF ResultInv
<1> QED
  BY <1>1, Results, PTL

-----------------------------------------------------------------------------
(* Types.                                                                  *)

\* The dot product of vectors is a number.
LEMMA DotType ==
  ASSUME NEW n \in Nat, NEW a, NEW b, Vectors(a, b, n)
  PROVE  DotRange(a, b, 0, n) \in Int
<1>1. PICK q : Partials(q, a, b, n)
  BY PartialsExist
<1>2. 0 \in 0 .. n /\ n \in 0 .. n /\ 0 <= n
  OBVIOUS
<1>3. DotRange(a, b, 0, n) = q[n] - q[0]
  BY <1>1, <1>2, DotIsPrefix
<1>4. q[n] \in Int /\ q[0] \in Int
  BY <1>1, <1>2 DEF Partials
<1> QED
  BY <1>3, <1>4

\* What the invariants above leave open of the types: y, also behind the product,
\* and the arena are numbers, whoever writes to them; the calls are counted, and a
\* matrix without rows has none.
NumbersInv ==
  /\ y \in [Cells -> Int] /\ arena \in [Cells -> Int]
  /\ call.n \in 0 .. MaxCalls /\ \A m \in Mats : rowBase[m] >= -1

\* What a plan or the host's threads put into y are numbers.
LEMMA UnpackType ==
  ASSUME y \in [Cells -> Int], NEW u, Memory(u), NEW d \in Dev(hw, u), NEW w
  PROVE  Unpack(d, w) \in [Cells -> Int]
<1> SUFFICES ASSUME NEW i \in Cells PROVE Unpack(d, w)[i] \in Int
  BY DEF Unpack
<1> DEFINE mine == {o \in 0 .. mat.nOut - 1 : (o \div Banks) \div Len(hw.pim) = w}
           b == GprRead(d, NCols + 1 + ((i \div Banks) % Len(hw.pim)))
           v == b[i % Banks]
<1>1. Unpack(d, w)[i] = IF i \in mine THEN (IF call.acc THEN y[i] ELSE 0) + v ELSE y[i]
  BY DEF Unpack
<1>2. y[i] \in Int
  OBVIOUS
<1>3. v \in Int
  <2>1. b \in [LaneIds -> Int]
    <3>1. b \in Burst
      BY ReadTypes
    <3> QED
      BY <3>1 DEF Burst
  <2>2. i % Banks \in LaneIds
    BY DeviceAssumption DEF LaneIds, Cells
  <2> HIDE DEF b
  <2> QED
    BY <2>1, <2>2
<1> HIDE DEF v, mine
<1> QED
  BY <1>1, <1>2, <1>3

\* What a job of the host's pool writes are numbers.
LEMMA StoredType ==
  ASSUME LinearInv, DeviceInv, OldInv, PoolRight, NEW t \in DOMAIN work, StoreBlock(t),
         y \in [Cells -> Int], arena \in [Cells -> Int]
  PROVE  y' \in [Cells -> Int] /\ arena' \in [Cells -> Int]
<1> DEFINE h == held[t]
           new == [i \in Cells |-> Stored(h, i, Target[i])]
<1>1. /\ AtWork /\ h # <<>> /\ IF call.ph = "remote" THEN arena' = new /\ UNCHANGED y
                               ELSE y' = new /\ UNCHANGED arena
  BY DEF StoreBlock
<1>2. Target \in [Cells -> Int]
  BY DEF Target
<1>3. CallInv /\ BlocksRight /\ HeldRight /\ WorkInv /\ call.ph # "idle"
  BY <1>1 DEF LinearInv, PoolRight, AtWork
<1>4. ASSUME NEW c \in DOMAIN h, At(c) \in Cells PROVE h[c] \in Int
  <2>1. h[c] = Added(c)
    BY <1>1, <1>3, <1>4 DEF HeldRight
  <2>2. Dots(Job)[c] \in Int
    <3>1. IsList(work[t]) /\ work[t] # <<>> /\ DOMAIN h = DOMAIN Head(work[t])
      BY <1>1, <1>3 DEF WorkInv, Holds, Lists, HeldRight
    <3>2. c \in Area
      BY <1>3, <3>1, TailParts DEF BlocksRight
    <3>3. /\ Vectors(W[call.m][c[2]], X[call.n][c[1]], mat.nIn) /\ mat.nIn \in Nat
          /\ Dots(Job)[c] = DotRange(W[call.m][c[2]], X[call.n][c[1]], 0, mat.nIn)
      BY <1>3, <3>2, JobFacts
    <3> QED
      BY <3>3, DotType
  <2>3. y0[At(c)] \in Int
    BY <1>4 DEF OldInv
  <2> HIDE DEF h
  <2> QED
    BY <2>1, <2>2, <2>3 DEF Added
<1> HIDE DEF h
<1>5. ASSUME NEW i \in Cells PROVE Stored(h, i, Target[i]) \in Int
  <2>1. CASE \E c \in DOMAIN h : At(c) = i
    <3>1. PICK c \in DOMAIN h : c = CHOOSE e \in DOMAIN h : At(e) = i
      BY <2>1
    <3>2. At(c) = i
      BY <2>1, <3>1
    <3> QED
      BY <1>4, <2>1, <3>1, <3>2 DEF Stored
  <2>2. CASE ~\E c \in DOMAIN h : At(c) = i
    BY <1>2, <2>2 DEF Stored
  <2> QED
    BY <2>1, <2>2
<1>6. new \in [Cells -> Int]
  BY <1>5
<1> HIDE DEF new
<1> QED
  BY <1>1, <1>6

\* A row is given where the ones before end, and counted from 0.
LEMMA PlacedType ==
  ASSUME RowsInv, NumbersInv, PlaceRows
  PROVE  \A m \in Mats : rowBase'[m] >= -1
<1>1. nextRow \in Nat /\ rowBase' = [rowBase EXCEPT ![call.m] = nextRow]
  BY DEF RowsInv, PlaceRows
<1> QED
  BY <1>1 DEF NumbersInv

\* In the beginning there are numbers, and no step writes anything else.
LEMMA InitNumbers ==
  ASSUME Init
  PROVE  NumbersInv
<1>1. y = OldY(0) /\ arena = OldY(0) /\ call.n = 0 /\ rowBase = [m \in Mats |-> -1]
  BY DEF Init
<1> QED
  BY <1>1, LinearAssumption DEF NumbersInv, OldY, Cells

\* And none comes in: every step writes numbers.
LEMMA NumbersKeep ==
  ASSUME LinearInv, DeviceInv, ResultInv, NumbersInv, Next
  PROVE  NumbersInv'
<1>1. CASE \E m \in Mats, n \in Tokens, a \in BOOLEAN : Call(m, n, a)
  <2>1. /\ y' = OldY(call.n + 1) /\ UNCHANGED <<arena, rowBase>>
        /\ call'.n = call.n + 1 /\ call.n < MaxCalls
    BY <1>1 DEF Call, pimvars
  <2>2. call.n + 1 \in 0 .. MaxCalls
    BY <2>1, LinearAssumption DEF NumbersInv
  <2>3. \A n \in Int : OldY(n) \in [Cells -> Int]
    BY DEF OldY, Cells
  <2> QED
    BY <2>1, <2>2, <2>3 DEF NumbersInv
<1>2. CASE PlaceRows
  <2>1. UNCHANGED <<y, arena>> /\ call'.n = call.n
    BY <1>2 DEF PlaceRows, FallBack, LinearInv, CallInv
  <2> QED
    BY <1>2, <2>1, PlacedType DEF NumbersInv, ResultInv, SupplyInv
<1>3. CASE LoadRows \/ Install \/ ReadStatus \/ Push \/ SimCopies \/ Issue \/ Retire \/ Return
           \/ \E t \in DOMAIN work : LoadBlock(t)
  <2>1. UNCHANGED <<y, arena, rowBase>> /\ call'.n = call.n
    BY <1>3 DEF LoadRows, Install, ReadStatus, Push, SimCopies, Issue, Retire, Return, LoadBlock,
                pimvars, LinearInv, CallInv
  <2> QED
    BY <2>1 DEF NumbersInv
<1>4. CASE Gemv
  <2>1. UNCHANGED <<y, rowBase>> /\ call'.n = call.n
    BY <1>4 DEF Gemv, FallBack, LinearInv, CallInv
  <2>2. arena' = arena \/ arena' = [i \in Cells |-> IF i < mat.nOut THEN y[i] ELSE arena[i]]
    BY <1>4 DEF Gemv
  <2> QED
    BY <2>1, <2>2 DEF NumbersInv
<1>5. CASE Fire \/ Idle
  <2>1. UNCHANGED <<arena, rowBase, conf>> /\ call'.n = call.n
    BY <1>5 DEF Fire, Idle, Executed, pimvars, LinearInv, CallInv
  <2>2. y' = y \/ \E w : y' = Unpack(dev', w)
    BY <1>5 DEF Fire, Idle, Executed, pimvars
  <2>3. DeviceInv' /\ hw' = hw
    BY <2>1, DeviceKeeps DEF hw
  <2>4. PICK u : Memory(u) /\ dev' \in Dev(hw, u)
    BY <2>3 DEF DeviceInv, IsDevice
  <2>5. y' \in [Cells -> Int]
    BY <2>2, <2>4, UnpackType DEF NumbersInv
  <2> QED
    BY <2>1, <2>5 DEF NumbersInv
<1>6. CASE \E t \in DOMAIN work : StoreBlock(t)
  <2>1. UNCHANGED <<call, rowBase>>
    BY <1>6 DEF StoreBlock, pimvars
  <2>2. y' \in [Cells -> Int] /\ arena' \in [Cells -> Int]
    BY <1>6, StoredType DEF NumbersInv, ResultInv
  <2> QED
    BY <2>1, <2>2 DEF NumbersInv
<1>7. CASE Join
  <2>1. UNCHANGED <<arena, rowBase>> /\ call'.n = call.n
    BY <1>7 DEF Join, pimvars, LinearInv, CallInv
  <2>2. y' = y \/ y' = [i \in Cells |-> IF i < mat.nOut THEN arena[i] ELSE y[i]]
    BY <1>7 DEF Join
  <2> QED
    BY <2>1, <2>2 DEF NumbersInv
<1>8. CASE Stopped
  BY <1>8 DEF Stopped, vars, pimvars, NumbersInv
<1> QED
  BY <1>1, <1>2, <1>3, <1>4, <1>5, <1>6, <1>7, <1>8 DEF Next, Step

\* The invariants together are more than the types.
LEMMA TypesHold ==
  ASSUME LinearInv, DeviceInv, ResultInv, NumbersInv
  PROVE  LinearTypeOK
<1>1. conf \in Confs /\ call.m \in Mats \cup {"none"} /\ call.ph \in Phases
  BY DEF LinearInv, CallInv
<1>2. DOMAIN dev.gpr = 0 .. hw.gprs - 1
  BY DEF DeviceInv, IsDevice, Dev
<1>3. DOMAIN work = DOMAIN held
  BY DEF LinearInv, WorkInv
<1>4. ASSUME NEW m \in Mats PROVE rowBase[m] \in -1 .. nextRow
  <2>1. /\ nextRow \in Nat /\ rowBase[m] \in Int /\ rowBase[m] >= -1
        /\ rowBase[m] < 0 \/ rowBase[m] + Waves(m) <= nextRow
    BY DEF DeviceInv, ResultInv, SupplyInv, RowsInv, NumbersInv
  <2>2. Waves(m) \in Nat
    BY WavesFacts DEF LinearInv
  <2> QED
    BY <2>1, <2>2
<1> QED
  BY <1>1, <1>2, <1>3, <1>4 DEF LinearTypeOK, NumbersInv, Phases

\* The variables of the products keep their types, on every path: y and the
\* arena hold numbers in all cells, also in those behind a product.
THEOREM TypeCorrect == BuiltSpec => []LinearTypeOK
<1>1. BuiltInit => NumbersInv
  BY InitNumbers DEF BuiltInit
<1>2. /\ LinearInv /\ DeviceInv /\ ResultInv /\ NumbersInv
      /\ [LinearStep \/ GpuStep]_allVars
      => NumbersInv'
  <2> SUFFICES ASSUME LinearInv, DeviceInv, ResultInv, NumbersInv,
                      [LinearStep \/ GpuStep]_allVars
               PROVE  NumbersInv'
    OBVIOUS
  <2>1. CASE LinearStep
    BY <2>1, NumbersKeep DEF LinearStep
  <2>2. CASE UNCHANGED vars
    BY <2>2 DEF vars, pimvars, NumbersInv
  <2> QED
    BY <2>1, <2>2 DEF GpuStep, allVars
<1>3. LinearInv /\ DeviceInv /\ ResultInv /\ NumbersInv => LinearTypeOK
  BY TypesHold
<1> QED
  BY <1>1, <1>2, <1>3, Shares, Commands, Results, PTL DEF BuiltSpec

\* What the runtime of the Vulkan backend is before its first step.
GpuAtRest == g.tab = <<>> /\ g.cmds = <<>> /\ g.full = FALSE

\* In a build with any backend but the Vulkan one, every variable of the backend
\* stays in its type.
THEOREM BuildTypes == BuiltSpec => [](built = "linear" => BuiltTypeOK)
<1> DEFINE Quiet == built = "linear" => GpuAtRest
<1>1. BuiltInit => Quiet
  BY DEF BuiltInit, GpuInit, GpuAtRest
<1>2. Quiet /\ [LinearStep \/ GpuStep]_allVars => Quiet'
  BY DEF LinearStep, GpuStep, allVars, gpuVars, GpuAtRest
<1>3. GpuAtRest => GpuTypeOK
  <2>1. Len(<<>>) = 0 /\ DOMAIN <<>> = {}
    OBVIOUS
  <2> QED
    BY <2>1, GpuAssumption DEF GpuAtRest, GpuTypeOK
<1>4. Quiet /\ LinearTypeOK => (built = "linear" => BuiltTypeOK)
  BY <1>3 DEF BuiltTypeOK
<1> QED
  BY <1>1, <1>2, <1>4, TypeCorrect, PTL DEF BuiltSpec
=============================================================================
