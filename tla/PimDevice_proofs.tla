-------------------------- MODULE PimDevice_proofs ---------------------------
(***************************************************************************)
(* The fast paths of the PIM device do what its scalar steps do: facts     *)
(* about the operators of PimDevice, for bursts and channels of any width  *)
(* and number, whatever the registers, buffers, accumulators and banks     *)
(* hold.  The proof goes from the inside out: the steps of a bank, of a    *)
(* channel, of a command on one column, of a command on all its columns.   *)
(*                                                                         *)
(* Each of the loops has a lemma ...Rounds: it stays in its type, and a    *)
(* function from the rounds that are over to the device exists (...Run).   *)
(***************************************************************************)
EXTENDS PimDevice, LoopTheorems

Burst == [LaneIds -> Int]

\* Numbers of rounds: some numbers below a bound.
Bounded(S) == \E N \in Nat : S \in SUBSET (0 .. N)

\* What the geometry is.
LEMMA Numbers ==
  /\ Lanes \in Nat \ {0} /\ Banks \in Nat \ {0} /\ BankIds \subseteq LaneIds
  /\ Bounded(LaneIds) /\ Bounded(BankIds)
<1>1. Lanes - 1 \in Nat /\ Banks - 1 \in Nat /\ BankIds \subseteq LaneIds
  BY DeviceAssumption DEF LaneIds, BankIds
<1>2. Bounded(LaneIds) /\ Bounded(BankIds)
  BY <1>1, Zenon DEF LaneIds, BankIds, Bounded
<1> QED
  BY <1>1, <1>2, DeviceAssumption

\* The states of a loop over S that starts in base: h[s] when the rounds s are
\* over, the last of which was that of the greatest number in s.
States(h, S, D, base) ==
  /\ h \in [SUBSET S -> D] /\ h[{}] = base /\ h[S] \in D
  /\ \A s \in SUBSET S : s # {} => Max(s) \in S /\ h[s \ {Max(s)}] \in D

\* They are reached from one another by F.
StatesBy(h, S, D, base, F) ==
  /\ States(h, S, D, base)
  /\ \A s \in SUBSET S : s # {} => h[s] = F[<<h[s \ {Max(s)}], Max(s)>>]

\* A loop whose rounds stay in D has states in D.
LEMMA EachStates ==
  ASSUME NEW S, Bounded(S), NEW D, NEW base \in D, NEW F \in [D \X S -> D]
  PROVE  \E h : StatesBy(h, S, D, base, F)
<1>1. PICK N \in Nat : S \in SUBSET (0 .. N)
  BY DEF Bounded
<1>2. PICK h \in [SUBSET S -> D] : OverSet(h, S, base, F)
  BY <1>1, EachRecursion
<1>3. h[{}] = base
  BY <1>2 DEF OverSet
<1>4. ASSUME NEW s \in SUBSET S, s # {}
      PROVE  /\ Max(s) \in S /\ h[s \ {Max(s)}] \in D
             /\ h[s] = F[<<h[s \ {Max(s)}], Max(s)>>]
  <2>1. s \in SUBSET (0 .. N)
    BY <1>1
  <2>2. Max(s) \in S /\ s \ {Max(s)} \in SUBSET S
    BY <1>1, <1>4, <2>1, Greatest
  <2>3. h[s] = F[<<h[s \ {Max(s)}], Max(s)>>]
    BY <1>2, <1>4 DEF OverSet
  <2> QED
    BY <2>2, <2>3
<1>5. h[S] \in D
  <2>1. S \in SUBSET S
    OBVIOUS
  <2> QED
    BY <1>2, <2>1
<1> QED
  BY <1>2, <1>3, <1>4, <1>5 DEF States, StatesBy

\* Loops whose rounds do the same agree.
LEMMA EachAgree ==
  ASSUME NEW S, Bounded(S), NEW g, NEW h, g[{}] = h[{}],
         \A s \in SUBSET S : s # {} /\ g[s \ {Max(s)}] = h[s \ {Max(s)}] => g[s] = h[s]
  PROVE  \A s \in SUBSET S : g[s] = h[s]
<1> DEFINE T == {s \in SUBSET S : g[s] = h[s]}
<1>1. {} \in T
  OBVIOUS
<1>2. ASSUME NEW s \in SUBSET S, s # {}, s \ {Max(s)} \in T PROVE s \in T
  BY <1>2
<1> HIDE DEF T
<1>3. SUBSET S \subseteq T
  BY <1>1, <1>2, EachInduction DEF Bounded
<1> QED
  BY <1>3 DEF T

\* The dot product, lane by lane.
LEMMA BurstDotRounds ==
  ASSUME NEW w \in Burst, NEW x \in Burst
  PROVE  \E h :
           /\ States(h, LaneIds, Int, 0)
           /\ \A s \in SUBSET LaneIds : s # {} =>
                h[s] = h[s \ {Max(s)}] + w[Max(s)] * x[Max(s)]
           /\ BurstDot(w, x) = h[LaneIds]
<1> DEFINE F == [p \in Int \X LaneIds |-> p[1] + w[p[2]] * x[p[2]]]
           P(h) == h = [s \in SUBSET LaneIds |->
                    IF s = {} THEN 0 ELSE h[s \ {Max(s)}] + w[Max(s)] * x[Max(s)]]
           g == CHOOSE g : P(g)
<1>1. F \in [Int \X LaneIds -> Int] /\ 0 \in Int
  BY DEF Burst
<1>2. PICK h : StatesBy(h, LaneIds, Int, 0, F)
  <2> HIDE DEF F
  <2> QED
    BY <1>1, Numbers, EachStates
<1>3. \A s \in SUBSET LaneIds : s # {} => h[s] = h[s \ {Max(s)}] + w[Max(s)] * x[Max(s)]
  BY <1>2 DEF States, StatesBy
<1>4. P(h)
  BY <1>2, <1>3 DEF States, StatesBy
<1>5. P(g)
  <2> HIDE DEF P
  <2> QED
    BY <1>4
<1>6. BurstDot(w, x) = g[LaneIds]
  BY DEF BurstDot, Each, MapThenFoldSet
<1> HIDE DEF g, F
<1>7. \A s \in SUBSET LaneIds : g[s] = h[s]
  <2>1. g[{}] = h[{}]
    BY <1>2, <1>5 DEF States, StatesBy
  <2>2. \A s \in SUBSET LaneIds : s # {} /\ g[s \ {Max(s)}] = h[s \ {Max(s)}] => g[s] = h[s]
    BY <1>3, <1>5
  <2> HIDE DEF P
  <2> QED
    BY <2>1, <2>2, Numbers, EachAgree
<1> QED
  BY <1>2, <1>3, <1>6, <1>7 DEF States, StatesBy

-----------------------------------------------------------------------------
(* Devices and commands.                                                   *)

Channels(h) == 0 .. h.nCh - 1
Hardware(h) == h.nCh \in Nat \ {0} /\ h.gprs \in Nat /\ h.gbCols \in Nat

\* The devices with the banks w.
Memory(w) == \A a \in DOMAIN w : w[a] \in Burst
Dev(h, w) ==
  [gpr  : [0 .. h.gprs - 1 -> Burst],
   gb   : [Channels(h) \X (0 .. h.gbCols - 1) -> Burst],
   acc  : [Channels(h) -> [BankIds -> Int]],
   dram : {w}]

Ops == {"WR_GB", "WR_BIAS", "MAC_ABK", "RD_MAC"}
Cmds(h) == [op : Ops \cup {"EOC"}, opsize : Int, gpr0 : Int, chs : SUBSET Channels(h),
            row : Int, col : Int]

\* A device is its four parts.
LEMMA SameDevice ==
  ASSUME NEW h, NEW w, NEW d \in Dev(h, w), NEW e \in Dev(h, w),
         d.gpr = e.gpr, d.gb = e.gb, d.acc = e.acc
  PROVE  d = e
<1>1. /\ d = [gpr |-> d.gpr, gb |-> d.gb, acc |-> d.acc, dram |-> w]
      /\ e = [gpr |-> e.gpr, gb |-> e.gb, acc |-> e.acc, dram |-> w]
  BY DEF Dev
<1> QED
  BY <1>1

LEMMA ZeroIsBurst == ZeroBurst \in Burst
BY DEF ZeroBurst, Burst

\* Reads give bursts and numbers, wherever they read.
LEMMA ReadTypes ==
  ASSUME NEW h, NEW w, Memory(w), NEW d \in Dev(h, w)
  PROVE  /\ \A i : GprRead(d, i) \in Burst
         /\ \A c, col : GbRead(d, c, col) \in Burst
         /\ \A c, row, col : \A b \in BankIds :
              MacRead(d, c, b) \in Int /\ DramRead(d, c, b, row, col) \in Burst
<1>1. \A i : GprRead(d, i) \in Burst
  BY ZeroIsBurst DEF Dev, GprRead
<1>2. \A c, col : GbRead(d, c, col) \in Burst
  BY ZeroIsBurst DEF Dev, GbRead
<1>3. \A c, row, col : \A b \in BankIds : MacRead(d, c, b) \in Int
  BY DEF Dev, MacRead
<1>4. \A c, row, col : \A b \in BankIds : DramRead(d, c, b, row, col) \in Burst
  BY ZeroIsBurst DEF Dev, DramRead, Memory
<1> QED
  BY <1>1, <1>2, <1>3, <1>4

\* What a write leaves alone and what it changes.
LEMMA GprWriteFields ==
  ASSUME NEW h, NEW w, NEW d \in Dev(h, w), NEW i, NEW b \in Burst
  PROVE  /\ GprWrite(d, i, b) \in Dev(h, w)
         /\ GprWrite(d, i, b).gb = d.gb /\ GprWrite(d, i, b).acc = d.acc
         /\ GprWrite(d, i, b).gpr = [k \in DOMAIN d.gpr |-> IF k = i THEN b ELSE d.gpr[k]]
BY DEF Dev, GprWrite

LEMMA GbWriteFields ==
  ASSUME NEW h, NEW w, NEW d \in Dev(h, w), NEW c, NEW col, NEW b \in Burst
  PROVE  /\ GbWrite(d, c, col, b) \in Dev(h, w)
         /\ GbWrite(d, c, col, b).gpr = d.gpr /\ GbWrite(d, c, col, b).acc = d.acc
         /\ GbWrite(d, c, col, b).gb
              = [k \in DOMAIN d.gb |-> IF k = <<c, col>> THEN b ELSE d.gb[k]]
BY DEF Dev, GbWrite

LEMMA MacWriteFields ==
  ASSUME NEW h, NEW w, NEW d \in Dev(h, w), NEW c, NEW bank \in BankIds, NEW v \in Int
  PROVE  /\ MacWrite(d, c, bank, v) \in Dev(h, w)
         /\ MacWrite(d, c, bank, v).gpr = d.gpr /\ MacWrite(d, c, bank, v).gb = d.gb
         /\ MacWrite(d, c, bank, v).acc
              = [k \in DOMAIN d.acc |->
                   IF k = c THEN [b \in BankIds |-> IF b = bank THEN v ELSE d.acc[k][b]]
                   ELSE d.acc[k]]
BY DEF Dev, MacWrite

LEMMA MacWriteAllFields ==
  ASSUME NEW h, NEW w, NEW d \in Dev(h, w), NEW c, NEW a \in [BankIds -> Int]
  PROVE  /\ MacWriteAll(d, c, a) \in Dev(h, w)
         /\ MacWriteAll(d, c, a).gpr = d.gpr /\ MacWriteAll(d, c, a).gb = d.gb
         /\ MacWriteAll(d, c, a).acc
              = [k \in DOMAIN d.acc |-> IF k = c THEN a ELSE d.acc[k]]
BY DEF Dev, MacWriteAll

-----------------------------------------------------------------------------
(* The scalar steps.                                                       *)

\* A command has a column, lanes and banks.
LEMMA CommandFacts ==
  ASSUME NEW h, Hardware(h), NEW cmd \in Cmds(h)
  PROVE  /\ Col(cmd) \in Nat /\ (cmd.col \in Nat => Col(cmd) = cmd.col)
         /\ StepLanes(cmd) \subseteq LaneIds /\ Bounded(StepLanes(cmd))
         /\ StepBanks(cmd) \subseteq BankIds /\ Bounded(StepBanks(cmd))
         /\ Bounded(Channels(h))
<1>1. Max({cmd.col, 0}) \in {cmd.col, 0} /\ Max({cmd.col, 0}) >= cmd.col /\ Max({cmd.col, 0}) >= 0
  <2>1. cmd.col \in Int /\ 0 \in Int
    BY DEF Cmds
  <2> QED
    BY <2>1, LesserGreater
<1>2. Col(cmd) \in Nat /\ (cmd.col \in Nat => Col(cmd) = cmd.col)
  BY <1>1 DEF Col, Cmds
<1>3. 0 \in LaneIds /\ 0 \in BankIds /\ Bounded({0})
  <2>1. {0} \in SUBSET (0 .. 0)
    OBVIOUS
  <2> QED
    BY <2>1, Numbers DEF LaneIds, BankIds, Bounded
<1>4. Bounded(Channels(h))
  <2>1. h.nCh - 1 \in Nat /\ Channels(h) \in SUBSET (0 .. h.nCh - 1)
    BY DEF Hardware, Channels
  <2> QED
    BY <2>1 DEF Bounded
<1>5. StepLanes(cmd) \in {LaneIds, {0}} /\ StepBanks(cmd) \in {BankIds, {0}}
  BY DEF StepLanes, StepBanks
<1> QED
  BY <1>2, <1>3, <1>4, <1>5, Numbers

\* The channels a command is for, by its mask or by the micro command.
LEMMA ChannelFacts ==
  ASSUME NEW h, Hardware(h), NEW cmd \in Cmds(h), NEW ch \in Channels(h) \cup {-1}
  PROVE  /\ ChannelsOf(h, cmd, ch) \subseteq Channels(h) /\ ChannelsOf(h, cmd, ch) # {}
         /\ Masked(h, cmd, ch) \subseteq Channels(h)
         /\ Bounded(ChannelsOf(h, cmd, ch)) /\ Bounded(Masked(h, cmd, ch))
         /\ ch \in Channels(h) => ChannelsOf(h, cmd, ch) = {ch} /\ Masked(h, cmd, ch) = {ch}
         /\ cmd.chs # {} => ChannelsOf(h, cmd, ch) = Masked(h, cmd, ch)
         /\ ch = -1 => Masked(h, cmd, ch) = cmd.chs
<1>1. 0 \in Channels(h) /\ (ch \in Channels(h) <=> ch >= 0)
  BY DEF Channels, Hardware
<1>2. cmd.chs \subseteq Channels(h) /\ cmd.chs \cap (0 .. h.nCh - 1) = cmd.chs
  BY DEF Cmds, Channels
<1>3. /\ ChannelsOf(h, cmd, ch) = IF ch >= 0 THEN {ch} ELSE IF cmd.chs = {} THEN {0} ELSE cmd.chs
      /\ Masked(h, cmd, ch) = IF ch >= 0 THEN {ch} ELSE cmd.chs
  BY <1>2 DEF ChannelsOf, Masked
<1>4. \A S \in SUBSET Channels(h) : Bounded(S)
  <2>1. h.nCh - 1 \in Nat
    BY DEF Hardware
  <2> QED
    BY <2>1, Zenon DEF Channels, Bounded
<1>5. /\ ChannelsOf(h, cmd, ch) \subseteq Channels(h) /\ ChannelsOf(h, cmd, ch) # {}
      /\ Masked(h, cmd, ch) \subseteq Channels(h)
  BY <1>1, <1>2, <1>3
<1>6. ch = -1 => ~(ch >= 0)
  OBVIOUS
<1> QED
  BY <1>1, <1>3, <1>4, <1>5, <1>6

\* A step leaves a device.
LEMMA ApplyStepType ==
  ASSUME NEW h, NEW w, Memory(w), NEW d \in Dev(h, w), NEW cmd \in Cmds(h), cmd.op \in Ops,
         NEW c, NEW bank \in BankIds, NEW lane \in LaneIds
  PROVE  ApplyStep(d, cmd, c, bank, lane) \in Dev(h, w)
<1> DEFINE col == Col(cmd)
<1>0. bank \in LaneIds
  BY Numbers
<1>1. CASE cmd.op = "WR_GB"
  <2> DEFINE b == [GbRead(d, c, col) EXCEPT ![lane] = GprRead(d, cmd.gpr0 + col)[lane]]
  <2>1. b \in Burst
    BY ReadTypes DEF Burst
  <2>2. ApplyStep(d, cmd, c, bank, lane) = GbWrite(d, c, col, b)
    BY <1>1 DEF ApplyStep
  <2> HIDE DEF b
  <2>4. GbWrite(d, c, col, b) \in Dev(h, w)
    BY <2>1, GbWriteFields
  <2> QED
    BY <2>2, <2>4
<1>2. CASE cmd.op = "WR_BIAS"
  <2> DEFINE v == GprRead(d, cmd.gpr0)[bank]
  <2>1. v \in Int
    BY <1>0, ReadTypes DEF Burst
  <2>2. ApplyStep(d, cmd, c, bank, lane) = MacWrite(d, c, bank, v)
    BY <1>2 DEF ApplyStep
  <2> HIDE DEF v
  <2>4. MacWrite(d, c, bank, v) \in Dev(h, w)
    BY <2>1, MacWriteFields
  <2> QED
    BY <2>2, <2>4
<1>3. CASE cmd.op = "MAC_ABK"
  <2> DEFINE a == MacRead(d, c, bank)
             x == DramRead(d, c, bank, cmd.row, col)[lane]
             z == GbRead(d, c, col)[lane]
  <2>1. a \in Int /\ x \in Int /\ z \in Int
    BY ReadTypes DEF Burst
  <2>2. ApplyStep(d, cmd, c, bank, lane) = MacWrite(d, c, bank, a + x * z)
    BY <1>3 DEF ApplyStep
  <2> HIDE DEF a, x, z
  <2>3. a + x * z \in Int
    BY <2>1
  <2>4. MacWrite(d, c, bank, a + x * z) \in Dev(h, w)
    BY <2>3, MacWriteFields
  <2> QED
    BY <2>2, <2>4
<1>4. CASE cmd.op = "RD_MAC"
  <2> DEFINE b == [GprRead(d, cmd.gpr0) EXCEPT ![bank] = MacRead(d, c, bank)]
  <2>1. b \in Burst
    BY ReadTypes DEF Burst
  <2>2. ApplyStep(d, cmd, c, bank, lane) = GprWrite(d, cmd.gpr0, b)
    BY <1>4 DEF ApplyStep
  <2> HIDE DEF b
  <2>4. GprWrite(d, cmd.gpr0, b) \in Dev(h, w)
    BY <2>1, GprWriteFields
  <2> QED
    BY <2>2, <2>4
<1> QED
  BY <1>1, <1>2, <1>3, <1>4 DEF Ops

\* The states of a bank's steps.
BankStepsRun(g, h, w, d, cmd, c, bank) ==
  /\ States(g, StepLanes(cmd), Dev(h, w), d)
  /\ \A s \in SUBSET StepLanes(cmd) : s # {} =>
       g[s] = ApplyStep(g[s \ {Max(s)}], cmd, c, bank, Max(s))
  /\ BankSteps(d, cmd, c, bank) = g[StepLanes(cmd)]

LEMMA BankStepsRounds ==
  ASSUME NEW h, Hardware(h), NEW w, Memory(w), NEW d \in Dev(h, w),
         NEW cmd \in Cmds(h), cmd.op \in Ops, NEW c, NEW bank \in BankIds
  PROVE  BankSteps(d, cmd, c, bank) \in Dev(h, w) /\ \E g : BankStepsRun(g, h, w, d, cmd, c, bank)
<1> DEFINE S == StepLanes(cmd)
           D == Dev(h, w)
           F == [p \in D \X S |-> ApplyStep(p[1], cmd, c, bank, p[2])]
           P(g) == g = [s \in SUBSET S |->
                    IF s = {} THEN d ELSE ApplyStep(g[s \ {Max(s)}], cmd, c, bank, Max(s))]
           f == CHOOSE g : P(g)
<1>1. Bounded(S) /\ d \in D
  BY CommandFacts
<1>2. F \in [D \X S -> D]
  <2>1. \A e \in D : \A i \in S : ApplyStep(e, cmd, c, bank, i) \in D
    BY CommandFacts, ApplyStepType
  <2> HIDE DEF D, S
  <2> QED
    BY <2>1
<1>3. PICK g : StatesBy(g, S, D, d, F)
  <2> HIDE DEF F, S, D
  <2> QED
    BY <1>1, <1>2, EachStates
<1> HIDE DEF S, D
<1>4. \A s \in SUBSET S : s # {} => g[s] = ApplyStep(g[s \ {Max(s)}], cmd, c, bank, Max(s))
  BY <1>3 DEF States, StatesBy
<1>5. P(g)
  BY <1>3, <1>4 DEF States, StatesBy
<1>6. P(f)
  <2> HIDE DEF P
  <2> QED
    BY <1>5
<1>7. BankSteps(d, cmd, c, bank) = f[S]
  BY DEF BankSteps, Each, MapThenFoldSet, S
<1> HIDE DEF f, F
<1>8. \A s \in SUBSET S : f[s] = g[s]
  <2>1. f[{}] = g[{}]
    BY <1>3, <1>6 DEF States, StatesBy
  <2>2. \A s \in SUBSET S : s # {} /\ f[s \ {Max(s)}] = g[s \ {Max(s)}] => f[s] = g[s]
    BY <1>4, <1>6
  <2> HIDE DEF P
  <2> QED
    BY <1>1, <2>1, <2>2, EachAgree
<1>9. BankSteps(d, cmd, c, bank) = g[S] /\ g[S] \in D
  <2>1. f[S] = g[S]
    BY <1>8
  <2> QED
    BY <1>3, <1>7, <2>1 DEF States, StatesBy
<1> QED
  BY <1>3, <1>4, <1>9 DEF StatesBy, BankStepsRun, S, D

LEMMA BankStepsType ==
  ASSUME NEW h, Hardware(h), NEW w, Memory(w), NEW d \in Dev(h, w),
         NEW cmd \in Cmds(h), cmd.op \in Ops, NEW c, NEW bank \in BankIds
  PROVE  BankSteps(d, cmd, c, bank) \in Dev(h, w)
BY BankStepsRounds, Zenon

\* The states of a channel's steps.
ChannelStepsRun(g, h, w, d, cmd, c) ==
  /\ States(g, StepBanks(cmd), Dev(h, w), d)
  /\ \A s \in SUBSET StepBanks(cmd) : s # {} =>
       g[s] = BankSteps(g[s \ {Max(s)}], cmd, c, Max(s))
  /\ ChannelSteps(d, cmd, c) = g[StepBanks(cmd)]

LEMMA ChannelStepsRounds ==
  ASSUME NEW h, Hardware(h), NEW w, Memory(w), NEW d \in Dev(h, w),
         NEW cmd \in Cmds(h), cmd.op \in Ops, NEW c
  PROVE  ChannelSteps(d, cmd, c) \in Dev(h, w) /\ \E g : ChannelStepsRun(g, h, w, d, cmd, c)
<1> DEFINE S == StepBanks(cmd)
           D == Dev(h, w)
           F == [p \in D \X S |-> BankSteps(p[1], cmd, c, p[2])]
           P(g) == g = [s \in SUBSET S |->
                    IF s = {} THEN d ELSE BankSteps(g[s \ {Max(s)}], cmd, c, Max(s))]
           f == CHOOSE g : P(g)
<1>1. Bounded(S) /\ d \in D
  BY CommandFacts
<1>2. F \in [D \X S -> D]
  <2>1. \A e \in D : \A i \in S : BankSteps(e, cmd, c, i) \in D
    BY CommandFacts, BankStepsType
  <2> HIDE DEF D, S
  <2> QED
    BY <2>1
<1>3. PICK g : StatesBy(g, S, D, d, F)
  <2> HIDE DEF F, S, D
  <2> QED
    BY <1>1, <1>2, EachStates
<1> HIDE DEF S, D
<1>4. \A s \in SUBSET S : s # {} => g[s] = BankSteps(g[s \ {Max(s)}], cmd, c, Max(s))
  BY <1>3 DEF States, StatesBy
<1>5. P(g)
  BY <1>3, <1>4 DEF States, StatesBy
<1>6. P(f)
  <2> HIDE DEF P
  <2> QED
    BY <1>5
<1>7. ChannelSteps(d, cmd, c) = f[S]
  BY DEF ChannelSteps, Each, MapThenFoldSet, S
<1> HIDE DEF f, F
<1>8. \A s \in SUBSET S : f[s] = g[s]
  <2>1. f[{}] = g[{}]
    BY <1>3, <1>6 DEF States, StatesBy
  <2>2. \A s \in SUBSET S : s # {} /\ f[s \ {Max(s)}] = g[s \ {Max(s)}] => f[s] = g[s]
    BY <1>4, <1>6
  <2> HIDE DEF P
  <2> QED
    BY <1>1, <2>1, <2>2, EachAgree
<1>9. ChannelSteps(d, cmd, c) = g[S] /\ g[S] \in D
  <2>1. f[S] = g[S]
    BY <1>8
  <2> QED
    BY <1>3, <1>7, <2>1 DEF States, StatesBy
<1> QED
  BY <1>3, <1>4, <1>9 DEF StatesBy, ChannelStepsRun, S, D

LEMMA ChannelStepsType ==
  ASSUME NEW h, Hardware(h), NEW w, Memory(w), NEW d \in Dev(h, w),
         NEW cmd \in Cmds(h), cmd.op \in Ops, NEW c
  PROVE  ChannelSteps(d, cmd, c) \in Dev(h, w)
BY ChannelStepsRounds, Zenon

\* The states of a command's steps.
ScalarMicroRun(g, h, w, d, cmd, ch) ==
  /\ States(g, ChannelsOf(h, cmd, ch), Dev(h, w), d)
  /\ \A s \in SUBSET ChannelsOf(h, cmd, ch) : s # {} =>
       g[s] = ChannelSteps(g[s \ {Max(s)}], cmd, Max(s))
  /\ ScalarMicro(d, h, cmd, ch) = g[ChannelsOf(h, cmd, ch)]

LEMMA ScalarMicroRounds ==
  ASSUME NEW h, Hardware(h), NEW w, Memory(w), NEW d \in Dev(h, w),
         NEW cmd \in Cmds(h), cmd.op \in Ops, NEW ch \in Channels(h) \cup {-1}
  PROVE  ScalarMicro(d, h, cmd, ch) \in Dev(h, w) /\ \E g : ScalarMicroRun(g, h, w, d, cmd, ch)
<1> DEFINE S == ChannelsOf(h, cmd, ch)
           D == Dev(h, w)
           F == [p \in D \X S |-> ChannelSteps(p[1], cmd, p[2])]
           P(g) == g = [s \in SUBSET S |->
                    IF s = {} THEN d ELSE ChannelSteps(g[s \ {Max(s)}], cmd, Max(s))]
           f == CHOOSE g : P(g)
<1>1. Bounded(S) /\ d \in D
  BY ChannelFacts
<1>2. F \in [D \X S -> D]
  <2>1. \A e \in D : \A i \in S : ChannelSteps(e, cmd, i) \in D
    BY ChannelStepsType
  <2> HIDE DEF D, S
  <2> QED
    BY <2>1
<1>3. PICK g : StatesBy(g, S, D, d, F)
  <2> HIDE DEF F, S, D
  <2> QED
    BY <1>1, <1>2, EachStates
<1> HIDE DEF S, D
<1>4. \A s \in SUBSET S : s # {} => g[s] = ChannelSteps(g[s \ {Max(s)}], cmd, Max(s))
  BY <1>3 DEF States, StatesBy
<1>5. P(g)
  BY <1>3, <1>4 DEF States, StatesBy
<1>6. P(f)
  <2> HIDE DEF P
  <2> QED
    BY <1>5
<1>7. ScalarMicro(d, h, cmd, ch) = f[S]
  BY DEF ScalarMicro, Each, MapThenFoldSet, S
<1> HIDE DEF f, F
<1>8. \A s \in SUBSET S : f[s] = g[s]
  <2>1. f[{}] = g[{}]
    BY <1>3, <1>6 DEF States, StatesBy
  <2>2. \A s \in SUBSET S : s # {} /\ f[s \ {Max(s)}] = g[s \ {Max(s)}] => f[s] = g[s]
    BY <1>4, <1>6
  <2> HIDE DEF P
  <2> QED
    BY <1>1, <2>1, <2>2, EachAgree
<1>9. ScalarMicro(d, h, cmd, ch) = g[S] /\ g[S] \in D
  <2>1. f[S] = g[S]
    BY <1>8
  <2> QED
    BY <1>3, <1>7, <2>1 DEF States, StatesBy
<1> QED
  BY <1>3, <1>4, <1>9 DEF StatesBy, ScalarMicroRun, S, D

LEMMA ScalarMicroType ==
  ASSUME NEW h, Hardware(h), NEW w, Memory(w), NEW d \in Dev(h, w),
         NEW cmd \in Cmds(h), cmd.op \in Ops, NEW ch \in Channels(h) \cup {-1}
  PROVE  ScalarMicro(d, h, cmd, ch) \in Dev(h, w)
BY ScalarMicroRounds, Zenon

-----------------------------------------------------------------------------
(* The fast path of a channel does what its steps do.                      *)

\* A loop of one round.
LEMMA OneRound ==
  ASSUME NEW i \in Int
  PROVE  Max({i}) = i /\ {i} \ {Max({i})} = {}
<1>1. Max({i}) = i
  <2>1. i \in {i} /\ \A y \in {i} : i >= y
    OBVIOUS
  <2>2. Max({i}) \in {i}
    BY <2>1 DEF Max
  <2> QED
    BY <2>2
<1> QED
  BY <1>1

\* Operations of one bank, and of one lane.
LEMMA OneBank ==
  ASSUME NEW h, Hardware(h), NEW w, Memory(w), NEW d \in Dev(h, w),
         NEW cmd \in Cmds(h), NEW c, cmd.op = "WR_GB"
  PROVE  ChannelSteps(d, cmd, c) = BankSteps(d, cmd, c, 0)
<1>1. cmd.op \in Ops /\ StepBanks(cmd) = {0}
  BY DEF StepBanks, Ops
<1>0. PICK g : ChannelStepsRun(g, h, w, d, cmd, c)
  BY <1>1, ChannelStepsRounds
<1>2. /\ States(g, {0}, Dev(h, w), d)
      /\ \A s \in SUBSET {0} : s # {} =>
           g[s] = BankSteps(g[s \ {Max(s)}], cmd, c, Max(s))
      /\ ChannelSteps(d, cmd, c) = g[{0}]
  BY <1>1, <1>0 DEF ChannelStepsRun
<1>3. g[{0}] = BankSteps(g[{}], cmd, c, 0)
  BY <1>2, OneRound
<1> QED
  BY <1>2, <1>3 DEF States

LEMMA OneLane ==
  ASSUME NEW h, Hardware(h), NEW w, Memory(w), NEW d \in Dev(h, w),
         NEW cmd \in Cmds(h), NEW c, NEW bank \in BankIds, cmd.op \in {"WR_BIAS", "RD_MAC"}
  PROVE  BankSteps(d, cmd, c, bank) = ApplyStep(d, cmd, c, bank, 0)
<1>1. cmd.op \in Ops /\ StepLanes(cmd) = {0}
  BY DEF StepLanes, Ops
<1>0. PICK g : BankStepsRun(g, h, w, d, cmd, c, bank)
  BY <1>1, BankStepsRounds
<1>2. /\ States(g, {0}, Dev(h, w), d)
      /\ \A s \in SUBSET {0} : s # {} =>
           g[s] = ApplyStep(g[s \ {Max(s)}], cmd, c, bank, Max(s))
      /\ BankSteps(d, cmd, c, bank) = g[{0}]
  BY <1>1, <1>0 DEF BankStepsRun
<1>3. g[{0}] = ApplyStep(g[{}], cmd, c, bank, 0)
  BY <1>2, OneRound
<1> QED
  BY <1>2, <1>3 DEF States

\* WR_GB: lane by lane a burst comes over.
LEMMA WrGbIsSteps ==
  ASSUME NEW h, Hardware(h), NEW w, Memory(w), NEW d \in Dev(h, w),
         NEW cmd \in Cmds(h), NEW c, cmd.op = "WR_GB"
  PROVE  ChannelSteps(d, cmd, c) = WrGbFast(d, cmd, c)
<1> DEFINE col == Col(cmd)
           src == GprRead(d, cmd.gpr0 + col)
           gb(s) == [k \in DOMAIN d.gb |->
                      IF k = <<c, col>>
                      THEN [l \in LaneIds |-> IF l \in s THEN src[l] ELSE d.gb[k][l]]
                      ELSE d.gb[k]]
<1>1. cmd.op \in Ops /\ StepLanes(cmd) = LaneIds /\ 0 \in BankIds
  BY Numbers DEF StepLanes, Ops, BankIds
<1>0. PICK g : BankStepsRun(g, h, w, d, cmd, c, 0)
  BY <1>1, BankStepsRounds
<1>2. /\ States(g, LaneIds, Dev(h, w), d)
      /\ \A s \in SUBSET LaneIds : s # {} =>
           g[s] = ApplyStep(g[s \ {Max(s)}], cmd, c, 0, Max(s))
      /\ BankSteps(d, cmd, c, 0) = g[LaneIds]
  BY <1>1, <1>0 DEF BankStepsRun
<1> DEFINE T == {s \in SUBSET LaneIds : g[s].gpr = d.gpr /\ g[s].acc = d.acc /\ g[s].gb = gb(s)}
<1>3. {} \in T
  <2>1. gb({}) = d.gb
    BY DEF Dev, Burst
  <2> QED
    BY <1>2, <2>1 DEF States
<1>4. src \in Burst
  BY ReadTypes
<1>5. ASSUME NEW s \in SUBSET LaneIds, s # {}, s \ {Max(s)} \in T PROVE s \in T
  <2> DEFINE m == Max(s)
             e == g[s \ {m}]
             b == [GbRead(e, c, col) EXCEPT ![m] = GprRead(e, cmd.gpr0 + col)[m]]
  <2>1. e \in Dev(h, w) /\ m \in LaneIds /\ g[s] = ApplyStep(e, cmd, c, 0, m)
    BY <1>2, <1>5 DEF States
  <2>2. e.gpr = d.gpr /\ e.acc = d.acc /\ e.gb = gb(s \ {m})
    BY <1>5
  <2>0. m \in s
    BY <1>5, Numbers, Greatest DEF Bounded
  <2> HIDE DEF e, m
  <2>3. g[s] = GbWrite(e, c, col, b)
    BY <2>1 DEF ApplyStep
  <2>4. b \in Burst
    BY <2>1, ReadTypes DEF Burst
  <2>5. GprRead(e, cmd.gpr0 + col) = src
    BY <2>2 DEF GprRead
  <2>6. \A k \in DOMAIN d.gb : k = <<c, col>> =>
          b = [l \in LaneIds |-> IF l \in s THEN src[l] ELSE d.gb[k][l]]
    <3> SUFFICES ASSUME <<c, col>> \in DOMAIN d.gb
                 PROVE  b = [l \in LaneIds |-> IF l \in s THEN src[l] ELSE d.gb[<<c, col>>][l]]
      OBVIOUS
    <3>1. DOMAIN e.gb = DOMAIN d.gb
      BY <2>2
    <3>2. GbRead(e, c, col)
            = [l \in LaneIds |-> IF l \in s \ {m} THEN src[l] ELSE d.gb[<<c, col>>][l]]
      BY <2>2, <3>1 DEF GbRead
    <3> HIDE DEF src, col
    <3> QED
      BY <2>1, <2>0, <2>5, <3>2
  <2> HIDE DEF b
  <2>7. /\ g[s].gpr = e.gpr /\ g[s].acc = e.acc
        /\ g[s].gb = [k \in DOMAIN e.gb |-> IF k = <<c, col>> THEN b ELSE e.gb[k]]
    BY <2>1, <2>3, <2>4, GbWriteFields
  <2>8. g[s].gb = gb(s)
    <3> HIDE DEF col, src
    <3> QED
      BY <2>2, <2>6, <2>7
  <2> QED
    BY <2>2, <2>7, <2>8
<1> HIDE DEF T
<1>6. LaneIds \in T
  <2>1. SUBSET LaneIds \subseteq T
    BY <1>3, <1>5, Numbers, EachInduction DEF Bounded
  <2> QED
    BY <2>1
<1> DEFINE e == g[LaneIds]
           f == WrGbFast(d, cmd, c)
<1>7. e \in Dev(h, w) /\ e.gpr = d.gpr /\ e.acc = d.acc /\ e.gb = gb(LaneIds)
  BY <1>2, <1>6 DEF T, States
<1>8. f = GbWrite(d, c, col, src)
  BY DEF WrGbFast
<1>9. /\ f \in Dev(h, w) /\ f.gpr = d.gpr /\ f.acc = d.acc
      /\ f.gb = [k \in DOMAIN d.gb |-> IF k = <<c, col>> THEN src ELSE d.gb[k]]
  <2> HIDE DEF src, col, f
  <2> QED
    BY <1>4, <1>8, GbWriteFields
<1>10. src = [l \in LaneIds |-> src[l]]
  BY <1>4 DEF Burst
<1> HIDE DEF src, col, e, f
<1>11. e.gb = f.gb
  BY <1>7, <1>9, <1>10
<1>12. e = f
  BY <1>7, <1>9, <1>11, SameDevice
<1> QED
  BY <1>2, <1>12, OneBank DEF e, f

\* WR_BIAS: bank by bank an accumulator is set.
LEMMA WrBiasIsSteps ==
  ASSUME NEW h, Hardware(h), NEW w, Memory(w), NEW d \in Dev(h, w),
         NEW cmd \in Cmds(h), NEW c, cmd.op = "WR_BIAS"
  PROVE  ChannelSteps(d, cmd, c) = WrBiasFast(d, cmd, c)
<1> DEFINE src == GprRead(d, cmd.gpr0)
           acc(s) == [k \in DOMAIN d.acc |->
                       IF k = c THEN [b \in BankIds |-> IF b \in s THEN src[b] ELSE d.acc[k][b]]
                       ELSE d.acc[k]]
<1>1. cmd.op \in Ops /\ StepBanks(cmd) = BankIds
  BY DEF StepBanks, Ops
<1>2. PICK g : ChannelStepsRun(g, h, w, d, cmd, c)
  BY <1>1, ChannelStepsRounds
<1>3. /\ States(g, BankIds, Dev(h, w), d)
      /\ \A s \in SUBSET BankIds : s # {} =>
           g[s] = BankSteps(g[s \ {Max(s)}], cmd, c, Max(s))
      /\ ChannelSteps(d, cmd, c) = g[BankIds]
  BY <1>1, <1>2 DEF ChannelStepsRun
<1> DEFINE T == {s \in SUBSET BankIds : g[s].gpr = d.gpr /\ g[s].gb = d.gb /\ g[s].acc = acc(s)}
<1>4. {} \in T
  <2>1. acc({}) = d.acc
    BY DEF Dev
  <2> QED
    BY <1>3, <2>1 DEF States
<1>5. src \in Burst /\ \A b \in BankIds : src[b] \in Int
  <2>1. src \in Burst
    BY ReadTypes
  <2> QED
    BY <2>1, Numbers DEF Burst
<1>6. ASSUME NEW s \in SUBSET BankIds, s # {}, s \ {Max(s)} \in T PROVE s \in T
  <2> DEFINE m == Max(s)
             e == g[s \ {m}]
             v == GprRead(e, cmd.gpr0)[m]
  <2>1. e \in Dev(h, w) /\ m \in BankIds /\ g[s] = BankSteps(e, cmd, c, m)
    BY <1>3, <1>6 DEF States
  <2>2. e.gpr = d.gpr /\ e.gb = d.gb /\ e.acc = acc(s \ {m})
    BY <1>6
  <2>3. m \in s
    BY <1>6, Numbers, Greatest DEF Bounded
  <2> HIDE DEF e, m
  <2>4. g[s] = ApplyStep(e, cmd, c, m, 0)
    BY <2>1, OneLane
  <2>5. g[s] = MacWrite(e, c, m, v)
    BY <2>4 DEF ApplyStep
  <2>6. v = src[m] /\ v \in Int
    BY <1>5, <2>1, <2>2 DEF GprRead
  <2> HIDE DEF v, src
  <2>7. /\ g[s].gpr = e.gpr /\ g[s].gb = e.gb
        /\ g[s].acc = [k \in DOMAIN e.acc |->
                        IF k = c THEN [b \in BankIds |-> IF b = m THEN v ELSE e.acc[k][b]]
                        ELSE e.acc[k]]
    BY <2>1, <2>5, <2>6, MacWriteFields
  <2>8. g[s].acc = acc(s)
    BY <2>2, <2>3, <2>6, <2>7
  <2> QED
    BY <2>2, <2>7, <2>8
<1> HIDE DEF T
<1>7. BankIds \in T
  <2>1. SUBSET BankIds \subseteq T
    BY <1>4, <1>6, Numbers, EachInduction DEF Bounded
  <2> QED
    BY <2>1
<1> DEFINE e == g[BankIds]
           a == [b \in BankIds |-> src[b]]
           f == WrBiasFast(d, cmd, c)
<1>8. e \in Dev(h, w) /\ e.gpr = d.gpr /\ e.gb = d.gb /\ e.acc = acc(BankIds)
  BY <1>3, <1>7 DEF T, States
<1>9. f = MacWriteAll(d, c, a) /\ a \in [BankIds -> Int]
  BY <1>5 DEF WrBiasFast
<1>10. /\ f \in Dev(h, w) /\ f.gpr = d.gpr /\ f.gb = d.gb
       /\ f.acc = [k \in DOMAIN d.acc |-> IF k = c THEN a ELSE d.acc[k]]
  <2> HIDE DEF a, f
  <2> QED
    BY <1>9, MacWriteAllFields
<1> HIDE DEF src, e, f
<1>11. e.acc = f.acc
  BY <1>8, <1>10
<1>12. e = f
  BY <1>8, <1>10, <1>11, SameDevice
<1> QED
  BY <1>3, <1>12 DEF e, f

\* MAC_ABK: lane by lane a bank's accumulator grows by the dot product.
LEMMA BankIsDot ==
  ASSUME NEW h, Hardware(h), NEW w, Memory(w), NEW d \in Dev(h, w),
         NEW cmd \in Cmds(h), NEW c \in Channels(h), NEW bank \in BankIds, cmd.op = "MAC_ABK"
  PROVE  LET e == BankSteps(d, cmd, c, bank)
             dot == BurstDot(DramRead(d, c, bank, cmd.row, Col(cmd)), GbRead(d, c, Col(cmd)))
         IN /\ e \in Dev(h, w) /\ e.gpr = d.gpr /\ e.gb = d.gb /\ dot \in Int
            /\ e.acc = [k \in DOMAIN d.acc |->
                 IF k = c
                 THEN [b \in BankIds |-> IF b = bank THEN d.acc[k][b] + dot ELSE d.acc[k][b]]
                 ELSE d.acc[k]]
<1> DEFINE x == DramRead(d, c, bank, cmd.row, Col(cmd))
           z == GbRead(d, c, Col(cmd))
           acc(v) == [k \in DOMAIN d.acc |->
             IF k = c THEN [b \in BankIds |-> IF b = bank THEN d.acc[k][b] + v ELSE d.acc[k][b]]
             ELSE d.acc[k]]
<1>1. cmd.op \in Ops /\ StepLanes(cmd) = LaneIds
  BY DEF StepLanes, Ops
<1>2. PICK g : BankStepsRun(g, h, w, d, cmd, c, bank)
  BY <1>1, BankStepsRounds
<1>3. /\ States(g, LaneIds, Dev(h, w), d)
      /\ \A s \in SUBSET LaneIds : s # {} =>
           g[s] = ApplyStep(g[s \ {Max(s)}], cmd, c, bank, Max(s))
      /\ BankSteps(d, cmd, c, bank) = g[LaneIds]
  BY <1>1, <1>2 DEF BankStepsRun
<1>4. x \in Burst /\ z \in Burst
  BY ReadTypes
<1>5. PICK dots : /\ States(dots, LaneIds, Int, 0)
                  /\ \A s \in SUBSET LaneIds : s # {} =>
                       dots[s] = dots[s \ {Max(s)}] + x[Max(s)] * z[Max(s)]
                  /\ BurstDot(x, z) = dots[LaneIds]
  <2> HIDE DEF x, z
  <2> QED
    BY <1>4, BurstDotRounds
<1>6. d.acc \in [Channels(h) -> [BankIds -> Int]]
  BY DEF Dev
<1> DEFINE T == {s \in SUBSET LaneIds : g[s].gpr = d.gpr /\ g[s].gb = d.gb
                                         /\ g[s].acc = acc(dots[s])}
<1>7. {} \in T
  <2>1. acc(0) = d.acc
    BY <1>6
  <2> HIDE DEF acc
  <2> QED
    BY <1>3, <1>5, <2>1 DEF States
<1>8. ASSUME NEW s \in SUBSET LaneIds, s # {}, s \ {Max(s)} \in T PROVE s \in T
  <2> DEFINE m == Max(s)
             e == g[s \ {m}]
             p == x[m] * z[m]
             v == MacRead(e, c, bank) + p
  <2>1. e \in Dev(h, w) /\ m \in LaneIds /\ g[s] = ApplyStep(e, cmd, c, bank, m)
    BY <1>3, <1>8 DEF States
  <2>2. e.gpr = d.gpr /\ e.gb = d.gb /\ e.acc = acc(dots[s \ {m}]) /\ e.dram = d.dram
    BY <1>8, <2>1 DEF Dev
  <2>3. dots[s \ {m}] \in Int /\ dots[s] = dots[s \ {m}] + p /\ p \in Int
    <3>1. dots[s \ {m}] \in Int /\ dots[s] = dots[s \ {m}] + p
      BY <1>5, <1>8 DEF States
    <3>2. x[m] \in Int /\ z[m] \in Int
      BY <1>4, <2>1 DEF Burst
    <3> HIDE DEF x, z, m
    <3> QED
      BY <3>1, <3>2
  <2> HIDE DEF e, m
  <2>4. DramRead(e, c, bank, cmd.row, Col(cmd)) = x /\ GbRead(e, c, Col(cmd)) = z
    BY <2>2 DEF DramRead, GbRead
  <2>5. g[s] = MacWrite(e, c, bank, v)
    BY <2>1, <2>4 DEF ApplyStep
  <2> HIDE DEF p, x, z
  <2>6. c \in DOMAIN d.acc /\ DOMAIN e.acc = DOMAIN d.acc
    BY <1>6, <2>2
  <2>7. v = d.acc[c][bank] + dots[s] /\ v \in Int /\ dots[s] \in Int
    <3>1. MacRead(e, c, bank) = d.acc[c][bank] + dots[s \ {m}]
      BY <2>2, <2>6 DEF MacRead
    <3>2. d.acc[c][bank] \in Int
      BY <1>6
    <3> QED
      BY <2>3, <3>1, <3>2
  <2> HIDE DEF v
  <2>8. /\ g[s].gpr = e.gpr /\ g[s].gb = e.gb
        /\ g[s].acc = [k \in DOMAIN e.acc |->
                        IF k = c THEN [b \in BankIds |-> IF b = bank THEN v ELSE e.acc[k][b]]
                        ELSE e.acc[k]]
    BY <2>1, <2>5, <2>7, MacWriteFields
  <2>9. g[s].acc = acc(dots[s])
    <3>1. \A k \in DOMAIN d.acc : k # c => e.acc[k] = d.acc[k]
      BY <2>2
    <3>2. \A b \in BankIds : b # bank => e.acc[c][b] = d.acc[c][b]
      BY <2>2, <2>6
    <3>3. \A b \in BankIds : (IF b = bank THEN v ELSE e.acc[c][b])
                               = IF b = bank THEN d.acc[c][b] + dots[s] ELSE d.acc[c][b]
      BY <2>7, <3>2
    <3>4. [b \in BankIds |-> IF b = bank THEN v ELSE e.acc[c][b]]
            = [b \in BankIds |-> IF b = bank THEN d.acc[c][b] + dots[s] ELSE d.acc[c][b]]
      BY <3>3
    <3> QED
      BY <2>6, <2>8, <3>1, <3>4
  <2> HIDE DEF acc
  <2> QED
    BY <2>2, <2>8, <2>9
<1> HIDE DEF T
<1>9. LaneIds \in T
  <2>1. SUBSET LaneIds \subseteq T
    BY <1>7, <1>8, Numbers, EachInduction DEF Bounded
  <2> QED
    BY <2>1
<1>10. g[LaneIds] \in Dev(h, w) /\ dots[LaneIds] \in Int
  BY <1>3, <1>5 DEF States
<1> QED
  BY <1>3, <1>5, <1>9, <1>10 DEF T

\* What a column adds is a number.
LEMMA MacColType ==
  ASSUME NEW h, NEW w, Memory(w), NEW d \in Dev(h, w), NEW c, NEW row, NEW col,
         NEW a \in [BankIds -> Int], NEW x \in Burst
  PROVE  MacCol(d, c, row, col, a, x) \in [BankIds -> Int]
<1>1. ASSUME NEW b \in BankIds
      PROVE  a[b] + BurstDot(DramRead(d, c, b, row, col), x) \in Int
  <2> DEFINE y == DramRead(d, c, b, row, col)
  <2>1. y \in Burst
    BY ReadTypes
  <2> HIDE DEF y
  <2>2. PICK g : States(g, LaneIds, Int, 0) /\ BurstDot(y, x) = g[LaneIds]
    BY <2>1, BurstDotRounds
  <2>3. BurstDot(y, x) \in Int
    BY <2>2 DEF States
  <2> QED
    BY <2>3 DEF y
<1> QED
  BY <1>1 DEF MacCol

\* Bank by bank all accumulators of a channel do.
LEMMA MacAbkIsSteps ==
  ASSUME NEW h, Hardware(h), NEW w, Memory(w), NEW d \in Dev(h, w),
         NEW cmd \in Cmds(h), NEW c \in Channels(h), cmd.op = "MAC_ABK"
  PROVE  ChannelSteps(d, cmd, c) = MacAbkFast(d, cmd, c)
<1> DEFINE x == GbRead(d, c, Col(cmd))
           col == MacCol(d, c, cmd.row, Col(cmd), d.acc[c], x)
           acc(s) == [k \in DOMAIN d.acc |->
                       IF k = c THEN [b \in BankIds |-> IF b \in s THEN col[b] ELSE d.acc[k][b]]
                       ELSE d.acc[k]]
<1>1. cmd.op \in Ops /\ StepBanks(cmd) = BankIds
  BY DEF StepBanks, Ops
<1>2. PICK g : ChannelStepsRun(g, h, w, d, cmd, c)
  BY <1>1, ChannelStepsRounds
<1>3. /\ States(g, BankIds, Dev(h, w), d)
      /\ \A s \in SUBSET BankIds : s # {} =>
           g[s] = BankSteps(g[s \ {Max(s)}], cmd, c, Max(s))
      /\ ChannelSteps(d, cmd, c) = g[BankIds]
  BY <1>1, <1>2 DEF ChannelStepsRun
<1>4. d.acc \in [Channels(h) -> [BankIds -> Int]]
  BY DEF Dev
<1>5. col \in [BankIds -> Int]
  <2>1. d.acc[c] \in [BankIds -> Int] /\ x \in Burst
    BY <1>4, ReadTypes
  <2> HIDE DEF x
  <2> QED
    BY <2>1, MacColType
<1>6. \A b \in BankIds :
        col[b] = d.acc[c][b] + BurstDot(DramRead(d, c, b, cmd.row, Col(cmd)), x)
  BY DEF MacCol
<1> HIDE DEF col
<1> DEFINE T == {s \in SUBSET BankIds : g[s].gpr = d.gpr /\ g[s].gb = d.gb /\ g[s].acc = acc(s)}
<1>7. {} \in T
  <2>1. acc({}) = d.acc
    BY <1>4
  <2> QED
    BY <1>3, <2>1 DEF States
<1>8. ASSUME NEW s \in SUBSET BankIds, s # {}, s \ {Max(s)} \in T PROVE s \in T
  <2> DEFINE m == Max(s)
             e == g[s \ {m}]
             dot == BurstDot(DramRead(e, c, m, cmd.row, Col(cmd)), GbRead(e, c, Col(cmd)))
  <2>1. e \in Dev(h, w) /\ m \in BankIds /\ g[s] = BankSteps(e, cmd, c, m)
    BY <1>3, <1>8 DEF States
  <2>2. e.gpr = d.gpr /\ e.gb = d.gb /\ e.acc = acc(s \ {m}) /\ e.dram = d.dram
    BY <1>8, <2>1 DEF Dev
  <2>3. m \in s
    BY <1>8, Numbers, Greatest DEF Bounded
  <2> HIDE DEF e, m
  <2>4. /\ g[s].gpr = e.gpr /\ g[s].gb = e.gb
        /\ g[s].acc = [k \in DOMAIN e.acc |->
                        IF k = c
                        THEN [b \in BankIds |-> IF b = m THEN e.acc[k][b] + dot ELSE e.acc[k][b]]
                        ELSE e.acc[k]]
    BY <2>1, BankIsDot
  <2>5. dot = BurstDot(DramRead(d, c, m, cmd.row, Col(cmd)), x)
    BY <2>2 DEF DramRead, GbRead
  <2> HIDE DEF dot, x
  <2>6. c \in DOMAIN d.acc /\ DOMAIN e.acc = DOMAIN d.acc
    BY <1>4, <2>2
  <2>7. \A k \in DOMAIN d.acc : k # c => e.acc[k] = d.acc[k]
    BY <2>2
  <2>8. e.acc[c] = [b \in BankIds |-> IF b \in s \ {m} THEN col[b] ELSE d.acc[c][b]]
    BY <2>2, <2>6
  <2>9. e.acc[c][m] + dot = col[m]
    BY <1>6, <2>1, <2>5, <2>8
  <2>10. \A b \in BankIds : (IF b = m THEN e.acc[c][b] + dot ELSE e.acc[c][b])
                              = IF b \in s THEN col[b] ELSE d.acc[c][b]
    BY <2>3, <2>8, <2>9
  <2>11. [b \in BankIds |-> IF b = m THEN e.acc[c][b] + dot ELSE e.acc[c][b]]
           = [b \in BankIds |-> IF b \in s THEN col[b] ELSE d.acc[c][b]]
    BY <2>10
  <2>12. g[s].acc = acc(s)
    BY <2>4, <2>6, <2>7, <2>11
  <2> HIDE DEF acc
  <2> QED
    BY <2>2, <2>4, <2>12
<1> HIDE DEF T
<1>9. BankIds \in T
  <2>1. SUBSET BankIds \subseteq T
    BY <1>7, <1>8, Numbers, EachInduction DEF Bounded
  <2> QED
    BY <2>1
<1> DEFINE e == g[BankIds]
           f == MacAbkFast(d, cmd, c)
<1>10. e \in Dev(h, w) /\ e.gpr = d.gpr /\ e.gb = d.gb /\ e.acc = acc(BankIds)
  BY <1>3, <1>9 DEF T, States
<1>11. f = MacWriteAll(d, c, col)
  BY DEF MacAbkFast, col
<1>12. /\ f \in Dev(h, w) /\ f.gpr = d.gpr /\ f.gb = d.gb
       /\ f.acc = [k \in DOMAIN d.acc |-> IF k = c THEN col ELSE d.acc[k]]
  <2> HIDE DEF f
  <2> QED
    BY <1>5, <1>11, MacWriteAllFields
<1>13. col = [b \in BankIds |-> IF b \in BankIds THEN col[b] ELSE d.acc[c][b]]
  BY <1>5
<1> HIDE DEF e, f
<1>14. e.acc = f.acc
  BY <1>10, <1>12, <1>13
<1>15. e = f
  BY <1>10, <1>12, <1>14, SameDevice
<1> QED
  BY <1>3, <1>15 DEF e, f

\* RD_MAC: bank by bank a register takes the accumulators of a channel.
LEMMA RdMacIsSteps ==
  ASSUME NEW h, Hardware(h), NEW w, Memory(w), NEW d \in Dev(h, w),
         NEW cmd \in Cmds(h), NEW c \in Channels(h), cmd.op = "RD_MAC"
  PROVE  ChannelSteps(d, cmd, c)
           = GprWrite(d, cmd.gpr0, [l \in LaneIds |->
               IF l \in BankIds THEN d.acc[c][l] ELSE GprRead(d, cmd.gpr0)[l]])
<1> DEFINE i == cmd.gpr0
           old == GprRead(d, i)
           read(s) == [l \in LaneIds |-> IF l \in s THEN d.acc[c][l] ELSE old[l]]
           gpr(s) == [k \in DOMAIN d.gpr |-> IF k = i THEN read(s) ELSE d.gpr[k]]
<1>1. cmd.op \in Ops /\ StepBanks(cmd) = BankIds
  BY DEF StepBanks, Ops
<1>2. PICK g : ChannelStepsRun(g, h, w, d, cmd, c)
  BY <1>1, ChannelStepsRounds
<1>3. /\ States(g, BankIds, Dev(h, w), d)
      /\ \A s \in SUBSET BankIds : s # {} =>
           g[s] = BankSteps(g[s \ {Max(s)}], cmd, c, Max(s))
      /\ ChannelSteps(d, cmd, c) = g[BankIds]
  BY <1>1, <1>2 DEF ChannelStepsRun
<1>4. /\ d.acc \in [Channels(h) -> [BankIds -> Int]] /\ old \in [LaneIds -> Int]
      /\ d.gpr \in [DOMAIN d.gpr -> [LaneIds -> Int]]
  <2>1. old \in Burst
    BY ReadTypes
  <2> QED
    BY <2>1 DEF Dev, Burst
<1>5. \A s \in SUBSET BankIds : read(s) \in [LaneIds -> Int]
  <2> HIDE DEF old
  <2> QED
    BY <1>4, Numbers
<1>6. i \in DOMAIN d.gpr => old = d.gpr[i]
  BY DEF GprRead
<1> HIDE DEF old
<1> DEFINE T == {s \in SUBSET BankIds : g[s].gpr = gpr(s) /\ g[s].gb = d.gb /\ g[s].acc = d.acc}
<1>7. {} \in T
  <2>1. read({}) = old
    BY <1>4
  <2>2. gpr({}) = d.gpr
    BY <1>4, <1>6, <2>1
  <2> HIDE DEF gpr
  <2> QED
    BY <1>3, <2>2 DEF States
<1>8. ASSUME NEW s \in SUBSET BankIds, s # {}, s \ {Max(s)} \in T PROVE s \in T
  <2> DEFINE m == Max(s)
             e == g[s \ {m}]
             b == [GprRead(e, i) EXCEPT ![m] = MacRead(e, c, m)]
  <2>1. e \in Dev(h, w) /\ m \in BankIds /\ g[s] = BankSteps(e, cmd, c, m)
    BY <1>3, <1>8 DEF States
  <2>2. e.gpr = gpr(s \ {m}) /\ e.gb = d.gb /\ e.acc = d.acc
    BY <1>8
  <2>3. m \in s /\ m \in LaneIds
    <3>1. m \in s
      BY <1>8, Numbers, Greatest DEF Bounded
    <3> QED
      BY <2>1, <3>1, Numbers
  <2> HIDE DEF e, m
  <2>4. g[s] = ApplyStep(e, cmd, c, m, 0)
    BY <2>1, OneLane
  <2>5. g[s] = GprWrite(e, i, b)
    BY <2>4 DEF ApplyStep
  <2>6. MacRead(e, c, m) = d.acc[c][m] /\ d.acc[c][m] \in Int
    BY <1>4, <2>1, <2>2 DEF MacRead
  <2>7. b \in Burst
    <3>1. GprRead(e, i) \in Burst
      BY <2>1, ReadTypes
    <3> QED
      BY <2>6, <3>1 DEF Burst
  <2>8. i \in DOMAIN d.gpr => b = read(s)
    <3> SUFFICES ASSUME i \in DOMAIN d.gpr PROVE b = read(s)
      OBVIOUS
    <3>1. GprRead(e, i) = read(s \ {m})
      BY <2>2 DEF GprRead
    <3>2. b = [read(s \ {m}) EXCEPT ![m] = d.acc[c][m]]
      BY <2>6, <3>1
    <3> QED
      BY <2>3, <3>2
  <2> HIDE DEF b
  <2>9. /\ g[s].gb = e.gb /\ g[s].acc = e.acc
        /\ g[s].gpr = [k \in DOMAIN e.gpr |-> IF k = i THEN b ELSE e.gpr[k]]
    BY <2>1, <2>5, <2>7, GprWriteFields
  <2>10. g[s].gpr = gpr(s)
    <3>1. DOMAIN e.gpr = DOMAIN d.gpr /\ \A k \in DOMAIN d.gpr : k # i => e.gpr[k] = d.gpr[k]
      BY <2>2
    <3> HIDE DEF read, i
    <3> QED
      BY <2>8, <2>9, <3>1
  <2> HIDE DEF gpr
  <2> QED
    BY <2>2, <2>9, <2>10
<1> HIDE DEF T
<1>9. BankIds \in T
  <2>1. SUBSET BankIds \subseteq T
    BY <1>7, <1>8, Numbers, EachInduction DEF Bounded
  <2> QED
    BY <2>1
<1> DEFINE e == g[BankIds]
           f == GprWrite(d, i, read(BankIds))
<1>10. e \in Dev(h, w) /\ e.gpr = gpr(BankIds) /\ e.gb = d.gb /\ e.acc = d.acc
  BY <1>3, <1>9 DEF T, States
<1>11. /\ f \in Dev(h, w) /\ f.gb = d.gb /\ f.acc = d.acc /\ f.gpr = gpr(BankIds)
  <2>1. read(BankIds) \in Burst
    BY <1>5 DEF Burst
  <2> HIDE DEF read, i
  <2> QED
    BY <2>1, GprWriteFields
<1> HIDE DEF e, gpr, read
<1>12. e = f
  <2> HIDE DEF f
  <2> QED
    BY <1>10, <1>11, SameDevice
<1> QED
  BY <1>3, <1>12 DEF e, f, read, old

-----------------------------------------------------------------------------
(* A command of one column.                                                *)

\* What a fast path does to a channel is what the steps do.
LEMMA FastIsSteps ==
  ASSUME NEW h, Hardware(h), NEW w, Memory(w), NEW d \in Dev(h, w),
         NEW cmd \in Cmds(h), NEW c \in Channels(h), cmd.op \in Ops \ {"RD_MAC"}
  PROVE  ChannelFast(d, cmd, c) = ChannelSteps(d, cmd, c) /\ ChannelFast(d, cmd, c) \in Dev(h, w)
<1>1. ASSUME cmd.op = "WR_GB"
      PROVE  ChannelFast(d, cmd, c) = ChannelSteps(d, cmd, c)
  <2>1. ChannelFast(d, cmd, c) = WrGbFast(d, cmd, c)
    BY <1>1 DEF ChannelFast
  <2>2. ChannelSteps(d, cmd, c) = WrGbFast(d, cmd, c)
    BY <1>1, WrGbIsSteps
  <2> QED
    BY <2>1, <2>2
<1>2. ASSUME cmd.op = "WR_BIAS"
      PROVE  ChannelFast(d, cmd, c) = ChannelSteps(d, cmd, c)
  <2>1. ChannelFast(d, cmd, c) = WrBiasFast(d, cmd, c)
    BY <1>2 DEF ChannelFast
  <2>2. ChannelSteps(d, cmd, c) = WrBiasFast(d, cmd, c)
    BY <1>2, WrBiasIsSteps
  <2> QED
    BY <2>1, <2>2
<1>3. ASSUME cmd.op = "MAC_ABK"
      PROVE  ChannelFast(d, cmd, c) = ChannelSteps(d, cmd, c)
  <2>1. ChannelFast(d, cmd, c) = MacAbkFast(d, cmd, c)
    BY <1>3 DEF ChannelFast
  <2>2. ChannelSteps(d, cmd, c) = MacAbkFast(d, cmd, c)
    BY <1>3, MacAbkIsSteps
  <2> QED
    BY <2>1, <2>2
<1>4. ChannelFast(d, cmd, c) = ChannelSteps(d, cmd, c)
  BY <1>1, <1>2, <1>3 DEF Ops
<1>5. ChannelSteps(d, cmd, c) \in Dev(h, w)
  BY ChannelStepsType
<1> QED
  BY <1>4, <1>5

\* The states of a fast path, channel by channel.
ChannelsFastRun(g, h, w, d, cmd, ch) ==
  /\ States(g, Masked(h, cmd, ch), Dev(h, w), d)
  /\ \A s \in SUBSET Masked(h, cmd, ch) : s # {} =>
       g[s] = ChannelFast(g[s \ {Max(s)}], cmd, Max(s))
  /\ ChannelsFast(d, h, cmd, ch) = g[Masked(h, cmd, ch)]

LEMMA ChannelsFastRounds ==
  ASSUME NEW h, Hardware(h), NEW w, Memory(w), NEW d \in Dev(h, w),
         NEW cmd \in Cmds(h), cmd.op \in Ops \ {"RD_MAC"}, NEW ch \in Channels(h) \cup {-1}
  PROVE  ChannelsFast(d, h, cmd, ch) \in Dev(h, w) /\ \E g : ChannelsFastRun(g, h, w, d, cmd, ch)
<1> DEFINE S == Masked(h, cmd, ch)
           D == Dev(h, w)
           F == [p \in D \X S |-> ChannelFast(p[1], cmd, p[2])]
           P(g) == g = [s \in SUBSET S |->
                    IF s = {} THEN d ELSE ChannelFast(g[s \ {Max(s)}], cmd, Max(s))]
           f == CHOOSE g : P(g)
<1>1. Bounded(S) /\ d \in D
  BY ChannelFacts
<1>2. F \in [D \X S -> D]
  <2>1. \A e \in D : \A i \in S : ChannelFast(e, cmd, i) \in D
    BY ChannelFacts, FastIsSteps
  <2> HIDE DEF D, S
  <2> QED
    BY <2>1
<1>3. PICK g : StatesBy(g, S, D, d, F)
  <2> HIDE DEF F, S, D
  <2> QED
    BY <1>1, <1>2, EachStates
<1> HIDE DEF S, D
<1>4. \A s \in SUBSET S : s # {} => g[s] = ChannelFast(g[s \ {Max(s)}], cmd, Max(s))
  BY <1>3 DEF States, StatesBy
<1>5. P(g)
  BY <1>3, <1>4 DEF States, StatesBy
<1>6. P(f)
  <2> HIDE DEF P
  <2> QED
    BY <1>5
<1>7. ChannelsFast(d, h, cmd, ch) = f[S]
  BY DEF ChannelsFast, Each, MapThenFoldSet, S
<1> HIDE DEF f, F
<1>8. \A s \in SUBSET S : f[s] = g[s]
  <2>1. f[{}] = g[{}]
    BY <1>3, <1>6 DEF States, StatesBy
  <2>2. \A s \in SUBSET S : s # {} /\ f[s \ {Max(s)}] = g[s \ {Max(s)}] => f[s] = g[s]
    BY <1>4, <1>6
  <2> HIDE DEF P
  <2> QED
    BY <1>1, <2>1, <2>2, EachAgree
<1>9. ChannelsFast(d, h, cmd, ch) = g[S] /\ g[S] \in D
  <2>1. f[S] = g[S]
    BY <1>8
  <2> QED
    BY <1>3, <1>7, <2>1 DEF States, StatesBy
<1> QED
  BY <1>3, <1>4, <1>9 DEF StatesBy, ChannelsFastRun, S, D

LEMMA ChannelsFastType ==
  ASSUME NEW h, Hardware(h), NEW w, Memory(w), NEW d \in Dev(h, w),
         NEW cmd \in Cmds(h), cmd.op \in Ops \ {"RD_MAC"}, NEW ch \in Channels(h) \cup {-1}
  PROVE  ChannelsFast(d, h, cmd, ch) \in Dev(h, w)
BY ChannelsFastRounds, Zenon

\* All of them, when there is one in the mask.
LEMMA ChannelsAreSteps ==
  ASSUME NEW h, Hardware(h), NEW w, Memory(w), NEW d \in Dev(h, w),
         NEW cmd \in Cmds(h), cmd.op \in Ops \ {"RD_MAC"}, cmd.chs # {},
         NEW ch \in Channels(h) \cup {-1}
  PROVE  ChannelsFast(d, h, cmd, ch) = ScalarMicro(d, h, cmd, ch)
<1> DEFINE S == Masked(h, cmd, ch)
<1>1. ChannelsOf(h, cmd, ch) = S /\ Bounded(S) /\ S \subseteq Channels(h)
  BY ChannelFacts
<1>2. PICK f : ChannelsFastRun(f, h, w, d, cmd, ch)
  BY ChannelsFastRounds
<1>3. PICK g : ScalarMicroRun(g, h, w, d, cmd, ch)
  BY ScalarMicroRounds
<1>4. /\ States(f, S, Dev(h, w), d) /\ ChannelsFast(d, h, cmd, ch) = f[S]
      /\ \A s \in SUBSET S : s # {} => f[s] = ChannelFast(f[s \ {Max(s)}], cmd, Max(s))
  BY <1>2 DEF ChannelsFastRun
<1>5. /\ States(g, S, Dev(h, w), d) /\ ScalarMicro(d, h, cmd, ch) = g[S]
      /\ \A s \in SUBSET S : s # {} => g[s] = ChannelSteps(g[s \ {Max(s)}], cmd, Max(s))
  BY <1>1, <1>3 DEF ScalarMicroRun
<1> HIDE DEF S
<1>6. \A s \in SUBSET S : s # {} /\ f[s \ {Max(s)}] = g[s \ {Max(s)}] => f[s] = g[s]
  <2> SUFFICES ASSUME NEW s \in SUBSET S, s # {}, f[s \ {Max(s)}] = g[s \ {Max(s)}]
               PROVE  f[s] = g[s]
    OBVIOUS
  <2> DEFINE e == f[s \ {Max(s)}]
             c == Max(s)
  <2>1. e \in Dev(h, w) /\ c \in Channels(h)
    BY <1>1, <1>4 DEF States
  <2>2. f[s] = ChannelFast(e, cmd, c) /\ g[s] = ChannelSteps(e, cmd, c)
    BY <1>4, <1>5
  <2> HIDE DEF e, c
  <2> QED
    BY <2>1, <2>2, FastIsSteps
<1>7. f[{}] = g[{}]
  BY <1>4, <1>5 DEF States
<1>8. \A s \in SUBSET S : f[s] = g[s]
  BY <1>1, <1>6, <1>7, EachAgree
<1> QED
  BY <1>4, <1>5, <1>8

\* The read of one channel's accumulators.
LEMMA ReadIsSteps ==
  ASSUME NEW h, Hardware(h), NEW w, Memory(w), NEW d \in Dev(h, w),
         NEW cmd \in Cmds(h), cmd.op = "RD_MAC", NEW ch \in Channels(h) \cup {-1},
         NEW c \in Channels(h), ChannelsOf(h, cmd, ch) = {c}
  PROVE  RdMacFast(d, h, cmd, ch) = ScalarMicro(d, h, cmd, ch)
<1>1. cmd.op \in Ops /\ c \in Int
  BY DEF Ops, Channels
<1>2. PICK g : ScalarMicroRun(g, h, w, d, cmd, ch)
  BY <1>1, ScalarMicroRounds
<1>3. /\ States(g, {c}, Dev(h, w), d) /\ ScalarMicro(d, h, cmd, ch) = g[{c}]
      /\ \A s \in SUBSET {c} : s # {} => g[s] = ChannelSteps(g[s \ {Max(s)}], cmd, Max(s))
  BY <1>2 DEF ScalarMicroRun
<1>4. g[{c}] = ChannelSteps(g[{}], cmd, c) /\ g[{}] = d
  BY <1>1, <1>3, OneRound DEF States
<1>5. ReadChannel(h, cmd, ch) = c
  BY <1>1 DEF ReadChannel, Min
<1> QED
  BY <1>3, <1>4, <1>5, RdMacIsSteps DEF RdMacFast

\* A micro command leaves a device.
LEMMA MicroType ==
  ASSUME NEW h, Hardware(h), NEW w, Memory(w), NEW d \in Dev(h, w),
         NEW cmd \in Cmds(h), NEW ch \in Channels(h) \cup {-1}, NEW fast \in BOOLEAN
  PROVE  ExecuteMicro(d, h, fast, cmd, ch) \in Dev(h, w)
<1>1. cmd.op # "EOC" => cmd.op \in Ops
  BY DEF Cmds
<1>2. cmd.op \in Ops => ScalarMicro(d, h, cmd, ch) \in Dev(h, w)
  BY ScalarMicroType
<1>3. cmd.op \in Ops \ {"RD_MAC"} => ChannelsFast(d, h, cmd, ch) \in Dev(h, w)
  BY ChannelsFastType
<1>4. HasFast(d, h, cmd, ch) /\ cmd.op = "RD_MAC" => RdMacFast(d, h, cmd, ch) \in Dev(h, w)
  <2> SUFFICES ASSUME HasFast(d, h, cmd, ch), cmd.op = "RD_MAC"
               PROVE  RdMacFast(d, h, cmd, ch) \in Dev(h, w)
    OBVIOUS
  <2> DEFINE c == ReadChannel(h, cmd, ch)
             b == [l \in LaneIds |-> IF l \in BankIds THEN d.acc[c][l] ELSE GprRead(d, cmd.gpr0)[l]]
  <2>1. c \in DOMAIN d.acc
    BY DEF HasFast
  <2>2. d.acc \in [Channels(h) -> [BankIds -> Int]] /\ GprRead(d, cmd.gpr0) \in [LaneIds -> Int]
    <3>1. GprRead(d, cmd.gpr0) \in Burst
      BY ReadTypes
    <3> QED
      BY <3>1 DEF Dev, Burst
  <2>3. RdMacFast(d, h, cmd, ch) = GprWrite(d, cmd.gpr0, b)
    BY DEF RdMacFast
  <2> HIDE DEF c
  <2>4. b \in Burst
    BY <2>1, <2>2 DEF Burst
  <2> HIDE DEF b
  <2>5. GprWrite(d, cmd.gpr0, b) \in Dev(h, w)
    BY <2>4, GprWriteFields
  <2> QED
    BY <2>3, <2>5
<1> QED
  BY <1>1, <1>2, <1>3, <1>4 DEF ExecuteMicro

\* A command can be read one way: it names a channel, and RD_MAC one only.
OneReading(h, cmd) ==
  /\ cmd.op # "EOC" => cmd.chs # {}
  /\ cmd.op = "RD_MAC" => \E c \in Channels(h) : cmd.chs = {c}

\* Fast or step by step, a micro command does the same.
LEMMA MicroAgrees ==
  ASSUME NEW h, Hardware(h), NEW w, Memory(w), NEW d \in Dev(h, w),
         NEW cmd \in Cmds(h), OneReading(h, cmd), NEW ch \in Channels(h) \cup {-1}
  PROVE  ExecuteMicro(d, h, TRUE, cmd, ch) = ExecuteMicro(d, h, FALSE, cmd, ch)
<1>1. CASE cmd.op = "EOC"
  BY <1>1 DEF ExecuteMicro
<1>2. CASE cmd.op \in Ops \ {"RD_MAC"}
  <2>1. cmd.chs # {} /\ cmd.op # "EOC"
    BY <1>2 DEF OneReading, Ops
  <2>2. ChannelsFast(d, h, cmd, ch) = ScalarMicro(d, h, cmd, ch)
    BY <1>2, <2>1, ChannelsAreSteps
  <2> QED
    BY <1>2, <2>1, <2>2 DEF ExecuteMicro
<1>3. CASE cmd.op = "RD_MAC"
  <2>1. PICK c \in Channels(h) : ChannelsOf(h, cmd, ch) = {c}
    BY <1>3, ChannelFacts DEF OneReading
  <2>2. RdMacFast(d, h, cmd, ch) = ScalarMicro(d, h, cmd, ch)
    BY <1>3, <2>1, ReadIsSteps
  <2> QED
    BY <1>3, <2>2 DEF ExecuteMicro
<1> QED
  BY <1>1, <1>2, <1>3 DEF Cmds

-----------------------------------------------------------------------------
(* A command on all its columns.                                           *)

\* The command of a column.
AtCol(cmd, col) == [cmd EXCEPT !.col = col]

\* The columns of a command, each a command of its own.
LEMMA ColumnFacts ==
  ASSUME NEW h, NEW cmd \in Cmds(h)
  PROVE  /\ Bounded(Columns(cmd)) /\ Columns(cmd) \subseteq Nat
         /\ \A col \in Columns(cmd) :
              /\ AtCol(cmd, col) \in Cmds(h) /\ Col(AtCol(cmd, col)) = col
              /\ AtCol(cmd, col).op = cmd.op /\ AtCol(cmd, col).chs = cmd.chs
              /\ AtCol(cmd, col).row = cmd.row
<1> DEFINE n == Max({cmd.opsize, 1}) - 1
<1>1. n \in Nat
  <2>1. cmd.opsize \in Int /\ 1 \in Int
    BY DEF Cmds
  <2>2. Max({cmd.opsize, 1}) \in {cmd.opsize, 1} /\ Max({cmd.opsize, 1}) >= 1
    BY <2>1, LesserGreater
  <2> QED
    BY <2>1, <2>2
<1>2. Columns(cmd) = 0 .. n
  BY DEF Columns
<1> HIDE DEF n
<1>3. Bounded(Columns(cmd)) /\ Columns(cmd) \subseteq Nat
  <2>1. Columns(cmd) \in SUBSET (0 .. n) /\ Columns(cmd) \subseteq Nat
    BY <1>1, <1>2
  <2> QED
    BY <1>1, <2>1 DEF Bounded
<1>4. ASSUME NEW col \in Columns(cmd)
      PROVE  /\ AtCol(cmd, col) \in Cmds(h) /\ Col(AtCol(cmd, col)) = col
             /\ AtCol(cmd, col).op = cmd.op /\ AtCol(cmd, col).chs = cmd.chs
             /\ AtCol(cmd, col).row = cmd.row
  <2>1. col \in Nat /\ col \in Int /\ 0 \in Int
    BY <1>3
  <2>2. /\ AtCol(cmd, col) \in Cmds(h) /\ AtCol(cmd, col).op = cmd.op
        /\ AtCol(cmd, col).chs = cmd.chs /\ AtCol(cmd, col).row = cmd.row
        /\ AtCol(cmd, col).col = col
    BY <2>1 DEF Cmds, AtCol
  <2>3. Max({col, 0}) = col
    <3>1. Max({col, 0}) \in {col, 0} /\ Max({col, 0}) >= col
      BY <2>1, LesserGreater
    <3> QED
      BY <2>1, <3>1
  <2> QED
    BY <2>2, <2>3 DEF Col
<1> QED
  BY <1>3, <1>4

\* The states of a command, column by column.
ExecuteColumnsRun(g, h, w, d, fast, cmd, ch) ==
  /\ States(g, Columns(cmd), Dev(h, w), d)
  /\ \A s \in SUBSET Columns(cmd) : s # {} =>
       g[s] = ExecuteMicro(g[s \ {Max(s)}], h, fast, AtCol(cmd, Max(s)), ch)
  /\ ExecuteColumns(d, h, fast, cmd, ch) = g[Columns(cmd)]

LEMMA ExecuteColumnsRounds ==
  ASSUME NEW h, Hardware(h), NEW w, Memory(w), NEW d \in Dev(h, w),
         NEW cmd \in Cmds(h), NEW fast \in BOOLEAN, NEW ch \in Channels(h) \cup {-1}
  PROVE  /\ ExecuteColumns(d, h, fast, cmd, ch) \in Dev(h, w)
         /\ \E g : ExecuteColumnsRun(g, h, w, d, fast, cmd, ch)
<1> DEFINE S == Columns(cmd)
           D == Dev(h, w)
           F == [p \in D \X S |-> ExecuteMicro(p[1], h, fast, AtCol(cmd, p[2]), ch)]
           P(g) == g = [s \in SUBSET S |->
                    IF s = {} THEN d
                    ELSE ExecuteMicro(g[s \ {Max(s)}], h, fast, AtCol(cmd, Max(s)), ch)]
           f == CHOOSE g : P(g)
<1>1. Bounded(S) /\ d \in D
  BY ColumnFacts
<1>2. F \in [D \X S -> D]
  <2>1. \A e \in D : \A i \in S : ExecuteMicro(e, h, fast, AtCol(cmd, i), ch) \in D
    BY ColumnFacts, MicroType
  <2> HIDE DEF D, S
  <2> QED
    BY <2>1
<1>3. PICK g : StatesBy(g, S, D, d, F)
  <2> HIDE DEF F, S, D
  <2> QED
    BY <1>1, <1>2, EachStates
<1> HIDE DEF S, D
<1>4. \A s \in SUBSET S : s # {} =>
        g[s] = ExecuteMicro(g[s \ {Max(s)}], h, fast, AtCol(cmd, Max(s)), ch)
  BY <1>3 DEF States, StatesBy
<1>5. P(g)
  BY <1>3, <1>4 DEF States, StatesBy
<1>6. P(f)
  <2> HIDE DEF P
  <2> QED
    BY <1>5
<1>7. ExecuteColumns(d, h, fast, cmd, ch) = f[S]
  BY DEF ExecuteColumns, AtCol, Each, MapThenFoldSet, S
<1> HIDE DEF f, F
<1>8. \A s \in SUBSET S : f[s] = g[s]
  <2>1. f[{}] = g[{}]
    BY <1>3, <1>6 DEF States, StatesBy
  <2>2. \A s \in SUBSET S : s # {} /\ f[s \ {Max(s)}] = g[s \ {Max(s)}] => f[s] = g[s]
    BY <1>4, <1>6
  <2> HIDE DEF P
  <2> QED
    BY <1>1, <2>1, <2>2, EachAgree
<1>9. ExecuteColumns(d, h, fast, cmd, ch) = g[S] /\ g[S] \in D
  <2>1. f[S] = g[S]
    BY <1>8
  <2> QED
    BY <1>3, <1>7, <2>1 DEF States, StatesBy
<1> QED
  BY <1>3, <1>4, <1>9 DEF StatesBy, ExecuteColumnsRun, S, D

LEMMA ExecuteColumnsType ==
  ASSUME NEW h, Hardware(h), NEW w, Memory(w), NEW d \in Dev(h, w),
         NEW cmd \in Cmds(h), NEW fast \in BOOLEAN, NEW ch \in Channels(h) \cup {-1}
  PROVE  ExecuteColumns(d, h, fast, cmd, ch) \in Dev(h, w)
BY ExecuteColumnsRounds, Zenon

\* The states of a command, channel by channel.
ExecuteMacAbkRun(g, h, w, d, cmd) ==
  /\ States(g, Masked(h, cmd, -1), Dev(h, w), d)
  /\ \A s \in SUBSET Masked(h, cmd, -1) : s # {} =>
       g[s] = ExecuteColumns(g[s \ {Max(s)}], h, TRUE, cmd, Max(s))
  /\ ExecuteMacAbk(d, h, cmd) = g[Masked(h, cmd, -1)]

LEMMA ExecuteMacAbkRounds ==
  ASSUME NEW h, Hardware(h), NEW w, Memory(w), NEW d \in Dev(h, w),
         NEW cmd \in Cmds(h)
  PROVE  ExecuteMacAbk(d, h, cmd) \in Dev(h, w) /\ \E g : ExecuteMacAbkRun(g, h, w, d, cmd)
<1> DEFINE S == Masked(h, cmd, -1)
           D == Dev(h, w)
           F == [p \in D \X S |-> ExecuteColumns(p[1], h, TRUE, cmd, p[2])]
           P(g) == g = [s \in SUBSET S |->
                    IF s = {} THEN d ELSE ExecuteColumns(g[s \ {Max(s)}], h, TRUE, cmd, Max(s))]
           f == CHOOSE g : P(g)
<1>1. Bounded(S) /\ d \in D
  BY ChannelFacts
<1>2. F \in [D \X S -> D]
  <2>1. \A e \in D : \A i \in S : ExecuteColumns(e, h, TRUE, cmd, i) \in D
    BY ChannelFacts, ExecuteColumnsType
  <2> HIDE DEF D, S
  <2> QED
    BY <2>1
<1>3. PICK g : StatesBy(g, S, D, d, F)
  <2> HIDE DEF F, S, D
  <2> QED
    BY <1>1, <1>2, EachStates
<1> HIDE DEF S, D
<1>4. \A s \in SUBSET S : s # {} => g[s] = ExecuteColumns(g[s \ {Max(s)}], h, TRUE, cmd, Max(s))
  BY <1>3 DEF States, StatesBy
<1>5. P(g)
  BY <1>3, <1>4 DEF States, StatesBy
<1>6. P(f)
  <2> HIDE DEF P
  <2> QED
    BY <1>5
<1>7. ExecuteMacAbk(d, h, cmd) = f[S]
  BY DEF ExecuteMacAbk, Each, MapThenFoldSet, S
<1> HIDE DEF f, F
<1>8. \A s \in SUBSET S : f[s] = g[s]
  <2>1. f[{}] = g[{}]
    BY <1>3, <1>6 DEF States, StatesBy
  <2>2. \A s \in SUBSET S : s # {} /\ f[s \ {Max(s)}] = g[s \ {Max(s)}] => f[s] = g[s]
    BY <1>4, <1>6
  <2> HIDE DEF P
  <2> QED
    BY <1>1, <2>1, <2>2, EachAgree
<1>9. ExecuteMacAbk(d, h, cmd) = g[S] /\ g[S] \in D
  <2>1. f[S] = g[S]
    BY <1>8
  <2> QED
    BY <1>3, <1>7, <2>1 DEF States, StatesBy
<1> QED
  BY <1>3, <1>4, <1>9 DEF StatesBy, ExecuteMacAbkRun, S, D

LEMMA ExecuteMacAbkType ==
  ASSUME NEW h, Hardware(h), NEW w, Memory(w), NEW d \in Dev(h, w),
         NEW cmd \in Cmds(h)
  PROVE  ExecuteMacAbk(d, h, cmd) \in Dev(h, w)
BY ExecuteMacAbkRounds, Zenon

\* A fast command that is not unrolled, or a column of one that is, on one
\* channel.
LEMMA OneChannel ==
  ASSUME NEW h, Hardware(h), NEW w, Memory(w), NEW d \in Dev(h, w),
         NEW cmd \in Cmds(h), cmd.op \in Ops \ {"RD_MAC"}, NEW c \in Channels(h)
  PROVE  ChannelsFast(d, h, cmd, c) = ChannelFast(d, cmd, c)
<1>1. Masked(h, cmd, c) = {c} /\ c \in Int
  BY ChannelFacts DEF Channels
<1>2. PICK g : ChannelsFastRun(g, h, w, d, cmd, c)
  BY ChannelsFastRounds
<1>3. /\ States(g, {c}, Dev(h, w), d) /\ ChannelsFast(d, h, cmd, c) = g[{c}]
      /\ \A s \in SUBSET {c} : s # {} => g[s] = ChannelFast(g[s \ {Max(s)}], cmd, Max(s))
  BY <1>1, <1>2 DEF ChannelsFastRun
<1>4. g[{c}] = ChannelFast(g[{}], cmd, c) /\ g[{}] = d
  BY <1>1, <1>3, OneRound DEF States
<1> QED
  BY <1>3, <1>4

\* The sums of a column on a channel of d.
ColumnSums(d, c, row, col, a) == MacCol(d, c, row, col, a, GbRead(d, c, col))

\* A column of MAC_ABK on a channel: its accumulators get the column's sums.
LEMMA ColumnOfChannel ==
  ASSUME NEW h, Hardware(h), NEW w, Memory(w), NEW d \in Dev(h, w),
         NEW cmd \in Cmds(h), cmd.op = "MAC_ABK", NEW col \in Columns(cmd), NEW c \in Channels(h)
  PROVE  LET e == ChannelFast(d, AtCol(cmd, col), c)
         IN /\ e \in Dev(h, w) /\ e.gpr = d.gpr /\ e.gb = d.gb
            /\ e.acc = [k \in Channels(h) |->
                         IF k = c THEN ColumnSums(d, c, cmd.row, col, d.acc[c]) ELSE d.acc[k]]
<1> DEFINE a == ColumnSums(d, c, cmd.row, col, d.acc[c])
           e == ChannelFast(d, AtCol(cmd, col), c)
<1>1. /\ AtCol(cmd, col) \in Cmds(h) /\ Col(AtCol(cmd, col)) = col
      /\ AtCol(cmd, col).op = "MAC_ABK" /\ AtCol(cmd, col).row = cmd.row
  BY ColumnFacts
<1>2. d.acc \in [Channels(h) -> [BankIds -> Int]]
  BY DEF Dev
<1>3. e = MacWriteAll(d, c, a)
  BY <1>1 DEF ChannelFast, MacAbkFast, ColumnSums
<1>4. a \in [BankIds -> Int]
  <2>1. GbRead(d, c, col) \in Burst /\ d.acc[c] \in [BankIds -> Int]
    BY <1>2, ReadTypes
  <2> QED
    BY <2>1, MacColType DEF ColumnSums
<1> HIDE DEF a, e
<1>5. /\ e \in Dev(h, w) /\ e.gpr = d.gpr /\ e.gb = d.gb
      /\ e.acc = [k \in DOMAIN d.acc |-> IF k = c THEN a ELSE d.acc[k]]
  BY <1>3, <1>4, MacWriteAllFields
<1>6. DOMAIN d.acc = Channels(h)
  BY <1>2
<1> QED
  BY <1>5, <1>6 DEF a, e

\* The sums of devices with the same buffer are the same.
LEMMA SameSums ==
  ASSUME NEW h, NEW w, NEW d \in Dev(h, w), NEW e \in Dev(h, w), e.gb = d.gb,
         NEW c, NEW row, NEW col, NEW a
  PROVE  ColumnSums(e, c, row, col, a) = ColumnSums(d, c, row, col, a)
<1>1. e.dram = d.dram
  BY DEF Dev
<1> QED
  BY <1>1 DEF ColumnSums, MacCol, GbRead, DramRead

\* What the accumulators of channel c of d are once the columns s have been
\* added.
Grows(r, d, cmd, c) ==
  /\ States(r, Columns(cmd), [BankIds -> Int], d.acc[c])
  /\ \A s \in SUBSET Columns(cmd) : s # {} =>
       r[s] = ColumnSums(d, c, cmd.row, Max(s), r[s \ {Max(s)}])

\* Such states of the accumulators exist.
LEMMA GrowsExists ==
  ASSUME NEW h, Hardware(h), NEW w, Memory(w), NEW d \in Dev(h, w),
         NEW cmd \in Cmds(h), NEW c \in Channels(h)
  PROVE  \E r : Grows(r, d, cmd, c)
<1> DEFINE S == Columns(cmd)
           A == [BankIds -> Int]
           base == d.acc[c]
           F == [p \in A \X S |-> ColumnSums(d, c, cmd.row, p[2], p[1])]
<1>1. Bounded(S) /\ base \in A
  BY ColumnFacts DEF Dev
<1>2. F \in [A \X S -> A]
  <2>1. ASSUME NEW a \in A, NEW col \in S PROVE ColumnSums(d, c, cmd.row, col, a) \in A
    <3>1. GbRead(d, c, col) \in Burst
      BY ReadTypes
    <3> QED
      BY <3>1, MacColType DEF ColumnSums
  <2> HIDE DEF A, S
  <2> QED
    BY <2>1
<1>3. PICK r : StatesBy(r, S, A, base, F)
  <2> HIDE DEF F, S, A, base
  <2> QED
    BY <1>1, <1>2, EachStates
<1> HIDE DEF S, A, base
<1>4. \A s \in SUBSET S : s # {} => r[s] = ColumnSums(d, c, cmd.row, Max(s), r[s \ {Max(s)}])
  BY <1>3 DEF StatesBy, States
<1> QED
  BY <1>3, <1>4 DEF Grows, StatesBy, S, A, base

\* f is e but for the accumulators a of channel c.
Differs(f, e, h, c, a) ==
  /\ f.gpr = e.gpr /\ f.gb = e.gb
  /\ f.acc = [k \in Channels(h) |-> IF k = c THEN a ELSE e.acc[k]]

\* MAC_ABK, fast, on one channel.
LEMMA ColumnsOfChannel ==
  ASSUME NEW h, Hardware(h), NEW w, Memory(w), NEW d \in Dev(h, w), NEW e \in Dev(h, w),
         NEW cmd \in Cmds(h), cmd.op = "MAC_ABK", NEW c \in Channels(h),
         e.gb = d.gb, e.acc[c] = d.acc[c], NEW r, Grows(r, d, cmd, c)
  PROVE  Differs(ExecuteColumns(e, h, TRUE, cmd, c), e, h, c, r[Columns(cmd)])
<1> DEFINE S == Columns(cmd)
           acc(a) == [k \in Channels(h) |-> IF k = c THEN a ELSE e.acc[k]]
<1>1. PICK g : ExecuteColumnsRun(g, h, w, e, TRUE, cmd, c)
  BY ExecuteColumnsRounds
<1>2. /\ States(g, S, Dev(h, w), e) /\ ExecuteColumns(e, h, TRUE, cmd, c) = g[S]
      /\ \A s \in SUBSET S : s # {} =>
           g[s] = ExecuteMicro(g[s \ {Max(s)}], h, TRUE, AtCol(cmd, Max(s)), c)
  BY <1>1 DEF ExecuteColumnsRun
<1>3. /\ States(r, S, [BankIds -> Int], d.acc[c])
      /\ \A s \in SUBSET S : s # {} =>
           r[s] = ColumnSums(d, c, cmd.row, Max(s), r[s \ {Max(s)}])
  BY DEF Grows
<1>4. Bounded(S)
  BY ColumnFacts
<1> DEFINE T == {s \in SUBSET S : g[s].gpr = e.gpr /\ g[s].gb = e.gb /\ g[s].acc = acc(r[s])}
<1>5. {} \in T
  <2>1. e.acc \in [Channels(h) -> [BankIds -> Int]]
    BY DEF Dev
  <2>2. acc(d.acc[c]) = e.acc
    BY <2>1
  <2> HIDE DEF acc, S
  <2> QED
    BY <1>2, <1>3, <2>2 DEF States
<1>6. ASSUME NEW s \in SUBSET S, s # {}, s \ {Max(s)} \in T PROVE s \in T
  <2> DEFINE m == Max(s)
             v == g[s \ {m}]
             a == r[s \ {m}]
  <2>1. v \in Dev(h, w) /\ m \in S /\ g[s] = ExecuteMicro(v, h, TRUE, AtCol(cmd, m), c)
    BY <1>2, <1>6 DEF States
  <2>2. v.gpr = e.gpr /\ v.gb = e.gb /\ v.acc = acc(a) /\ r[s] = ColumnSums(d, c, cmd.row, m, a)
    BY <1>3, <1>6
  <2> HIDE DEF v, m, a
  <2>3. AtCol(cmd, m) \in Cmds(h) /\ AtCol(cmd, m).op = "MAC_ABK"
    BY <2>1, ColumnFacts
  <2>4. g[s] = ChannelsFast(v, h, AtCol(cmd, m), c)
    BY <2>1, <2>3 DEF ExecuteMicro, HasFast
  <2>5. g[s] = ChannelFast(v, AtCol(cmd, m), c)
    <3>1. AtCol(cmd, m).op \in Ops \ {"RD_MAC"}
      BY <2>3 DEF Ops
    <3> QED
      BY <2>1, <2>3, <2>4, <3>1, OneChannel
  <2>6. v.acc[c] = a
    BY <2>2
  <2>7. ColumnSums(v, c, cmd.row, m, a) = r[s]
    BY <2>1, <2>2, SameSums
  <2>8. /\ g[s].gpr = v.gpr /\ g[s].gb = v.gb
        /\ g[s].acc = [k \in Channels(h) |->
                        IF k = c THEN ColumnSums(v, c, cmd.row, m, v.acc[c]) ELSE v.acc[k]]
    <3>1. v \in Dev(h, w) /\ m \in Columns(cmd)
      BY <2>1
    <3> DEFINE f == ChannelFast(v, AtCol(cmd, m), c)
    <3>2. /\ f.gpr = v.gpr /\ f.gb = v.gb
          /\ f.acc = [k \in Channels(h) |->
                       IF k = c THEN ColumnSums(v, c, cmd.row, m, v.acc[c]) ELSE v.acc[k]]
      BY <3>1, ColumnOfChannel
    <3> HIDE DEF f
    <3>3. g[s] = f
      BY <2>5 DEF f
    <3> QED
      BY <3>2, <3>3
  <2>9. g[s].acc = acc(r[s])
    BY <2>2, <2>6, <2>7, <2>8
  <2> HIDE DEF acc, S
  <2> QED
    BY <2>2, <2>8, <2>9
<1> HIDE DEF T
<1>7. S \in T
  <2>1. SUBSET S \subseteq T
    <3> HIDE DEF S
    <3> QED
      BY <1>4, <1>5, <1>6, EachInduction DEF Bounded
  <2> QED
    BY <2>1
<1> QED
  BY <1>2, <1>7 DEF T, Differs

\* MAC_ABK, fast, one column on all channels of the mask.
LEMMA ChannelsOfColumn ==
  ASSUME NEW h, Hardware(h), NEW w, Memory(w), NEW d \in Dev(h, w),
         NEW cmd \in Cmds(h), cmd.op = "MAC_ABK", NEW col \in Columns(cmd)
  PROVE  LET f == ChannelsFast(d, h, AtCol(cmd, col), -1)
         IN /\ f.gpr = d.gpr /\ f.gb = d.gb
            /\ f.acc = [k \in Channels(h) |->
                 IF k \in cmd.chs THEN ColumnSums(d, k, cmd.row, col, d.acc[k]) ELSE d.acc[k]]
<1> DEFINE m == AtCol(cmd, col)
           S == cmd.chs
           acc(s) == [k \in Channels(h) |->
             IF k \in s THEN ColumnSums(d, k, cmd.row, col, d.acc[k]) ELSE d.acc[k]]
<1>1. m \in Cmds(h) /\ m.op = "MAC_ABK" /\ m.chs = S /\ S \in SUBSET Channels(h)
  BY ColumnFacts DEF Cmds
<1>2. m.op \in Ops \ {"RD_MAC"}
  BY <1>1 DEF Ops
<1> HIDE DEF m, S
<1>3. Masked(h, m, -1) = S /\ Bounded(S)
  BY <1>1, ChannelFacts
<1>4. PICK g : ChannelsFastRun(g, h, w, d, m, -1)
  BY <1>1, <1>2, ChannelsFastRounds
<1>5. /\ States(g, S, Dev(h, w), d) /\ ChannelsFast(d, h, m, -1) = g[S]
      /\ \A s \in SUBSET S : s # {} => g[s] = ChannelFast(g[s \ {Max(s)}], m, Max(s))
  BY <1>3, <1>4 DEF ChannelsFastRun
<1> DEFINE T == {s \in SUBSET S : g[s].gpr = d.gpr /\ g[s].gb = d.gb /\ g[s].acc = acc(s)}
<1>6. {} \in T
  <2>1. d.acc \in [Channels(h) -> [BankIds -> Int]]
    BY DEF Dev
  <2>2. acc({}) = d.acc
    BY <2>1
  <2> HIDE DEF acc
  <2> QED
    BY <1>5, <2>2 DEF States
<1>7. ASSUME NEW s \in SUBSET S, s # {}, s \ {Max(s)} \in T PROVE s \in T
  <2> DEFINE c == Max(s)
             v == g[s \ {c}]
  <2>1. v \in Dev(h, w) /\ c \in Channels(h) /\ g[s] = ChannelFast(v, m, c)
    BY <1>1, <1>5, <1>7 DEF States
  <2>2. v.gpr = d.gpr /\ v.gb = d.gb /\ v.acc = acc(s \ {c})
    BY <1>7
  <2>3. c \in s
    BY <1>3, <1>7, Greatest DEF Bounded
  <2> HIDE DEF v, c
  <2>4. /\ v.acc[c] = d.acc[c]
        /\ ColumnSums(v, c, cmd.row, col, d.acc[c]) = ColumnSums(d, c, cmd.row, col, d.acc[c])
    <3>1. v.acc[c] = d.acc[c]
      BY <2>1, <2>2
    <3> QED
      BY <2>1, <2>2, <3>1, SameSums
  <2>5. /\ g[s].gpr = v.gpr /\ g[s].gb = v.gb
        /\ g[s].acc = [k \in Channels(h) |->
                        IF k = c THEN ColumnSums(v, c, cmd.row, col, v.acc[c]) ELSE v.acc[k]]
    BY <2>1, ColumnOfChannel DEF m
  <2>6. g[s].acc = acc(s)
    BY <2>2, <2>3, <2>4, <2>5
  <2> HIDE DEF acc
  <2> QED
    BY <2>2, <2>5, <2>6
<1> HIDE DEF T
<1>8. S \in T
  <2>1. SUBSET S \subseteq T
    BY <1>3, <1>6, <1>7, EachInduction DEF Bounded
  <2> QED
    BY <2>1
<1> QED
  BY <1>5, <1>8 DEF T, m, S

\* Channel by channel or column by column, MAC_ABK adds the same.
LEMMA MacAbkAgrees ==
  ASSUME NEW h, Hardware(h), NEW w, Memory(w), NEW d \in Dev(h, w),
         NEW cmd \in Cmds(h), cmd.op = "MAC_ABK", OneReading(h, cmd)
  PROVE  ExecuteMacAbk(d, h, cmd) = ExecuteColumns(d, h, FALSE, cmd, -1)
<1> DEFINE S == cmd.chs
           C == Columns(cmd)
           r == [c \in Channels(h) |-> CHOOSE r : Grows(r, d, cmd, c)]
           acc(s, t) == [k \in Channels(h) |-> IF k \in s THEN r[k][t] ELSE d.acc[k]]
<1>1. \A c \in Channels(h) : Grows(r[c], d, cmd, c)
  BY GrowsExists
<1> HIDE DEF r
<1>2. \A c \in Channels(h) :
        /\ r[c][{}] = d.acc[c]
        /\ \A t \in SUBSET C : t # {} =>
             r[c][t] = ColumnSums(d, c, cmd.row, Max(t), r[c][t \ {Max(t)}])
  BY <1>1 DEF Grows, States
<1>3. Masked(h, cmd, -1) = S /\ Bounded(S) /\ S \in SUBSET Channels(h) /\ Bounded(C)
  BY ChannelFacts, ColumnFacts
<1>4. d.acc \in [Channels(h) -> [BankIds -> Int]]
  BY DEF Dev

<1>5. PICK f : ExecuteMacAbkRun(f, h, w, d, cmd)
  BY ExecuteMacAbkRounds
<1>6. /\ States(f, S, Dev(h, w), d) /\ ExecuteMacAbk(d, h, cmd) = f[S]
      /\ \A s \in SUBSET S : s # {} =>
           f[s] = ExecuteColumns(f[s \ {Max(s)}], h, TRUE, cmd, Max(s))
  BY <1>3, <1>5 DEF ExecuteMacAbkRun
<1> DEFINE T == {s \in SUBSET S : f[s].gpr = d.gpr /\ f[s].gb = d.gb /\ f[s].acc = acc(s, C)}
<1>7. {} \in T
  <2>1. acc({}, C) = d.acc
    BY <1>4
  <2> HIDE DEF acc, C
  <2> QED
    BY <1>6, <2>1 DEF States
<1>8. ASSUME NEW s \in SUBSET S, s # {}, s \ {Max(s)} \in T PROVE s \in T
  <2> DEFINE c == Max(s)
             e == f[s \ {c}]
             v == ExecuteColumns(e, h, TRUE, cmd, c)
  <2>1. e \in Dev(h, w) /\ c \in Channels(h) /\ f[s] = v
    BY <1>3, <1>6, <1>8 DEF States
  <2>2. e.gpr = d.gpr /\ e.gb = d.gb /\ e.acc = acc(s \ {c}, C)
    BY <1>8
  <2>3. c \in s
    BY <1>3, <1>8, Greatest DEF Bounded
  <2> HIDE DEF e, c
  <2>4. e.acc[c] = d.acc[c] /\ Grows(r[c], d, cmd, c)
    BY <1>1, <2>1, <2>2
  <2>5. /\ v.gpr = e.gpr /\ v.gb = e.gb
        /\ v.acc = [k \in Channels(h) |-> IF k = c THEN r[c][C] ELSE e.acc[k]]
    <3> DEFINE q == r[c]
    <3>1. /\ e.gb = d.gb /\ e.acc[c] = d.acc[c] /\ Grows(q, d, cmd, c)
          /\ e \in Dev(h, w) /\ c \in Channels(h)
      BY <2>1, <2>2, <2>4
    <3> HIDE DEF q
    <3>2. Differs(v, e, h, c, q[C])
      BY <3>1, ColumnsOfChannel
    <3> HIDE DEF C
    <3> QED
      BY <3>2 DEF q, Differs
  <2> HIDE DEF v, C
  <2>6. f[s].acc = acc(s, C)
    BY <2>1, <2>2, <2>3, <2>5
  <2> HIDE DEF acc
  <2> QED
    BY <2>1, <2>2, <2>5, <2>6
<1> HIDE DEF T
<1>9. S \in T
  <2> HIDE DEF S
  <2>1. SUBSET S \subseteq T
    BY <1>3, <1>7, <1>8, EachInduction DEF Bounded
  <2> QED
    BY <2>1
<1>10. f[S] \in Dev(h, w) /\ f[S].gpr = d.gpr /\ f[S].gb = d.gb /\ f[S].acc = acc(S, C)
  BY <1>6, <1>9 DEF T, States
<1>11. PICK g : ExecuteColumnsRun(g, h, w, d, FALSE, cmd, -1)
  BY ExecuteColumnsRounds
<1>12. /\ States(g, C, Dev(h, w), d) /\ ExecuteColumns(d, h, FALSE, cmd, -1) = g[C]
       /\ \A t \in SUBSET C : t # {} =>
            g[t] = ExecuteMicro(g[t \ {Max(t)}], h, FALSE, AtCol(cmd, Max(t)), -1)
  BY <1>11 DEF ExecuteColumnsRun
<1> DEFINE U == {t \in SUBSET C : g[t].gpr = d.gpr /\ g[t].gb = d.gb /\ g[t].acc = acc(S, t)}
<1>13. {} \in U
  <2>1. acc(S, {}) = d.acc
    BY <1>2, <1>4
  <2> HIDE DEF acc, C, S
  <2> QED
    BY <1>12, <2>1 DEF States
<1>14. ASSUME NEW t \in SUBSET C, t # {}, t \ {Max(t)} \in U PROVE t \in U
  <2> DEFINE m == Max(t)
             u == t \ {m}
             e == g[u]
             v == ChannelsFast(e, h, AtCol(cmd, m), -1)
  <2>1. e \in Dev(h, w) /\ m \in C /\ g[t] = ExecuteMicro(e, h, FALSE, AtCol(cmd, m), -1)
    BY <1>12, <1>14 DEF States
  <2>2. e.gpr = d.gpr /\ e.gb = d.gb /\ e.acc = acc(S, u)
    BY <1>14
  <2>3. \A k \in Channels(h) : r[k][t] = ColumnSums(d, k, cmd.row, m, r[k][u])
    BY <1>2, <1>14
  <2> HIDE DEF e, m, u
  <2>4. AtCol(cmd, m) \in Cmds(h) /\ AtCol(cmd, m).op = "MAC_ABK" /\ OneReading(h, AtCol(cmd, m))
    BY <2>1, ColumnFacts DEF OneReading
  <2>5. g[t] = ExecuteMicro(e, h, TRUE, AtCol(cmd, m), -1)
    BY <2>1, <2>4, MicroAgrees
  <2>6. g[t] = v
    BY <2>4, <2>5 DEF ExecuteMicro, HasFast
  <2>7. /\ v.gpr = e.gpr /\ v.gb = e.gb
        /\ v.acc = [k \in Channels(h) |->
             IF k \in S THEN ColumnSums(e, k, cmd.row, m, e.acc[k]) ELSE e.acc[k]]
    BY <2>1, ChannelsOfColumn
  <2>8. ASSUME NEW k \in Channels(h), k \in S
        PROVE  ColumnSums(e, k, cmd.row, m, e.acc[k]) = r[k][t]
    <3>1. e.acc[k] = r[k][u]
      BY <2>2, <2>8
    <3> QED
      BY <2>1, <2>2, <2>3, <3>1, SameSums
  <2> HIDE DEF v, S, C
  <2>9. g[t].acc = acc(S, t)
    BY <2>2, <2>6, <2>7, <2>8
  <2> HIDE DEF acc
  <2> QED
    BY <2>2, <2>6, <2>7, <2>9
<1> HIDE DEF U
<1>15. C \in U
  <2> HIDE DEF C
  <2>1. SUBSET C \subseteq U
    BY <1>3, <1>13, <1>14, EachInduction DEF Bounded
  <2> QED
    BY <2>1
<1>16. g[C] \in Dev(h, w) /\ g[C].gpr = d.gpr /\ g[C].gb = d.gb /\ g[C].acc = acc(S, C)
  BY <1>12, <1>15 DEF U, States
<1> HIDE DEF acc, S, C
<1>17. f[S] = g[C]
  BY <1>10, <1>16, SameDevice
<1> QED
  BY <1>6, <1>12, <1>17

\* With and without the fast paths the columns do the same.
LEMMA ColumnsAgree ==
  ASSUME NEW h, Hardware(h), NEW w, Memory(w), NEW d \in Dev(h, w),
         NEW cmd \in Cmds(h), OneReading(h, cmd)
  PROVE  ExecuteColumns(d, h, TRUE, cmd, -1) = ExecuteColumns(d, h, FALSE, cmd, -1)
<1> DEFINE S == Columns(cmd)
<1>1. PICK f : ExecuteColumnsRun(f, h, w, d, TRUE, cmd, -1)
  BY ExecuteColumnsRounds
<1>2. PICK g : ExecuteColumnsRun(g, h, w, d, FALSE, cmd, -1)
  BY ExecuteColumnsRounds
<1>3. /\ States(f, S, Dev(h, w), d) /\ ExecuteColumns(d, h, TRUE, cmd, -1) = f[S]
      /\ \A s \in SUBSET S : s # {} =>
           f[s] = ExecuteMicro(f[s \ {Max(s)}], h, TRUE, AtCol(cmd, Max(s)), -1)
  BY <1>1 DEF ExecuteColumnsRun
<1>4. /\ States(g, S, Dev(h, w), d) /\ ExecuteColumns(d, h, FALSE, cmd, -1) = g[S]
      /\ \A s \in SUBSET S : s # {} =>
           g[s] = ExecuteMicro(g[s \ {Max(s)}], h, FALSE, AtCol(cmd, Max(s)), -1)
  BY <1>2 DEF ExecuteColumnsRun
<1>5. Bounded(S)
  BY ColumnFacts
<1>6. \A s \in SUBSET S : s # {} /\ f[s \ {Max(s)}] = g[s \ {Max(s)}] => f[s] = g[s]
  <2> SUFFICES ASSUME NEW s \in SUBSET S, s # {}, f[s \ {Max(s)}] = g[s \ {Max(s)}]
               PROVE  f[s] = g[s]
    OBVIOUS
  <2> DEFINE e == f[s \ {Max(s)}]
             m == Max(s)
  <2>1. e \in Dev(h, w) /\ m \in S
    BY <1>3 DEF States
  <2>2. /\ f[s] = ExecuteMicro(e, h, TRUE, AtCol(cmd, m), -1)
        /\ g[s] = ExecuteMicro(e, h, FALSE, AtCol(cmd, m), -1)
    BY <1>3, <1>4
  <2> HIDE DEF e, m
  <2>3. AtCol(cmd, m) \in Cmds(h) /\ OneReading(h, AtCol(cmd, m))
    BY <2>1, ColumnFacts DEF OneReading
  <2> QED
    BY <2>1, <2>2, <2>3, MicroAgrees
<1> HIDE DEF S
<1>7. f[{}] = g[{}]
  BY <1>3, <1>4 DEF States
<1>8. f[S] = g[S]
  <2>1. \A s \in SUBSET S : f[s] = g[s]
    BY <1>5, <1>6, <1>7, EachAgree
  <2> QED
    BY <2>1
<1> QED
  BY <1>3, <1>4, <1>8

\* Whatever a command does by the fast paths it does by the steps.
LEMMA ExecuteAgrees ==
  ASSUME NEW h, Hardware(h), NEW w, Memory(w), NEW d \in Dev(h, w),
         NEW cmd \in Cmds(h), OneReading(h, cmd)
  PROVE  Execute(d, h, TRUE, cmd) = Execute(d, h, FALSE, cmd)
<1>1. CASE cmd.op = "MAC_ABK" /\ cmd.col < 0
  <2>1. Unrolls(cmd)
    BY <1>1 DEF Unrolls
  <2> QED
    BY <1>1, <2>1, MacAbkAgrees DEF Execute
<1>2. CASE ~(cmd.op = "MAC_ABK" /\ cmd.col < 0)
  <2>1. ExecuteMicro(d, h, TRUE, cmd, -1) = ExecuteMicro(d, h, FALSE, cmd, -1)
    BY MicroAgrees
  <2> QED
    BY <1>2, <2>1, ColumnsAgree DEF Execute
<1> QED
  BY <1>1, <1>2

\* The device stays one with the same banks.
LEMMA ExecuteType ==
  ASSUME NEW h, Hardware(h), NEW w, Memory(w), NEW d \in Dev(h, w),
         NEW cmd \in Cmds(h), NEW fast \in BOOLEAN
  PROVE  Execute(d, h, fast, cmd) \in Dev(h, w)
<1>1. ExecuteMicro(d, h, fast, cmd, -1) \in Dev(h, w)
  BY MicroType
<1>2. ExecuteColumns(d, h, fast, cmd, -1) \in Dev(h, w)
  BY ExecuteColumnsType
<1>3. ExecuteMacAbk(d, h, cmd) \in Dev(h, w)
  BY ExecuteMacAbkType
<1> QED
  BY <1>1, <1>2, <1>3 DEF Execute

-----------------------------------------------------------------------------
(* What is loaded.                                                         *)

\* A new device is one, with empty banks.
LEMMA NewDeviceType ==
  ASSUME NEW h, Hardware(h)
  PROVE  NewDevice(h) \in Dev(h, <<>>) /\ Memory(<<>>)
BY ZeroIsBurst DEF NewDevice, Dev, Channels, Memory

\* The bursts of nIn activations, the last one filled up with zeros.
ActivationBurst(x, nIn, col) ==
  [l \in LaneIds |-> IF col * Lanes + l < nIn THEN x[col * Lanes + l] ELSE 0]

LEMMA ActivationType ==
  ASSUME NEW nIn \in Nat, NEW x, \A i \in 0 .. nIn - 1 : x[i] \in Int,
         NEW col \in 0 .. Ceil(nIn, Lanes) - 1
  PROVE  ActivationBurst(x, nIn, col) \in Burst
<1>1. col * Lanes \in Nat
  <2>1. col \in Nat /\ Lanes \in Nat /\ \A a, b \in Nat : a * b \in Nat
    BY Numbers
  <2> QED
    BY <2>1
<1> DEFINE k == col * Lanes
<1>2. \A l \in LaneIds : (IF k + l < nIn THEN x[k + l] ELSE 0) \in Int
  <2> SUFFICES ASSUME NEW l \in LaneIds, k + l < nIn PROVE x[k + l] \in Int
    OBVIOUS
  <2> HIDE DEF k
  <2>1. k + l \in 0 .. nIn - 1
    BY <1>1 DEF LaneIds, k
  <2> QED
    BY <2>1
<1> QED
  BY <1>2 DEF ActivationBurst, Burst

LEMMA ColumnsBounded ==
  ASSUME NEW nIn \in Nat
  PROVE  Bounded(0 .. Ceil(nIn, Lanes) - 1)
<1> DEFINE n == Ceil(nIn, Lanes)
<1>1. n \in Int
  BY Numbers DEF Ceil
<1> HIDE DEF n
<1>2. CASE n >= 1
  <2>1. n - 1 \in Nat /\ 0 .. n - 1 \in SUBSET (0 .. n - 1)
    BY <1>1, <1>2
  <2> QED
    BY <2>1 DEF Bounded, n
<1>3. CASE n < 1
  <2>1. 0 \in Nat /\ 0 .. n - 1 \in SUBSET (0 .. 0)
    BY <1>1, <1>3
  <2> QED
    BY <2>1 DEF Bounded, n
<1> QED
  BY <1>1, <1>2, <1>3

\* The activations come burst by burst.
LoadActivationRun(g, h, w, d, x, nIn) ==
  /\ States(g, 0 .. Ceil(nIn, Lanes) - 1, Dev(h, w), d)
  /\ \A s \in SUBSET (0 .. Ceil(nIn, Lanes) - 1) : s # {} =>
       g[s] = GprWrite(g[s \ {Max(s)}], Max(s), ActivationBurst(x, nIn, Max(s)))
  /\ LoadActivation(d, x, nIn) = g[0 .. Ceil(nIn, Lanes) - 1]

LEMMA LoadActivationRounds ==
  ASSUME NEW h, Hardware(h), NEW w, Memory(w), NEW d \in Dev(h, w),
         NEW nIn \in Nat, NEW x, \A i \in 0 .. nIn - 1 : x[i] \in Int
  PROVE  LoadActivation(d, x, nIn) \in Dev(h, w) /\ \E g : LoadActivationRun(g, h, w, d, x, nIn)
<1> DEFINE S == (0 .. Ceil(nIn, Lanes) - 1)
           D == Dev(h, w)
           F == [p \in D \X S |-> GprWrite(p[1], p[2], ActivationBurst(x, nIn, p[2]))]
           P(g) == g = [s \in SUBSET S |->
                    IF s = {} THEN d
                    ELSE GprWrite(g[s \ {Max(s)}], Max(s), ActivationBurst(x, nIn, Max(s)))]
           f == CHOOSE g : P(g)
<1>1. Bounded(S) /\ d \in D
  BY ColumnsBounded
<1>2. F \in [D \X S -> D]
  <2>1. \A e \in D : \A i \in S : GprWrite(e, i, ActivationBurst(x, nIn, i)) \in D
    BY ActivationType, GprWriteFields
  <2> HIDE DEF D, S
  <2> QED
    BY <2>1
<1>3. PICK g : StatesBy(g, S, D, d, F)
  <2> HIDE DEF F, S, D
  <2> QED
    BY <1>1, <1>2, EachStates
<1> HIDE DEF S, D
<1>4. \A s \in SUBSET S : s # {} =>
        g[s] = GprWrite(g[s \ {Max(s)}], Max(s), ActivationBurst(x, nIn, Max(s)))
  BY <1>3 DEF States, StatesBy
<1>5. P(g)
  BY <1>3, <1>4 DEF States, StatesBy
<1>6. P(f)
  <2> HIDE DEF P
  <2> QED
    BY <1>5
<1>7. LoadActivation(d, x, nIn) = f[S]
  BY DEF LoadActivation, ActivationBurst, Each, MapThenFoldSet, S
<1> HIDE DEF f, F
<1>8. \A s \in SUBSET S : f[s] = g[s]
  <2>1. f[{}] = g[{}]
    BY <1>3, <1>6 DEF States, StatesBy
  <2>2. \A s \in SUBSET S : s # {} /\ f[s \ {Max(s)}] = g[s \ {Max(s)}] => f[s] = g[s]
    BY <1>4, <1>6
  <2> HIDE DEF P
  <2> QED
    BY <1>1, <2>1, <2>2, EachAgree
<1>9. LoadActivation(d, x, nIn) = g[S] /\ g[S] \in D
  <2>1. f[S] = g[S]
    BY <1>8
  <2> QED
    BY <1>3, <1>7, <2>1 DEF States, StatesBy
<1> QED
  BY <1>3, <1>4, <1>9 DEF StatesBy, LoadActivationRun, S, D

LEMMA LoadActivationType ==
  ASSUME NEW h, Hardware(h), NEW w, Memory(w), NEW d \in Dev(h, w),
         NEW nIn \in Nat, NEW x, \A i \in 0 .. nIn - 1 : x[i] \in Int
  PROVE  LoadActivation(d, x, nIn) \in Dev(h, w)
BY LoadActivationRounds, Zenon

\* The weights change nothing but the banks, which stay banks of bursts.
LEMMA LoadWeightsType ==
  ASSUME NEW h, NEW w, Memory(w), NEW d \in Dev(h, w), NEW nOut \in Nat, NEW nIn \in Nat,
         NEW m, \A o \in 0 .. nOut - 1 : \A i \in 0 .. nIn - 1 : m[o][i] \in Int, NEW rows
  PROVE  \E v : Memory(v) /\ LoadWeights(d, h, m, nOut, nIn, rows) \in Dev(h, v)
<1> DEFINE place(o, col) == LET p == MapWeight(h, o, col * Lanes)
                            IN <<p.ch, p.bank, p.row + rows, p.col>>
           burst(o, col) == [l \in LaneIds |->
             IF col * Lanes + l < nIn THEN m[o][col * Lanes + l] ELSE 0]
           cells == (0 .. nOut - 1) \X (0 .. Ceil(nIn, Lanes) - 1)
           new == {place(c[1], c[2]) : c \in cells}
           v == [a \in DOMAIN d.dram \cup new |->
                  IF a \in new
                  THEN LET c == CHOOSE c \in cells : place(c[1], c[2]) = a IN burst(c[1], c[2])
                  ELSE d.dram[a]]
<1>1. LoadWeights(d, h, m, nOut, nIn, rows) = [d EXCEPT !.dram = v]
  BY DEF LoadWeights
<1>2. \A c \in cells : burst(c[1], c[2]) \in Burst
  <2> SUFFICES ASSUME NEW o \in 0 .. nOut - 1, NEW col \in 0 .. Ceil(nIn, Lanes) - 1
               PROVE  burst(o, col) \in Burst
    OBVIOUS
  <2>1. \A i \in 0 .. nIn - 1 : m[o][i] \in Int
    OBVIOUS
  <2> DEFINE x == m[o]
  <2>2. burst(o, col) = ActivationBurst(x, nIn, col)
    BY DEF ActivationBurst
  <2> HIDE DEF x
  <2>3. ActivationBurst(x, nIn, col) \in Burst
    BY <2>1, ActivationType DEF x
  <2> QED
    BY <2>2, <2>3
<1> HIDE DEF burst, place
<1>3. \A a \in new : \E c \in cells : place(c[1], c[2]) = a
  OBVIOUS
<1> HIDE DEF cells
<1>4. \A a \in DOMAIN v : v[a] \in Burst
  <2>1. ASSUME NEW a \in new PROVE v[a] \in Burst
    <3> DEFINE c == CHOOSE c \in cells : place(c[1], c[2]) = a
    <3>1. c \in cells
      BY <1>3
    <3>2. v[a] = burst(c[1], c[2])
      OBVIOUS
    <3> HIDE DEF c, v
    <3> QED
      BY <1>2, <3>1, <3>2
  <2>2. \A a \in DOMAIN d.dram : d.dram[a] \in Burst
    BY DEF Dev, Memory
  <2> HIDE DEF new
  <2>3. \A a \in DOMAIN v : a \notin new => v[a] = d.dram[a] /\ a \in DOMAIN d.dram
    OBVIOUS
  <2> HIDE DEF v
  <2> QED
    BY <2>1, <2>2, <2>3
<1> HIDE DEF v
<1>5. [d EXCEPT !.dram = v] \in Dev(h, v)
  BY DEF Dev
<1> QED
  BY <1>1, <1>4, <1>5 DEF Memory
=============================================================================
