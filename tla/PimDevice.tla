----------------------------- MODULE PimDevice ------------------------------
(***************************************************************************)
(* The simulated PIM device of src/pim_func: general registers, global     *)
(* buffer, accumulators and banks, and what its commands do to them, by    *)
(* the fast paths of device.cpp and by the scalar steps of pu.cpp.         *)
(*                                                                         *)
(* A device is a record [gpr, gb, acc, dram] of functions.  A burst is a   *)
(* function from lanes to integers: half floats without their rounding.    *)
(* h is the HardwareInfo in use: [nCh, pim, gprs, gbCols] with pim the     *)
(* channels of pim_chmask.  A command is [op, opsize, gpr0, chs, row, col] *)
(* with chs the set of channels of its mask and col = -1 when it is unset. *)
(***************************************************************************)
EXTENDS Integers, Sequences, SequencesExt, FiniteSetsExt

CONSTANTS
  Lanes,     \* HardwareInfo::lanes, floats per burst
  Banks      \* HardwareInfo::n_banks

ASSUME DeviceAssumption ==
  Lanes \in Nat \ {0} /\ Banks \in Nat \ {0} /\ Banks <= Lanes

LaneIds == 0 .. Lanes - 1
BankIds == 0 .. Banks - 1
ZeroBurst == [l \in LaneIds |-> 0]
Ceil(n, m) == (n + m - 1) \div m

\* A loop over the numbers S, from the lowest up.
Each(step(_, _), d, S) ==
  MapThenFoldSet(LAMBDA i, e : step(e, i), d, LAMBDA i : i, LAMBDA s : Max(s), S)

NewDevice(h) ==
  [gpr  |-> [i \in 0 .. h.gprs - 1 |-> ZeroBurst],
   gb   |-> [c \in (0 .. h.nCh - 1) \X (0 .. h.gbCols - 1) |-> ZeroBurst],
   acc  |-> [c \in 0 .. h.nCh - 1 |-> [b \in BankIds |-> 0]],
   dram |-> <<>>]

\* Reads outside of a file give zeros, writes outside are dropped.
GprRead(d, i) == IF i \in DOMAIN d.gpr THEN d.gpr[i] ELSE ZeroBurst
GprWrite(d, i, b) == IF i \in DOMAIN d.gpr THEN [d EXCEPT !.gpr[i] = b] ELSE d
GbRead(d, ch, col) == IF <<ch, col>> \in DOMAIN d.gb THEN d.gb[<<ch, col>>] ELSE ZeroBurst
GbWrite(d, ch, col, b) ==
  IF <<ch, col>> \in DOMAIN d.gb THEN [d EXCEPT !.gb[<<ch, col>>] = b] ELSE d
MacRead(d, ch, bank) == IF ch \in DOMAIN d.acc THEN d.acc[ch][bank] ELSE 0
MacWrite(d, ch, bank, v) == IF ch \in DOMAIN d.acc THEN [d EXCEPT !.acc[ch][bank] = v] ELSE d
DramRead(d, ch, bank, row, col) ==
  IF <<ch, bank, row, col>> \in DOMAIN d.dram THEN d.dram[<<ch, bank, row, col>>] ELSE ZeroBurst

\* CentGemvAllocation::map_weight
MapWeight(h, o, i) ==
  LET group == o \div Banks
  IN [lane |-> i % Lanes, col |-> i \div Lanes, bank |-> o % Banks,
      ch |-> h.pim[1 + (group % Len(h.pim))], row |-> group \div Len(h.pim)]

\* load_weights_f32: the last burst of an output is filled up with zeros.
LoadWeights(d, h, w, nOut, nIn, rowBase) ==
  LET place(o, col) == LET m == MapWeight(h, o, col * Lanes)
                       IN <<m.ch, m.bank, m.row + rowBase, m.col>>
      burst(o, col) == [l \in LaneIds |->
        IF col * Lanes + l < nIn THEN w[o][col * Lanes + l] ELSE 0]
      cells == (0 .. nOut - 1) \X (0 .. Ceil(nIn, Lanes) - 1)
      new == {place(c[1], c[2]) : c \in cells}
  IN [d EXCEPT !.dram = [a \in DOMAIN @ \cup new |->
        IF a \in new
        THEN LET c == CHOOSE c \in cells : place(c[1], c[2]) = a IN burst(c[1], c[2])
        ELSE @[a]]]

\* load_activation_f32, with the padding of pim_load_activation.
LoadActivation(d, x, nIn) ==
  Each(LAMBDA e, col :
         GprWrite(e, col, [l \in LaneIds |->
           IF col * Lanes + l < nIn THEN x[col * Lanes + l] ELSE 0]),
       d, 0 .. Ceil(nIn, Lanes) - 1)

-----------------------------------------------------------------------------
(* The scalar steps.                                                       *)

\* channels_of
ChannelsOf(h, cmd, ch) ==
  IF ch >= 0 THEN {ch}
  ELSE LET in == cmd.chs \cap (0 .. h.nCh - 1) IN IF in = {} THEN {0} ELSE in

Col(cmd) == Max({cmd.col, 0})

\* apply_step
ApplyStep(d, cmd, c, bank, lane) ==
  LET col == Col(cmd)
  IN CASE cmd.op = "WR_GB" ->
            GbWrite(d, c, col, [GbRead(d, c, col) EXCEPT
                                  ![lane] = GprRead(d, cmd.gpr0 + col)[lane]])
       [] cmd.op = "WR_BIAS" ->
            MacWrite(d, c, bank, GprRead(d, cmd.gpr0)[bank])
       [] cmd.op = "MAC_ABK" ->
            MacWrite(d, c, bank, MacRead(d, c, bank)
              + DramRead(d, c, bank, cmd.row, col)[lane] * GbRead(d, c, col)[lane])
       [] cmd.op = "RD_MAC" ->
            GprWrite(d, cmd.gpr0, [GprRead(d, cmd.gpr0) EXCEPT ![bank] = MacRead(d, c, bank)])

\* FullAbkParallelism::expand: the steps of a command, channel by channel, bank
\* by bank and lane by lane.
StepBanks(cmd) == IF cmd.op = "WR_GB" THEN {0} ELSE BankIds
StepLanes(cmd) == IF cmd.op \in {"WR_GB", "MAC_ABK"} THEN LaneIds ELSE {0}
BankSteps(d, cmd, c, bank) ==
  Each(LAMBDA e, lane : ApplyStep(e, cmd, c, bank, lane), d, StepLanes(cmd))
ChannelSteps(d, cmd, c) ==
  Each(LAMBDA e, bank : BankSteps(e, cmd, c, bank), d, StepBanks(cmd))

ScalarMicro(d, h, cmd, ch) ==
  Each(LAMBDA e, c : ChannelSteps(e, cmd, c), d, ChannelsOf(h, cmd, ch))

-----------------------------------------------------------------------------
(* The fast paths.                                                         *)

\* The dot product of two bursts (mac_simd.cpp).
BurstDot(w, x) == Each(LAMBDA sum, l : sum + w[l] * x[l], 0, LaneIds)

\* mac_abk_one_col_xf32: a column of all banks.
MacCol(d, ch, row, col, acc, x) ==
  [b \in BankIds |-> acc[b] + BurstDot(DramRead(d, ch, b, row, col), x)]

\* mac_wave_into: a row of all banks, into private accumulators.
MacWave(d, ch, row, nCols, x) ==
  Each(LAMBDA acc, col : MacCol(d, ch, row, col, acc, x[col]),
       [b \in BankIds |-> 0], 0 .. nCols - 1)

\* Those of the mask's channels the loops of the fast paths visit.
Masked(h, cmd, ch) == IF ch >= 0 THEN {ch} ELSE cmd.chs \cap (0 .. h.nCh - 1)

\* What they do to a channel (apply_ch): its accumulators are left alone if
\* there are none.
MacWriteAll(d, c, acc) == IF c \in DOMAIN d.acc THEN [d EXCEPT !.acc[c] = acc] ELSE d

WrGbFast(d, cmd, c) == GbWrite(d, c, Col(cmd), GprRead(d, cmd.gpr0 + Col(cmd)))
WrBiasFast(d, cmd, c) == MacWriteAll(d, c, [b \in BankIds |-> GprRead(d, cmd.gpr0)[b]])
MacAbkFast(d, cmd, c) ==
  MacWriteAll(d, c, MacCol(d, c, cmd.row, Col(cmd), d.acc[c], GbRead(d, c, Col(cmd))))

ChannelFast(d, cmd, c) ==
  CASE cmd.op = "WR_GB"   -> WrGbFast(d, cmd, c)
    [] cmd.op = "WR_BIAS" -> WrBiasFast(d, cmd, c)
    [] cmd.op = "MAC_ABK" -> MacAbkFast(d, cmd, c)

ChannelsFast(d, h, cmd, ch) ==
  Each(LAMBDA e, c : ChannelFast(e, cmd, c), d, Masked(h, cmd, ch))

\* Mutant: the channel of the mask is not looked for.
RdMacFirst(d, h, cmd, ch) ==
  LET c == IF ch >= 0 THEN ch ELSE 0
  IN GprWrite(d, cmd.gpr0, [l \in LaneIds |->
       IF l \in BankIds THEN d.acc[c][l] ELSE GprRead(d, cmd.gpr0)[l]])

\* RD_MAC reads the lowest channel of its mask, channel 0 if there is none.
ReadChannel(h, cmd, ch) == Min(ChannelsOf(h, cmd, ch))
RdMacFast(d, h, cmd, ch) ==
  LET c == ReadChannel(h, cmd, ch)
  IN GprWrite(d, cmd.gpr0, [l \in LaneIds |->
       IF l \in BankIds THEN d.acc[c][l] ELSE GprRead(d, cmd.gpr0)[l]])

\* WR_GB, WR_BIAS and RD_MAC fall back to the steps when a register does not
\* exist, RD_MAC also when its channel does not.
HasFast(d, h, cmd, ch) ==
  CASE cmd.op = "WR_GB"   -> cmd.gpr0 + Col(cmd) \in DOMAIN d.gpr
    [] cmd.op = "WR_BIAS" -> cmd.gpr0 \in DOMAIN d.gpr
    [] cmd.op = "MAC_ABK" -> TRUE
    [] cmd.op = "RD_MAC"  -> cmd.gpr0 \in DOMAIN d.gpr /\ ReadChannel(h, cmd, ch) \in DOMAIN d.acc
    [] OTHER -> FALSE

-----------------------------------------------------------------------------
(* Commands.                                                               *)

\* execute_micro: one column on one channel, or on those of the mask.
ExecuteMicro(d, h, fast, cmd, ch) ==
  IF cmd.op = "EOC" THEN d
  ELSE IF ~(fast /\ HasFast(d, h, cmd, ch)) THEN ScalarMicro(d, h, cmd, ch)
  ELSE IF cmd.op = "RD_MAC" THEN RdMacFast(d, h, cmd, ch)
  ELSE ChannelsFast(d, h, cmd, ch)

\* CommandDef::unrolls_cols
Unrolls(cmd) == cmd.op \in {"WR_GB", "MAC_ABK"}

\* The columns a command is unrolled to, one after the other.
Columns(cmd) == 0 .. Max({cmd.opsize, 1}) - 1
ExecuteColumns(d, h, fast, cmd, ch) ==
  Each(LAMBDA e, col : ExecuteMicro(e, h, fast, [cmd EXCEPT !.col = col], ch), d, Columns(cmd))

\* The fast MAC_ABK runs channel by channel: the region of the row is found
\* only once.
ExecuteMacAbk(d, h, cmd) ==
  Each(LAMBDA e, ch : ExecuteColumns(e, h, TRUE, cmd, ch), d, Masked(h, cmd, -1))

\* execute: a command without a column runs on `opsize` columns.
Execute(d, h, fast, cmd) ==
  IF fast /\ cmd.op = "MAC_ABK" /\ cmd.col < 0 THEN ExecuteMacAbk(d, h, cmd)
  ELSE IF Unrolls(cmd) /\ cmd.col < 0 THEN ExecuteColumns(d, h, fast, cmd, -1)
  ELSE ExecuteMicro(d, h, fast, cmd, -1)
=============================================================================
