----------------------------- MODULE LinearOps ------------------------------
(***************************************************************************)
(* y = W x, or y += W x, on every path it can take: the PIM backend        *)
(* (c/backends/pim: should_offload, pim_backend_gemv, planner, fire_cmds,  *)
(* wave_job) with its three issue modes over c_api.cpp, the retire hook    *)
(* and the simulator's weight mailbox (hook.cpp), the MAC worker's waves   *)
(* (hybrid.cpp), and the host kernels with their pool (HostLinear).        *)
(*                                                                         *)
(* A process makes one call after the other; registers, buffers, banks and *)
(* the arena keep what earlier calls left in them.  Within a call the      *)
(* threads of pool_run, or the simulator that retires commands, interleave.*)
(***************************************************************************)
EXTENDS HostLinear, PimDevice

CONSTANTS
  Confs,       \* configurations [backend, issue, threads, fast, ops]
  Mats,        \* the matrices
  Info,        \* matrix -> [name, nOut, nIn, type, on]: on = its backends
  W,           \* matrix -> output -> input -> weight
  X,           \* call number -> token -> input -> activation
  Hw,          \* issue mode -> HardwareInfo
  NRows,       \* hw.n_rows
  XMax, YMax,  \* PIM_HYBRID_X_MAX, PIM_HYBRID_Y_MAX
  Tokens,      \* numbers of tokens of a call
  MaxCalls,    \* bound: calls of a process
  YCells       \* cells of y and of what lies behind it

\* There is a thread, and a channel that computes; weights and activations
\* are there for every output and input.
ASSUME LinearAssumption ==
  /\ MaxCalls \in Nat /\ Tokens \subseteq Nat \ {0}
  /\ \A c \in Confs :
       LET h == Hw[c.issue]
       IN /\ c.threads \in Nat \ {0} /\ c.fast \in BOOLEAN
          /\ h.nCh \in Nat \ {0} /\ h.gprs \in Nat /\ h.gbCols \in Nat
          /\ h.pim \in Seq(0 .. h.nCh - 1) /\ Len(h.pim) # 0
  /\ \A m \in Mats :
       /\ Info[m].nOut \in Nat /\ Info[m].nIn \in Nat
       /\ \A o \in 0 .. Info[m].nOut - 1, i \in 0 .. Info[m].nIn - 1 : W[m][o][i] \in Int
       /\ \A n \in 1 .. MaxCalls, nTok \in Tokens :
            \A t \in 0 .. nTok - 1, i \in 0 .. Info[m].nIn - 1 : X[n][t][i] \in Int

\* pim_channels lists the bits of pim_chmask upwards; the masks of the host
\* (0x1) and of the simulator (0x0F) have the lowest bit, and no more than eight.
ASSUME ChannelAssumption ==
  \A c \in Confs :
    LET pim == Hw[c.issue].pim
    IN /\ pim[1] = 0 /\ Len(pim) <= 8
       /\ \A i, j \in 1 .. Len(pim) : i < j => pim[i] < pim[j]

VARIABLES
  conf,        \* the configuration of this process
  call,        \* the call: [m, nTok, acc, n, ph, pushed]; ph is where it is
  y, y0,       \* the result, and what was there before
  dev,         \* the device: of this process, of the MAC worker, or of the
               \* simulator
  rowBase,     \* Interned::row_base, stale and Runtime::next_row
  stale, nextRow,
  todo,        \* commands of the plan still to be executed
  wave,        \* fire_cmds: the wave it is in
  isr,         \* micro commands of the committed command, not yet retired
  work,        \* thread -> blocks it still has to do
  held,        \* thread -> sums with the cells it has loaded, or <<>>
  arena,       \* y in the shared arena
  hook         \* InternJob of hook.cpp, with whose weights the host pushes

vars == <<conf, call, y, y0, dev, rowBase, stale, nextRow, todo, wave, isr,
          work, held, arena, hook>>
pimvars == <<dev, rowBase, stale, nextRow>>
firevars == <<todo, wave, isr>>

Cells == 0 .. YCells - 1
OldY(n) == [i \in Cells |-> 1000 * n + i]
NoJob == [nOut |-> 0, nIn |-> 0, base |-> 0, filled |-> 0, pending |-> FALSE,
          va |-> "none", buf |-> <<>>]

hw   == Hw[conf.issue]
mat  == Info[call.m]
NCols == Ceil(mat.nIn, Lanes)
NWaves == Ceil(Ceil(mat.nOut, Banks), Len(hw.pim))
Product(m, n, nTok) ==
  [w |-> W[m], x |-> X[n], nTok |-> nTok, nOut |-> Info[m].nOut, nIn |-> Info[m].nIn,
   type |-> Info[m].type]

Init ==
  /\ conf \in Confs
  /\ call = [m |-> "none", nTok |-> 0, acc |-> FALSE, n |-> 0, ph |-> "idle", pushed |-> 0]
  /\ y = OldY(0) /\ y0 = OldY(0)
  /\ dev = NewDevice(hw)
  /\ rowBase = [m \in Mats |-> -1] /\ stale = [m \in Mats |-> TRUE] /\ nextRow = 0
  /\ todo = <<>> /\ wave = -1 /\ isr = {}
  /\ work = <<>> /\ held = <<>>
  /\ arena = OldY(0)
  /\ hook = NoJob

-----------------------------------------------------------------------------
(* Which path: tensor.c of the PIM backend and linear_rows_wt.             *)

\* class_from_shape
ShapeClass(nOut, nIn) ==
  IF nOut >= 4096 THEN "output"
  ELSE IF nOut >= nIn * 2 \/ nIn >= nOut * 2 THEN "ffn" ELSE "attn"

\* should_offload of an interned weight: its class by its name, by its shape
\* if it has none; a name that says nothing keeps it on the CPU.
Offload(c, m) ==
  LET i == Info[m]
      class == IF i.name = "" THEN ShapeClass(i.nOut, i.nIn) ELSE i.name
  IN class \in c.ops

Kernel == CASE conf.backend = "arm" -> Arm [] conf.backend = "plain" -> Plain [] OTHER -> X86

\* A run of the pool on what `job` gives each of n threads.
StartPool(job(_, _), n) ==
  /\ work' = [t \in 0 .. n - 1 |-> job(t, n)]
  /\ held' = [t \in 0 .. n - 1 |-> <<>>]

\* The host computes: linear_rows and linear_rows_add for float rows and for
\* what the PIM backend does not take; qlinear for quantized rows.
CpuJob(p, quant) ==
  LET blocks(t, n) == IF quant THEN QLinearJob(Kernel, p, t, n)
                      ELSE IF conf.backend = "plain" THEN PlainJob(p)
                      ELSE LinearJob(Kernel, p, t, n)
      job(t, n) == LET b == blocks(t, n) IN [i \in DOMAIN b |-> Sums(p, b[i])]
  IN StartPool(job, IF conf.backend = "plain" THEN 1 ELSE conf.threads)

\* linear_rows_wt, linear_rows_add_wt and linear_rows_ex.
Call(m, nTok, acc) ==
  LET n == call.n + 1
      pim == conf.backend = "pim"
      offload == /\ pim /\ nTok = 1 /\ Offload(conf, m)
                 /\ Info[m].nOut > 0 /\ Info[m].nIn > 0
  IN /\ call.ph = "idle" /\ call.n < MaxCalls
     /\ conf.backend \in Info[m].on
     /\ y' = OldY(n) /\ y0' = OldY(n)
     /\ call' = [m |-> m, nTok |-> nTok, acc |-> acc, n |-> n, pushed |-> 0,
                 ph |-> IF offload THEN "prepare" ELSE "work"]
     /\ IF offload THEN UNCHANGED <<work, held>>
        ELSE CpuJob(Product(m, n, nTok), Info[m].type # "f32" /\ ~pim)
     /\ UNCHANGED <<conf, pimvars, firevars, arena, hook>>

\* pim_backend_gemv fails, and linear_rows_ex computes on the CPU.
FallBack ==
  /\ call' = [call EXCEPT !.ph = "work"]
  /\ CpuJob(Product(call.m, call.n, call.nTok), FALSE)

-----------------------------------------------------------------------------
(* pim_prepare: rows for the weights, and the weights into the banks.      *)

Ready == rowBase[call.m] >= 0 /\ ~stale[call.m]

\* The rows are given out before their end is looked at.
PlaceRows ==
  /\ call.ph = "prepare" /\ rowBase[call.m] < 0
  /\ rowBase' = [rowBase EXCEPT ![call.m] = nextRow]
  /\ nextRow' = nextRow + NWaves
  /\ IF nextRow' > NRows THEN FallBack ELSE UNCHANGED <<call, work, held>>
  /\ UNCHANGED <<conf, y, y0, dev, stale, firevars, arena, hook>>

\* load_weights_f32, by this process.
LoadRows ==
  /\ call.ph = "prepare" /\ rowBase[call.m] >= 0 /\ stale[call.m]
  /\ conf.issue # "mmio"
  /\ dev' = LoadWeights(dev, hw, W[call.m], mat.nOut, mat.nIn, rowBase[call.m])
  /\ stale' = [stale EXCEPT ![call.m] = FALSE]
  /\ UNCHANGED <<conf, call, y, y0, rowBase, nextRow, firevars, work, held, arena, hook>>

\* intern_begin
HookBegin(nOut, nIn, base) ==
  [nOut |-> nOut, nIn |-> nIn, base |-> base, filled |-> 0, pending |-> FALSE,
   va |-> "none", buf |-> [i \in 1 .. nOut * nIn |-> 0]]

\* intern_request_copy: the flag is set unless there is nothing to fill.
HookRequestCopy(j, m) == [j EXCEPT !.va = m, !.pending = j.buf # <<>>]

\* intern_status: 0 when nothing is awaited.
HookStatus(j) == IF j.filled >= Len(j.buf) THEN 0 ELSE 1

\* intern_complete_from_host with the weights w.
HookComplete(j, w) ==
  /\ dev' = LoadWeights(dev, hw, w, j.nOut, j.nIn, j.base)
  /\ hook' = [j EXCEPT !.pending = FALSE, !.filled = Len(j.buf)]

\* mmio_install_weights: INTERN_BEGIN and INTERN_PTR.
Install ==
  /\ call.ph = "prepare" /\ rowBase[call.m] >= 0 /\ stale[call.m]
  /\ conf.issue = "mmio"
  /\ hook' = HookRequestCopy(HookBegin(mat.nOut, mat.nIn, rowBase[call.m]), call.m)
  /\ call' = [call EXCEPT !.ph = "status"]
  /\ UNCHANGED <<conf, y, y0, pimvars, firevars, work, held, arena>>

\* It looks at STATUS once: the weights are there, or it pushes all of them.
ReadStatus ==
  /\ call.ph = "status"
  /\ call' = [call EXCEPT !.ph = IF HookStatus(hook) = 0 THEN "prepare" ELSE "push"]
  /\ stale' = [stale EXCEPT ![call.m] = HookStatus(hook) # 0]
  /\ UNCHANGED <<conf, y, y0, dev, rowBase, nextRow, firevars, work, held, arena, hook>>

\* The simulator copies the weights out of the guest's memory, at a time of
\* its own.
SimCopies ==
  /\ hook.pending
  /\ HookComplete(hook, W[hook.va])
  /\ UNCHANGED <<conf, call, y, y0, rowBase, stale, nextRow, firevars, work, held, arena>>

\* The weights of a matrix from number k on, row by row, at most two.
Pair(m, k) ==
  LET flat(i) == W[m][i \div Info[m].nIn][i % Info[m].nIn]
  IN [i \in 1 .. Min({2, Info[m].nOut * Info[m].nIn - k}) |-> flat(k + i - 1)]

\* intern_push_f32: what does not fit is dropped.
HookPush(j, v) ==
  LET n == Min({Len(v), Len(j.buf) - j.filled})
  IN [j EXCEPT !.buf = [i \in DOMAIN @ |-> IF i \in j.filled + 1 .. j.filled + n
                                          THEN v[i - j.filled] ELSE @[i]],
               !.filled = @ + n]

\* A word is pushed; the word that completes the buffer loads it.
Push ==
  LET j == HookPush(hook, Pair(call.m, call.pushed))
      w == [o \in 0 .. j.nOut - 1 |-> [i \in 0 .. j.nIn - 1 |-> j.buf[o * j.nIn + i + 1]]]
      last == call.pushed + 2 >= mat.nOut * mat.nIn
  IN /\ call.ph = "push"
     /\ IF HookStatus(j) = 0 /\ HookStatus(hook) # 0
        THEN HookComplete(j, w) ELSE hook' = j /\ UNCHANGED dev
     /\ call' = [call EXCEPT !.pushed = @ + 2, !.ph = IF last THEN "prepare" ELSE "push"]
     /\ stale' = [stale EXCEPT ![call.m] = ~last]
     /\ UNCHANGED <<conf, y, y0, rowBase, nextRow, firevars, work, held, arena>>

-----------------------------------------------------------------------------
(* The plan.                                                               *)

Cmd(op, opsize, gpr0, chs, row) ==
  [op |-> op, opsize |-> opsize, gpr0 |-> gpr0, chs |-> chs, row |-> row, col |-> -1]

\* Mutant: the channels of a wave are read into one register.
PlanOneGpr(h, nOut, nIn, base) ==
  LET cols == Ceil(nIn, Lanes)
      pim  == ToSet(h.pim)
      group(w) == <<Cmd("WR_BIAS", -1, cols, pim, 0),
                    Cmd("MAC_ABK", cols, 0, pim, base + w)>>
                  \o [i \in DOMAIN h.pim |-> Cmd("RD_MAC", -1, cols + 1, {h.pim[i]}, 0)]
  IN <<Cmd("WR_GB", cols, 0, pim, 0)>>
     \o FlattenSeq([k \in 1 .. Ceil(Ceil(nOut, Banks), Len(h.pim)) |-> group(k - 1)])
     \o <<Cmd("EOC", -1, 0, {}, 0)>>

\* plan_linear: x lies in registers 0 .. cols - 1, the zero bias in the next
\* one, y in those behind it, one for each channel.
Plan(h, nOut, nIn, base) ==
  LET cols == Ceil(nIn, Lanes)
      pim  == ToSet(h.pim)
      group(w) == <<Cmd("WR_BIAS", -1, cols, pim, 0),
                    Cmd("MAC_ABK", cols, 0, pim, base + w)>>
                  \o [i \in DOMAIN h.pim |-> Cmd("RD_MAC", -1, cols + i, {h.pim[i]}, 0)]
  IN <<Cmd("WR_GB", cols, 0, pim, 0)>>
     \o FlattenSeq([k \in 1 .. Ceil(Ceil(nOut, Banks), Len(h.pim)) |-> group(k - 1)])
     \o <<Cmd("EOC", -1, 0, {}, 0)>>

\* The outputs of a group of banks.
GroupCells(g) == {0} \X (g * Banks .. Min({g * Banks + Banks, mat.nOut}) - 1)

\* The waves of one thread: wave_job, which has one channel, and mac_wave_fn.
\* A wave's groups are computed from x and stored one by one.
WaveJob(d, x) ==
  LET sums(w, i) == LET acc == MacWave(d, hw.pim[i], rowBase[call.m] + w, NCols, x)
                        g == w * Len(hw.pim) + i - 1
                    IN [c \in GroupCells(g) |-> acc[c[2] % Banks]]
      groups(w) == Min({Len(hw.pim), Ceil(mat.nOut, Banks) - w * Len(hw.pim)})
      waves(t, n) == [k \in 1 .. Ceil(NWaves - t, n) |-> t + (k - 1) * n]
      job(t, n) == LET ws == waves(t, n)
                   IN FlattenSeq([k \in DOMAIN ws |->
                                    [i \in 1 .. groups(ws[k]) |-> sums(ws[k], i)]])
  IN StartPool(job, Max({1, Min({conf.threads, NWaves})}))

\* x in bursts, as it lies in the arena or is read from the global buffer.
Bursts(x) == [col \in 0 .. NCols - 1 |-> [l \in LaneIds |->
                IF col * Lanes + l < mat.nIn THEN x[col * Lanes + l] ELSE 0]]

Fits == NCols <= hw.gbCols /\ NCols + 8 < hw.gprs
\* pim_hybrid_submit: x and y fit into the shared arena.
Submits == NCols * Lanes <= XMax /\ mat.nOut <= YMax
Parallel == conf.issue = "host" /\ conf.threads > 1 /\ NWaves > 1 /\ Len(hw.pim) = 1

\* pim_backend_gemv, once the weights are in their rows: what does not fit
\* goes to the CPU; else x and the zero register are written and the product
\* is handed to the MAC worker (or, too large for it, goes to the CPU after
\* all), split over the pool, or fired as a plan.
Gemv ==
  LET x == X[call.n][0]
      d == GprWrite(LoadActivation(dev, x, mat.nIn), NCols, ZeroBurst)
      e == Execute(d, hw, conf.fast, Cmd("WR_GB", NCols, 0, ToSet(hw.pim), 0))
  IN /\ call.ph = "prepare" /\ Ready
     /\ \/ /\ ~Fits
           /\ FallBack
           /\ UNCHANGED <<dev, todo, wave, arena>>
        \/ /\ Fits /\ conf.issue = "shm" /\ ~Submits
           /\ FallBack
           /\ dev' = d
           /\ UNCHANGED <<todo, wave, arena>>
        \/ /\ Fits /\ conf.issue = "shm" /\ Submits
           /\ call' = [call EXCEPT !.ph = "remote"]
           /\ dev' = d
           /\ WaveJob(dev, Bursts(x))
           /\ arena' = IF call.acc THEN [i \in Cells |-> IF i < mat.nOut THEN y[i] ELSE arena[i]]
                       ELSE arena
           /\ UNCHANGED <<todo, wave>>
        \/ /\ Fits /\ Parallel
           /\ call' = [call EXCEPT !.ph = "work"]
           /\ dev' = e
           /\ WaveJob(e, [col \in 0 .. NCols - 1 |-> GbRead(e, 0, col)])
           /\ UNCHANGED <<todo, wave, arena>>
        \/ /\ Fits /\ conf.issue # "shm" /\ ~Parallel
           /\ call' = [call EXCEPT !.ph = "fire"]
           /\ dev' = d
           /\ todo' = Plan(hw, mat.nOut, mat.nIn, rowBase[call.m]) /\ wave' = -1
           /\ UNCHANGED <<work, held, arena>>
     /\ UNCHANGED <<conf, y, y0, rowBase, stale, nextRow, isr, hook>>

-----------------------------------------------------------------------------
(* fire_cmds.                                                              *)

\* unpack_wave_host and unpack_wave_mmio: the registers of the wave's channels
\* are taken into y.
Unpack(d, w) ==
  LET group(o) == o \div Banks
      mine == {o \in 0 .. mat.nOut - 1 : group(o) \div Len(hw.pim) = w}
      value(o) == GprRead(d, NCols + 1 + (group(o) % Len(hw.pim)))[o % Banks]
  IN [i \in Cells |-> IF i \in mine THEN (IF call.acc THEN y[i] ELSE 0) + value(i) ELSE y[i]]

\* What follows a command: a bias starts a wave, the read of the last channel
\* ends it, and the next command is taken.
Executed(d, c) ==
  LET w == IF c.op = "WR_BIAS" THEN wave + 1 ELSE wave
  IN /\ wave' = w
     /\ todo' = Tail(todo)
     /\ y' = IF c.op = "RD_MAC" /\ c.chs = {Last(hw.pim)} /\ w >= 0 THEN Unpack(d, w) ELSE y
     /\ call' = [call EXCEPT !.ph = IF Len(todo) = 1 THEN "done" ELSE "fire"]

\* pim_execute on this process's device.
Fire ==
  /\ call.ph = "fire" /\ conf.issue = "host"
  /\ dev' = Execute(dev, hw, conf.fast, Head(todo))
  /\ Executed(dev', Head(todo))
  /\ UNCHANGED <<conf, y0, rowBase, stale, nextRow, isr, work, held, arena, hook>>

\* issue_one_mmio: the mask is that of all PIM channels except for RD_MAC; the
\* command becomes one micro command for each channel and column.
Issue ==
  LET c == Head(todo)
      chs == IF c.op = "RD_MAC" THEN c.chs ELSE ToSet(hw.pim)
      cols == IF c.op \in {"WR_GB", "MAC_ABK"} THEN 0 .. c.opsize - 1 ELSE {0}
  IN /\ call.ph = "fire" /\ conf.issue = "mmio"
     /\ isr' = IF c.op = "EOC" THEN {} ELSE chs \X cols
     /\ call' = [call EXCEPT !.ph = "isr"]
     /\ UNCHANGED <<conf, y, y0, pimvars, todo, wave, work, held, arena, hook>>

\* on_retired_aim: a micro command retires, in any order.
Retire ==
  /\ call.ph = "isr"
  /\ \E m \in isr :
       /\ isr' = isr \ {m}
       /\ dev' = ExecuteMicro(dev, hw, conf.fast,
                   [Head(todo) EXCEPT !.col = m[2], !.opsize = 1], m[1])
  /\ UNCHANGED <<conf, call, y, y0, rowBase, stale, nextRow, todo, wave, work, held, arena, hook>>

\* aim_isr_wait_idle returns: the command has been executed.
Idle ==
  /\ call.ph = "isr" /\ isr = {}
  /\ Executed(dev, Head(todo))
  /\ UNCHANGED <<conf, y0, pimvars, isr, work, held, arena, hook>>

-----------------------------------------------------------------------------
(* The threads of pool_run.  A block's cells are loaded and stored; another *)
(* thread may run in between.                                              *)

Target == IF call.ph = "remote" THEN arena ELSE y
At(c) == c[1] * mat.nOut + c[2]
AtWork == call.ph \in {"work", "remote"}

LoadBlock(t) ==
  /\ AtWork /\ work[t] # <<>> /\ held[t] = <<>>
  /\ held' = [held EXCEPT ![t] = [c \in DOMAIN Head(work[t]) |->
                 Head(work[t])[c] + IF call.acc THEN Target[At(c)] ELSE 0]]
  /\ UNCHANGED <<conf, call, y, y0, pimvars, firevars, work, arena, hook>>

\* The value a cell gets from the sums h.
Stored(h, i, old) ==
  IF \E c \in DOMAIN h : At(c) = i THEN h[CHOOSE c \in DOMAIN h : At(c) = i] ELSE old

StoreBlock(t) ==
  LET new == [i \in Cells |-> Stored(held[t], i, Target[i])]
  IN /\ AtWork /\ held[t] # <<>>
     /\ IF call.ph = "remote" THEN arena' = new /\ UNCHANGED y
        ELSE y' = new /\ UNCHANGED arena
     /\ held' = [held EXCEPT ![t] = <<>>]
     /\ work' = [work EXCEPT ![t] = Tail(@)]
     /\ UNCHANGED <<conf, call, y0, pimvars, firevars, hook>>

\* Mutant: the threads of the run are not cleaned up.
JoinKeeps ==
  /\ AtWork
  /\ \A t \in DOMAIN work : work[t] = <<>>
  /\ call' = [call EXCEPT !.ph = "done"]
  /\ work' = <<>>
  /\ UNCHANGED <<conf, y, y0, pimvars, firevars, held, arena, hook>>

\* All shares are done; y comes out of the arena.
Join ==
  /\ AtWork
  /\ \A t \in DOMAIN work : work[t] = <<>>
  /\ call' = [call EXCEPT !.ph = "done"]
  /\ y' = IF call.ph = "remote" THEN [i \in Cells |-> IF i < mat.nOut THEN arena[i] ELSE y[i]]
          ELSE y
  /\ work' = <<>> /\ held' = <<>>
  /\ UNCHANGED <<conf, y0, pimvars, firevars, arena, hook>>

Return ==
  /\ call.ph = "done"
  /\ call' = [call EXCEPT !.ph = "idle"]
  /\ UNCHANGED <<conf, y, y0, pimvars, firevars, work, held, arena, hook>>

Step == \/ PlaceRows \/ LoadRows \/ Install \/ ReadStatus \/ Push \/ Gemv
        \/ Fire \/ Issue \/ Retire \/ Idle
        \/ \E t \in DOMAIN work : LoadBlock(t) \/ StoreBlock(t)
        \/ Join \/ Return

\* The last call has returned.
Stopped == call.ph = "idle" /\ call.n = MaxCalls /\ UNCHANGED vars

Next == \/ \E m \in Mats, n \in Tokens, a \in BOOLEAN : Call(m, n, a)
        \/ SimCopies
        \/ Step
        \/ Stopped

Spec == Init /\ [][Next]_vars

-----------------------------------------------------------------------------
(* Properties.                                                             *)

LinearTypeOK ==
  /\ conf \in Confs
  /\ call.m \in Mats \cup {"none"} /\ call.n \in 0 .. MaxCalls
  /\ call.ph \in {"idle", "prepare", "status", "push", "remote", "work", "fire", "isr", "done"}
  /\ y \in [Cells -> Int] /\ arena \in [Cells -> Int]
  /\ DOMAIN dev.gpr = 0 .. hw.gprs - 1 /\ DOMAIN work = DOMAIN held
  /\ \A m \in Mats : rowBase[m] \in -1 .. nextRow

\* The product as it is defined, computed from nothing but W, x and the old y.
Reference(i) ==
  LET t == i \div mat.nOut
      o == i % mat.nOut
      dot == DotRange(W[call.m][o], X[call.n][t], 0, mat.nIn)
  IN IF i >= call.nTok * mat.nOut THEN y0[i]
     ELSE dot + IF call.acc THEN y0[i] ELSE 0

\* Every path computes the product, whatever earlier calls have left in the
\* registers, buffers, banks, the arena and the weight mailbox, whatever its
\* threads do, in whatever order commands retire and whoever installs the
\* weights; and nothing behind y is written.
ProductRight == call.ph = "done" => \A i \in Cells : y[i] = Reference(i)

\* No two threads have loaded the same cell of y: the sums that are added to
\* it cannot be lost.
OneWriter == \A t, u \in DOMAIN held :
  t # u => DOMAIN held[t] \cap DOMAIN held[u] = {}

\* "PIM_GEMV_SCALAR_STEPS": for every command that is issued, in the state it
\* is issued in, the fast path does what the micro steps do.
FastIsScalar == call.ph = "fire" =>
  Execute(dev, hw, TRUE, Head(todo)) = Execute(dev, hw, FALSE, Head(todo))

=============================================================================
