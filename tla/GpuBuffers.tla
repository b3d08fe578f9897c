----------------------------- MODULE GpuBuffers -----------------------------
(***************************************************************************)
(* The buffer table and the command buffer of the Vulkan backend (vk.c).   *)
(* A host range that a kernel uses is interned: it has an entry with a     *)
(* copy that the device works on, and flags that say which copy is newer.  *)
(* Dispatches are recorded and executed at the next submit, while uploads  *)
(* write the device's copy at once.                                        *)
(*                                                                         *)
(* Memory is cut in cells, the rows of n_embd floats; a pointer is the     *)
(* number of a cell.  A value is what wrote it, <<call, cell>>: the model  *)
(* keeps beside the program's memory the one it would have if every kernel *)
(* ran at once on one memory (`right`), and a kernel that reads anything   *)
(* else writes Bad.                                                        *)
(*                                                                         *)
(* A state g of the runtime is [tab, cmds, host, right, wrong, full]: the  *)
(* entries, the recorded commands, both memories, and whether a kernel     *)
(* read a wrong value or the table ran full.                               *)
(***************************************************************************)
EXTENDS Integers, Sequences, SequencesExt, FiniteSetsExt

CONSTANTS
  Cap,       \* GPU_INTERN_CAP
  MaxSets,   \* GPU_MAX_SETS
  Align      \* minStorageBufferOffsetAlignment, in cells

ASSUME GpuAssumption == Cap \in Nat /\ MaxSets \in Nat \ {0} /\ Align \in Nat \ {0}

Junk == <<0, 0>>     \* never written
Bad  == <<-1, 0>>

Span(p, n) == p .. p + n - 1
HostCell(e, i) == e.host + i

\* buf_fp: of a content only the beginning is looked at, and its last byte,
\* which may well stay the same.
Fp(host, p, n) == <<n, host[p]>>

NewEntry(p, n, kind) ==
  [host |-> p, len |-> n, live |-> n, kind |-> kind, uploaded |-> FALSE, need |-> TRUE,
   dirty |-> FALSE, fp |-> <<0, Junk>>, data |-> [i \in 0 .. n - 1 |-> Junk]]

FirstOf(is) == IF is = {} THEN 0 ELSE Min(is)

\* gpu_find
Find(g, p) == FirstOf({i \in DOMAIN g.tab : g.tab[i].host = p})

\* gpu_find_containing
FindContaining(g, p, n) ==
  FirstOf({i \in DOMAIN g.tab :
             LET e == g.tab[i]
             IN /\ e.kind # "weight"
                /\ e.host <= p /\ p + n <= e.host + e.len
                /\ (p - e.host) % Align = 0})

\* gpu_find_rw
FindRw(g, p) ==
  LET i == Find(g, p)
  IN IF i # 0 THEN IF g.tab[i].kind = "rw" THEN i ELSE 0
     ELSE FirstOf({j \in DOMAIN g.tab : /\ g.tab[j].kind = "rw"
                                        /\ p \in Span(g.tab[j].host, g.tab[j].len)})

\* The live cells of an entry to the host.
Download(g, i) ==
  LET e == g.tab[i]
  IN [g EXCEPT !.host = [a \in DOMAIN @ |->
        IF a \in Span(e.host, e.live) THEN e.data[a - e.host] ELSE @[a]]]

\* A recorded command is executed: reads are [at, i, want], writes [at, i, val].
RunCommand(g, cmd) ==
  LET ok == \A r \in cmd.reads : r.want \in {Junk, g.tab[r.at].data[r.i]}
      new(k, i) == CHOOSE w \in cmd.writes : w.at = k /\ w.i = i
  IN [g EXCEPT !.wrong = @ \/ ~ok,
               !.tab = [k \in DOMAIN @ |->
                 IF \A w \in cmd.writes : w.at # k THEN @[k]
                 ELSE [@[k] EXCEPT !.data = [i \in DOMAIN @ |->
                         IF \A w \in cmd.writes : w.at # k \/ w.i # i THEN @[i]
                         ELSE IF ok THEN new(k, i).val ELSE Bad]]]]

\* submit_wait(0); the barriers between dispatches keep their order.
Submit(g) == [FoldLeft(RunCommand, g, g.cmds) EXCEPT !.cmds = <<>>]

\* submit_wait(1), gpu_sync
SubmitAll(g) ==
  LET fetch(h, i) ==
        LET d == IF h.tab[i].kind = "rw" /\ h.tab[i].dirty THEN Download(h, i) ELSE h
        IN IF d.tab[i].kind = "weight" THEN d
           ELSE [d EXCEPT !.tab[i].dirty = FALSE, !.tab[i].need = @ \/ d.tab[i].kind = "rw"]
  IN FoldLeft(fetch, Submit(g), [i \in DOMAIN g.tab |-> i])

\* gpu_intern: an entry that does not fit is made anew, when all that was
\* recorded is executed and downloaded.
Intern(g, p, n, kind) ==
  LET i == Find(g, p)
      e == g.tab[i]
      fits == e.kind = kind /\ IF kind = "weight" THEN n = e.len ELSE n <= e.len
  IN IF i = 0 /\ Len(g.tab) >= Cap THEN [g EXCEPT !.full = TRUE]
     ELSE IF i = 0 THEN [g EXCEPT !.tab = Append(@, NewEntry(p, n, kind))]
     ELSE IF fits THEN [g EXCEPT !.tab[i].live = n]
     ELSE [SubmitAll(g) EXCEPT !.tab[i] = NewEntry(p, n, kind)]

\* gpu_upload: to the copy the device has, whatever commands are recorded.
Upload(g, i) ==
  LET e == g.tab[i]
      same == e.fp = Fp(g.host, e.host, e.len)
      keep == \/ e.kind = "weight" /\ e.uploaded /\ same
              \/ e.kind = "device" /\ e.uploaded
              \/ e.kind = "rw" /\ (e.dirty \/ (~e.need /\ same))
  IN IF keep THEN g
     ELSE [g EXCEPT !.tab[i] = [e EXCEPT !.uploaded = TRUE, !.need = FALSE,
             !.fp = Fp(g.host, e.host, e.len),
             !.data = [k \in DOMAIN @ |-> IF k < e.live THEN g.host[HostCell(e, k)] ELSE @[k]]]]

\* gpu_wrote
Wrote(g, i) ==
  [g EXCEPT !.tab[i].dirty = TRUE, !.tab[i].need = FALSE, !.tab[i].uploaded = TRUE]

\* gpu_commit
Commit(g, i) ==
  LET s == Submit(g)
      d == IF s.tab[i].dirty THEN Download(s, i) ELSE s
  IN [d EXCEPT !.tab[i].dirty = FALSE, !.tab[i].need = @ \/ d.tab[i].kind = "rw"]

\* Mutant: only the pointer that was interned is looked for.
HostReadExact(g, p) ==
  LET i == Find(g, p) IN IF i = 0 \/ ~g.tab[i].dirty THEN g ELSE Commit(g, i)

\* gpu_host_read
HostRead(g, p) ==
  LET i == FindRw(g, p) IN IF i = 0 \/ ~g.tab[i].dirty THEN g ELSE Commit(g, i)

\* gpu_host_write: recorded commands may still read or write the buffer.
HostWrite(g, p) ==
  LET i == FindRw(g, p)
  IN IF i = 0 THEN g ELSE [g EXCEPT !.tab[i].need = TRUE, !.tab[i].dirty = FALSE]

\* Mutant: recorded commands are never submitted for want of descriptor sets.
DispatchMore(g, es, cmd, push) ==
  LET u == FoldLeft(Upload, g, es) IN [u EXCEPT !.cmds = Append(@, cmd)]

\* gpu_dispatch_offs with the entries es: uploads, then one more command.
Dispatch(g, es, cmd, push) ==
  LET u == FoldLeft(Upload, g, es)
      s == IF ~push /\ Len(u.cmds) >= MaxSets THEN Submit(u) ELSE u
  IN [s EXCEPT !.cmds = Append(@, cmd)]
=============================================================================
