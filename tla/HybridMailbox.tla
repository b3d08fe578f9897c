---------------------------- MODULE HybridMailbox ----------------------------
(***************************************************************************)
(* The job mailbox of the hybrid mode (src/pim_func/src/hybrid.cpp): one   *)
(* PimHybridHeader in shared memory, through which                         *)
(*   - the client, process A, submits a GEMV and waits for it              *)
(*     (pim_hybrid_submit, pim_hybrid_request_stop),                       *)
(*   - the MAC worker, a thread of process B, computes y                   *)
(*     (mac_worker_main),                                                  *)
(*   - the guest, a program inside gem5, polls for the same job and issues *)
(*     its commands to the device (pim_hybrid_guest_loop),                 *)
(*   - the controller starts and stops the MAC worker                      *)
(*     (pim_hybrid_start_mac_worker, pim_hybrid_stop_mac_worker).          *)
(*                                                                         *)
(* Every load and store of a volatile field of the header is a step of its *)
(* own.  FUTEX_WAIT compares and sleeps in one step; FUTEX_WAKE wakes who  *)
(* is asleep at that moment and leaves no trace otherwise.  pool_run is    *)
(* one step: ForkJoinPool shows that it can be taken as one.               *)
(*                                                                         *)
(* The data of a job (x, y, the fields, the commands) is represented by    *)
(* the number of the job it belongs to.  Calls that submit rejects (-1)    *)
(* touch nothing and are left out, and so is the worker's answer to a job  *)
(* without x, y, rows or columns, which submit does not let through.       *)
(***************************************************************************)
EXTENDS Integers

CONSTANTS
  SeqMod,        \* stands for 2^32: the sequence numbers are uint32_t
  CmdCounts,     \* the numbers of commands a caller passes
  MaxCmds,       \* PIM_HYBRID_MAX_CMDS
  WithGuest,     \* is gem5 running? test_hybrid.cpp has no guest
  OneProcess,    \* TRUE: test_hybrid.cpp, one thread is client and controller
  MaxJobs,       \* bound: how many jobs are submitted
  MaxRegions,    \* PIM_HYBRID_MAX_REGIONS
  MaxStarts      \* bound: how often the MAC worker is started

ASSUME MailboxAssumption ==
  /\ SeqMod \in Nat \ {0, 1}
  /\ CmdCounts \subseteq Nat /\ MaxCmds \in Nat
  /\ WithGuest \in BOOLEAN /\ OneProcess \in BOOLEAN
  /\ MaxJobs \in Nat /\ MaxRegions \in Nat /\ MaxStarts \in Nat

VARIABLES
  \* the header
  stop, gemvSeq, gemvDone, isrSeq, isrDone,
  nCmds, nRegions,
  xJob,          \* the job x and y of the scratch belong to
  hdrJob,        \* the job the fields and the commands belong to
  \* the client: program counter, number of its latest job and of the commands
  \* submit was called with, the value it passes to futex_wait
  cpc, job, cargs, cexp,
  \* the MAC worker: program counter, seen, regions it has adopted
  wpc, wseen, adopted,
  \* the guest: program counter, seen, index of the next command, the job
  \* whose x is in the GPRs
  gpc, gseen, gnext, gpr,
  \* the controller: program counter, number of starts
  bpc, starts,
  \* counters of this model: how often y was computed for the latest job and
  \* how many commands were issued since it was submitted
  macs, issued

seqs    == <<stop, gemvSeq, gemvDone, isrSeq, isrDone>>
data    == <<nCmds, nRegions, xJob, hdrJob>>
client  == <<cpc, job, cargs, cexp>>
worker  == <<wpc, wseen, adopted>>
guest   == <<gpc, gseen, gnext, gpr>>
control == <<bpc, starts>>
counts  == <<macs, issued>>
vars    == <<seqs, data, client, worker, guest, control, counts>>

Seqs == 0 .. SeqMod - 1

\* Commands that do not fit are dropped.
Fitting(n) == IF n > MaxCmds THEN MaxCmds ELSE n

\* g_hdr->gemv_seq + 1 while submit has not stored it, else the job's number.
NextSeq == (gemvSeq + 1) % SeqMod

Init ==
  /\ stop = 0 /\ gemvSeq = 0 /\ gemvDone = 0 /\ isrSeq = 0 /\ isrDone = 0
  /\ nCmds = 0 /\ nRegions = 0 /\ xJob = 0 /\ hdrJob = 0
  /\ cpc = "idle" /\ job = 0 /\ cargs = 0 /\ cexp = 0
  /\ wpc = "none" /\ wseen = 0 /\ adopted = 0
  /\ gpc = "top" /\ gseen = 0 /\ gnext = 0 /\ gpr = 0
  /\ bpc = "off" /\ starts = 0
  /\ macs = 0 /\ issued = 0

\* With one thread, the client acts only while the controller has nothing to
\* do, and the controller only between two calls of the client.
ClientTurn  == OneProcess => bpc \in {"off", "on"}
ControlTurn == OneProcess => cpc = "idle"

\* futex_wake(&gemv_seq, n) and futex_wake(&gemv_done, n)
WakeWorker == wpc' = IF wpc = "asleep" THEN "top" ELSE wpc
WakeClient == cpc' = IF cpc = "asleep" THEN "check" ELSE cpc

-----------------------------------------------------------------------------
(* The client.                                                             *)

\* pim_hybrid_record_region, called by pim_prepare between two submits: the
\* region is filled in and then counted; a full table refuses it.
RecordRegion ==
  /\ cpc = "idle" /\ ClientTurn
  /\ nRegions < MaxRegions
  /\ nRegions' = nRegions + 1
  /\ UNCHANGED <<seqs, nCmds, xJob, hdrJob, client, worker, guest, control, counts>>

\* pim_hybrid_submit: x is copied to the scratch, and y if it is to be
\* accumulated.
Submit(n) ==
  /\ cpc = "idle" /\ ClientTurn /\ job < MaxJobs
  /\ job' = job + 1 /\ cargs' = n
  /\ xJob' = job + 1
  /\ macs' = 0 /\ issued' = 0
  /\ cpc' = "fields"
  /\ UNCHANGED <<seqs, nCmds, nRegions, hdrJob, cexp, worker, guest, control>>

\* The commands, at most MaxCmds of them, and the fields of the job.
WriteFields ==
  /\ cpc = "fields"
  /\ nCmds' = Fitting(cargs)
  /\ hdrJob' = job
  /\ cpc' = "isr"
  /\ UNCHANGED <<seqs, nRegions, xJob, job, cargs, cexp, worker, guest, control, counts>>

\* g_hdr->isr_seq = seq
StoreIsrSeq ==
  /\ cpc = "isr"
  /\ isrSeq' = NextSeq
  /\ cpc' = "gemv"
  /\ UNCHANGED <<stop, gemvSeq, gemvDone, isrDone, data, job, cargs, cexp, worker,
                 guest, control, counts>>

\* Mutant: the sequence number is wider than the mailbox's.
StoreGemvSeqWide ==
  /\ cpc = "gemv"
  /\ gemvSeq' = gemvSeq + 1
  /\ cpc' = "wake"
  /\ UNCHANGED <<stop, gemvDone, isrSeq, isrDone, data, job, cargs, cexp, worker,
                 guest, control, counts>>

\* g_hdr->gemv_seq = seq
StoreGemvSeq ==
  /\ cpc = "gemv"
  /\ gemvSeq' = NextSeq
  /\ cpc' = "wake"
  /\ UNCHANGED <<stop, gemvDone, isrSeq, isrDone, data, job, cargs, cexp, worker,
                 guest, control, counts>>

\* Mutant: submit relies on the worker to poll.
WakeForJobNone ==
  /\ cpc = "wake"
  /\ cpc' = "check"
  /\ UNCHANGED <<seqs, data, job, cargs, cexp, worker, guest, control, counts>>

\* futex_wake(&g_hdr->gemv_seq, 1)
WakeForJob ==
  /\ cpc = "wake"
  /\ WakeWorker
  /\ cpc' = "check"
  /\ UNCHANGED <<seqs, data, job, cargs, cexp, wseen, adopted, guest, control, counts>>

\* Mutant: an old answer is taken for the new one.
CheckDoneStale ==
  /\ cpc = "check"
  /\ cpc' = IF gemvDone \in {gemvSeq, (gemvSeq + SeqMod - 1) % SeqMod}
            THEN "polled" ELSE "expect"
  /\ UNCHANGED <<seqs, data, job, cargs, cexp, worker, guest, control, counts>>

\* while (g_hdr->gemv_done != seq)
CheckDone ==
  /\ cpc = "check"
  /\ cpc' = IF gemvDone = gemvSeq THEN "polled" ELSE "expect"
  /\ UNCHANGED <<seqs, data, job, cargs, cexp, worker, guest, control, counts>>

\* The second argument of futex_wait: gemv_done is read once more.
ReadExpected ==
  /\ cpc = "expect"
  /\ cexp' = gemvDone
  /\ cpc' = "futex"
  /\ UNCHANGED <<seqs, data, job, cargs, worker, guest, control, counts>>

\* futex_wait(&g_hdr->gemv_done, cexp)
ClientFutex ==
  /\ cpc = "futex"
  /\ cpc' = IF gemvDone = cexp THEN "asleep" ELSE "check"
  /\ UNCHANGED <<seqs, data, job, cargs, cexp, worker, guest, control, counts>>

\* Mutant: submit does not wait for the guest.
AwaitIsrNot ==
  /\ cpc = "polled"
  /\ cpc' = "copy"
  /\ UNCHANGED <<seqs, data, job, cargs, cexp, worker, guest, control, counts>>

\* if (n_cmds > 0) while (isr_done != seq) sched_yield()
AwaitIsr ==
  /\ cpc = "polled"
  /\ nCmds > 0 => isrDone = gemvSeq
  /\ cpc' = "copy"
  /\ UNCHANGED <<seqs, data, job, cargs, cexp, worker, guest, control, counts>>

\* y is copied out of the scratch, and submit returns 0.
Return ==
  /\ cpc = "copy"
  /\ cpc' = "idle"
  /\ UNCHANGED <<seqs, data, job, cargs, cexp, worker, guest, control, counts>>

\* pim_hybrid_request_stop
RequestStop ==
  /\ cpc = "idle" /\ ClientTurn
  /\ stop' = 1
  /\ cpc' = "stop"
  /\ UNCHANGED <<gemvSeq, gemvDone, isrSeq, isrDone, data, job, cargs, cexp, worker,
                 guest, control, counts>>

\* Its two futex_wakes; the only thread that could sleep on gemv_done is the
\* caller itself.
WakeForStop ==
  /\ cpc = "stop"
  /\ WakeWorker
  /\ cpc' = "idle"
  /\ UNCHANGED <<seqs, data, job, cargs, cexp, wseen, adopted, guest, control, counts>>

ClientStep == \/ WriteFields \/ StoreIsrSeq \/ StoreGemvSeq \/ WakeForJob \/ CheckDone
              \/ ReadExpected \/ ClientFutex \/ AwaitIsr \/ Return \/ WakeForStop

-----------------------------------------------------------------------------
(* The MAC worker.                                                         *)

\* while (h && !h->stop)
WorkerTop ==
  /\ wpc = "top"
  /\ wpc' = IF stop = 1 THEN "gone" ELSE "read"
  /\ UNCHANGED <<seqs, data, client, wseen, adopted, guest, control, counts>>

\* Mutant: the worker does not remember the job it took.
WorkerReadAgain ==
  /\ wpc = "read"
  /\ wpc' = IF gemvSeq = wseen THEN "futex" ELSE "sync"
  /\ UNCHANGED <<seqs, data, client, wseen, adopted, guest, control, counts>>

\* seq = h->gemv_seq; a new number is remembered as seen.
WorkerRead ==
  /\ wpc = "read"
  /\ wpc' = IF gemvSeq = wseen THEN "futex" ELSE "sync"
  /\ wseen' = gemvSeq
  /\ UNCHANGED <<seqs, data, client, adopted, guest, control, counts>>

\* futex_wait(&h->gemv_seq, seq), where seq = seen
WorkerFutex ==
  /\ wpc = "futex"
  /\ wpc' = IF gemvSeq = wseen THEN "asleep" ELSE "top"
  /\ UNCHANGED <<seqs, data, client, wseen, adopted, guest, control, counts>>

\* hybrid_sync_dram: adopt the regions recorded so far.
WorkerSync ==
  /\ wpc = "sync"
  /\ adopted' = nRegions
  /\ wpc' = "mac"
  /\ UNCHANGED <<seqs, data, client, wseen, guest, control, counts>>

\* pool_run over the waves of the job
WorkerMac ==
  /\ wpc = "mac"
  /\ macs' = macs + 1
  /\ wpc' = "answer"
  /\ UNCHANGED <<seqs, data, client, wseen, adopted, guest, control, issued>>

\* h->gemv_done = seq
WorkerAnswer ==
  /\ wpc = "answer"
  /\ gemvDone' = wseen
  /\ wpc' = "wake"
  /\ UNCHANGED <<stop, gemvSeq, isrSeq, isrDone, data, client, wseen, adopted,
                 guest, control, counts>>

\* futex_wake(&h->gemv_done, 1)
WorkerWake ==
  /\ wpc = "wake"
  /\ WakeClient
  /\ wpc' = "top"
  /\ UNCHANGED <<seqs, data, job, cargs, cexp, wseen, adopted, guest, control, counts>>

WorkerStep == \/ WorkerTop \/ WorkerRead \/ WorkerFutex \/ WorkerSync
              \/ WorkerMac \/ WorkerAnswer \/ WorkerWake

-----------------------------------------------------------------------------
(* The guest.                                                              *)

\* Mutant: the guest never looks at stop.
GuestTopForever ==
  /\ WithGuest /\ gpc = "top"
  /\ gpc' = "read"
  /\ UNCHANGED <<seqs, data, client, worker, gseen, gnext, gpr, control, counts>>

\* while (!h->stop)
GuestTop ==
  /\ WithGuest /\ gpc = "top"
  /\ gpc' = IF stop = 1 THEN "gone" ELSE "read"
  /\ UNCHANGED <<seqs, data, client, worker, gseen, gnext, gpr, control, counts>>

\* seq = h->isr_seq; a new number is remembered as seen.
GuestRead ==
  /\ gpc = "read"
  /\ gpc' = IF isrSeq = gseen THEN "top" ELSE "pack"
  /\ gseen' = isrSeq
  /\ UNCHANGED <<seqs, data, client, worker, gnext, gpr, control, counts>>

\* mmio_pack_x_from and the zero column behind x
GuestPack ==
  /\ gpc = "pack"
  /\ gpr' = xJob
  /\ gnext' = 0
  /\ gpc' = "issue"
  /\ UNCHANGED <<seqs, data, client, worker, gseen, control, counts>>

\* for (i = 0; i < h->n_cmds; i++) issue_one(h->cmds[i])
GuestIssue ==
  /\ gpc = "issue"
  /\ IF gnext < nCmds
     THEN /\ gnext' = gnext + 1
          /\ issued' = issued + 1
          /\ UNCHANGED gpc
     ELSE /\ gpc' = "answer"
          /\ UNCHANGED <<gnext, issued>>
  /\ UNCHANGED <<seqs, data, client, worker, gseen, gpr, control, macs>>

\* Mutant: the guest answers with the number it is handed at that moment.
GuestAnswerLatest ==
  /\ gpc = "answer"
  /\ isrDone' = gemvSeq
  /\ gpc' = "top"
  /\ UNCHANGED <<stop, gemvSeq, gemvDone, isrSeq, data, client, worker, gseen,
                 gnext, gpr, control, counts>>

\* h->isr_done = seq
GuestAnswer ==
  /\ gpc = "answer"
  /\ isrDone' = gseen
  /\ gpc' = "top"
  /\ UNCHANGED <<stop, gemvSeq, gemvDone, isrSeq, data, client, worker, gseen,
                 gnext, gpr, control, counts>>

GuestStep == GuestTop \/ GuestRead \/ GuestPack \/ GuestIssue \/ GuestAnswer

-----------------------------------------------------------------------------
(* The controller.                                                         *)

\* pim_hybrid_start_mac_worker
StartMacWorker ==
  /\ bpc = "off" /\ ControlTurn /\ starts < MaxStarts
  /\ starts' = starts + 1
  /\ wpc' = "top" /\ wseen' = 0
  /\ bpc' = "on"
  /\ UNCHANGED <<seqs, data, client, adopted, guest, counts>>

\* pim_hybrid_stop_mac_worker, unless no worker has been started
StopMacWorker ==
  /\ bpc = "on" /\ ControlTurn
  /\ stop' = 1
  /\ bpc' = "wake"
  /\ UNCHANGED <<gemvSeq, gemvDone, isrSeq, isrDone, data, client, worker,
                 guest, starts, counts>>

\* futex_wake(&g_hdr->gemv_seq, 8)
StopWake ==
  /\ bpc = "wake"
  /\ WakeWorker
  /\ bpc' = "join"
  /\ UNCHANGED <<seqs, data, client, wseen, adopted, guest, starts, counts>>

\* pthread_join(g_mac_th)
StopJoin ==
  /\ bpc = "join" /\ wpc = "gone"
  /\ bpc' = "off"
  /\ UNCHANGED <<seqs, data, client, worker, guest, starts, counts>>

ControlStep == StopWake \/ StopJoin

-----------------------------------------------------------------------------
\* A signal may end a futex_wait at any time (EINTR).
Interrupt ==
  /\ \/ /\ cpc = "asleep" /\ cpc' = "check"
        /\ UNCHANGED wpc
     \/ /\ wpc = "asleep" /\ wpc' = "top"
        /\ UNCHANGED cpc
  /\ UNCHANGED <<seqs, data, job, cargs, cexp, wseen, adopted, guest, control, counts>>

Next == \/ RecordRegion \/ (\E n \in CmdCounts : Submit(n)) \/ RequestStop \/ ClientStep
        \/ WorkerStep
        \/ GuestStep
        \/ StartMacWorker \/ StopMacWorker \/ ControlStep
        \/ Interrupt

Spec == Init /\ [][Next]_vars

\* Every thread is scheduled again and again.  Nobody owes anyone a call, and
\* nobody a signal.
Fairness == /\ WF_vars(ClientStep)
            /\ WF_vars(WorkerStep)
            /\ WF_vars(GuestStep)
            /\ WF_vars(ControlStep)

FairSpec == Spec /\ Fairness

-----------------------------------------------------------------------------
(* Properties.                                                             *)

TypeOK ==
  /\ stop \in {0, 1}
  /\ {gemvSeq, gemvDone, isrSeq, isrDone} \subseteq Seqs
  /\ nCmds \in 0 .. MaxCmds /\ nRegions \in 0 .. MaxRegions
  /\ job \in 0 .. MaxJobs /\ {xJob, hdrJob, gpr} \subseteq 0 .. job
  /\ cpc \in {"idle", "fields", "isr", "gemv", "wake", "check", "expect",
              "futex", "asleep", "polled", "copy", "stop"}
  /\ cargs \in CmdCounts \cup {0} /\ cexp \in Seqs
  /\ wpc \in {"none", "top", "read", "futex", "asleep", "sync", "mac",
              "answer", "wake", "gone"}
  /\ wseen \in Seqs /\ adopted \in 0 .. MaxRegions
  /\ gpc \in {"top", "read", "pack", "issue", "answer", "gone"}
  /\ gseen \in Seqs /\ gnext \in 0 .. MaxCmds
  /\ bpc \in {"off", "on", "wake", "join"} /\ starts \in 0 .. MaxStarts
  /\ macs \in Nat /\ issued \in Nat

\* The client has published the job and has not seen the answer.
Pending == cpc \in {"wake", "check", "expect", "futex", "asleep"}

\* While the worker is at a job, the client waits for that very job: x, y,
\* the fields and the regions it uses are those of the job and stay so.
WorkerInWindow ==
  wpc \in {"sync", "mac", "answer"} =>
    /\ Pending /\ wseen = gemvSeq
    /\ xJob = job /\ hdrJob = job
    /\ wpc # "sync" => adopted = nRegions

\* While the guest is at a job that has commands, submit has not returned:
\* x and the commands it reads are those of the job, all of them.
GuestInWindow ==
  gpc \in {"pack", "issue", "answer"} =>
    /\ cpc \in {"gemv", "polled"} \/ Pending
    /\ gseen = isrSeq
    /\ xJob = job /\ hdrJob = job
    /\ gpc # "pack" => gpr = job

\* The mailbox is a remote call: each submit that returns has had its y
\* computed exactly once and exactly its own commands issued.
RG == INSTANCE RemoteGemv
        WITH open <- cpc \notin {"idle", "stop"},
             cmds <- Fitting(cargs)
ImplementsRemoteGemv == RG!Spec

\* No job is lost: once there is a worker, every published job is answered,
\* unless a stop comes first.
MacAnswers == (gemvSeq # gemvDone /\ wpc # "none")
                ~> (gemvSeq = gemvDone \/ stop = 1)

\* The same for the guest.
GuestAnswers == (isrSeq # isrDone) ~> (isrSeq = isrDone \/ stop = 1)

\* "Returns 0 on stop."
GuestStops == (stop = 1) ~> (gpc = "gone")

\* A submit to a running worker returns.
SubmitReturns == (cpc = "wake" /\ bpc = "on" /\ stop = 0) ~> (cpc = "idle")

\* pim_hybrid_stop_mac_worker returns.
StopReturns == (bpc = "wake") ~> (bpc = "off")
=============================================================================
