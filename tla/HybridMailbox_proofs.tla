------------------------ MODULE HybridMailbox_proofs ------------------------
(***************************************************************************)
(* Proofs about HybridMailbox, for every modulus of the sequence numbers,  *)
(* every number of jobs, commands and regions, one process or two.  The    *)
(* inductive invariant has one part per thread: what the worker has seen   *)
(* (SeenInv), which job it is at (TakenInv), what the client has published *)
(* (ClientInv), how often y was computed (MacInv) and, where the jobs      *)
(* match the guest, what the guest has seen and issued (GuestInv).         *)
(***************************************************************************)
EXTENDS HybridMailbox, TLAPS

\* Under gem5 every job has commands, and without a guest none has: submit
\* does not wait for the guest when a job has none.
JobsMatchGuest ==
  IF WithGuest THEN MaxCmds > 0 /\ 0 \notin CmdCounts ELSE CmdCounts \subseteq {0}

\* What the worker has seen is what it has answered, unless it is at a job or
\* about to leave; a worker that is started again finds stop set.
SeenInv ==
  /\ wpc = "none" => gemvDone = 0 /\ bpc = "off"
  /\ bpc = "off" => wpc \in {"none", "gone"}
  /\ wpc = "gone" => stop = 1
  /\ wpc \in {"read", "futex", "asleep", "wake"} => wseen = gemvDone
  /\ wpc = "top" /\ stop = 0 => wseen = gemvDone

\* The job the worker is at is the one the client waits for.
TakenInv ==
  wpc \in {"sync", "mac", "answer"} =>
    /\ Pending /\ wseen = gemvSeq /\ gemvSeq # gemvDone
    /\ wpc # "sync" => adopted = nRegions

\* What is published is answered before the next submit, and the scratch and
\* the header hold the latest job from WriteFields on.
ClientInv ==
  /\ ~Pending => gemvDone = gemvSeq
  /\ xJob = job
  /\ cpc # "fields" => hdrJob = job
  /\ cpc \notin {"idle", "stop"} => cargs \in CmdCounts

\* y has been computed once when the answer is there, and not before.
MacInv ==
  /\ cpc \in {"fields", "isr", "gemv"} => macs = 0
  /\ Pending => macs = IF gemvDone = gemvSeq \/ wpc = "answer" THEN 1 ELSE 0
  /\ cpc \in {"polled", "copy"} => macs = 1

WorkerInv == SeenInv /\ TakenInv /\ ClientInv /\ MacInv

\* The guest may be at the job: isr_seq is stored and submit has not seen
\* isr_done.
Exposed == cpc \in {"gemv", "polled"} \/ Pending

\* How many commands of an exposed job the guest has issued.
IssuedSoFar == IF isrDone = isrSeq \/ gpc = "answer" THEN nCmds
               ELSE IF gpc = "issue" THEN gnext ELSE 0

\* The guest is at the exposed job or at none.
GuestSeenInv ==
  /\ ~Exposed => isrDone = isrSeq
  /\ isrSeq = IF cpc = "gemv" THEN NextSeq ELSE gemvSeq
  /\ gpc \in {"top", "read"} => gseen = isrDone
  /\ gpc \in {"pack", "issue", "answer"} => gseen = isrSeq /\ isrSeq # isrDone
  /\ gpc \in {"issue", "answer"} => gpr = job

IssuedInv ==
  /\ cpc \notin {"idle", "stop", "fields"} => nCmds = Fitting(cargs)
  /\ cpc \in {"fields", "isr"} => issued = 0
  /\ Exposed => issued = IssuedSoFar
  /\ gpc = "issue" => gnext <= nCmds
  /\ cpc = "copy" => issued = nCmds

NoGuestInv == gpc = "top" /\ nCmds = 0 /\ issued = 0 /\ cargs = 0

GuestInv == IF WithGuest THEN GuestSeenInv /\ IssuedInv ELSE NoGuestInv

IInv == TypeOK /\ WorkerInv /\ GuestInv
-----------------------------------------------------------------------------
LEMMA Bounds == /\ SeqMod \in Nat \ {0, 1} /\ CmdCounts \subseteq Nat
                /\ MaxCmds \in Nat /\ MaxJobs \in Nat /\ MaxRegions \in Nat
                /\ MaxStarts \in Nat
  BY MailboxAssumption

\* The next sequence number is another one, also when the counter wraps.
LEMMA NextSeqType == ASSUME gemvSeq \in Seqs
                     PROVE  NextSeq \in Seqs /\ NextSeq # gemvSeq
<1> USE Bounds DEF Seqs, NextSeq
<1>1. CASE gemvSeq = SeqMod - 1
  <2>1. (gemvSeq + 1) % SeqMod = 0
    BY <1>1
  <2> QED
    BY <1>1, <2>1
<1>2. CASE gemvSeq < SeqMod - 1
  <2>1. (gemvSeq + 1) % SeqMod = gemvSeq + 1
    BY <1>2
  <2> QED
    BY <1>2, <2>1
<1> QED
  BY <1>1, <1>2

LEMMA FittingType == ASSUME NEW n \in Nat
                     PROVE  /\ Fitting(n) \in 0 .. MaxCmds
                            /\ MaxCmds > 0 /\ n # 0 => Fitting(n) > 0
                            /\ n = 0 => Fitting(n) = 0
  BY Bounds DEF Fitting

LEMMA TypeStep ==
  ASSUME TypeOK, [Next]_vars
  PROVE  TypeOK'
<1> USE Bounds DEF seqs, data, client, worker, guest, control, counts, Seqs
<1>1. CASE RecordRegion
  BY <1>1 DEF TypeOK, RecordRegion
<1>2. ASSUME NEW n \in CmdCounts, Submit(n) PROVE TypeOK'
  BY <1>2 DEF TypeOK, Submit
<1>3. CASE RequestStop
  BY <1>3 DEF TypeOK, RequestStop
<1>4. CASE WriteFields
  <2>1. Fitting(cargs) \in 0 .. MaxCmds
    BY FittingType, Bounds DEF TypeOK
  <2> QED
    BY <1>4, <2>1 DEF TypeOK, WriteFields
<1>5. CASE StoreIsrSeq
  BY <1>5, NextSeqType DEF TypeOK, StoreIsrSeq
<1>6. CASE StoreGemvSeq
  BY <1>6, NextSeqType DEF TypeOK, StoreGemvSeq
<1>7. CASE WakeForJob
  BY <1>7 DEF TypeOK, WakeForJob, WakeWorker
<1>8. CASE CheckDone
  BY <1>8 DEF TypeOK, CheckDone
<1>9. CASE ReadExpected
  BY <1>9 DEF TypeOK, ReadExpected
<1>10. CASE ClientFutex
  BY <1>10 DEF TypeOK, ClientFutex
<1>11. CASE AwaitIsr
  BY <1>11 DEF TypeOK, AwaitIsr
<1>12. CASE Return
  BY <1>12 DEF TypeOK, Return
<1>13. CASE WakeForStop
  BY <1>13 DEF TypeOK, WakeForStop, WakeWorker
<1>14. CASE WorkerTop
  BY <1>14 DEF TypeOK, WorkerTop
<1>15. CASE WorkerRead
  BY <1>15 DEF TypeOK, WorkerRead
<1>16. CASE WorkerFutex
  BY <1>16 DEF TypeOK, WorkerFutex
<1>17. CASE WorkerSync
  BY <1>17 DEF TypeOK, WorkerSync
<1>18. CASE WorkerMac
  BY <1>18 DEF TypeOK, WorkerMac
<1>19. CASE WorkerAnswer
  BY <1>19 DEF TypeOK, WorkerAnswer
<1>20. CASE WorkerWake
  BY <1>20 DEF TypeOK, WorkerWake, WakeClient
<1>21. CASE GuestTop
  BY <1>21 DEF TypeOK, GuestTop
<1>22. CASE GuestRead
  BY <1>22 DEF TypeOK, GuestRead
<1>23. CASE GuestPack
  BY <1>23 DEF TypeOK, GuestPack
<1>24. CASE GuestIssue
  BY <1>24 DEF TypeOK, GuestIssue
<1>25. CASE GuestAnswer
  BY <1>25 DEF TypeOK, GuestAnswer
<1>26. CASE StartMacWorker
  BY <1>26 DEF TypeOK, StartMacWorker
<1>27. CASE StopMacWorker
  BY <1>27 DEF TypeOK, StopMacWorker
<1>28. CASE StopWake
  BY <1>28 DEF TypeOK, StopWake, WakeWorker
<1>29. CASE StopJoin
  BY <1>29 DEF TypeOK, StopJoin
<1>30. CASE Interrupt
  BY <1>30 DEF TypeOK, Interrupt
<1>31. CASE UNCHANGED vars
  BY <1>31 DEF TypeOK, vars
<1> QED
  BY <1>1, <1>2, <1>3, <1>4, <1>5, <1>6, <1>7, <1>8, <1>9, <1>10, <1>11, <1>12, <1>13,
     <1>14, <1>15, <1>16, <1>17, <1>18, <1>19, <1>20, <1>21, <1>22, <1>23, <1>24,
     <1>25, <1>26, <1>27, <1>28, <1>29, <1>30, <1>31
  DEF Next, ClientStep, WorkerStep, GuestStep, ControlStep

\* The variables keep their types, whatever the constants.
THEOREM TypeCorrect == Spec => []TypeOK
<1>1. Init => TypeOK
  BY Bounds DEF Init, TypeOK, Seqs
<1>2. TypeOK /\ [Next]_vars => TypeOK'
  BY TypeStep
<1> QED
  BY <1>1, <1>2, PTL DEF Spec

LEMMA WorkerInvStep ==
  ASSUME TypeOK, WorkerInv, [Next]_vars
  PROVE  WorkerInv'
<1> USE DEF seqs, data, client, worker, guest, control, counts,
            TypeOK, WorkerInv, SeenInv, TakenInv, ClientInv, MacInv, Pending
<1>1. CASE RecordRegion
  BY <1>1 DEF RecordRegion
<1>2. ASSUME NEW n \in CmdCounts, Submit(n) PROVE WorkerInv'
  BY <1>2 DEF Submit
<1>3. CASE RequestStop
  BY <1>3 DEF RequestStop
<1>4. CASE WriteFields
  BY <1>4 DEF WriteFields
<1>5. CASE StoreIsrSeq
  BY <1>5, NextSeqType DEF StoreIsrSeq
<1>6. CASE StoreGemvSeq
  BY <1>6, NextSeqType DEF StoreGemvSeq
<1>7. CASE WakeForJob
  BY <1>7 DEF WakeForJob, WakeWorker
<1>8. CASE CheckDone
  BY <1>8 DEF CheckDone
<1>9. CASE ReadExpected
  BY <1>9 DEF ReadExpected
<1>10. CASE ClientFutex
  BY <1>10 DEF ClientFutex
<1>11. CASE AwaitIsr
  BY <1>11 DEF AwaitIsr
<1>12. CASE Return
  BY <1>12 DEF Return
<1>13. CASE WakeForStop
  BY <1>13 DEF WakeForStop, WakeWorker
<1>14. CASE WorkerTop
  BY <1>14 DEF WorkerTop
<1>15. CASE WorkerRead
  BY <1>15 DEF WorkerRead
<1>16. CASE WorkerFutex
  BY <1>16 DEF WorkerFutex
<1>17. CASE WorkerSync
  BY <1>17 DEF WorkerSync
<1>18. CASE WorkerMac
  BY <1>18 DEF WorkerMac
<1>19. CASE WorkerAnswer
  BY <1>19 DEF WorkerAnswer
<1>20. CASE WorkerWake
  BY <1>20 DEF WorkerWake, WakeClient
<1>21. CASE GuestTop
  BY <1>21 DEF GuestTop
<1>22. CASE GuestRead
  BY <1>22 DEF GuestRead
<1>23. CASE GuestPack
  BY <1>23 DEF GuestPack
<1>24. CASE GuestIssue
  BY <1>24 DEF GuestIssue
<1>25. CASE GuestAnswer
  BY <1>25 DEF GuestAnswer
<1>26. CASE StartMacWorker
  BY <1>26 DEF StartMacWorker
<1>27. CASE StopMacWorker
  BY <1>27 DEF StopMacWorker
<1>28. CASE StopWake
  BY <1>28 DEF StopWake, WakeWorker
<1>29. CASE StopJoin
  BY <1>29 DEF StopJoin
<1>30. CASE Interrupt
  BY <1>30 DEF Interrupt
<1>31. CASE UNCHANGED vars
  BY <1>31 DEF vars
<1> QED
  BY <1>1, <1>2, <1>3, <1>4, <1>5, <1>6, <1>7, <1>8, <1>9, <1>10, <1>11, <1>12, <1>13,
     <1>14, <1>15, <1>16, <1>17, <1>18, <1>19, <1>20, <1>21, <1>22, <1>23, <1>24,
     <1>25, <1>26, <1>27, <1>28, <1>29, <1>30, <1>31
  DEF Next, ClientStep, WorkerStep, GuestStep, ControlStep

LEMMA GuestSeenStep ==
  ASSUME TypeOK, WorkerInv, WithGuest, GuestSeenInv, IssuedInv, JobsMatchGuest, [Next]_vars
  PROVE  GuestSeenInv'
<1> USE DEF seqs, data, client, worker, guest, control, counts, Exposed, Pending
<1>1. CASE RecordRegion
  BY <1>1 DEF TypeOK, GuestSeenInv, NextSeq, RecordRegion
<1>2. ASSUME NEW n \in CmdCounts, Submit(n) PROVE GuestSeenInv'
  BY <1>2 DEF TypeOK, GuestSeenInv, NextSeq, Submit
<1>3. CASE RequestStop
  BY <1>3 DEF TypeOK, GuestSeenInv, NextSeq, RequestStop
<1>4. CASE WriteFields
  BY <1>4 DEF TypeOK, GuestSeenInv, NextSeq, WriteFields
<1>5. CASE StoreIsrSeq
  <2>1. NextSeq # gemvSeq
    BY NextSeqType DEF TypeOK
  <2> QED
    BY <1>5, <2>1 DEF GuestSeenInv, NextSeq, StoreIsrSeq
<1>6. CASE StoreGemvSeq
  BY <1>6 DEF TypeOK, GuestSeenInv, NextSeq, StoreGemvSeq
<1>7. CASE WakeForJob
  BY <1>7 DEF TypeOK, GuestSeenInv, NextSeq, WakeForJob, WakeWorker
<1>8. CASE CheckDone
  BY <1>8 DEF TypeOK, GuestSeenInv, NextSeq, CheckDone
<1>9. CASE ReadExpected
  BY <1>9 DEF TypeOK, GuestSeenInv, NextSeq, ReadExpected
<1>10. CASE ClientFutex
  BY <1>10 DEF TypeOK, GuestSeenInv, NextSeq, ClientFutex
<1>11. CASE AwaitIsr
  <2>1. cargs \in Nat /\ cargs # 0 /\ MaxCmds > 0 /\ nCmds = Fitting(cargs)
    BY <1>11, Bounds DEF WorkerInv, ClientInv, IssuedInv, JobsMatchGuest, AwaitIsr
  <2>2. isrDone = gemvSeq
    BY <1>11, <2>1, FittingType, Bounds DEF AwaitIsr
  <2> QED
    BY <1>11, <2>2 DEF GuestSeenInv, NextSeq, AwaitIsr
<1>12. CASE Return
  BY <1>12 DEF TypeOK, GuestSeenInv, NextSeq, Return
<1>13. CASE WakeForStop
  BY <1>13 DEF TypeOK, GuestSeenInv, NextSeq, WakeForStop, WakeWorker
<1>14. CASE WorkerTop
  BY <1>14 DEF TypeOK, GuestSeenInv, NextSeq, WorkerTop
<1>15. CASE WorkerRead
  BY <1>15 DEF TypeOK, GuestSeenInv, NextSeq, WorkerRead
<1>16. CASE WorkerFutex
  BY <1>16 DEF TypeOK, GuestSeenInv, NextSeq, WorkerFutex
<1>17. CASE WorkerSync
  BY <1>17 DEF TypeOK, GuestSeenInv, NextSeq, WorkerSync
<1>18. CASE WorkerMac
  BY <1>18 DEF TypeOK, GuestSeenInv, NextSeq, WorkerMac
<1>19. CASE WorkerAnswer
  BY <1>19 DEF TypeOK, GuestSeenInv, NextSeq, WorkerAnswer
<1>20. CASE WorkerWake
  BY <1>20 DEF TypeOK, GuestSeenInv, NextSeq, WorkerWake, WakeClient
<1>21. CASE GuestTop
  BY <1>21 DEF TypeOK, GuestSeenInv, NextSeq, GuestTop
<1>22. CASE GuestRead
  BY <1>22 DEF TypeOK, GuestSeenInv, NextSeq, GuestRead
<1>23. CASE GuestPack
  <2>1. xJob = job
    BY DEF WorkerInv, ClientInv
  <2> QED
    BY <1>23, <2>1 DEF TypeOK, GuestSeenInv, NextSeq, GuestPack
<1>24. CASE GuestIssue
  BY <1>24 DEF TypeOK, GuestSeenInv, NextSeq, GuestIssue
<1>25. CASE GuestAnswer
  BY <1>25 DEF TypeOK, GuestSeenInv, NextSeq, GuestAnswer
<1>26. CASE StartMacWorker
  BY <1>26 DEF TypeOK, GuestSeenInv, NextSeq, StartMacWorker
<1>27. CASE StopMacWorker
  BY <1>27 DEF TypeOK, GuestSeenInv, NextSeq, StopMacWorker
<1>28. CASE StopWake
  BY <1>28 DEF TypeOK, GuestSeenInv, NextSeq, StopWake, WakeWorker
<1>29. CASE StopJoin
  BY <1>29 DEF TypeOK, GuestSeenInv, NextSeq, StopJoin
<1>30. CASE Interrupt
  BY <1>30 DEF TypeOK, GuestSeenInv, NextSeq, Interrupt
<1>31. CASE UNCHANGED vars
  BY <1>31 DEF TypeOK, GuestSeenInv, NextSeq, vars
<1> QED
  BY <1>1, <1>2, <1>3, <1>4, <1>5, <1>6, <1>7, <1>8, <1>9, <1>10, <1>11, <1>12, <1>13,
     <1>14, <1>15, <1>16, <1>17, <1>18, <1>19, <1>20, <1>21, <1>22, <1>23, <1>24,
     <1>25, <1>26, <1>27, <1>28, <1>29, <1>30, <1>31
  DEF Next, ClientStep, WorkerStep, GuestStep, ControlStep

LEMMA IssuedStep ==
  ASSUME TypeOK, WorkerInv, WithGuest, GuestSeenInv, IssuedInv, JobsMatchGuest, [Next]_vars
  PROVE  IssuedInv'
<1> USE DEF seqs, data, client, worker, guest, control, counts, Exposed, Pending
<1>1. CASE RecordRegion
  BY <1>1 DEF TypeOK, GuestSeenInv, IssuedInv, IssuedSoFar, Fitting, RecordRegion
<1>2. ASSUME NEW n \in CmdCounts, Submit(n) PROVE IssuedInv'
  BY <1>2 DEF TypeOK, GuestSeenInv, IssuedInv, IssuedSoFar, Fitting, Submit
<1>3. CASE RequestStop
  BY <1>3 DEF TypeOK, GuestSeenInv, IssuedInv, IssuedSoFar, Fitting, RequestStop
<1>4. CASE WriteFields
  <2>1. Fitting(cargs) \in 0 .. MaxCmds
    BY FittingType, Bounds DEF TypeOK
  <2>2. gpc \in {"top", "read", "gone"} /\ issued = 0
    BY <1>4 DEF TypeOK, GuestSeenInv, IssuedInv, WriteFields
  <2> QED
    BY <1>4, <2>1, <2>2 DEF IssuedInv, Fitting, WriteFields
<1>5. CASE StoreIsrSeq
  <2>1. NextSeq # gemvSeq
    BY NextSeqType DEF TypeOK
  <2> QED
    BY <1>5, <2>1 DEF TypeOK, GuestSeenInv, IssuedInv, IssuedSoFar, Fitting, StoreIsrSeq
<1>6. CASE StoreGemvSeq
  BY <1>6 DEF TypeOK, GuestSeenInv, IssuedInv, IssuedSoFar, Fitting, StoreGemvSeq
<1>7. CASE WakeForJob
  BY <1>7
  DEF TypeOK, GuestSeenInv, IssuedInv, IssuedSoFar, Fitting, WakeForJob, WakeWorker
<1>8. CASE CheckDone
  BY <1>8 DEF TypeOK, GuestSeenInv, IssuedInv, IssuedSoFar, Fitting, CheckDone
<1>9. CASE ReadExpected
  BY <1>9 DEF TypeOK, GuestSeenInv, IssuedInv, IssuedSoFar, Fitting, ReadExpected
<1>10. CASE ClientFutex
  BY <1>10 DEF TypeOK, GuestSeenInv, IssuedInv, IssuedSoFar, Fitting, ClientFutex
<1>11. CASE AwaitIsr
  <2>1. cargs \in Nat /\ cargs # 0 /\ MaxCmds > 0 /\ nCmds = Fitting(cargs)
    BY <1>11, Bounds DEF WorkerInv, ClientInv, IssuedInv, JobsMatchGuest, AwaitIsr
  <2>2. isrDone = gemvSeq
    BY <1>11, <2>1, FittingType, Bounds DEF AwaitIsr
  <2> QED
    BY <1>11, <2>2 DEF GuestSeenInv, IssuedInv, IssuedSoFar, Fitting, AwaitIsr
<1>12. CASE Return
  BY <1>12 DEF TypeOK, GuestSeenInv, IssuedInv, IssuedSoFar, Fitting, Return
<1>13. CASE WakeForStop
  BY <1>13
  DEF TypeOK, GuestSeenInv, IssuedInv, IssuedSoFar, Fitting, WakeForStop, WakeWorker
<1>14. CASE WorkerTop
  BY <1>14 DEF TypeOK, GuestSeenInv, IssuedInv, IssuedSoFar, Fitting, WorkerTop
<1>15. CASE WorkerRead
  BY <1>15 DEF TypeOK, GuestSeenInv, IssuedInv, IssuedSoFar, Fitting, WorkerRead
<1>16. CASE WorkerFutex
  BY <1>16 DEF TypeOK, GuestSeenInv, IssuedInv, IssuedSoFar, Fitting, WorkerFutex
<1>17. CASE WorkerSync
  BY <1>17 DEF TypeOK, GuestSeenInv, IssuedInv, IssuedSoFar, Fitting, WorkerSync
<1>18. CASE WorkerMac
  BY <1>18 DEF TypeOK, GuestSeenInv, IssuedInv, IssuedSoFar, Fitting, WorkerMac
<1>19. CASE WorkerAnswer
  BY <1>19 DEF TypeOK, GuestSeenInv, IssuedInv, IssuedSoFar, Fitting, WorkerAnswer
<1>20. CASE WorkerWake
  BY <1>20
  DEF TypeOK, GuestSeenInv, IssuedInv, IssuedSoFar, Fitting, WorkerWake, WakeClient
<1>21. CASE GuestTop
  BY <1>21 DEF TypeOK, GuestSeenInv, IssuedInv, IssuedSoFar, Fitting, GuestTop
<1>22. CASE GuestRead
  BY <1>22 DEF TypeOK, GuestSeenInv, IssuedInv, IssuedSoFar, Fitting, GuestRead
<1>23. CASE GuestPack
  BY <1>23 DEF TypeOK, GuestSeenInv, IssuedInv, IssuedSoFar, Fitting, GuestPack
<1>24. CASE GuestIssue
  BY <1>24 DEF TypeOK, GuestSeenInv, IssuedInv, IssuedSoFar, Fitting, GuestIssue
<1>25. CASE GuestAnswer
  BY <1>25 DEF TypeOK, GuestSeenInv, IssuedInv, IssuedSoFar, Fitting, GuestAnswer
<1>26. CASE StartMacWorker
  BY <1>26 DEF TypeOK, GuestSeenInv, IssuedInv, IssuedSoFar, Fitting, StartMacWorker
<1>27. CASE StopMacWorker
  BY <1>27 DEF TypeOK, GuestSeenInv, IssuedInv, IssuedSoFar, Fitting, StopMacWorker
<1>28. CASE StopWake
  BY <1>28 DEF TypeOK, GuestSeenInv, IssuedInv, IssuedSoFar, Fitting, StopWake, WakeWorker
<1>29. CASE StopJoin
  BY <1>29 DEF TypeOK, GuestSeenInv, IssuedInv, IssuedSoFar, Fitting, StopJoin
<1>30. CASE Interrupt
  BY <1>30 DEF TypeOK, GuestSeenInv, IssuedInv, IssuedSoFar, Fitting, Interrupt
<1>31. CASE UNCHANGED vars
  BY <1>31 DEF TypeOK, GuestSeenInv, IssuedInv, IssuedSoFar, Fitting, vars
<1> QED
  BY <1>1, <1>2, <1>3, <1>4, <1>5, <1>6, <1>7, <1>8, <1>9, <1>10, <1>11, <1>12, <1>13,
     <1>14, <1>15, <1>16, <1>17, <1>18, <1>19, <1>20, <1>21, <1>22, <1>23, <1>24,
     <1>25, <1>26, <1>27, <1>28, <1>29, <1>30, <1>31
  DEF Next, ClientStep, WorkerStep, GuestStep, ControlStep

LEMMA NoGuestStep ==
  ASSUME TypeOK, ~WithGuest, NoGuestInv, JobsMatchGuest, [Next]_vars
  PROVE  NoGuestInv'
<1> USE DEF seqs, data, client, worker, guest, control, counts, JobsMatchGuest, NoGuestInv
<1>1. CASE RecordRegion
  BY <1>1 DEF RecordRegion
<1>2. ASSUME NEW n \in CmdCounts, Submit(n) PROVE NoGuestInv'
  BY <1>2 DEF Submit
<1>3. CASE RequestStop
  BY <1>3 DEF RequestStop
<1>4. CASE WriteFields
  <2>1. Fitting(cargs) = 0
    BY FittingType, Bounds DEF TypeOK
  <2> QED
    BY <1>4, <2>1 DEF WriteFields
<1>5. CASE StoreIsrSeq
  BY <1>5 DEF StoreIsrSeq
<1>6. CASE StoreGemvSeq
  BY <1>6 DEF StoreGemvSeq
<1>7. CASE WakeForJob
  BY <1>7 DEF WakeForJob, WakeWorker
<1>8. CASE CheckDone
  BY <1>8 DEF CheckDone
<1>9. CASE ReadExpected
  BY <1>9 DEF ReadExpected
<1>10. CASE ClientFutex
  BY <1>10 DEF ClientFutex
<1>11. CASE AwaitIsr
  BY <1>11 DEF AwaitIsr
<1>12. CASE Return
  BY <1>12 DEF Return
<1>13. CASE WakeForStop
  BY <1>13 DEF WakeForStop, WakeWorker
<1>14. CASE WorkerTop
  BY <1>14 DEF WorkerTop
<1>15. CASE WorkerRead
  BY <1>15 DEF WorkerRead
<1>16. CASE WorkerFutex
  BY <1>16 DEF WorkerFutex
<1>17. CASE WorkerSync
  BY <1>17 DEF WorkerSync
<1>18. CASE WorkerMac
  BY <1>18 DEF WorkerMac
<1>19. CASE WorkerAnswer
  BY <1>19 DEF WorkerAnswer
<1>20. CASE WorkerWake
  BY <1>20 DEF WorkerWake, WakeClient
<1>21. CASE GuestTop
  BY <1>21 DEF GuestTop
<1>22. CASE GuestRead
  BY <1>22 DEF GuestRead
<1>23. CASE GuestPack
  BY <1>23 DEF GuestPack
<1>24. CASE GuestIssue
  BY <1>24 DEF GuestIssue
<1>25. CASE GuestAnswer
  BY <1>25 DEF GuestAnswer
<1>26. CASE StartMacWorker
  BY <1>26 DEF StartMacWorker
<1>27. CASE StopMacWorker
  BY <1>27 DEF StopMacWorker
<1>28. CASE StopWake
  BY <1>28 DEF StopWake, WakeWorker
<1>29. CASE StopJoin
  BY <1>29 DEF StopJoin
<1>30. CASE Interrupt
  BY <1>30 DEF Interrupt
<1>31. CASE UNCHANGED vars
  BY <1>31 DEF vars
<1> QED
  BY <1>1, <1>2, <1>3, <1>4, <1>5, <1>6, <1>7, <1>8, <1>9, <1>10, <1>11, <1>12, <1>13,
     <1>14, <1>15, <1>16, <1>17, <1>18, <1>19, <1>20, <1>21, <1>22, <1>23, <1>24,
     <1>25, <1>26, <1>27, <1>28, <1>29, <1>30, <1>31
  DEF Next, ClientStep, WorkerStep, GuestStep, ControlStep

\* IInv holds in every reachable state.
THEOREM Inductive == ASSUME JobsMatchGuest PROVE Spec => []IInv
<1>1. Init => IInv
  <2> SUFFICES ASSUME Init PROVE IInv
    OBVIOUS
  <2>1. TypeOK
    BY Bounds DEF Init, TypeOK, Seqs
  <2>2. WorkerInv
    BY DEF Init, WorkerInv, SeenInv, TakenInv, ClientInv, MacInv, Pending
  <2>3. GuestInv
    BY DEF Init, GuestInv, GuestSeenInv, IssuedInv, NoGuestInv, Exposed, Pending
  <2> QED
    BY <2>1, <2>2, <2>3 DEF IInv
<1>2. IInv /\ [Next]_vars => IInv'
  <2> SUFFICES ASSUME IInv, [Next]_vars PROVE IInv'
    OBVIOUS
  <2>1. TypeOK' /\ WorkerInv'
    BY TypeStep, WorkerInvStep DEF IInv
  <2>2. GuestInv'
    BY GuestSeenStep, IssuedStep, NoGuestStep DEF IInv, GuestInv
  <2> QED
    BY <2>1, <2>2 DEF IInv
<1> QED
  BY <1>1, <1>2, PTL DEF Spec

\* While the worker is at a job, the client waits for that very job: what the
\* worker reads from the scratch, the fields and the regions is of that job.
\* There is no hypothesis: wrapped numbers, stops and starts are covered.
THEOREM WorkerWindow == Spec => []WorkerInWindow
<1>1. Init => TypeOK /\ WorkerInv
  <2>1. Init => TypeOK
    BY Bounds DEF Init, TypeOK, Seqs
  <2>2. Init => WorkerInv
    BY DEF Init, WorkerInv, SeenInv, TakenInv, ClientInv, MacInv, Pending
  <2> QED
    BY <2>1, <2>2
<1>2. TypeOK /\ WorkerInv /\ [Next]_vars => (TypeOK /\ WorkerInv)'
  BY TypeStep, WorkerInvStep
<1>3. WorkerInv => WorkerInWindow
  BY DEF WorkerInv, TakenInv, ClientInv, WorkerInWindow, Pending
<1> QED
  BY <1>1, <1>2, <1>3, PTL DEF Spec

\* While the guest is at a job, submit has not returned: the x it packs and
\* the commands it issues are of that job.
THEOREM GuestWindow == ASSUME JobsMatchGuest PROVE Spec => []GuestInWindow
<1>1. IInv => GuestInWindow
  BY DEF IInv, WorkerInv, ClientInv, GuestInv, GuestSeenInv, NoGuestInv, Exposed,
         Pending, GuestInWindow
<1> QED
  BY Inductive, <1>1, PTL

\* A step that the remote call does not see.
LEMMA Stutter ==
  ASSUME (cpc' \in {"idle", "stop"}) <=> (cpc \in {"idle", "stop"}),
         cargs' = cargs, macs' = macs, issued' = issued
  PROVE  UNCHANGED RG!vars
  BY DEF RG!vars, Fitting

LEMMA StepRefines ==
  ASSUME IInv, [Next]_vars
  PROVE  RG!Next \/ UNCHANGED RG!vars
<1> USE DEF seqs, data, client, worker, guest, control, counts
<1>1. CASE RecordRegion
  BY <1>1, Stutter DEF RecordRegion
<1>2. ASSUME NEW n \in CmdCounts, Submit(n) PROVE RG!Next \/ UNCHANGED RG!vars
  <2>1. cpc \in {"idle", "stop"} /\ cpc' \notin {"idle", "stop"}
    BY <1>2 DEF Submit
  <2>2. Fitting(n) \in Nat
    BY FittingType, Bounds
  <2>3. Fitting(cargs)' \in Nat /\ macs' = 0 /\ issued' = 0
    BY <1>2, <2>2 DEF Submit, Fitting
  <2> QED
    BY <2>1, <2>3 DEF RG!Next, RG!Submit
<1>3. CASE RequestStop
  BY <1>3, Stutter DEF RequestStop
<1>4. CASE WriteFields
  BY <1>4, Stutter DEF WriteFields
<1>5. CASE StoreIsrSeq
  BY <1>5, Stutter DEF StoreIsrSeq
<1>6. CASE StoreGemvSeq
  BY <1>6, Stutter DEF StoreGemvSeq
<1>7. CASE WakeForJob
  BY <1>7, Stutter DEF WakeForJob, WakeWorker
<1>8. CASE CheckDone
  BY <1>8, Stutter DEF CheckDone
<1>9. CASE ReadExpected
  BY <1>9, Stutter DEF ReadExpected
<1>10. CASE ClientFutex
  BY <1>10, Stutter DEF ClientFutex
<1>11. CASE AwaitIsr
  BY <1>11, Stutter DEF AwaitIsr
<1>12. CASE Return
  <2>1. macs = 1 /\ issued = Fitting(cargs)
    <3>1. CASE WithGuest
      BY <1>12, <3>1 DEF IInv, WorkerInv, MacInv, GuestInv, IssuedInv, Return
    <3>2. CASE ~WithGuest
      BY <1>12, <3>2, FittingType
      DEF IInv, WorkerInv, MacInv, GuestInv, NoGuestInv, Return
    <3> QED
      BY <3>1, <3>2
  <2>2. /\ cpc \notin {"idle", "stop"} /\ cpc' \in {"idle", "stop"}
        /\ cargs' = cargs /\ macs' = macs /\ issued' = issued
    BY <1>12 DEF Return
  <2>3. RG!Return
    BY <2>1, <2>2 DEF RG!Return, Fitting
  <2> QED
    BY <2>3 DEF RG!Next
<1>13. CASE WakeForStop
  BY <1>13, Stutter DEF WakeForStop, WakeWorker
<1>14. CASE WorkerTop
  BY <1>14, Stutter DEF WorkerTop
<1>15. CASE WorkerRead
  BY <1>15, Stutter DEF WorkerRead
<1>16. CASE WorkerFutex
  BY <1>16, Stutter DEF WorkerFutex
<1>17. CASE WorkerSync
  BY <1>17, Stutter DEF WorkerSync
<1>18. CASE WorkerMac
  <2>1. Pending /\ macs = 0
    BY <1>18 DEF IInv, WorkerInv, TakenInv, MacInv, WorkerMac
  <2>2. macs' = 1 /\ cpc' = cpc /\ cargs' = cargs /\ issued' = issued
    BY <1>18, <2>1 DEF WorkerMac
  <2>3. RG!Mac
    BY <2>1, <2>2 DEF RG!Mac, Pending, Fitting
  <2> QED
    BY <2>3 DEF RG!Next
<1>19. CASE WorkerAnswer
  BY <1>19, Stutter DEF WorkerAnswer
<1>20. CASE WorkerWake
  BY <1>20, Stutter DEF WorkerWake, WakeClient
<1>21. CASE GuestTop
  BY <1>21, Stutter DEF GuestTop
<1>22. CASE GuestRead
  BY <1>22, Stutter DEF GuestRead
<1>23. CASE GuestPack
  BY <1>23, Stutter DEF GuestPack
<1>24. CASE GuestIssue
  <2>1. cpc' = cpc /\ cargs' = cargs /\ macs' = macs
    BY <1>24 DEF GuestIssue
  <2>2. CASE gnext < nCmds
    <3>1. WithGuest
      BY <1>24 DEF IInv, GuestInv, NoGuestInv, GuestIssue
    <3>2. Exposed /\ issued = gnext /\ nCmds = Fitting(cargs)
      BY <1>24, <3>1
      DEF IInv, GuestInv, GuestSeenInv, IssuedInv, IssuedSoFar, Exposed, Pending,
                        GuestIssue
    <3>3. issued' = issued + 1
      BY <1>24, <2>2 DEF GuestIssue
    <3>4. RG!Issue
      BY <2>1, <2>2, <3>2, <3>3 DEF RG!Issue, Exposed, Pending, Fitting
    <3> QED
      BY <3>4 DEF RG!Next
  <2>3. CASE ~(gnext < nCmds)
    <3>1. issued' = issued
      BY <1>24, <2>3 DEF GuestIssue
    <3> QED
      BY <2>1, <3>1, Stutter
  <2> QED
    BY <2>2, <2>3
<1>25. CASE GuestAnswer
  BY <1>25, Stutter DEF GuestAnswer
<1>26. CASE StartMacWorker
  BY <1>26, Stutter DEF StartMacWorker
<1>27. CASE StopMacWorker
  BY <1>27, Stutter DEF StopMacWorker
<1>28. CASE StopWake
  BY <1>28, Stutter DEF StopWake, WakeWorker
<1>29. CASE StopJoin
  BY <1>29, Stutter DEF StopJoin
<1>30. CASE Interrupt
  BY <1>30, Stutter DEF Interrupt
<1>31. CASE UNCHANGED vars
  BY <1>31, Stutter DEF vars
<1> QED
  BY <1>1, <1>2, <1>3, <1>4, <1>5, <1>6, <1>7, <1>8, <1>9, <1>10, <1>11, <1>12, <1>13,
     <1>14, <1>15, <1>16, <1>17, <1>18, <1>19, <1>20, <1>21, <1>22, <1>23, <1>24,
     <1>25, <1>26, <1>27, <1>28, <1>29, <1>30, <1>31
  DEF Next, ClientStep, WorkerStep, GuestStep, ControlStep

\* The mailbox implements the remote call: each submit that returns has had y
\* computed exactly once and exactly its own commands issued.
THEOREM Refinement == ASSUME JobsMatchGuest PROVE Spec => ImplementsRemoteGemv
<1>1. Init => RG!Init
  BY FittingType DEF Init, RG!Init
<1>2. IInv /\ [Next]_vars => [RG!Next]_(RG!vars)
  BY StepRefines
<1> QED
  BY Inductive, <1>1, <1>2, PTL DEF Spec, ImplementsRemoteGemv, RG!Spec

=============================================================================
