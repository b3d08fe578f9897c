------------------------ MODULE ForkJoinPool_proofs ------------------------
(***************************************************************************)
(* Proofs about ForkJoinPool, for every number of threads, inits and runs. *)
(* The inductive invariant IInv has one part per concern: which threads    *)
(* exist (SpawnInv), what the workers know of the job (JobInv), which      *)
(* calls of fn have been made (CallInv) and who may be asleep (WakeInv).   *)
(***************************************************************************)
EXTENDS ForkJoinPool, FiniteSetTheorems, TLAPS

\* No pool is started again after a failed spawn: the workers spawned before
\* the failure are then never joined, and a second init would spawn threads
\* with the same numbers.
NoRespawn == Restartable => FailInits \subseteq {MaxInits}

\* Which threads exist: none of a later init, only finished ones of an
\* earlier init, and those of the latest as far as ensure_init has come.
Thread(w) ==
  /\ w[1] > inits => wpc[w] = "none"
  /\ w[1] < inits => wpc[w] \in {"none", "gone"}
  /\ wpc[w] = "none" => seen[w] = 0
  /\ inits < MaxInits /\ inited = 0 => wpc[w] \in {"none", "gone"}
  /\ inits < MaxInits /\ inited = 1 /\ cpc \notin {"spawn", "exited"}
       => (w[1] = inits /\ w[2] >= nth => wpc[w] = "none")
  /\ cpc = "spawn" /\ w[1] = inits /\ w[2] >= ct => wpc[w] = "none"
  /\ cpc = "shutdown" /\ w[1] = inits /\ w[2] < ct => wpc[w] = "gone"

SpawnInv ==
  /\ inited = 1 => inits >= 1
  /\ cpc \in {"spawn", "ready", "fn", "join", "wait", "return", "shutdown"}
       => inited = 1
  /\ stop = 1 => cpc \in {"shutdown", "exited"}
  /\ cpc = "spawn" => generation = 0 /\ ct \in 1 .. nth
  /\ cpc = "shutdown" => cn = nth /\ ct >= 1
  /\ \A w \in Workers : Thread(w)

\* A job has been published and pool_run has not returned.
Wide == cpc \in {"fn", "join", "wait"} /\ cn > 1

\* No worker is ahead of the pool, and one that has seen the latest job has
\* copied that job.
Knows(w) == w[1] = inits =>
              /\ seen[w] <= generation
              /\ wpc[w] \in {"fn", "tail"} /\ seen[w] = generation => wn[w] = jobn
SeenInv  == \A w \in Workers : Knows(w)

\* A worker that is executing fn has the client's job.
AtWork(w) == Busy(w) => /\ w[1] = inits /\ Wide
                        /\ wn[w] = jobn /\ wctx[w] = runs
                        /\ seen[w] = generation
BusyInv   == \A w \in Workers : AtWork(w)

\* The client's job is the one it has published.
WidthInv == /\ Running => cn \in 1 .. nth
            /\ cpc \in {"join", "wait"} => cn > 1
            /\ Running /\ cn > 1 => jobn = cn /\ jobctx = runs

\* The counter is exact, and outside a job nobody owes anything.
CountInv == /\ Wide => remaining = Cardinality(Owing)
            /\ inits >= 1 /\ ~Wide => Owing = {}

JobInv == SeenInv /\ BusyInv /\ WidthInv /\ CountInv

\* fn has been called for t in the current run, once and at most once, if the
\* client or worker t has got that far.
Called(t) ==
  /\ calls[t] <= 1
  /\ Running => calls[t] =
       IF \/ t = 0 /\ cpc # "fn"
          \/ t \in 1 .. cn - 1 /\ seen[<<inits, t>>] = generation /\ wpc[<<inits, t>>] # "fn"
       THEN 1 ELSE 0
CallInv   == \A t \in Tids : Called(t)

\* Who may be asleep.
Wakeful(w) ==
  wpc[w] = "wait" /\ w[1] = inits /\ inited = 1 /\ w[2] < nth
    => stop = 0 /\ (w[2] < jobn => seen[w] = generation)
WakeInv    == (cpc = "wait" => remaining > 0) /\ \A w \in Workers : Wakeful(w)

IInv == TypeOK /\ SpawnInv /\ JobInv /\ CallInv /\ WakeInv
-----------------------------------------------------------------------------
\* The integers among the constants.
LEMMA Bounds == /\ MaxThreads \in Nat \ {0} /\ EnvThreads \in 0 .. MaxThreads
                /\ MaxInits \in Nat
  BY PoolAssumption

LEMMA WorkerFacts ==
  /\ \A w \in Workers : /\ w = <<w[1], w[2]>>
                        /\ w[1] \in 1 .. MaxInits
                        /\ w[2] \in 1 .. MaxThreads - 1
  /\ \A i \in 1 .. MaxInits, t \in 1 .. MaxThreads - 1 :
       /\ <<i, t>> \in Workers
       /\ <<i, t>>[1] = i /\ <<i, t>>[2] = t
  BY DEF Workers

LEMMA WidthType == ASSUME TypeOK, NEW n \in Int
                   PROVE  Width(n) \in 1 .. nth
  BY Bounds DEF TypeOK, Width, Clamp

\* A signal only moves sleeping workers to the top of their loop.
LEMMA SignalEffect ==
  ASSUME TypeOK, NEW T, Signal(T)
  PROVE  /\ wpc' \in [Workers -> {"none", "top", "wait", "fn", "tail", "gone"}]
         /\ \A w \in Workers : wpc'[w] # wpc[w] => wpc[w] = "wait" /\ wpc'[w] = "top"
<1>1. PICK S \in SUBSET Sleepers(T) :
        wpc' = [w \in Workers |-> IF w \in S THEN "top" ELSE wpc[w]]
  BY DEF Signal
<1>2. \A w \in S : w \in Workers /\ wpc[w] = "wait"
  BY DEF Sleepers
<1> QED
  BY <1>1, <1>2 DEF TypeOK

LEMMA TypeStep ==
  ASSUME TypeOK, [Next]_vars
  PROVE  TypeOK'
<1> USE Bounds DEF globals, client, workers, counts
<1>1. ASSUME NEW n \in Requests, SetThreads(n) PROVE TypeOK'
  BY <1>1 DEF TypeOK, SetThreads, Clamp, Requests
<1>2. ASSUME NEW n \in Requests \cup {NThreads}, EnterStarted(n) PROVE TypeOK'
  BY <1>2 DEF TypeOK, EnterStarted, Requests, NThreads
<1>3. ASSUME NEW n \in Requests \cup {NThreads}, EnterFresh(n) PROVE TypeOK'
  BY <1>3 DEF TypeOK, EnterFresh, Resolved, Requests, NThreads
<1>4. ASSUME Shutdown PROVE TypeOK'
  BY <1>4, SignalEffect DEF TypeOK, Shutdown
<1>5. ASSUME ClientStep PROVE TypeOK'
  <2>1. CASE Spawn
    <3>1. wpc' \in [Workers -> {"none", "top", "wait", "fn", "tail", "gone"}]
      BY <2>1 DEF TypeOK, Spawn
    <3> QED
      BY <2>1, <3>1 DEF TypeOK, Spawn
  <2>2. CASE Spawned
    BY <2>2 DEF TypeOK, Spawned
  <2>3. CASE SpawnFallback
    BY <2>3 DEF TypeOK, SpawnFallback
  <2>4. CASE SpawnDie
    BY <2>4 DEF TypeOK, SpawnDie
  <2>5. CASE AnswerNThreads
    BY <2>5 DEF TypeOK, AnswerNThreads
  <2>6. CASE RunInline
    BY <2>6 DEF TypeOK, RunInline, Tids
  <2>7. CASE Publish
    <3>1. Width(cn) \in 1 .. nth
      BY WidthType DEF TypeOK
    <3>2. /\ wpc' \in [Workers -> {"none", "top", "wait", "fn", "tail", "gone"}]
          /\ calls' \in [Tids -> Nat]
      BY <2>7, SignalEffect DEF Publish, Tids
    <3> QED
      BY <2>7, <3>1, <3>2 DEF TypeOK, Publish
  <2>8. CASE ClientFn
    BY <2>8 DEF TypeOK, ClientFn, Tids
  <2>9. CASE JoinWait \/ JoinDone \/ Return
    BY <2>9 DEF TypeOK, JoinWait, JoinDone, Return
  <2>10. CASE JoinThread
    BY <2>10 DEF TypeOK, JoinThread
  <2>11. CASE ShutdownDone
    BY <2>11 DEF TypeOK, ShutdownDone
  <2> QED
    BY <1>5, <2>1, <2>2, <2>3, <2>4, <2>5, <2>6, <2>7, <2>8, <2>9, <2>10, <2>11
    DEF ClientStep
<1>6. ASSUME NEW w \in Workers, WorkerStep(w) PROVE TypeOK'
  <2>1. CASE Sleep(w)
    BY <2>1 DEF TypeOK, Sleep
  <2>2. CASE Quit(w)
    BY <2>2 DEF TypeOK, Quit
  <2>3. CASE Take(w)
    BY <2>3 DEF TypeOK, Take
  <2>4. CASE WorkerFn(w)
    <3>1. calls' \in [Tids -> Nat]
      <4>1. ASSUME NEW t \in Tids
            PROVE  [calls EXCEPT ![t] = @ + 1] \in [Tids -> Nat]
        BY DEF TypeOK, Tids
      <4>2. w[2] \in Tids
        BY WorkerFacts DEF Tids
      <4> QED
        BY <2>4, <4>1, <4>2 DEF TypeOK, WorkerFn
    <3>2. wpc' \in [Workers -> {"none", "top", "wait", "fn", "tail", "gone"}]
      BY <2>4 DEF TypeOK, WorkerFn
    <3> QED
      BY <2>4, <3>1, <3>2 DEF TypeOK, WorkerFn
  <2>5. CASE Finish(w)
    BY <2>5 DEF TypeOK, Finish
  <2> QED
    BY <1>6, <2>1, <2>2, <2>3, <2>4, <2>5 DEF WorkerStep
<1>7. ASSUME NEW w \in Workers, SpuriousWorker(w) PROVE TypeOK'
  BY <1>7 DEF TypeOK, SpuriousWorker
<1>8. CASE SpuriousClient \/ Rest \/ UNCHANGED vars
  BY <1>8 DEF TypeOK, SpuriousClient, Rest, vars
<1> QED
  BY <1>1, <1>2, <1>3, <1>4, <1>5, <1>6, <1>7, <1>8 DEF Next

\* The variables keep their types, whatever the constants.
THEOREM TypeCorrect == Spec => []TypeOK
<1>1. Init => TypeOK
  BY Bounds DEF Init, TypeOK, Tids
<1>2. TypeOK /\ [Next]_vars => TypeOK'
  BY TypeStep
<1> QED
  BY <1>1, <1>2, PTL DEF Spec

LEMMA SpawnStep ==
  ASSUME NoRespawn, TypeOK, SpawnInv, [Next]_vars
  PROVE  SpawnInv'
<1> USE Bounds DEF globals, client, workers, counts
<1>1. ASSUME NEW n \in Requests, SetThreads(n) PROVE SpawnInv'
  BY <1>1, WorkerFacts DEF TypeOK, SpawnInv, Thread, SetThreads
<1>2. ASSUME NEW n \in Requests \cup {NThreads}, EnterStarted(n) PROVE SpawnInv'
  BY <1>2, WorkerFacts DEF TypeOK, SpawnInv, Thread, EnterStarted
<1>3. ASSUME NEW n \in Requests \cup {NThreads}, EnterFresh(n) PROVE SpawnInv'
  BY <1>3, WorkerFacts DEF TypeOK, SpawnInv, Thread, EnterFresh, Resolved
<1>4. CASE Shutdown
  <2> SUFFICES ASSUME NEW v \in Workers PROVE Thread(v)'
    BY <1>4 DEF TypeOK, SpawnInv, Thread, Shutdown
  <2>1. Thread(v) /\ v[1] \in Nat /\ v[2] \in Nat /\ v[2] >= 1
    BY WorkerFacts DEF SpawnInv
  <2>2. wpc'[v] # wpc[v] => wpc[v] = "wait" /\ wpc'[v] = "top"
    BY <1>4, SignalEffect DEF Shutdown
  <2> QED
    BY <1>4, <2>1, <2>2 DEF TypeOK, SpawnInv, Thread, Shutdown
<1>5. CASE Spawn
  BY <1>5, WorkerFacts DEF TypeOK, SpawnInv, Thread, Spawn
<1>6. CASE Spawned
  <2> SUFFICES ASSUME NEW v \in Workers PROVE Thread(v)'
    BY <1>6 DEF TypeOK, SpawnInv, Thread, Spawned
  <2>1. Thread(v) /\ v[1] \in Nat /\ v[2] \in Nat /\ v[2] >= 1
    BY WorkerFacts DEF SpawnInv
  <2>2. wpc'[v] # wpc[v] => wpc[v] = "wait" /\ wpc'[v] = "top"
    BY <1>6 DEF Spawned
  <2> QED
    BY <1>6, <2>1, <2>2 DEF TypeOK, SpawnInv, Thread, Spawned
<1>7. CASE SpawnFallback
  <2> inits = MaxInits
    BY <1>7 DEF SpawnFallback, NoRespawn
  <2> QED
    BY <1>7 DEF TypeOK, SpawnInv, Thread, SpawnFallback
<1>8. CASE SpawnDie
  BY <1>8, WorkerFacts DEF TypeOK, SpawnInv, Thread, SpawnDie
<1>9. CASE AnswerNThreads
  BY <1>9, WorkerFacts DEF TypeOK, SpawnInv, Thread, AnswerNThreads
<1>10. CASE RunInline
  BY <1>10, WorkerFacts DEF TypeOK, SpawnInv, Thread, RunInline
<1>11. CASE Publish
  <2> SUFFICES ASSUME NEW v \in Workers PROVE Thread(v)'
    BY <1>11 DEF TypeOK, SpawnInv, Thread, Publish
  <2>1. Thread(v) /\ v[1] \in Nat /\ v[2] \in Nat /\ v[2] >= 1
    BY WorkerFacts DEF SpawnInv
  <2>2. wpc'[v] # wpc[v] => wpc[v] = "wait" /\ wpc'[v] = "top"
    BY <1>11, SignalEffect DEF Publish
  <2> QED
    BY <1>11, <2>1, <2>2 DEF TypeOK, SpawnInv, Thread, Publish
<1>12. CASE ClientFn
  BY <1>12, WorkerFacts DEF TypeOK, SpawnInv, Thread, ClientFn
<1>13. CASE JoinWait
  BY <1>13, WorkerFacts DEF TypeOK, SpawnInv, Thread, JoinWait
<1>14. CASE JoinDone
  BY <1>14, WorkerFacts DEF TypeOK, SpawnInv, Thread, JoinDone
<1>15. CASE Return
  BY <1>15, WorkerFacts DEF TypeOK, SpawnInv, Thread, Return
<1>16. CASE JoinThread
  <2> SUFFICES ASSUME NEW v \in Workers PROVE Thread(v)'
    BY <1>16 DEF TypeOK, SpawnInv, Thread, JoinThread
  <2>1. Thread(v) /\ v[1] \in Nat /\ v[2] \in Nat /\ v[2] >= 1
    BY WorkerFacts DEF SpawnInv
  <2>2. v[1] = inits /\ v[2] = ct => wpc[v] = "gone"
    BY <1>16, WorkerFacts DEF JoinThread
  <2>3. wpc'[v] # wpc[v] => wpc[v] = "wait" /\ wpc'[v] = "top"
    BY <1>16 DEF JoinThread
  <2> QED
    BY <1>16, <2>1, <2>2, <2>3 DEF TypeOK, SpawnInv, Thread, JoinThread
<1>17. CASE ShutdownDone
  <2> SUFFICES ASSUME NEW v \in Workers PROVE Thread(v)'
    BY <1>17 DEF TypeOK, SpawnInv, Thread, ShutdownDone
  <2>1. Thread(v) /\ v[1] \in Nat /\ v[2] \in Nat /\ v[2] >= 1
    BY WorkerFacts DEF SpawnInv
  <2>2. wpc'[v] # wpc[v] => wpc[v] = "wait" /\ wpc'[v] = "top"
    BY <1>17 DEF ShutdownDone
  <2> QED
    BY <1>17, <2>1, <2>2 DEF TypeOK, SpawnInv, Thread, ShutdownDone
<1>18. ASSUME NEW w \in Workers, Sleep(w) PROVE SpawnInv'
  BY <1>18, WorkerFacts DEF TypeOK, SpawnInv, Thread, Sleep
<1>19. ASSUME NEW w \in Workers, Quit(w) PROVE SpawnInv'
  BY <1>19, WorkerFacts DEF TypeOK, SpawnInv, Thread, Quit
<1>20. ASSUME NEW w \in Workers, Take(w) PROVE SpawnInv'
  BY <1>20, WorkerFacts DEF TypeOK, SpawnInv, Thread, Take
<1>21. ASSUME NEW w \in Workers, WorkerFn(w) PROVE SpawnInv'
  BY <1>21, WorkerFacts DEF TypeOK, SpawnInv, Thread, WorkerFn
<1>22. ASSUME NEW w \in Workers, Finish(w) PROVE SpawnInv'
  BY <1>22, WorkerFacts DEF TypeOK, SpawnInv, Thread, Finish
<1>23. ASSUME NEW w \in Workers, SpuriousWorker(w) PROVE SpawnInv'
  BY <1>23, WorkerFacts DEF TypeOK, SpawnInv, Thread, SpuriousWorker
<1>24. CASE SpuriousClient
  BY <1>24, WorkerFacts DEF TypeOK, SpawnInv, Thread, SpuriousClient
<1>25. CASE Rest \/ UNCHANGED vars
  BY <1>25, WorkerFacts DEF TypeOK, SpawnInv, Thread, Rest, vars
<1> QED
  BY <1>1, <1>2, <1>3, <1>4, <1>5, <1>6, <1>7, <1>8, <1>9, <1>10, <1>11, <1>12, <1>13,
     <1>14, <1>15, <1>16, <1>17, <1>18, <1>19, <1>20, <1>21, <1>22, <1>23, <1>24, <1>25
  DEF Next, ClientStep, WorkerStep

LEMMA OwingFinite == ASSUME TypeOK
                     PROVE  IsFiniteSet(Owing) /\ Cardinality(Owing) \in Nat
<1>1. IsFiniteSet(1 .. jobn - 1)
  BY FS_Interval DEF TypeOK
<1> QED
  BY <1>1, FS_Subset, FS_CardinalityType DEF Owing

LEMMA OwingSame ==
  ASSUME TypeOK, inits >= 1, inits' = inits, jobn' = jobn,
         \A w \in Workers : w[1] = inits /\ w[2] < jobn => Owes(w)' <=> Owes(w)
  PROVE  Owing' = Owing
<1>1. \A t \in 1 .. jobn - 1 : Owes(<<inits, t>>)' <=> Owes(<<inits, t>>)
  BY Bounds, WorkerFacts DEF TypeOK
<1> QED
  BY <1>1 DEF Owing

LEMMA SeenStep ==
  ASSUME TypeOK, SpawnInv, SeenInv, [Next]_vars
  PROVE  SeenInv'
<1> USE Bounds DEF globals, client, workers, counts
<1> SUFFICES ASSUME NEW v \in Workers PROVE Knows(v)'
  BY DEF SeenInv
<1>0. Thread(v) /\ Knows(v) /\ v[1] \in Nat /\ v[2] \in Nat /\ v[2] >= 1
  BY WorkerFacts DEF SpawnInv, SeenInv
<1>1. ASSUME NEW n \in Requests, SetThreads(n) PROVE Knows(v)'
  BY <1>1, <1>0 DEF TypeOK, Thread, Knows, SetThreads
<1>2. ASSUME NEW n \in Requests \cup {NThreads}, EnterStarted(n) PROVE Knows(v)'
  BY <1>2, <1>0 DEF TypeOK, Thread, Knows, EnterStarted
<1>3. ASSUME NEW n \in Requests \cup {NThreads}, EnterFresh(n) PROVE Knows(v)'
  BY <1>3, <1>0 DEF TypeOK, Thread, Knows, EnterFresh
<1>4. CASE Shutdown
  <2>1. wpc'[v] # wpc[v] => wpc[v] = "wait" /\ wpc'[v] = "top"
    BY <1>4, SignalEffect DEF Shutdown
  <2> QED
    BY <1>4, <1>0, <2>1 DEF TypeOK, Knows, Shutdown
<1>5. CASE Spawn
  BY <1>5, <1>0 DEF TypeOK, Thread, Knows, Spawn
<1>6. CASE Spawned
  BY <1>6, <1>0 DEF TypeOK, Thread, Knows, Spawned
<1>7. CASE SpawnFallback
  BY <1>7, <1>0 DEF TypeOK, Thread, Knows, SpawnFallback
<1>8. CASE SpawnDie
  BY <1>8, <1>0 DEF TypeOK, Thread, Knows, SpawnDie
<1>9. CASE AnswerNThreads
  BY <1>9, <1>0 DEF TypeOK, Thread, Knows, AnswerNThreads
<1>10. CASE RunInline
  BY <1>10, <1>0 DEF TypeOK, Thread, Knows, RunInline
<1>11. CASE Publish
  <2>1. wpc'[v] # wpc[v] => wpc[v] = "wait" /\ wpc'[v] = "top"
    BY <1>11, SignalEffect DEF Publish
  <2> QED
    BY <1>11, <1>0, <2>1 DEF TypeOK, Knows, Publish
<1>12. CASE ClientFn
  BY <1>12, <1>0 DEF TypeOK, Thread, Knows, ClientFn
<1>13. CASE JoinWait
  BY <1>13, <1>0 DEF TypeOK, Thread, Knows, JoinWait
<1>14. CASE JoinDone
  BY <1>14, <1>0 DEF TypeOK, Thread, Knows, JoinDone
<1>15. CASE Return
  BY <1>15, <1>0 DEF TypeOK, Thread, Knows, Return
<1>16. CASE JoinThread
  BY <1>16, <1>0 DEF TypeOK, Thread, Knows, JoinThread
<1>17. CASE ShutdownDone
  BY <1>17, <1>0 DEF TypeOK, Thread, Knows, ShutdownDone
<1>18. ASSUME NEW w \in Workers, Sleep(w) PROVE Knows(v)'
  BY <1>18, <1>0 DEF TypeOK, Thread, Knows, Sleep
<1>19. ASSUME NEW w \in Workers, Quit(w) PROVE Knows(v)'
  BY <1>19, <1>0 DEF TypeOK, Thread, Knows, Quit
<1>20. ASSUME NEW w \in Workers, Take(w) PROVE Knows(v)'
  BY <1>20, <1>0 DEF TypeOK, Thread, Knows, Take
<1>21. ASSUME NEW w \in Workers, WorkerFn(w) PROVE Knows(v)'
  BY <1>21, <1>0 DEF TypeOK, Thread, Knows, WorkerFn
<1>22. ASSUME NEW w \in Workers, Finish(w) PROVE Knows(v)'
  BY <1>22, <1>0 DEF TypeOK, Thread, Knows, Finish
<1>23. ASSUME NEW w \in Workers, SpuriousWorker(w) PROVE Knows(v)'
  BY <1>23, <1>0 DEF TypeOK, Thread, Knows, SpuriousWorker
<1>24. CASE SpuriousClient
  BY <1>24, <1>0 DEF TypeOK, Thread, Knows, SpuriousClient
<1>25. CASE Rest \/ UNCHANGED vars
  BY <1>25, <1>0 DEF TypeOK, Thread, Knows, Rest, vars
<1> QED
  BY <1>1, <1>2, <1>3, <1>4, <1>5, <1>6, <1>7, <1>8, <1>9, <1>10, <1>11, <1>12, <1>13,
     <1>14, <1>15, <1>16, <1>17, <1>18, <1>19, <1>20, <1>21, <1>22, <1>23, <1>24, <1>25
  DEF Next, ClientStep, WorkerStep

LEMMA OwingMember ==
  ASSUME TypeOK, NEW w \in Workers, w[1] = inits
  PROVE  w[2] \in Owing <=> w[2] < jobn /\ Owes(w)
<1>1. w = <<inits, w[2]>> /\ w[2] \in 1 .. MaxThreads - 1
  BY WorkerFacts
<1> QED
  BY <1>1, Bounds DEF Owing, TypeOK

\* A worker that is alive belongs to the latest init.
LEMMA AliveLatest ==
  ASSUME TypeOK, SpawnInv, NEW w \in Workers, wpc[w] \notin {"none", "gone"}
  PROVE  w[1] = inits /\ inits >= 1
<1>1. Thread(w) /\ w[1] \in 1 .. MaxInits
  BY WorkerFacts DEF SpawnInv
<1> QED
  BY <1>1, Bounds DEF Thread, TypeOK

\* When the client leaves the join, no worker of the job is left.
LEMMA JoinedAll ==
  ASSUME TypeOK, WidthInv, CountInv, JoinDone
  PROVE  Owing = {}
<1>1. Wide /\ remaining <= 0
  BY DEF JoinDone, WidthInv, Wide
<1>2. Cardinality(Owing) = 0
  BY <1>1, OwingFinite DEF CountInv
<1> QED
  BY <1>2, OwingFinite, FS_EmptySet

LEMMA BusyStep ==
  ASSUME TypeOK, SpawnInv, BusyInv, WidthInv, CountInv, [Next]_vars
  PROVE  BusyInv'
<1> USE Bounds DEF globals, client, workers, counts
<1> SUFFICES ASSUME NEW v \in Workers PROVE AtWork(v)'
  BY DEF BusyInv
<1>0. AtWork(v) /\ v[1] \in Nat /\ v[2] \in Nat /\ v[2] >= 1
  BY WorkerFacts DEF BusyInv
<1>1. ASSUME NEW n \in Requests, SetThreads(n) PROVE AtWork(v)'
  BY <1>1, <1>0 DEF TypeOK, Busy, AtWork, Wide, SetThreads
<1>2. ASSUME NEW n \in Requests \cup {NThreads}, EnterStarted(n) PROVE AtWork(v)'
  BY <1>2, <1>0 DEF TypeOK, Busy, AtWork, Wide, EnterStarted
<1>3. ASSUME NEW n \in Requests \cup {NThreads}, EnterFresh(n) PROVE AtWork(v)'
  BY <1>3, <1>0 DEF TypeOK, Busy, AtWork, Wide, EnterFresh
<1>4. CASE Shutdown
  <2>1. wpc'[v] # wpc[v] => wpc[v] = "wait" /\ wpc'[v] = "top"
    BY <1>4, SignalEffect DEF Shutdown
  <2> QED
    BY <1>4, <1>0, <2>1 DEF TypeOK, Busy, AtWork, Wide, Shutdown
<1>5. CASE Spawn
  BY <1>5, <1>0 DEF TypeOK, Busy, AtWork, Wide, Spawn
<1>6. CASE Spawned
  BY <1>6, <1>0 DEF TypeOK, Busy, AtWork, Wide, Spawned
<1>7. CASE SpawnFallback
  BY <1>7, <1>0 DEF TypeOK, Busy, AtWork, Wide, SpawnFallback
<1>8. CASE SpawnDie
  BY <1>8, <1>0 DEF TypeOK, Busy, AtWork, Wide, SpawnDie
<1>9. CASE AnswerNThreads
  BY <1>9, <1>0 DEF TypeOK, Busy, AtWork, Wide, AnswerNThreads
<1>10. CASE RunInline
  BY <1>10, <1>0 DEF TypeOK, Busy, AtWork, Wide, RunInline
<1>11. CASE Publish
  <2>1. wpc'[v] # wpc[v] => wpc[v] = "wait" /\ wpc'[v] = "top"
    BY <1>11, SignalEffect DEF Publish
  <2> QED
    BY <1>11, <1>0, <2>1 DEF TypeOK, Busy, AtWork, Wide, Publish
<1>12. CASE ClientFn
  BY <1>12, <1>0 DEF TypeOK, Busy, AtWork, Wide, ClientFn
<1>13. CASE JoinWait
  BY <1>13, <1>0 DEF TypeOK, Busy, AtWork, Wide, JoinWait
<1>14. CASE JoinDone
  <2>1. ~Busy(v)
    <3>1. Owing = {}
      BY <1>14, JoinedAll
    <3>2. SUFFICES ASSUME Busy(v) PROVE FALSE
      OBVIOUS
    <3>3. v[1] = inits /\ v[2] < jobn /\ Owes(v)
      BY <1>0, <3>2 DEF AtWork, Busy, Owes
    <3> QED
      BY <3>1, <3>3, OwingMember
  <2> QED
    BY <1>14, <2>1 DEF Busy, AtWork, JoinDone
<1>15. CASE Return
  BY <1>15, <1>0 DEF TypeOK, Busy, AtWork, Wide, Return
<1>16. CASE JoinThread
  BY <1>16, <1>0 DEF TypeOK, Busy, AtWork, Wide, JoinThread
<1>17. CASE ShutdownDone
  BY <1>17, <1>0 DEF TypeOK, Busy, AtWork, Wide, ShutdownDone
<1>18. ASSUME NEW w \in Workers, Sleep(w) PROVE AtWork(v)'
  BY <1>18, <1>0 DEF TypeOK, Busy, AtWork, Wide, Sleep
<1>19. ASSUME NEW w \in Workers, Quit(w) PROVE AtWork(v)'
  BY <1>19, <1>0 DEF TypeOK, Busy, AtWork, Wide, Quit
<1>20. ASSUME NEW w \in Workers, Take(w) PROVE AtWork(v)'
  <2>1. w[1] = inits /\ inits >= 1
    BY <1>20, AliveLatest DEF Take
  <2>2. w[2] < jobn => Wide
    <3>1. Owes(w)
      BY <1>20 DEF Take, Owes
    <3> QED
      BY <2>1, <3>1, OwingMember DEF CountInv
  <2>3. Wide => jobctx = runs
    BY DEF Wide, WidthInv, Running
  <2>4. CASE v = w
    BY <1>20, <2>1, <2>2, <2>3, <2>4 DEF TypeOK, Busy, AtWork, Wide, Take
  <2>5. CASE v # w
    BY <1>20, <1>0, <2>5 DEF TypeOK, Busy, AtWork, Wide, Take
  <2> QED
    BY <2>4, <2>5
<1>21. ASSUME NEW w \in Workers, WorkerFn(w) PROVE AtWork(v)'
  BY <1>21, <1>0 DEF TypeOK, Busy, AtWork, Wide, WorkerFn
<1>22. ASSUME NEW w \in Workers, Finish(w) PROVE AtWork(v)'
  BY <1>22, <1>0 DEF TypeOK, Busy, AtWork, Wide, Finish
<1>23. ASSUME NEW w \in Workers, SpuriousWorker(w) PROVE AtWork(v)'
  BY <1>23, <1>0 DEF TypeOK, Busy, AtWork, Wide, SpuriousWorker
<1>24. CASE SpuriousClient
  BY <1>24, <1>0 DEF TypeOK, Busy, AtWork, Wide, SpuriousClient
<1>25. CASE Rest \/ UNCHANGED vars
  BY <1>25, <1>0 DEF TypeOK, Busy, AtWork, Wide, Rest, vars
<1> QED
  BY <1>1, <1>2, <1>3, <1>4, <1>5, <1>6, <1>7, <1>8, <1>9, <1>10, <1>11, <1>12, <1>13,
     <1>14, <1>15, <1>16, <1>17, <1>18, <1>19, <1>20, <1>21, <1>22, <1>23, <1>24, <1>25
  DEF Next, ClientStep, WorkerStep

LEMMA WidthStep ==
  ASSUME TypeOK, SpawnInv, WidthInv, [Next]_vars
  PROVE  WidthInv'
<1> USE Bounds DEF globals, client, workers, counts
<1>1. ASSUME NEW n \in Requests, SetThreads(n) PROVE WidthInv'
  BY <1>1 DEF TypeOK, SpawnInv, WidthInv, Running, SetThreads
<1>2. ASSUME NEW n \in Requests \cup {NThreads}, EnterStarted(n) PROVE WidthInv'
  BY <1>2 DEF TypeOK, SpawnInv, WidthInv, Running, EnterStarted
<1>3. ASSUME NEW n \in Requests \cup {NThreads}, EnterFresh(n) PROVE WidthInv'
  BY <1>3 DEF TypeOK, SpawnInv, WidthInv, Running, EnterFresh
<1>4. CASE Shutdown
  BY <1>4 DEF TypeOK, SpawnInv, WidthInv, Running, Shutdown
<1>5. CASE Spawn
  BY <1>5 DEF TypeOK, SpawnInv, WidthInv, Running, Spawn
<1>6. CASE Spawned
  BY <1>6 DEF TypeOK, SpawnInv, WidthInv, Running, Spawned
<1>7. CASE SpawnFallback
  BY <1>7 DEF TypeOK, SpawnInv, WidthInv, Running, SpawnFallback
<1>8. CASE SpawnDie
  BY <1>8 DEF TypeOK, SpawnInv, WidthInv, Running, SpawnDie
<1>9. CASE AnswerNThreads
  BY <1>9 DEF TypeOK, SpawnInv, WidthInv, Running, AnswerNThreads
<1>10. CASE RunInline
  <2>1. Width(cn) \in 1 .. nth
    BY WidthType DEF TypeOK
  <2> QED
    BY <1>10, <2>1 DEF TypeOK, WidthInv, Running, RunInline
<1>11. CASE Publish
  <2>1. Width(cn) \in 1 .. nth
    BY WidthType DEF TypeOK
  <2> QED
    BY <1>11, <2>1 DEF TypeOK, WidthInv, Running, Publish
<1>12. CASE ClientFn
  BY <1>12 DEF TypeOK, SpawnInv, WidthInv, Running, ClientFn
<1>13. CASE JoinWait
  BY <1>13 DEF TypeOK, SpawnInv, WidthInv, Running, JoinWait
<1>14. CASE JoinDone
  BY <1>14 DEF TypeOK, SpawnInv, WidthInv, Running, JoinDone
<1>15. CASE Return
  BY <1>15 DEF TypeOK, SpawnInv, WidthInv, Running, Return
<1>16. CASE JoinThread
  BY <1>16 DEF TypeOK, SpawnInv, WidthInv, Running, JoinThread
<1>17. CASE ShutdownDone
  BY <1>17 DEF TypeOK, SpawnInv, WidthInv, Running, ShutdownDone
<1>18. ASSUME NEW w \in Workers, Sleep(w) PROVE WidthInv'
  BY <1>18 DEF TypeOK, SpawnInv, WidthInv, Running, Sleep
<1>19. ASSUME NEW w \in Workers, Quit(w) PROVE WidthInv'
  BY <1>19 DEF TypeOK, SpawnInv, WidthInv, Running, Quit
<1>20. ASSUME NEW w \in Workers, Take(w) PROVE WidthInv'
  BY <1>20 DEF TypeOK, SpawnInv, WidthInv, Running, Take
<1>21. ASSUME NEW w \in Workers, WorkerFn(w) PROVE WidthInv'
  BY <1>21 DEF TypeOK, SpawnInv, WidthInv, Running, WorkerFn
<1>22. ASSUME NEW w \in Workers, Finish(w) PROVE WidthInv'
  BY <1>22 DEF TypeOK, SpawnInv, WidthInv, Running, Finish
<1>23. ASSUME NEW w \in Workers, SpuriousWorker(w) PROVE WidthInv'
  BY <1>23 DEF TypeOK, SpawnInv, WidthInv, Running, SpuriousWorker
<1>24. CASE SpuriousClient
  BY <1>24 DEF TypeOK, SpawnInv, WidthInv, Running, SpuriousClient
<1>25. CASE Rest \/ UNCHANGED vars
  BY <1>25 DEF TypeOK, SpawnInv, WidthInv, Running, Rest, vars
<1> QED
  BY <1>1, <1>2, <1>3, <1>4, <1>5, <1>6, <1>7, <1>8, <1>9, <1>10, <1>11, <1>12, <1>13,
     <1>14, <1>15, <1>16, <1>17, <1>18, <1>19, <1>20, <1>21, <1>22, <1>23, <1>24, <1>25
  DEF Next, ClientStep, WorkerStep

\* A step that changes neither the job nor what its workers owe.
LEMMA CountFrame ==
  ASSUME TypeOK, SpawnInv, CountInv,
         inits' = inits, jobn' = jobn, remaining' = remaining, Wide' <=> Wide,
         \A w \in Workers : w[1] = inits /\ w[2] < jobn => Owes(w)' <=> Owes(w)
  PROVE  CountInv'
<1>1. CASE inits = 0
  BY <1>1 DEF CountInv, SpawnInv, Wide
<1>2. CASE inits >= 1
  <2>1. Owing' = Owing
    BY <1>2, OwingSame
  <2> QED
    BY <2>1 DEF CountInv
<1> QED
  BY <1>1, <1>2 DEF TypeOK

LEMMA CountStep ==
  ASSUME TypeOK, SpawnInv, JobInv, [Next]_vars
  PROVE  CountInv'
<1> USE Bounds DEF globals, client, workers, counts, JobInv
<1>1. ASSUME NEW n \in Requests, SetThreads(n) PROVE CountInv'
  <2>1. inits' = inits /\ jobn' = jobn /\ remaining' = remaining /\ (Wide' <=> Wide)
    BY <1>1 DEF Wide, SetThreads
  <2>2. \A v \in Workers : Owes(v)' <=> Owes(v)
    BY <1>1 DEF TypeOK, Owes, SetThreads
  <2> QED
    BY <2>1, <2>2, CountFrame
<1>2. ASSUME NEW n \in Requests \cup {NThreads}, EnterStarted(n) PROVE CountInv'
  <2>1. inits' = inits /\ jobn' = jobn /\ remaining' = remaining /\ (Wide' <=> Wide)
    BY <1>2 DEF Wide, EnterStarted
  <2>2. \A v \in Workers : Owes(v)' <=> Owes(v)
    BY <1>2 DEF TypeOK, Owes, EnterStarted
  <2> QED
    BY <2>1, <2>2, CountFrame
<1>3. ASSUME NEW n \in Requests \cup {NThreads}, EnterFresh(n) PROVE CountInv'
  <2>1. ASSUME NEW t \in 1 .. jobn - 1 PROVE ~Owes(<<inits, t>>)'
    <3>0. inits + 1 \in 1 .. MaxInits /\ t \in 1 .. MaxThreads - 1
      BY <1>3 DEF TypeOK, EnterFresh
    <3>1. <<inits + 1, t>> \in Workers /\ <<inits + 1, t>>[1] = inits + 1
      BY <3>0, WorkerFacts
    <3>2. Thread(<<inits + 1, t>>)
      BY <3>1 DEF SpawnInv
    <3>3. wpc[<<inits + 1, t>>] = "none" /\ seen[<<inits + 1, t>>] = 0
      BY <3>1, <3>2 DEF Thread, TypeOK
    <3>4. wpc' = wpc /\ seen' = seen /\ generation' = 0 /\ inits' = inits + 1
      BY <1>3 DEF EnterFresh
    <3> QED
      BY <3>3, <3>4 DEF Owes
  <2>2. Owing' = {}
    <3>1. jobn' = jobn /\ inits' = inits + 1
      BY <1>3 DEF EnterFresh
    <3> QED
      BY <2>1, <3>1 DEF Owing
  <2> QED
    BY <1>3, <2>2 DEF CountInv, Wide, EnterFresh
<1>4. CASE Shutdown
  <2>1. inits' = inits /\ jobn' = jobn /\ remaining' = remaining /\ (Wide' <=> Wide)
    BY <1>4 DEF Wide, Shutdown
  <2>2. ASSUME NEW v \in Workers PROVE Owes(v)' <=> Owes(v)
    <3>1. wpc'[v] # wpc[v] => wpc[v] = "wait" /\ wpc'[v] = "top"
      BY <1>4, SignalEffect DEF Shutdown
    <3> QED
      BY <1>4, <3>1 DEF Owes, Shutdown
  <2> QED
    BY <2>1, <2>2, CountFrame
<1>5. CASE Spawn
  <2>1. inits' = inits /\ jobn' = jobn /\ remaining' = remaining /\ (Wide' <=> Wide)
    BY <1>5 DEF Wide, Spawn
  <2>2. ASSUME NEW v \in Workers PROVE Owes(v)' <=> Owes(v)
    <3>1. /\ wpc'[v] # wpc[v] => v = <<inits, ct>> /\ wpc'[v] = "top"
          /\ v = <<inits, ct>> => wpc[v] = "none"
      <4>1. Thread(v) /\ v = <<v[1], v[2]>> /\ v[2] \in Nat
        BY WorkerFacts DEF SpawnInv
      <4> QED
        BY <1>5, <4>1 DEF TypeOK, SpawnInv, Thread, Spawn
    <3> QED
      BY <1>5, <3>1 DEF Owes, Spawn
  <2> QED
    BY <2>1, <2>2, CountFrame
<1>6. CASE Spawned
  <2>1. inits' = inits /\ jobn' = jobn /\ remaining' = remaining /\ (Wide' <=> Wide)
    BY <1>6 DEF Wide, Spawned
  <2>2. \A v \in Workers : Owes(v)' <=> Owes(v)
    BY <1>6 DEF TypeOK, Owes, Spawned
  <2> QED
    BY <2>1, <2>2, CountFrame
<1>7. CASE SpawnFallback
  <2>1. inits' = inits /\ jobn' = jobn /\ remaining' = remaining /\ (Wide' <=> Wide)
    BY <1>7 DEF Wide, SpawnFallback
  <2>2. \A v \in Workers : Owes(v)' <=> Owes(v)
    BY <1>7 DEF TypeOK, Owes, SpawnFallback
  <2> QED
    BY <2>1, <2>2, CountFrame
<1>8. CASE SpawnDie
  <2>1. inits' = inits /\ jobn' = jobn /\ remaining' = remaining /\ (Wide' <=> Wide)
    BY <1>8 DEF Wide, SpawnDie
  <2>2. \A v \in Workers : Owes(v)' <=> Owes(v)
    BY <1>8 DEF TypeOK, Owes, SpawnDie
  <2> QED
    BY <2>1, <2>2, CountFrame
<1>9. CASE AnswerNThreads
  <2>1. inits' = inits /\ jobn' = jobn /\ remaining' = remaining /\ (Wide' <=> Wide)
    BY <1>9 DEF Wide, AnswerNThreads
  <2>2. \A v \in Workers : Owes(v)' <=> Owes(v)
    BY <1>9 DEF TypeOK, Owes, AnswerNThreads
  <2> QED
    BY <2>1, <2>2, CountFrame
<1>10. CASE RunInline
  <2>1. inits' = inits /\ jobn' = jobn /\ remaining' = remaining /\ (Wide' <=> Wide)
    BY <1>10 DEF Wide, RunInline
  <2>2. \A v \in Workers : Owes(v)' <=> Owes(v)
    BY <1>10 DEF TypeOK, Owes, RunInline
  <2> QED
    BY <2>1, <2>2, CountFrame
<1>11. CASE Publish
  <2>1. Width(cn) \in 2 .. nth /\ inits \in 1 .. MaxInits
    BY <1>11, WidthType DEF TypeOK, SpawnInv, Publish
  <2>2. ASSUME NEW t \in 1 .. Width(cn) - 1 PROVE Owes(<<inits, t>>)'
    <3>1. <<inits, t>> \in Workers /\ <<inits, t>>[1] = inits
      BY <2>1, WorkerFacts DEF TypeOK
    <3>2. seen[<<inits, t>>] \in Nat /\ seen[<<inits, t>>] <= generation
      BY <3>1 DEF TypeOK, SeenInv, Knows
    <3> QED
      BY <1>11, <3>2 DEF TypeOK, Owes, Publish
  <2>3. Owing' = 1 .. Width(cn) - 1
    BY <1>11, <2>2 DEF Owing, Publish
  <2>4. Cardinality(Owing') = Width(cn) - 1
    BY <2>1, <2>3, FS_Interval DEF TypeOK
  <2>5. Wide' /\ remaining' = Width(cn) - 1
    BY <1>11, <2>1 DEF TypeOK, Wide, Publish
  <2> QED
    BY <2>4, <2>5 DEF CountInv
<1>12. CASE ClientFn
  <2>1. inits' = inits /\ jobn' = jobn /\ remaining' = remaining /\ (Wide' <=> Wide)
    BY <1>12 DEF Wide, ClientFn
  <2>2. \A v \in Workers : Owes(v)' <=> Owes(v)
    BY <1>12 DEF TypeOK, Owes, ClientFn
  <2> QED
    BY <2>1, <2>2, CountFrame
<1>13. CASE JoinWait
  <2>1. inits' = inits /\ jobn' = jobn /\ remaining' = remaining /\ (Wide' <=> Wide)
    BY <1>13 DEF Wide, JoinWait
  <2>2. \A v \in Workers : Owes(v)' <=> Owes(v)
    BY <1>13 DEF TypeOK, Owes, JoinWait
  <2> QED
    BY <2>1, <2>2, CountFrame
<1>14. CASE JoinDone
  <2>1. Owing = {} /\ inits >= 1
    BY <1>14, JoinedAll DEF JoinDone, SpawnInv
  <2>2. Owing' = Owing
    <3>1. inits' = inits /\ jobn' = jobn /\ \A v \in Workers : Owes(v)' <=> Owes(v)
      BY <1>14 DEF Owes, JoinDone
    <3> QED
      BY <2>1, <3>1, OwingSame
  <2>3. ~Wide'
    BY <1>14 DEF Wide, JoinDone
  <2> QED
    BY <2>1, <2>2, <2>3 DEF CountInv
<1>15. CASE Return
  <2>1. inits' = inits /\ jobn' = jobn /\ remaining' = remaining /\ (Wide' <=> Wide)
    BY <1>15 DEF Wide, Return
  <2>2. \A v \in Workers : Owes(v)' <=> Owes(v)
    BY <1>15 DEF TypeOK, Owes, Return
  <2> QED
    BY <2>1, <2>2, CountFrame
<1>16. CASE JoinThread
  <2>1. inits' = inits /\ jobn' = jobn /\ remaining' = remaining /\ (Wide' <=> Wide)
    BY <1>16 DEF Wide, JoinThread
  <2>2. \A v \in Workers : Owes(v)' <=> Owes(v)
    BY <1>16 DEF TypeOK, Owes, JoinThread
  <2> QED
    BY <2>1, <2>2, CountFrame
<1>17. CASE ShutdownDone
  <2>1. inits' = inits /\ jobn' = jobn /\ remaining' = remaining /\ (Wide' <=> Wide)
    BY <1>17 DEF Wide, ShutdownDone
  <2>2. \A v \in Workers : Owes(v)' <=> Owes(v)
    BY <1>17 DEF TypeOK, Owes, ShutdownDone
  <2> QED
    BY <2>1, <2>2, CountFrame
<1>18. ASSUME NEW w \in Workers, Sleep(w) PROVE CountInv'
  <2>1. inits' = inits /\ jobn' = jobn /\ remaining' = remaining /\ (Wide' <=> Wide)
    BY <1>18 DEF Wide, Sleep
  <2>2. \A v \in Workers : Owes(v)' <=> Owes(v)
    BY <1>18 DEF TypeOK, Owes, Sleep
  <2> QED
    BY <2>1, <2>2, CountFrame
<1>19. ASSUME NEW w \in Workers, Quit(w) PROVE CountInv'
  <2>1. inits' = inits /\ jobn' = jobn /\ remaining' = remaining /\ (Wide' <=> Wide)
    BY <1>19 DEF Wide, Quit
  <2>2. \A v \in Workers : Owes(v)' <=> Owes(v)
    BY <1>19 DEF TypeOK, Owes, Quit
  <2> QED
    BY <2>1, <2>2, CountFrame
<1>20. ASSUME NEW w \in Workers, Take(w) PROVE CountInv'
  <2>1. inits' = inits /\ jobn' = jobn /\ remaining' = remaining /\ (Wide' <=> Wide)
    BY <1>20 DEF Wide, Take
  <2>2. \A v \in Workers : Owes(v)' <=> Owes(v)
    BY <1>20 DEF TypeOK, Owes, Take
  <2> QED
    BY <2>1, <2>2, CountFrame
<1>21. ASSUME NEW w \in Workers, WorkerFn(w) PROVE CountInv'
  <2>1. inits' = inits /\ jobn' = jobn /\ remaining' = remaining /\ (Wide' <=> Wide)
    BY <1>21 DEF Wide, WorkerFn
  <2>2. \A v \in Workers : Owes(v)' <=> Owes(v)
    BY <1>21 DEF TypeOK, Owes, WorkerFn
  <2> QED
    BY <2>1, <2>2, CountFrame
<1>22. ASSUME NEW w \in Workers, Finish(w) PROVE CountInv'
  <2>0. /\ w[1] = inits /\ inits >= 1 /\ AtWork(w) /\ Knows(w)
        /\ w[2] \in Nat /\ wn[w] \in Nat /\ jobn \in Nat
    BY <1>22, AliveLatest, WorkerFacts DEF TypeOK, Finish, BusyInv, SeenInv
  <2>1. inits' = inits /\ jobn' = jobn /\ (Wide' <=> Wide)
    BY <1>22 DEF Wide, Finish
  <2>2. \A v \in Workers : v # w => Owes(v)' <=> Owes(v)
    BY <1>22 DEF TypeOK, Owes, Finish
  <2>3. Owes(w) /\ (Owes(w)' <=> seen[w] # generation)
    BY <1>22 DEF TypeOK, Owes, Finish
  <2>4. CASE Busy(w)
    <3>1. Wide /\ w[2] < jobn /\ ~Owes(w)'
      BY <2>0, <2>3, <2>4 DEF AtWork, Busy
    <3>2. w[2] \in Owing
      BY <2>0, <2>3, <3>1, OwingMember
    <3>3. ASSUME NEW t \in 1 .. jobn - 1
          PROVE  Owes(<<inits, t>>)' <=> Owes(<<inits, t>>) /\ t # w[2]
      <4>1. <<inits, t>> \in Workers /\ (<<inits, t>> = w <=> t = w[2])
        BY <2>0, WorkerFacts DEF TypeOK
      <4> QED
        BY <2>1, <2>2, <3>1, <4>1
    <3>4. Owing' = Owing \ {w[2]}
      BY <2>1, <3>3 DEF Owing
    <3>5. Cardinality(Owing') = Cardinality(Owing) - 1
      BY ZenonT(30), <3>2, <3>4, OwingFinite, FS_RemoveElement
    <3>6. remaining' = remaining - 1
      BY <1>22, <2>4 DEF Busy, Finish
    <3> QED
      BY <2>1, <3>1, <3>5, <3>6 DEF CountInv
  <2>5. CASE ~Busy(w)
    <3>1. remaining' = remaining /\ w[2] >= wn[w]
      BY <1>22, <2>0, <2>5 DEF Busy, Finish
    <3>2. w[2] < jobn => Owes(w)'
      BY <1>22, <2>0, <2>3, <3>1 DEF Knows, Finish
    <3>3. \A v \in Workers : v[1] = inits /\ v[2] < jobn => Owes(v)' <=> Owes(v)
      BY <2>2, <2>3, <3>2
    <3> QED
      BY <2>1, <3>1, <3>3, CountFrame
  <2> QED
    BY <2>4, <2>5
<1>23. ASSUME NEW w \in Workers, SpuriousWorker(w) PROVE CountInv'
  <2>1. inits' = inits /\ jobn' = jobn /\ remaining' = remaining /\ (Wide' <=> Wide)
    BY <1>23 DEF Wide, SpuriousWorker
  <2>2. \A v \in Workers : Owes(v)' <=> Owes(v)
    BY <1>23 DEF TypeOK, Owes, SpuriousWorker
  <2> QED
    BY <2>1, <2>2, CountFrame
<1>24. CASE SpuriousClient
  <2>1. inits' = inits /\ jobn' = jobn /\ remaining' = remaining /\ (Wide' <=> Wide)
    BY <1>24 DEF Wide, SpuriousClient
  <2>2. \A v \in Workers : Owes(v)' <=> Owes(v)
    BY <1>24 DEF TypeOK, Owes, SpuriousClient
  <2> QED
    BY <2>1, <2>2, CountFrame
<1>25. CASE Rest \/ UNCHANGED vars
  <2>1. inits' = inits /\ jobn' = jobn /\ remaining' = remaining /\ (Wide' <=> Wide)
    BY <1>25 DEF Wide, Rest, vars
  <2>2. \A v \in Workers : Owes(v)' <=> Owes(v)
    BY <1>25 DEF TypeOK, Owes, Rest, vars
  <2> QED
    BY <2>1, <2>2, CountFrame
<1> QED
  BY <1>1, <1>2, <1>3, <1>4, <1>5, <1>6, <1>7, <1>8, <1>9, <1>10, <1>11, <1>12, <1>13,
     <1>14, <1>15, <1>16, <1>17, <1>18, <1>19, <1>20, <1>21, <1>22, <1>23, <1>24, <1>25
  DEF Next, ClientStep, WorkerStep

LEMMA CallStep ==
  ASSUME TypeOK, SpawnInv, JobInv, CallInv, [Next]_vars
  PROVE  CallInv'
<1> USE Bounds DEF globals, client, workers, counts, JobInv
<1> SUFFICES ASSUME NEW t \in Tids PROVE Called(t)'
  BY DEF CallInv
<1>0. /\ Called(t) /\ t \in Nat /\ calls[t] \in Nat
      /\ Running => inits >= 1 /\ cn \in 1 .. MaxThreads
      /\ inits >= 1 /\ t > 0 => <<inits, t>> \in Workers
  <2>1. Called(t) /\ t \in Nat /\ calls[t] \in Nat
    BY DEF TypeOK, Tids, CallInv
  <2>2. Running => inits >= 1 /\ cn \in 1 .. MaxThreads
    BY DEF TypeOK, Running, SpawnInv, WidthInv
  <2>3. inits >= 1 /\ t > 0 => inits \in 1 .. MaxInits /\ t \in 1 .. MaxThreads - 1
    BY DEF TypeOK, Tids
  <2>4. inits >= 1 /\ t > 0 => <<inits, t>> \in Workers
    BY <2>3, WorkerFacts
  <2> QED
    BY <2>1, <2>2, <2>4
<1>1. ASSUME NEW n \in Requests, SetThreads(n) PROVE Called(t)'
  BY <1>1, <1>0 DEF Called, Running, SetThreads
<1>2. ASSUME NEW n \in Requests \cup {NThreads}, EnterStarted(n) PROVE Called(t)'
  BY <1>2, <1>0 DEF Called, Running, EnterStarted
<1>3. ASSUME NEW n \in Requests \cup {NThreads}, EnterFresh(n) PROVE Called(t)'
  BY <1>3, <1>0 DEF Called, Running, EnterFresh
<1>4. CASE Shutdown
  BY <1>4, <1>0 DEF Called, Running, Shutdown
<1>5. CASE Spawn
  BY <1>5 , <1>0 DEF Called, Running, Spawn
<1>6. CASE Spawned
  BY <1>6, <1>0 DEF Called, Running, Spawned
<1>7. CASE SpawnFallback
  BY <1>7, <1>0 DEF Called, Running, SpawnFallback
<1>8. CASE SpawnDie
  BY <1>8, <1>0 DEF Called, Running, SpawnDie
<1>9. CASE AnswerNThreads
  BY <1>9, <1>0 DEF Called, Running, AnswerNThreads
<1>10. CASE RunInline
  BY <1>10, <1>0 DEF TypeOK, Called, RunInline
<1>11. CASE Publish
  <2>1. Width(cn) \in 1 .. nth /\ inits >= 1
    BY <1>11, WidthType DEF TypeOK, SpawnInv, Publish
  <2>2. t > 0 => seen[<<inits, t>>] \in Nat /\ seen[<<inits, t>>] <= generation
    <3>1. t > 0 => <<inits, t>> \in Workers /\ <<inits, t>>[1] = inits
      BY <1>0, <2>1
    <3> QED
      BY <3>1 DEF TypeOK, SeenInv, Knows
  <2> QED
    BY <1>11, <1>0, <2>1, <2>2 DEF TypeOK, Called, Publish
<1>12. CASE ClientFn
  <2>1. calls'[t] = IF t = 0 THEN calls[t] + 1 ELSE calls[t]
    BY <1>12 DEF TypeOK, ClientFn
  <2> QED
    BY <1>12, <1>0, <2>1 DEF Called, Running, ClientFn
<1>13. CASE JoinWait
  BY <1>13, <1>0 DEF Called, Running, JoinWait
<1>14. CASE JoinDone
  BY <1>14, <1>0 DEF Called, Running, JoinDone
<1>15. CASE Return
  BY <1>15, <1>0 DEF Called, Running, Return
<1>16. CASE JoinThread
  BY <1>16, <1>0 DEF Called, Running, JoinThread
<1>17. CASE ShutdownDone
  BY <1>17, <1>0 DEF Called, Running, ShutdownDone
<1>18. ASSUME NEW w \in Workers, Sleep(w) PROVE Called(t)'
  <2>1. \A v \in Workers : seen'[v] = seen[v] /\ (wpc'[v] = "fn" <=> wpc[v] = "fn")
    BY <1>18 DEF TypeOK, Sleep
  <2> QED
    BY <1>18, <1>0, <2>1 DEF Called, Running, Sleep
<1>19. ASSUME NEW w \in Workers, Quit(w) PROVE Called(t)'
  <2>1. \A v \in Workers : seen'[v] = seen[v] /\ (wpc'[v] = "fn" <=> wpc[v] = "fn")
    BY <1>19 DEF TypeOK, Quit
  <2> QED
    BY <1>19, <1>0, <2>1 DEF Called, Running, Quit
<1>20. ASSUME NEW w \in Workers, Take(w) PROVE Called(t)'
  <2>1. Running' <=> Running
    BY <1>20 DEF Running, Take
  <2>2. CASE w = <<inits, t>>
    BY <1>20, <1>0, <2>1, <2>2 DEF TypeOK, Called, Take
  <2>3. CASE w # <<inits, t>>
    BY <1>20, <1>0, <2>1, <2>3 DEF TypeOK, Called, Take
  <2> QED
    BY <2>2, <2>3
<1>21. ASSUME NEW w \in Workers, WorkerFn(w) PROVE Called(t)'
  <2>0. w[1] = inits /\ w = <<inits, w[2]>> /\ w[2] \in 1 .. MaxThreads - 1
    BY <1>21, AliveLatest, WorkerFacts DEF TypeOK, WorkerFn
  <2>1. /\ Running' <=> Running
        /\ cpc' = cpc /\ inits' = inits /\ generation' = generation /\ cn' = cn
        /\ seen' = seen
    BY <1>21 DEF Running, WorkerFn
  <2>2. CASE t = w[2]
    <3>1. wpc[<<inits, t>>] = "fn" /\ wpc'[<<inits, t>>] = "tail" /\ t > 0
      BY <1>21, <2>0, <2>2 DEF TypeOK, WorkerFn
    <3>2. CASE Busy(w)
      <4>1. t < cn /\ seen[<<inits, t>>] = generation /\ Running
        BY <2>0, <2>2, <3>2 DEF BusyInv, AtWork, Busy, Wide, WidthInv, Running
      <4>2. calls'[t] = calls[t] + 1
        BY <1>21, <2>2, <3>2 DEF TypeOK, Busy, WorkerFn
      <4>3. calls[t] = 0
        BY <1>0, <3>1, <4>1 DEF Called
      <4>4. t \in 1 .. cn - 1
        BY <1>0, <3>1, <4>1
      <4> QED
        BY <1>0, <2>1, <3>1, <4>1, <4>2, <4>3, <4>4 DEF Called
    <3>3. CASE ~Busy(w)
      <4>1. calls' = calls /\ w[2] >= wn[w]
        BY <1>21, <2>0, <3>3 DEF TypeOK, Busy, WorkerFn
      <4>2. Running /\ t < cn => seen[<<inits, t>>] # generation
        BY <1>21, <1>0, <2>0, <2>2, <3>1, <4>1 DEF SeenInv, Knows, WidthInv, WorkerFn
      <4> QED
        BY <1>0, <2>1, <3>1, <4>1, <4>2 DEF Called
    <3> QED
      BY <3>2, <3>3
  <2>3. CASE t # w[2]
    <3>1. calls'[t] = calls[t]
      BY <1>21, <2>3 DEF TypeOK, WorkerFn
    <3>2. wpc'[<<inits, t>>] = wpc[<<inits, t>>]
      BY <1>21, <2>0, <2>3 DEF TypeOK, WorkerFn
    <3> QED
      BY <1>0, <2>1, <3>1, <3>2 DEF Called
  <2> QED
    BY <2>2, <2>3
<1>22. ASSUME NEW w \in Workers, Finish(w) PROVE Called(t)'
  <2>1. \A v \in Workers : seen'[v] = seen[v] /\ (wpc'[v] = "fn" <=> wpc[v] = "fn")
    BY <1>22 DEF TypeOK, Finish
  <2>2. /\ Running' <=> Running
        /\ cpc' = "fn" <=> cpc = "fn"
        /\ inits' = inits /\ generation' = generation /\ cn' = cn /\ calls' = calls
    BY <1>22 DEF Running, Finish
  <2> QED
    BY <1>0, <2>1, <2>2 DEF Called
<1>23. ASSUME NEW w \in Workers, SpuriousWorker(w) PROVE Called(t)'
  <2>1. \A v \in Workers : seen'[v] = seen[v] /\ (wpc'[v] = "fn" <=> wpc[v] = "fn")
    BY <1>23 DEF TypeOK, SpuriousWorker
  <2> QED
    BY <1>23, <1>0, <2>1 DEF Called, Running, SpuriousWorker
<1>24. CASE SpuriousClient
  BY <1>24, <1>0 DEF Called, Running, SpuriousClient
<1>25. CASE Rest \/ UNCHANGED vars
  BY <1>25, <1>0 DEF Called, Running, Rest, vars
<1> QED
  BY <1>1, <1>2, <1>3, <1>4, <1>5, <1>6, <1>7, <1>8, <1>9, <1>10, <1>11, <1>12, <1>13,
     <1>14, <1>15, <1>16, <1>17, <1>18, <1>19, <1>20, <1>21, <1>22, <1>23, <1>24, <1>25
  DEF Next, ClientStep, WorkerStep

\* A signal wakes every worker it is meant for, as only one is alive for each
\* thread number.
LEMMA SignalWakes ==
  ASSUME TypeOK, SpawnInv, NEW T, Signal(T),
         NEW w \in Workers, wpc[w] = "wait", w[2] \in T
  PROVE  wpc'[w] = "top"
<1>1. PICK S \in SUBSET Sleepers(T) :
        /\ \A x \in Sleepers(T) : \E v \in S : v[2] = x[2]
        /\ wpc' = [x \in Workers |-> IF x \in S THEN "top" ELSE wpc[x]]
  BY DEF Signal
<1>2. w \in Sleepers(T)
  BY DEF Sleepers
<1>3. PICK v \in S : v[2] = w[2]
  BY <1>1, <1>2
<1>4. v \in Workers /\ wpc[v] = "wait"
  BY DEF Sleepers
<1>5. v[1] = inits /\ w[1] = inits
  BY <1>4, AliveLatest
<1>6. v = w
  BY <1>3, <1>4, <1>5, WorkerFacts
<1> QED
  BY <1>1, <1>6

LEMMA SleepersStep ==
  ASSUME TypeOK, SpawnInv, WakeInv, [Next]_vars
  PROVE  \A w \in Workers : Wakeful(w)'
<1> USE Bounds DEF globals, client, workers, counts
<1> SUFFICES ASSUME NEW v \in Workers PROVE Wakeful(v)'
  OBVIOUS
<1>0. /\ Wakeful(v) /\ Thread(v) /\ v[1] \in Nat /\ v[2] \in Nat /\ v[2] >= 1
      /\ seen[v] \in Nat
  BY WorkerFacts DEF TypeOK, SpawnInv, WakeInv
<1>1. ASSUME NEW n \in Requests, SetThreads(n) PROVE Wakeful(v)'
  BY <1>1, <1>0 DEF TypeOK, Thread, Wakeful, SetThreads
<1>2. ASSUME NEW n \in Requests \cup {NThreads}, EnterStarted(n) PROVE Wakeful(v)'
  BY <1>2, <1>0 DEF TypeOK, Thread, Wakeful, EnterStarted
<1>3. ASSUME NEW n \in Requests \cup {NThreads}, EnterFresh(n) PROVE Wakeful(v)'
  BY <1>3, <1>0 DEF TypeOK, Thread, Wakeful, EnterFresh
<1>4. CASE Shutdown
  <2>1. wpc'[v] = "wait" => wpc[v] = "wait" /\ v[2] \notin 1 .. nth - 1
    BY <1>4, SignalEffect, SignalWakes DEF TypeOK, Shutdown
  <2> QED
    BY <1>4, <1>0, <2>1 DEF TypeOK, Wakeful, Shutdown
<1>5. CASE Spawn
  BY <1>5, <1>0 DEF TypeOK, Thread, Wakeful, Spawn
<1>6. CASE Spawned
  BY <1>6, <1>0 DEF TypeOK, Thread, Wakeful, Spawned
<1>7. CASE SpawnFallback
  BY <1>7, <1>0 DEF TypeOK, Thread, Wakeful, SpawnFallback
<1>8. CASE SpawnDie
  BY <1>8, <1>0 DEF TypeOK, Thread, Wakeful, SpawnDie
<1>9. CASE AnswerNThreads
  BY <1>9, <1>0 DEF TypeOK, Thread, Wakeful, AnswerNThreads
<1>10. CASE RunInline
  BY <1>10, <1>0 DEF TypeOK, Thread, Wakeful, RunInline
<1>11. CASE Publish
  <2>0. Width(cn) \in 1 .. nth
    BY WidthType DEF TypeOK
  <2>1. wpc'[v] = "wait" => wpc[v] = "wait" /\ v[2] \notin 1 .. Width(cn) - 1
    BY <1>11, SignalEffect, SignalWakes DEF TypeOK, Publish
  <2>2. stop = 0
    BY <1>11 DEF TypeOK, SpawnInv, Publish
  <2> QED
    BY <1>11, <1>0, <2>0, <2>1, <2>2 DEF TypeOK, Wakeful, Publish
<1>12. CASE ClientFn
  BY <1>12, <1>0 DEF TypeOK, Thread, Wakeful, ClientFn
<1>13. CASE JoinWait
  BY <1>13, <1>0 DEF TypeOK, Thread, Wakeful, JoinWait
<1>14. CASE JoinDone
  BY <1>14, <1>0 DEF TypeOK, Thread, Wakeful, JoinDone
<1>15. CASE Return
  BY <1>15, <1>0 DEF TypeOK, Thread, Wakeful, Return
<1>16. CASE JoinThread
  BY <1>16, <1>0 DEF TypeOK, Thread, Wakeful, JoinThread
<1>17. CASE ShutdownDone
  BY <1>17, <1>0 DEF TypeOK, Thread, Wakeful, ShutdownDone
<1>18. ASSUME NEW w \in Workers, Sleep(w) PROVE Wakeful(v)'
  BY <1>18, <1>0 DEF TypeOK, Thread, Wakeful, Sleep
<1>19. ASSUME NEW w \in Workers, Quit(w) PROVE Wakeful(v)'
  BY <1>19, <1>0 DEF TypeOK, Thread, Wakeful, Quit
<1>20. ASSUME NEW w \in Workers, Take(w) PROVE Wakeful(v)'
  BY <1>20, <1>0 DEF TypeOK, Thread, Wakeful, Take
<1>21. ASSUME NEW w \in Workers, WorkerFn(w) PROVE Wakeful(v)'
  BY <1>21, <1>0 DEF TypeOK, Thread, Wakeful, WorkerFn
<1>22. ASSUME NEW w \in Workers, Finish(w) PROVE Wakeful(v)'
  BY <1>22, <1>0 DEF TypeOK, Thread, Wakeful, Finish
<1>23. ASSUME NEW w \in Workers, SpuriousWorker(w) PROVE Wakeful(v)'
  BY <1>23, <1>0 DEF TypeOK, Thread, Wakeful, SpuriousWorker
<1>24. CASE SpuriousClient
  BY <1>24, <1>0 DEF TypeOK, Thread, Wakeful, SpuriousClient
<1>25. CASE Rest \/ UNCHANGED vars
  BY <1>25, <1>0 DEF TypeOK, Thread, Wakeful, Rest, vars
<1> QED
  BY <1>1, <1>2, <1>3, <1>4, <1>5, <1>6, <1>7, <1>8, <1>9, <1>10, <1>11, <1>12, <1>13,
     <1>14, <1>15, <1>16, <1>17, <1>18, <1>19, <1>20, <1>21, <1>22, <1>23, <1>24, <1>25
  DEF Next, ClientStep, WorkerStep

LEMMA ClientWakeStep ==
  ASSUME TypeOK, WakeInv, [Next]_vars
  PROVE  cpc' = "wait" => remaining' > 0
<1> USE Bounds DEF globals, client, workers, counts
<1>1. ASSUME NEW n \in Requests, SetThreads(n) PROVE cpc' = "wait" => remaining' > 0
  BY <1>1 DEF TypeOK, WakeInv, SetThreads
<1>2. ASSUME NEW n \in Requests \cup {NThreads}, EnterStarted(n) PROVE cpc' = "wait" => remaining' > 0
  BY <1>2 DEF TypeOK, WakeInv, EnterStarted
<1>3. ASSUME NEW n \in Requests \cup {NThreads}, EnterFresh(n) PROVE cpc' = "wait" => remaining' > 0
  BY <1>3 DEF TypeOK, WakeInv, EnterFresh
<1>4. CASE Shutdown
  BY <1>4 DEF TypeOK, WakeInv, Shutdown
<1>5. CASE Spawn
  BY <1>5 DEF TypeOK, WakeInv, Spawn
<1>6. CASE Spawned
  BY <1>6 DEF TypeOK, WakeInv, Spawned
<1>7. CASE SpawnFallback
  BY <1>7 DEF TypeOK, WakeInv, SpawnFallback
<1>8. CASE SpawnDie
  BY <1>8 DEF TypeOK, WakeInv, SpawnDie
<1>9. CASE AnswerNThreads
  BY <1>9 DEF TypeOK, WakeInv, AnswerNThreads
<1>10. CASE RunInline
  BY <1>10 DEF TypeOK, WakeInv, RunInline
<1>11. CASE Publish
  BY <1>11 DEF TypeOK, WakeInv, Publish
<1>12. CASE ClientFn
  BY <1>12 DEF TypeOK, WakeInv, ClientFn
<1>13. CASE JoinWait
  BY <1>13 DEF TypeOK, WakeInv, JoinWait
<1>14. CASE JoinDone
  BY <1>14 DEF TypeOK, WakeInv, JoinDone
<1>15. CASE Return
  BY <1>15 DEF TypeOK, WakeInv, Return
<1>16. CASE JoinThread
  BY <1>16 DEF TypeOK, WakeInv, JoinThread
<1>17. CASE ShutdownDone
  BY <1>17 DEF TypeOK, WakeInv, ShutdownDone
<1>18. ASSUME NEW w \in Workers, Sleep(w) PROVE cpc' = "wait" => remaining' > 0
  BY <1>18 DEF TypeOK, WakeInv, Sleep
<1>19. ASSUME NEW w \in Workers, Quit(w) PROVE cpc' = "wait" => remaining' > 0
  BY <1>19 DEF TypeOK, WakeInv, Quit
<1>20. ASSUME NEW w \in Workers, Take(w) PROVE cpc' = "wait" => remaining' > 0
  BY <1>20 DEF TypeOK, WakeInv, Take
<1>21. ASSUME NEW w \in Workers, WorkerFn(w) PROVE cpc' = "wait" => remaining' > 0
  BY <1>21 DEF TypeOK, WakeInv, WorkerFn
<1>22. ASSUME NEW w \in Workers, Finish(w) PROVE cpc' = "wait" => remaining' > 0
  BY <1>22 DEF TypeOK, WakeInv, Finish
<1>23. ASSUME NEW w \in Workers, SpuriousWorker(w) PROVE cpc' = "wait" => remaining' > 0
  BY <1>23 DEF TypeOK, WakeInv, SpuriousWorker
<1>24. CASE SpuriousClient
  BY <1>24 DEF TypeOK, WakeInv, SpuriousClient
<1>25. CASE Rest \/ UNCHANGED vars
  BY <1>25 DEF TypeOK, WakeInv, Rest, vars
<1> QED
  BY <1>1, <1>2, <1>3, <1>4, <1>5, <1>6, <1>7, <1>8, <1>9, <1>10, <1>11, <1>12, <1>13,
     <1>14, <1>15, <1>16, <1>17, <1>18, <1>19, <1>20, <1>21, <1>22, <1>23, <1>24, <1>25
  DEF Next, ClientStep, WorkerStep

\* IInv holds in every reachable state, if no pool is started again after a
\* failed spawn.
THEOREM Inductive == ASSUME NoRespawn PROVE Spec => []IInv
<1>1. Init => IInv
  <2> SUFFICES ASSUME Init PROVE IInv
    OBVIOUS
  <2>1. TypeOK
    BY Bounds DEF Init, TypeOK, Tids
  <2>2. SpawnInv
    BY Bounds, WorkerFacts DEF Init, SpawnInv, Thread
  <2>3. SeenInv /\ BusyInv
    BY Bounds, WorkerFacts DEF Init, SeenInv, Knows, BusyInv, AtWork, Busy
  <2>4. WidthInv /\ CountInv
    BY DEF Init, WidthInv, CountInv, Running, Wide
  <2>5. CallInv /\ WakeInv
    BY DEF Init, CallInv, Called, WakeInv, Wakeful, Running
  <2> QED
    BY <2>1, <2>2, <2>3, <2>4, <2>5 DEF IInv, JobInv
<1>2. IInv /\ [Next]_vars => IInv'
  <2> SUFFICES ASSUME IInv, [Next]_vars PROVE IInv'
    OBVIOUS
  <2>1. TypeOK'
    BY TypeStep DEF IInv
  <2>2. SpawnInv'
    BY SpawnStep DEF IInv
  <2>3. JobInv'
    BY SeenStep, BusyStep, WidthStep, CountStep DEF IInv, JobInv
  <2>4. CallInv' /\ WakeInv'
    BY CallStep, SleepersStep, ClientWakeStep DEF IInv, WakeInv
  <2> QED
    BY <2>1, <2>2, <2>3, <2>4 DEF IInv
<1> QED
  BY <1>1, <1>2, PTL DEF Spec

\* No worker uses the ctx of a pool_run that has returned.
THEOREM CtxAliveAlways == ASSUME NoRespawn PROVE Spec => []CtxAlive
<1>1. IInv => CtxAlive
  BY DEF IInv, JobInv, BusyInv, AtWork, WidthInv, CtxAlive, Wide, Running
<1> QED
  BY Inductive, <1>1, PTL

\* remaining counts the workers that have not reported.
THEOREM RemainingAlwaysExact == ASSUME NoRespawn PROVE Spec => []RemainingExact
<1>1. IInv => RemainingExact
  BY DEF IInv, JobInv, CountInv, RemainingExact, Wide
<1> QED
  BY Inductive, <1>1, PTL

\* Nobody sleeps through a job, a stop or the end of a join.
THEOREM NoWakeupLost == ASSUME NoRespawn PROVE Spec => []NoLostWakeup
<1>1. IInv => NoLostWakeup
  <2> SUFFICES ASSUME IInv PROVE NoLostWakeup
    OBVIOUS
  <2>1. ASSUME cpc = "wait" PROVE Owing # {}
    <3>1. Wide /\ remaining > 0
      BY <2>1 DEF IInv, JobInv, WidthInv, WakeInv, Wide
    <3>2. remaining = Cardinality(Owing)
      BY <3>1 DEF IInv, JobInv, CountInv
    <3> QED
      BY <3>1, <3>2, FS_EmptySet
  <2> QED
    BY <2>1 DEF IInv, WakeInv, Wakeful, NoLostWakeup
<1> QED
  BY Inductive, <1>1, PTL

LEMMA CalledOnce == ASSUME IInv PROVE ExactlyOnce
<1> SUFFICES ASSUME NEW t \in Tids
             PROVE  /\ calls[t] <= 1
                    /\ cpc = "return" => calls[t] = IF t < cn THEN 1 ELSE 0
  BY DEF ExactlyOnce
<1>1. Called(t) /\ t \in Nat
  BY DEF IInv, CallInv, Tids
<1>2. ASSUME cpc = "return", t \in 1 .. cn - 1
      PROVE  seen[<<inits, t>>] = generation /\ wpc[<<inits, t>>] # "fn"
  <2>1. inits \in 1 .. MaxInits /\ t \in 1 .. MaxThreads - 1 /\ jobn = cn
    BY <1>1, <1>2, Bounds DEF IInv, TypeOK, Tids, SpawnInv, JobInv, WidthInv, Running
  <2>2. Owing = {}
    BY <1>2, <2>1 DEF IInv, JobInv, CountInv, Wide
  <2>3. ~Owes(<<inits, t>>)
    BY <1>2, <2>1, <2>2 DEF Owing
  <2> QED
    BY <2>3 DEF Owes
<1>3. cpc = "return" => cn \in 1 .. nth /\ nth \in Nat
  BY DEF IInv, TypeOK, JobInv, WidthInv, Running
<1> QED
  BY <1>1, <1>2, <1>3 DEF Called, Running

\* Every pool_run that returns has executed fn exactly once per thread number
\* below its width.
THEOREM ExactlyOnceAlways == ASSUME NoRespawn PROVE Spec => []ExactlyOnce
<1>1. IInv => ExactlyOnce
  BY CalledOnce
<1> QED
  BY Inductive, <1>1, PTL

\* A step that the abstract specification does not see.
LEMMA Stutter ==
  ASSUME calls' = calls, Running' <=> Running, Running => cn' = cn
  PROVE  UNCHANGED FJ!vars
  BY DEF FJ!vars

LEMMA StepRefines ==
  ASSUME IInv, [Next]_vars
  PROVE  FJ!Next \/ UNCHANGED FJ!vars
<1> USE DEF globals, client, workers, counts
<1>1. ASSUME NEW n \in Requests, SetThreads(n) PROVE FJ!Next \/ UNCHANGED FJ!vars
  <2> calls' = calls /\ (Running' <=> Running) /\ (Running => cn' = cn)
    BY <1>1 DEF Running, SetThreads
  <2> QED
    BY Stutter
<1>2. ASSUME NEW n \in Requests \cup {NThreads}, EnterStarted(n) PROVE FJ!Next \/ UNCHANGED FJ!vars
  <2> calls' = calls /\ (Running' <=> Running) /\ (Running => cn' = cn)
    BY <1>2 DEF Running, EnterStarted
  <2> QED
    BY Stutter
<1>3. ASSUME NEW n \in Requests \cup {NThreads}, EnterFresh(n) PROVE FJ!Next \/ UNCHANGED FJ!vars
  <2> calls' = calls /\ (Running' <=> Running) /\ (Running => cn' = cn)
    BY <1>3 DEF Running, EnterFresh
  <2> QED
    BY Stutter
<1>4. CASE Shutdown
  <2> calls' = calls /\ (Running' <=> Running) /\ (Running => cn' = cn)
    BY <1>4 DEF Running, Shutdown
  <2> QED
    BY Stutter
<1>5. CASE Spawn
  <2> calls' = calls /\ (Running' <=> Running) /\ (Running => cn' = cn)
    BY <1>5 DEF Running, Spawn
  <2> QED
    BY Stutter
<1>6. CASE Spawned
  <2> calls' = calls /\ (Running' <=> Running) /\ (Running => cn' = cn)
    BY <1>6 DEF Running, Spawned
  <2> QED
    BY Stutter
<1>7. CASE SpawnFallback
  <2> calls' = calls /\ (Running' <=> Running) /\ (Running => cn' = cn)
    BY <1>7 DEF Running, SpawnFallback
  <2> QED
    BY Stutter
<1>8. CASE SpawnDie
  <2> calls' = calls /\ (Running' <=> Running) /\ (Running => cn' = cn)
    BY <1>8 DEF Running, SpawnDie
  <2> QED
    BY Stutter
<1>9. CASE AnswerNThreads
  <2> calls' = calls /\ (Running' <=> Running) /\ (Running => cn' = cn)
    BY <1>9 DEF Running, AnswerNThreads
  <2> QED
    BY Stutter
<1>10. CASE RunInline
  <2>1. Width(cn) \in 1 .. MaxThreads
    BY WidthType, Bounds DEF IInv, TypeOK
  <2>2. ~Running /\ Running' /\ cn' = Width(cn) /\ calls' = [t \in Tids |-> 0]
    BY <1>10 DEF Running, RunInline
  <2>3. FJ!Fork(Width(cn))
    BY <2>2 DEF FJ!Fork, FJ!Tids, Tids
  <2> QED
    BY <2>1, <2>3 DEF FJ!Next
<1>11. CASE Publish
  <2>1. Width(cn) \in 1 .. MaxThreads
    BY WidthType, Bounds DEF IInv, TypeOK
  <2>2. ~Running /\ Running' /\ cn' = Width(cn) /\ calls' = [t \in Tids |-> 0]
    BY <1>11 DEF Running, Publish
  <2>3. FJ!Fork(Width(cn))
    BY <2>2 DEF FJ!Fork, FJ!Tids, Tids
  <2> QED
    BY <2>1, <2>3 DEF FJ!Next
<1>12. CASE ClientFn
  <2>1. 0 \in Tids /\ Running /\ Running' /\ cn' = cn /\ 0 < cn
    BY <1>12, Bounds DEF IInv, TypeOK, JobInv, WidthInv, Tids, Running, ClientFn
  <2>2. calls[0] = 0 /\ calls' = [calls EXCEPT ![0] = 1]
    <3>1. calls[0] = 0
      <4>1. Called(0) /\ cpc = "fn" /\ 0 \notin 1 .. cn - 1
        BY <1>12, <2>1 DEF IInv, CallInv, ClientFn
      <4> QED
        BY <2>1, <4>1 DEF Called
    <3> QED
      BY <1>12, <3>1 DEF ClientFn
  <2>3. FJ!Call(0)
    BY <2>1, <2>2 DEF FJ!Call
  <2> QED
    BY <2>1, <2>3 DEF FJ!Next, FJ!Tids, Tids
<1>13. CASE JoinWait
  <2> calls' = calls /\ (Running' <=> Running) /\ (Running => cn' = cn)
    BY <1>13 DEF Running, JoinWait
  <2> QED
    BY Stutter
<1>14. CASE JoinDone
  <2> calls' = calls /\ (Running' <=> Running) /\ (Running => cn' = cn)
    BY <1>14 DEF Running, JoinDone
  <2> QED
    BY Stutter
<1>15. CASE Return
  <2>1. Running /\ ~Running' /\ calls' = calls
    BY <1>15 DEF Running, Return
  <2>2. \A t \in Tids : t < cn => calls[t] = 1
    BY <1>15, CalledOnce DEF ExactlyOnce, Return
  <2>3. FJ!Join
    BY <2>1, <2>2 DEF FJ!Join, FJ!Tids, Tids
  <2> QED
    BY <2>3 DEF FJ!Next
<1>16. CASE JoinThread
  <2> calls' = calls /\ (Running' <=> Running) /\ (Running => cn' = cn)
    BY <1>16 DEF Running, JoinThread
  <2> QED
    BY Stutter
<1>17. CASE ShutdownDone
  <2> calls' = calls /\ (Running' <=> Running) /\ (Running => cn' = cn)
    BY <1>17 DEF Running, ShutdownDone
  <2> QED
    BY Stutter
<1>18. ASSUME NEW w \in Workers, Sleep(w) PROVE FJ!Next \/ UNCHANGED FJ!vars
  <2> calls' = calls /\ (Running' <=> Running) /\ (Running => cn' = cn)
    BY <1>18 DEF Running, Sleep
  <2> QED
    BY Stutter
<1>19. ASSUME NEW w \in Workers, Quit(w) PROVE FJ!Next \/ UNCHANGED FJ!vars
  <2> calls' = calls /\ (Running' <=> Running) /\ (Running => cn' = cn)
    BY <1>19 DEF Running, Quit
  <2> QED
    BY Stutter
<1>20. ASSUME NEW w \in Workers, Take(w) PROVE FJ!Next \/ UNCHANGED FJ!vars
  <2> calls' = calls /\ (Running' <=> Running) /\ (Running => cn' = cn)
    BY <1>20 DEF Running, Take
  <2> QED
    BY Stutter
<1>21. ASSUME NEW w \in Workers, WorkerFn(w) PROVE FJ!Next \/ UNCHANGED FJ!vars
  <2>0. w[1] = inits /\ w = <<inits, w[2]>> /\ w[2] \in 1 .. MaxThreads - 1
    BY <1>21, AliveLatest, WorkerFacts DEF IInv, TypeOK, WorkerFn
  <2>9. cpc' = cpc /\ cn' = cn
    BY <1>21 DEF WorkerFn
  <2>4. CASE ~Busy(w)
    <3>1. calls' = calls
      BY <1>21, <2>4 DEF Busy, WorkerFn
    <3> QED
      BY <2>9, <3>1, Stutter DEF Running
  <2>5. CASE Busy(w)
    <3>1. w[2] \in Tids /\ w[2] < cn /\ Running
      BY <2>0, <2>5 DEF IInv, JobInv, BusyInv, AtWork, Busy, Wide, WidthInv, Running, Tids
    <3>2. calls[w[2]] = 0
      BY <1>21, <2>0, <3>1 DEF IInv, CallInv, Called, Tids, WorkerFn
    <3>3. calls' = [calls EXCEPT ![w[2]] = 1]
      BY <1>21, <2>5, <3>2 DEF Busy, WorkerFn
    <3>4. FJ!Call(w[2])
      BY <2>9, <3>1, <3>2, <3>3 DEF FJ!Call, Running
    <3> QED
      BY <3>1, <3>4 DEF FJ!Next, FJ!Tids, Tids
  <2> QED
    BY <2>4, <2>5
<1>22. ASSUME NEW w \in Workers, Finish(w) PROVE FJ!Next \/ UNCHANGED FJ!vars
  <2> calls' = calls /\ (Running' <=> Running) /\ (Running => cn' = cn)
    BY <1>22 DEF Running, Finish
  <2> QED
    BY Stutter
<1>23. ASSUME NEW w \in Workers, SpuriousWorker(w) PROVE FJ!Next \/ UNCHANGED FJ!vars
  <2> calls' = calls /\ (Running' <=> Running) /\ (Running => cn' = cn)
    BY <1>23 DEF Running, SpuriousWorker
  <2> QED
    BY Stutter
<1>24. CASE SpuriousClient
  <2> calls' = calls /\ (Running' <=> Running) /\ (Running => cn' = cn)
    BY <1>24 DEF Running, SpuriousClient
  <2> QED
    BY Stutter
<1>25. CASE Rest \/ UNCHANGED vars
  <2> calls' = calls /\ (Running' <=> Running) /\ (Running => cn' = cn)
    BY <1>25 DEF Running, Rest, vars
  <2> QED
    BY Stutter
<1> QED
  BY <1>1, <1>2, <1>3, <1>4, <1>5, <1>6, <1>7, <1>8, <1>9, <1>10, <1>11, <1>12, <1>13,
     <1>14, <1>15, <1>16, <1>17, <1>18, <1>19, <1>20, <1>21, <1>22, <1>23, <1>24, <1>25
  DEF Next, ClientStep, WorkerStep

\* The pool implements the fork-join contract, for every number of threads.
THEOREM Refinement == ASSUME NoRespawn PROVE Spec => ImplementsForkJoin
<1>1. Init => FJ!Init
  BY DEF Init, FJ!Init, FJ!Tids, Tids, Running
<1>2. IInv /\ [Next]_vars => [FJ!Next]_(FJ!vars)
  BY StepRefines
<1> QED
  BY Inductive, <1>1, <1>2, PTL DEF Spec, ImplementsForkJoin, FJ!Spec
=============================================================================
