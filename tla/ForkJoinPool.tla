---------------------------- MODULE ForkJoinPool ----------------------------
(***************************************************************************)
(* The fork-join thread pool of pim_func (src/pim_func/src/pool.cpp) and   *)
(* its twins in the host backends (x86_64-simd/pool.c,                     *)
(* aarch64-simd/pool.c).                                                   *)
(*                                                                         *)
(* One client thread calls the pool; every other thread is a worker.  All  *)
(* shared state is read and written under the mutex mu, so an action is    *)
(* one critical section.  pthread_cond_wait releases mu and sleeps in one  *)
(* step ("wait"); a thread leaves "wait" by a signal or spuriously and     *)
(* then re-evaluates its predicate.                                        *)
(*                                                                         *)
(* A worker is a pair <<i, t>>: the thread with argument t that the i-th   *)
(* ensure_init spawned.  Workers of different inits with the same t share  *)
(* cv_worker[t].                                                           *)
(***************************************************************************)
EXTENDS Integers, FiniteSets

CONSTANTS
  MaxThreads,     \* kMaxPoolThreads, LLM_MAX_THREADS
  EnvThreads,     \* PIM_NTHREADS as env_n() returns it; 0 = unset
  Restartable,    \* TRUE: pool.cpp, whose shutdown leaves a pool that can be
                  \* started again; FALSE: pool.c, shut down only at exit
  MaxInits,       \* bound: how often ensure_init spawns workers
  FailInits,      \* the inits in which pthread_create may fail
  MaxRuns         \* bound: how many jobs are run

ASSUME PoolAssumption ==
  /\ MaxThreads \in Nat \ {0}
  /\ EnvThreads \in 0 .. MaxThreads
  /\ Restartable \in BOOLEAN
  /\ MaxInits \in Nat
  /\ FailInits \subseteq 1 .. MaxInits
  /\ MaxRuns \in Nat

Tids    == 0 .. MaxThreads - 1
Workers == (1 .. MaxInits) \X (1 .. MaxThreads - 1)

VARIABLES
  \* the pool's globals
  req,            \* req_n, as pool_set_threads left it
  nth, inited, stop, generation, remaining,
  jobn, jobctx,   \* job_n, and job_fn with job_ctx: the number of the run
  \* the client: program counter, the argument n of pool_run (or the local
  \* n of pool_shutdown), the loop variable t
  cpc, cn, ct,
  \* the workers: program counter, seen, and the copies of job_n and job_ctx
  wpc, seen, wn, wctx,
  \* counters of this model: inits and runs so far, and how often fn was
  \* executed for each thread number in the latest run
  inits, runs, calls

globals == <<req, nth, inited, stop, generation, remaining, jobn, jobctx>>
client  == <<cpc, cn, ct>>
workers == <<wpc, seen, wn, wctx>>
counts  == <<inits, runs, calls>>
vars    == <<globals, client, workers, counts>>

-----------------------------------------------------------------------------
\* Arguments of pool_run, from below the range clamped to up to above it.
\* NThreads stands for a call of pool_n_threads: ensure_init and no job.
Requests == 0 .. MaxThreads + 1
NThreads == -1

Clamp(n, lo, hi) == IF n < lo THEN lo ELSE IF n > hi THEN hi ELSE n

\* The width pool_run gives a request: 1 <= n <= nth.
Width(n) == Clamp(n, 1, nth)

\* resolve_n: the requested number, else PIM_NTHREADS, else 1.
Resolved == IF req > 0 THEN req ELSE IF EnvThreads > 0 THEN EnvThreads ELSE 1

\* pthread_cond_signal on cv_worker[t] for every t in T: of the threads that
\* wait on it, at least one wakes.
Sleepers(T) == {w \in Workers : wpc[w] = "wait" /\ w[2] \in T}
Signal(T) ==
  \E S \in SUBSET Sleepers(T) :
    /\ \A w \in Sleepers(T) : \E v \in S : v[2] = w[2]
    /\ wpc' = [w \in Workers |-> IF w \in S THEN "top" ELSE wpc[w]]

Init ==
  /\ req = 0 /\ nth = 1 /\ inited = 0 /\ stop = 0
  /\ generation = 0 /\ remaining = 0 /\ jobn = 0 /\ jobctx = 0
  /\ cpc = "idle" /\ cn = 0 /\ ct = 0
  /\ wpc = [w \in Workers |-> "none"]
  /\ seen = [w \in Workers |-> 0]
  /\ wn = [w \in Workers |-> 0]
  /\ wctx = [w \in Workers |-> 0]
  /\ inits = 0 /\ runs = 0
  /\ calls = [t \in Tids |-> 0]

-----------------------------------------------------------------------------
(* The client.                                                             *)

\* Mutant: pool_set_threads without clamp_n.
SetThreadsUnclamped(n) ==
  /\ cpc = "idle" /\ inited = 0
  /\ req' = n
  /\ UNCHANGED <<nth, inited, stop, generation, remaining, jobn, jobctx,
                 client, workers, counts>>

\* pool_set_threads; once the pool has started the call changes nothing.
SetThreads(n) ==
  /\ cpc = "idle" /\ inited = 0
  /\ req' = IF n > 0 THEN Clamp(n, 1, MaxThreads) ELSE 0
  /\ UNCHANGED <<nth, inited, stop, generation, remaining, jobn, jobctx,
                 client, workers, counts>>

\* pool_run or pool_n_threads on a pool that has started: ensure_init returns.
EnterStarted(n) ==
  /\ cpc = "idle" /\ inited = 1 /\ runs < MaxRuns
  /\ cpc' = "ready" /\ cn' = n /\ ct' = 0
  /\ UNCHANGED <<globals, workers, counts>>

\* The same on a pool that has not: ensure_init's critical section.
EnterFresh(n) ==
  /\ cpc = "idle" /\ inited = 0 /\ runs < MaxRuns /\ inits < MaxInits
  /\ nth' = Resolved /\ stop' = 0 /\ generation' = 0 /\ inited' = 1
  /\ inits' = inits + 1
  /\ cpc' = "spawn" /\ cn' = n /\ ct' = 1
  /\ UNCHANGED <<req, remaining, jobn, jobctx, workers, runs, calls>>

\* ensure_init, outside the mutex: one pthread_create after the other.
Spawn ==
  /\ cpc = "spawn" /\ ct < nth
  /\ wpc' = [wpc EXCEPT ![<<inits, ct>>] = "top"]
  /\ ct' = ct + 1
  /\ UNCHANGED <<globals, cpc, cn, seen, wn, wctx, counts>>

Spawned ==
  /\ cpc = "spawn" /\ ct >= nth
  /\ cpc' = "ready"
  /\ UNCHANGED <<globals, cn, ct, workers, counts>>

\* pool.cpp: "Fall back to single-threaded if spawn fails."
SpawnFallback ==
  /\ inits \in FailInits /\ Restartable
  /\ cpc = "spawn" /\ ct < nth
  /\ nth' = 1
  /\ cpc' = "ready"
  /\ UNCHANGED <<req, inited, stop, generation, remaining, jobn, jobctx,
                 cn, ct, workers, counts>>

\* pool.c: die("pthread_create failed") ends the process.
SpawnDie ==
  /\ inits \in FailInits /\ ~Restartable
  /\ cpc = "spawn" /\ ct < nth
  /\ cpc' = "exited"
  /\ UNCHANGED <<globals, cn, ct, workers, counts>>

\* pool_n_threads returns.
AnswerNThreads ==
  /\ cpc = "ready" /\ cn = NThreads
  /\ cpc' = "idle"
  /\ UNCHANGED <<globals, cn, ct, workers, counts>>

\* pool_run with one thread: fn(0, 1, ctx) in place, nothing is published.
RunInline ==
  /\ cpc = "ready" /\ cn # NThreads /\ Width(cn) = 1
  /\ cn' = 1 /\ cpc' = "fn"
  /\ runs' = runs + 1 /\ calls' = [t \in Tids |-> 0]
  /\ UNCHANGED <<globals, ct, workers, inits>>

\* Mutant: the client counts itself among those it waits for.
PublishAll ==
  /\ cpc = "ready" /\ cn # NThreads /\ Width(cn) > 1
  /\ jobn' = Width(cn) /\ jobctx' = runs + 1
  /\ remaining' = Width(cn)
  /\ generation' = generation + 1
  /\ Signal(1 .. Width(cn) - 1)
  /\ cn' = Width(cn) /\ cpc' = "fn"
  /\ runs' = runs + 1 /\ calls' = [t \in Tids |-> 0]
  /\ UNCHANGED <<req, nth, inited, stop, ct, seen, wn, wctx, inits>>

\* pool_run's first critical section: publish the job, signal its workers.
Publish ==
  /\ cpc = "ready" /\ cn # NThreads /\ Width(cn) > 1
  /\ jobn' = Width(cn) /\ jobctx' = runs + 1
  /\ remaining' = Width(cn) - 1
  /\ generation' = generation + 1
  /\ Signal(1 .. Width(cn) - 1)
  /\ cn' = Width(cn) /\ cpc' = "fn"
  /\ runs' = runs + 1 /\ calls' = [t \in Tids |-> 0]
  /\ UNCHANGED <<req, nth, inited, stop, ct, seen, wn, wctx, inits>>

\* fn(0, n, ctx) on the client's own thread.
ClientFn ==
  /\ cpc = "fn"
  /\ calls' = [calls EXCEPT ![0] = @ + 1]
  /\ cpc' = IF cn = 1 THEN "return" ELSE "join"
  /\ UNCHANGED <<globals, cn, ct, workers, inits, runs>>

\* while (remaining > 0) pthread_cond_wait(&cv_done, &mu)
JoinWait ==
  /\ cpc = "join" /\ remaining > 0
  /\ cpc' = "wait"
  /\ UNCHANGED <<globals, cn, ct, workers, counts>>

\* Mutant: off by one in the join's condition.
JoinDoneEarly ==
  /\ cpc = "join" /\ remaining <= 1
  /\ cpc' = "return"
  /\ UNCHANGED <<globals, cn, ct, workers, counts>>

JoinDone ==
  /\ cpc = "join" /\ remaining <= 0
  /\ cpc' = "return"
  /\ UNCHANGED <<globals, cn, ct, workers, counts>>

\* pool_run returns; the caller's ctx goes out of scope.
Return ==
  /\ cpc = "return"
  /\ cpc' = "idle" /\ cn' = 0
  /\ UNCHANGED <<globals, ct, workers, counts>>

\* Mutant: stop is set but the sleeping workers are not told.
ShutdownSilent ==
  /\ cpc = "idle" /\ inited = 1 /\ stop = 0
  /\ stop' = 1
  /\ cpc' = "shutdown" /\ cn' = nth /\ ct' = 1
  /\ UNCHANGED <<req, nth, inited, generation, remaining, jobn, jobctx,
                 workers, counts>>

\* pool_shutdown's first critical section; a pool that is not running, or
\* is stopping already, is left alone.
Shutdown ==
  /\ cpc = "idle" /\ inited = 1 /\ stop = 0
  /\ stop' = 1
  /\ Signal(1 .. nth - 1)
  /\ cpc' = "shutdown" /\ cn' = nth /\ ct' = 1
  /\ UNCHANGED <<req, nth, inited, generation, remaining, jobn, jobctx,
                 seen, wn, wctx, counts>>

\* pthread_join(workers[t - 1])
JoinThread ==
  /\ cpc = "shutdown" /\ ct < cn
  /\ wpc[<<inits, ct>>] = "gone"
  /\ ct' = ct + 1
  /\ UNCHANGED <<globals, cpc, cn, workers, counts>>

\* pool.cpp resets the pool; pool.c is at exit.
ShutdownDone ==
  /\ cpc = "shutdown" /\ ct >= cn
  /\ IF Restartable
     THEN /\ inited' = 0 /\ stop' = 0 /\ nth' = 1
          /\ cpc' = "idle"
     ELSE /\ UNCHANGED <<inited, stop, nth>>
          /\ cpc' = "exited"
  /\ cn' = 0 /\ ct' = 0
  /\ UNCHANGED <<req, generation, remaining, jobn, jobctx, workers, counts>>

ClientStep ==
  \/ Spawn \/ Spawned \/ SpawnFallback \/ SpawnDie \/ AnswerNThreads
  \/ RunInline \/ Publish \/ ClientFn \/ JoinWait \/ JoinDone \/ Return
  \/ JoinThread \/ ShutdownDone

-----------------------------------------------------------------------------
(* A worker: worker_main.  The threads die with the process.               *)

\* Mutant: the worker waits before it looks at the predicate.
SleepBlind(w) ==
  /\ wpc[w] = "top" /\ cpc # "exited"
  /\ wpc' = [wpc EXCEPT ![w] = "wait"]
  /\ UNCHANGED <<globals, client, seen, wn, wctx, counts>>

\* while (generation == seen && !stop) pthread_cond_wait(&cv_worker[tid], &mu)
Sleep(w) ==
  /\ wpc[w] = "top" /\ cpc # "exited"
  /\ generation = seen[w] /\ stop = 0
  /\ wpc' = [wpc EXCEPT ![w] = "wait"]
  /\ UNCHANGED <<globals, client, seen, wn, wctx, counts>>

\* if (stop) return
Quit(w) ==
  /\ wpc[w] = "top" /\ cpc # "exited"
  /\ stop = 1
  /\ wpc' = [wpc EXCEPT ![w] = "gone"]
  /\ UNCHANGED <<globals, client, seen, wn, wctx, counts>>

\* Mutant: seen is not brought up to date.
TakeAgain(w) ==
  /\ wpc[w] = "top" /\ cpc # "exited"
  /\ generation # seen[w] /\ stop = 0
  /\ wn' = [wn EXCEPT ![w] = jobn]
  /\ wctx' = [wctx EXCEPT ![w] = jobctx]
  /\ wpc' = [wpc EXCEPT ![w] = "fn"]
  /\ UNCHANGED <<globals, client, seen, counts>>

\* Copy the job and unlock.
Take(w) ==
  /\ wpc[w] = "top" /\ cpc # "exited"
  /\ generation # seen[w] /\ stop = 0
  /\ seen' = [seen EXCEPT ![w] = generation]
  /\ wn' = [wn EXCEPT ![w] = jobn]
  /\ wctx' = [wctx EXCEPT ![w] = jobctx]
  /\ wpc' = [wpc EXCEPT ![w] = "fn"]
  /\ UNCHANGED <<globals, client, counts>>

\* if (tid < n) fn(tid, n, ctx); the step is the end of fn.
WorkerFn(w) ==
  /\ wpc[w] = "fn" /\ cpc # "exited"
  /\ calls' = IF w[2] < wn[w] THEN [calls EXCEPT ![w[2]] = @ + 1] ELSE calls
  /\ wpc' = [wpc EXCEPT ![w] = "tail"]
  /\ UNCHANGED <<globals, client, seen, wn, wctx, inits, runs>>

\* Mutant: a worker outside the job reports as well.
FinishAny(w) ==
  /\ wpc[w] = "tail" /\ cpc # "exited"
  /\ remaining' = remaining - 1
  /\ cpc' = IF remaining' = 0 /\ cpc = "wait" THEN "join" ELSE cpc
  /\ wpc' = [wpc EXCEPT ![w] = "top"]
  /\ wn' = [wn EXCEPT ![w] = 0]
  /\ wctx' = [wctx EXCEPT ![w] = 0]
  /\ UNCHANGED <<req, nth, inited, stop, generation, jobn, jobctx, cn, ct,
                 seen, counts>>

\* Mutant: the last worker does not signal cv_done.
FinishSilent(w) ==
  /\ wpc[w] = "tail" /\ cpc # "exited"
  /\ remaining' = IF w[2] < wn[w] THEN remaining - 1 ELSE remaining
  /\ wpc' = [wpc EXCEPT ![w] = "top"]
  /\ wn' = [wn EXCEPT ![w] = 0]
  /\ wctx' = [wctx EXCEPT ![w] = 0]
  /\ UNCHANGED <<req, nth, inited, stop, generation, jobn, jobctx, client,
                 seen, counts>>

\* if (tid < n && --remaining == 0) pthread_cond_signal(&cv_done)
Finish(w) ==
  /\ wpc[w] = "tail" /\ cpc # "exited"
  /\ IF w[2] < wn[w]
     THEN /\ remaining' = remaining - 1
          /\ cpc' = IF remaining' = 0 /\ cpc = "wait" THEN "join" ELSE cpc
     ELSE UNCHANGED <<remaining, cpc>>
  /\ wpc' = [wpc EXCEPT ![w] = "top"]
  /\ wn' = [wn EXCEPT ![w] = 0]
  /\ wctx' = [wctx EXCEPT ![w] = 0]
  /\ UNCHANGED <<req, nth, inited, stop, generation, jobn, jobctx, cn, ct,
                 seen, counts>>

WorkerStep(w) == Sleep(w) \/ Quit(w) \/ Take(w) \/ WorkerFn(w) \/ Finish(w)

\* pthread_cond_wait may return without a signal.
SpuriousWorker(w) ==
  /\ wpc[w] = "wait" /\ cpc # "exited"
  /\ wpc' = [wpc EXCEPT ![w] = "top"]
  /\ UNCHANGED <<globals, client, seen, wn, wctx, counts>>

SpuriousClient ==
  /\ cpc = "wait"
  /\ cpc' = "join"
  /\ UNCHANGED <<globals, cn, ct, workers, counts>>

-----------------------------------------------------------------------------
\* The client may stop using the pool whenever no call of it is under way.
Rest == cpc \in {"idle", "exited"} /\ UNCHANGED vars

Next ==
  \/ \E n \in Requests : SetThreads(n)
  \/ \E n \in Requests \cup {NThreads} : EnterStarted(n) \/ EnterFresh(n)
  \/ Shutdown
  \/ ClientStep
  \/ \E w \in Workers : WorkerStep(w) \/ SpuriousWorker(w)
  \/ SpuriousClient
  \/ Rest

Spec == Init /\ [][Next]_vars

\* Every thread is scheduled again and again, and fn returns.  Neither calls
\* of the pool nor spurious wakeups are owed to anyone.
Fairness == /\ WF_vars(ClientStep)
            /\ \A w \in Workers : WF_vars(WorkerStep(w))

FairSpec == Spec /\ Fairness

-----------------------------------------------------------------------------
(* Properties.                                                             *)

TypeOK ==
  /\ req \in 0 .. MaxThreads /\ nth \in 1 .. MaxThreads
  /\ inited \in {0, 1} /\ stop \in {0, 1}
  /\ generation \in Nat /\ remaining \in Int
  /\ jobn \in 0 .. MaxThreads /\ jobctx \in Nat
  /\ cpc \in {"idle", "spawn", "ready", "fn", "join", "wait", "return",
              "shutdown", "exited"}
  /\ cn \in -1 .. MaxThreads + 1 /\ ct \in Nat
  /\ wpc \in [Workers -> {"none", "top", "wait", "fn", "tail", "gone"}]
  /\ seen \in [Workers -> Nat]
  /\ wn \in [Workers -> 0 .. MaxThreads] /\ wctx \in [Workers -> Nat]
  /\ inits \in 0 .. MaxInits /\ runs \in Nat
  /\ calls \in [Tids -> Nat]

\* pool_run is under way and its job is decided.
Running == cpc \in {"fn", "join", "wait", "return"}

\* Worker w executes fn, or has executed it and not yet reported.
Busy(w) == wpc[w] \in {"fn", "tail"} /\ w[2] < wn[w]

\* A worker that executes fn does so for the run the client is in, with that
\* run's ctx: no worker still uses the ctx of a pool_run that has returned
\* (job_ctx points into the caller's stack frame).
CtxAlive == \A w \in Workers : Busy(w) => /\ cpc \in {"fn", "join", "wait"}
                                          /\ wctx[w] = runs /\ wn[w] = cn

\* The workers the current job still waits for: they have not looked at it
\* yet, or are at it.
Owes(w) == seen[w] # generation \/ wpc[w] \in {"fn", "tail"}
Owing   == {t \in 1 .. jobn - 1 : Owes(<<inits, t>>)}

\* The counter the join relies on is exact: from the publication of a job to
\* the return of pool_run, remaining is the number of workers that have not
\* reported, whatever workers of earlier jobs or outside the job do meanwhile.
RemainingExact ==
  cpc \in {"fn", "join", "wait"} /\ cn > 1 => remaining = Cardinality(Owing)

\* No wakeup is lost: a worker is asleep only if it has seen the latest job
\* that includes it (ensure_init publishes the pool before its threads exist,
\* and a worker outside the last job is not signalled), no worker of the pool
\* sleeps through stop, and the client sleeps only while a worker owes it a
\* report.
NoLostWakeup ==
  /\ \A w \in Workers :
       wpc[w] = "wait" /\ w[1] = inits /\ inited = 1 /\ w[2] < nth
         => stop = 0 /\ (w[2] < jobn => seen[w] = generation)
  /\ cpc = "wait" => Owing # {}

\* When pool_run returns, fn has been executed exactly once for every thread
\* number below the width, and for no other.
ExactlyOnce ==
  /\ cpc = "return" => \A t \in Tids : calls[t] = IF t < cn THEN 1 ELSE 0
  /\ \A t \in Tids : calls[t] <= 1

\* The pool implements the fork-join contract: fn runs once per thread number
\* while pool_run is under way, and pool_run does not return before.
FJ == INSTANCE ForkJoin
        WITH open <- Running, width <- IF Running THEN cn ELSE 0
ImplementsForkJoin == FJ!Spec

\* Every call of pool_run (or pool_n_threads) returns.
RunReturns == (cpc \in {"spawn", "ready", "fn", "join", "wait", "return"})
                ~> (cpc \in {"idle", "exited"})

\* pool_shutdown joins every worker and returns.
ShutdownReturns == (cpc = "shutdown") ~> (cpc \in {"idle", "exited"})
=============================================================================
