------------------------------ MODULE ForkJoin ------------------------------
(***************************************************************************)
(* What a caller of the fork-join pool may rely on (pool.h: "Fork-join:    *)
(* run fn on threads 0..n-1"), without threads, locks or wakeups: a run    *)
(* opens with a width, fn is executed exactly once for every thread        *)
(* number below the width, and the run is over only when all of them are.  *)
(* ForkJoinPool is shown to implement this module.                         *)
(***************************************************************************)
EXTENDS Integers

CONSTANT MaxThreads        \* kMaxPoolThreads, LLM_MAX_THREADS

VARIABLES open,            \* is a call of pool_run under way?
          width,           \* its number of threads, after clamping; else 0
          calls            \* how often fn(t, ..) has been executed in it

vars == <<open, width, calls>>

Tids == 0 .. MaxThreads - 1

Init == /\ open = FALSE
        /\ width = 0
        /\ calls = [t \in Tids |-> 0]

\* The caller enters pool_run; n is the width it gets.
Fork(n) == /\ ~open
           /\ open' = TRUE
           /\ width' = n
           /\ calls' = [t \in Tids |-> 0]

\* Some thread executes fn for thread number t.
Call(t) == /\ open
           /\ t < width
           /\ calls[t] = 0
           /\ calls' = [calls EXCEPT ![t] = 1]
           /\ UNCHANGED <<open, width>>

\* pool_run returns.
Join == /\ open
        /\ \A t \in Tids : t < width => calls[t] = 1
        /\ open' = FALSE
        /\ width' = 0
        /\ UNCHANGED calls

Next == \/ \E n \in 1 .. MaxThreads : Fork(n)
        \/ \E t \in Tids : Call(t)
        \/ Join

Spec == Init /\ [][Next]_vars
=============================================================================
