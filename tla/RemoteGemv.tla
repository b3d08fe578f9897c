----------------------------- MODULE RemoteGemv -----------------------------
(***************************************************************************)
(* What the caller of pim_hybrid_submit may rely on when the call returns, *)
(* without sequence numbers, futexes or shared memory: the MAC pool of the *)
(* other process has computed y for this job exactly once, and the guest   *)
(* has issued exactly the commands of this job, all before the return.     *)
(* HybridMailbox is shown to implement this module.                        *)
(***************************************************************************)
EXTENDS Integers

VARIABLES open,      \* is a call of pim_hybrid_submit under way?
          cmds,      \* the number of commands of the job
          macs,      \* how often its y has been computed
          issued     \* how many of its commands the guest has issued

vars == <<open, cmds, macs, issued>>

Init == /\ open = FALSE
        /\ cmds = 0 /\ macs = 0 /\ issued = 0

Submit == /\ ~open
          /\ open' = TRUE
          /\ cmds' \in Nat /\ macs' = 0 /\ issued' = 0

Mac == /\ open /\ macs = 0
       /\ macs' = 1
       /\ UNCHANGED <<open, cmds, issued>>

Issue == /\ open /\ issued < cmds
         /\ issued' = issued + 1
         /\ UNCHANGED <<open, cmds, macs>>

Return == /\ open /\ macs = 1 /\ issued = cmds
          /\ open' = FALSE
          /\ UNCHANGED <<cmds, macs, issued>>

Next == Submit \/ Mac \/ Issue \/ Return

Spec == Init /\ [][Next]_vars
=============================================================================
