------------------------------ MODULE Inference ------------------------------
(***************************************************************************)
(* The programs that are built around one model: llm_chat                  *)
(* (src/c/chat.c) and llm_generate --batch-demo (src/c/generate_main.c).   *)
(* A process is one of them, or llm_generate with one prompt: of that only *)
(* what it does with its model file is described here, which is the same   *)
(* in all of them and nothing that comes between touches.                  *)
(***************************************************************************)
EXTENDS ChatSession, BatchGenerate, LoadModel

VARIABLE prog       \* "chat", "batch" or "generate"

vars == <<prog, chatVars, batchVars, loadVars>>

Init ==
  /\ prog \in {"chat", "batch", "generate"}
  /\ ChatInit
  /\ BatchInit
  /\ LoadInit
  /\ prog # "generate" => file = 1
  /\ prog # "batch" => prompt = [b \in Rows |-> CHOOSE p \in Prompts : TRUE]

ChatStep  == prog = "chat" /\ ChatNext /\ UNCHANGED <<prog, batchVars, loadVars>>
BatchStep == prog = "batch" /\ BatchNext /\ UNCHANGED <<prog, chatVars, loadVars>>

LoadStep  == prog = "generate" /\ LoadNext /\ UNCHANGED <<prog, chatVars, batchVars>>

Next == ChatStep \/ BatchStep \/ LoadStep

Spec == Init /\ [][Next]_vars

\* The process runs; the user owes it no line.
Fairness ==
  /\ WF_vars(prog = "chat" /\ Reply /\ UNCHANGED <<prog, batchVars, loadVars>>)
  /\ WF_vars(BatchStep)

FairSpec == Spec /\ Fairness

\* generate_batch comes to its end with at most MaxTokens tokens in every reply;
\* only a row that outgrows the cache, or a prompt with a token that the model
\* lacks, keeps it from that.
Unfit(b) == Len(prompt[b]) + Len(out[b]) > MaxSeq \/ ~Known(Padded(b))
BatchEnds ==
  (prog = "batch") ~> /\ bpc = "done" \/ (bpc = "dead" /\ \E b \in Rows : Unfit(b))
                      /\ \A b \in Rows : Len(out[b]) <= MaxTokens
=============================================================================
