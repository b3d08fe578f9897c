---------------------------- MODULE BatchGenerate ----------------------------
(***************************************************************************)
(* generate_batch of src/c/generate.c: several prompts of different        *)
(* lengths in one forward, padded on the right, then one token per prompt  *)
(* and step.  A row that is done is fed a token that does not count.       *)
(***************************************************************************)
EXTENDS KvForward, FiniteSetsExt

CONSTANTS
  Rows,            \* indices of the prompts
  Prompts,         \* what can be a prompt, encoded
  Pad, Eos         \* hp->pad_id, hp->eos_id

\* A prompt is a text in its template, which is never empty.
ASSUME BatchAssumption ==
  /\ Eos \in Stops /\ IsFiniteSet(Rows)
  /\ Prompts \subseteq Seq(Vocab \cup Unknown) /\ <<>> \notin Prompts

VARIABLES
  prompt,     \* the encoded prompts
  cache,      \* one row per prompt
  bpc,        \* "start", "step" before a step of the loop, "done", "dead"
  out,        \* the replies
  done,
  outLogits,  \* the logits of each row
  step

batchVars == <<prompt, cache, bpc, out, done, outLogits, step>>

BatchInit ==
  /\ prompt \in [Rows -> Prompts]
  /\ cache = [b \in Rows |-> NewRow]
  /\ bpc = "start"
  /\ out = [b \in Rows |-> <<>>]
  /\ done = [b \in Rows |-> FALSE]
  /\ outLogits = [b \in Rows |-> Garbage]
  /\ step = 0

\* llama_model_forward: a row that does not fit kills the program, and so does
\* a token that the model lacks.
Forward(toks, valid) ==
  IF \E b \in Rows : Overflows(cache[b], valid[b]) \/ ~Known(toks[b])
  THEN /\ bpc' = "dead"
       /\ UNCHANGED <<cache, outLogits>>
  ELSE /\ bpc' = "step"
       /\ cache' = [b \in Rows |-> ForwardRow(cache[b], toks[b], valid[b])]
       /\ outLogits' = [b \in Rows |-> LogitsRow(cache[b], toks[b], valid[b])]

\* as_batch: the prompts, padded to the length of the longest.
Longest == Max({Len(prompt[b]) : b \in Rows})
Padded(b) == [i \in 1 .. Longest |-> IF i <= Len(prompt[b]) THEN prompt[b][i] ELSE Pad]

Prefill ==
  /\ bpc = "start"
  /\ Forward([b \in Rows |-> Padded(b)], [b \in Rows |-> Len(prompt[b])])
  /\ UNCHANGED <<prompt, out, done, step>>

\* Mutant: one step too many.
MoreStepsOne(s) == s <= MaxTokens

\* for (int step = 0; step < max_tokens; step++)
MoreSteps(s) == s < MaxTokens

\* One step of the loop with the tokens that were sampled.
Step(pick) ==
  LET ends(b) == done[b] \/ pick[b] \in Stops
  IN /\ bpc = "step" /\ MoreSteps(step) /\ \E b \in Rows : ~done[b]
     /\ out' = [b \in Rows |-> IF ends(b) THEN out[b] ELSE Append(out[b], pick[b])]
     /\ done' = [b \in Rows |-> ends(b)]
     /\ Forward([b \in Rows |-> <<IF ends(b) THEN Eos ELSE pick[b]>>],
                [b \in Rows |-> IF ends(b) THEN 0 ELSE 1])
     /\ step' = step + 1
     /\ UNCHANGED prompt

\* The loop ends when every row is done or there are enough tokens.
Finish ==
  /\ bpc = "step" /\ (~MoreSteps(step) \/ \A b \in Rows : done[b])
  /\ bpc' = "done"
  /\ UNCHANGED <<prompt, cache, out, done, outLogits, step>>

BatchNext == Prefill \/ (\E pick \in [Rows -> Vocab] : Step(pick)) \/ Finish

-----------------------------------------------------------------------------
(* Properties.                                                             *)

\* Each row is sampled from logits of its own prompt and its own reply: the
\* padding, the other rows and when they end make no difference.
RowsIndependent == bpc = "step" => \A b \in Rows :
  ~done[b] => outLogits[b] = LogitsOf(prompt[b] \o out[b])
=============================================================================
