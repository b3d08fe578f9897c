------------------------------ MODULE KvForward ------------------------------
(***************************************************************************)
(* One row of a batch in llama_model_forward (src/c/model.c) and in its    *)
(* cache (src/c/cache.c).                                                  *)
(*                                                                         *)
(* Numbers are abstracted to what they were computed from.  The entry of   *)
(* the K/V cache at position p is the sequence of tokens that its hidden   *)
(* state attended to, up to its own; the recurrent state of the gated      *)
(* delta net layers is the sequence of tokens it has absorbed; logits are  *)
(* a pair [attn, rec] of both for the token they are taken at.  A K/V      *)
(* entry that does not extend the entries before it was computed from      *)
(* another text: whatever attends to it is Mixed.                          *)
(***************************************************************************)
EXTENDS Integers, Sequences, SequencesExt

CONSTANTS
  MaxSeq,     \* KVCache::max_seq
  Unknown,    \* tokens of the tokenizer that the model lacks: hp->n_vocab and on
  \* of both programs that sample:
  Vocab,      \* tokens that can be sampled
  Stops,      \* Tokenizer::stop_ids
  MaxTokens   \* --max-tokens

ASSUME ForwardAssumption ==
  MaxSeq \in Nat /\ Stops \subseteq Vocab /\ MaxTokens \in Nat /\ Vocab \cap Unknown = {}

Mixed == <<"mixed">>
Garbage == [attn |-> Mixed, rec |-> Mixed]

\* kvcache_create: zeroed K and V, an empty recurrent state.
NewRow == [n |-> 0, kv |-> [p \in 0 .. MaxSeq - 1 |-> <<>>], rec |-> <<>>]

\* kvcache_reset: K and V keep their old entries.
ResetRow(r) == [r EXCEPT !.n = 0, !.rec = <<>>]

\* Mutants: one too late and one too early.
OverflowsLate(r, valid) == r.n + valid > MaxSeq + 1
OverflowsEarly(r, valid) == r.n + valid >= MaxSeq

\* if (max_end > cache->max_seq) die("cache overflow ...")
Overflows(r, valid) == r.n + valid > MaxSeq

\* if (tid < 0 || tid >= hp->n_vocab) die("token id ..."), padding included
Known(toks) == Range(toks) \cap Unknown = {}

\* The text that a token at position r.n attends to, without itself: the
\* entries below it, of which the last has seen all the others.
Coherent(r) == \A p \in 0 .. r.n - 1 : r.kv[p] = SubSeq(r.kv[r.n - 1], 1, p + 1)
Past(r) == IF r.n = 0 THEN <<>> ELSE IF Coherent(r) THEN r.kv[r.n - 1] ELSE Mixed

\* Mutant: the padding is stored as well.
ForwardRowPadded(r, toks, valid) ==
  LET s == Len(toks)
      entry(p) == Past(r) \o SubSeq(toks, 1, p - r.n + 1)
  IN [n   |-> r.n + s,
      kv  |-> [p \in DOMAIN r.kv |-> IF p \in r.n .. r.n + s - 1 THEN entry(p) ELSE r.kv[p]],
      rec |-> r.rec \o SubSeq(toks, 1, s)]

\* The row after a forward of toks, of which the first `valid` count; the
\* rest is padding.
ForwardRow(r, toks, valid) ==
  LET entry(p) == Past(r) \o SubSeq(toks, 1, p - r.n + 1)
  IN [n   |-> r.n + valid,
      kv  |-> [p \in DOMAIN r.kv |->
                IF p \in r.n .. r.n + valid - 1 THEN entry(p) ELSE r.kv[p]],
      rec |-> r.rec \o SubSeq(toks, 1, valid)]

\* Its logits, taken at the last token that counts.  With none, they are
\* those of a padding token, which attends to nothing.
LogitsRow(r, toks, valid) ==
  IF valid = 0 THEN Garbage
  ELSE [attn |-> Past(r) \o SubSeq(toks, 1, valid),
        rec  |-> r.rec \o SubSeq(toks, 1, valid)]

\* What logits are that were computed from the text and nothing else.
LogitsOf(text) == [attn |-> text, rec |-> text]
=============================================================================
