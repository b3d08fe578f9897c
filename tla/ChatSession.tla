----------------------------- MODULE ChatSession -----------------------------
(***************************************************************************)
(* The chat program, src/c/chat.c: a loop that reads a line, encodes the   *)
(* whole conversation, feeds the model the part its cache does not hold    *)
(* yet and samples the reply token by token (src/c/generate.c).            *)
(*                                                                         *)
(* A text is the sequence of tokens it encodes to.  What the tokenizer     *)
(* makes of the text of generated tokens is Retok: it need not be the same *)
(* tokens again.                                                           *)
(***************************************************************************)
EXTENDS KvForward, FiniteSetsExt

CONSTANTS
  Blanks,         \* tokens that are white space only
  EndMark,        \* the word END, which some models write
  Retok(_),       \* encode(decode(ids))
  Lines,          \* what the user writes
  System,         \* the system turn that the template puts first
  Thinking,       \* --think
  MaxMessages,    \* bound: the length of the history
  MaxClears       \* bound: the lines /reset

ASSUME ChatAssumption ==
  /\ Blanks \subseteq Vocab
  /\ Lines \subseteq Seq(Vocab) /\ System \in Seq(STRING)
  /\ Thinking \in BOOLEAN
  /\ {MaxMessages, MaxClears} \subseteq Nat

VARIABLES
  history,    \* the conversation: records [role, content]
  cached,     \* cached_ids: what the cache is thought to hold
  row,        \* the cache
  pc,         \* "idle" at the prompt, "gen" between two calls of
              \* generate_next, "done" after the last, "dead", "exited"
  \* of this turn: the encoded conversation, gen_ids and the logits
  ids, gen, logits,
  clears      \* how many lines /reset there were

chatVars == <<history, cached, row, pc, ids, gen, logits, clears>>

-----------------------------------------------------------------------------
\* White space at the ends of a text is dropped.
DropBlanks(s) == SubSeq(s, 1, Max({0} \cup {i \in DOMAIN s : s[i] \notin Blanks}))
Trim(s) ==
  LET r     == DropBlanks(s)
      first == Min({Len(r) + 1} \cup {i \in DOMAIN r : r[i] \notin Blanks})
  IN SubSeq(r, first, Len(r))

\* The reply as it goes into the history: without white space at its end and
\* without a final END (strip_end_marker).
Strip(s) == LET r == DropBlanks(s)
            IN IF r # <<>> /\ Last(r) = EndMark THEN DropBlanks(Front(r)) ELSE r

\* apply_chat_template and tokenizer_encode: every message in its markers,
\* then the head of the reply.
Turn(m) == <<"start", m.role>> \o Retok(Trim(m.content)) \o <<"end">>
ReplyHead == <<"start", "assistant">> \o (IF Thinking THEN <<"think">> ELSE <<>>)
Encode(h) == System \o FlattenSeq([i \in DOMAIN h |-> Turn(h[i])]) \o ReplyHead

ChatInit ==
  /\ history = <<>> /\ cached = <<>> /\ row = NewRow
  /\ pc = "idle" /\ ids = <<>> /\ gen = <<>> /\ logits = Garbage
  /\ clears = 0

\* The line /reset.
Clear ==
  /\ pc = "idle" /\ clears < MaxClears
  /\ clears' = clears + 1
  /\ history' = <<>> /\ cached' = <<>>
  /\ row' = ResetRow(row)
  /\ UNCHANGED <<pc, ids, gen, logits>>

\* An empty line, /exit, /quit or the end of the input.
Exit ==
  /\ pc = "idle"
  /\ pc' = "exited"
  /\ UNCHANGED <<history, cached, row, ids, gen, logits, clears>>

\* llama_model_forward on this cache with n tokens that all count.
Feed(r, toks) ==
  IF Overflows(r, Len(toks)) \/ ~Known(toks)
  THEN /\ pc' = "dead"
       /\ UNCHANGED <<row, logits>>
  ELSE /\ pc' = "gen"
       /\ row' = ForwardRow(r, toks, Len(toks))
       /\ logits' = LogitsRow(r, toks, Len(toks))

\* Mutant: the cache is trusted whatever the conversation is now.
SayBlind(content) ==
  LET h   == Append(history, [role |-> "user", content |-> content])
      all == Encode(h)
      hit == cached # <<>> /\ Len(cached) <= Len(all)
      new == IF hit THEN SubSeq(all, Len(cached) + 1, Len(all)) ELSE all
      r   == IF hit THEN row ELSE ResetRow(row)
  IN /\ pc = "idle" /\ Len(history) + 2 <= MaxMessages
     /\ history' = h /\ UNCHANGED clears
     /\ cached' = IF hit THEN cached ELSE <<>>
     /\ IF new = <<>>
        THEN row' = r /\ UNCHANGED <<pc, ids, gen, logits>>
        ELSE ids' = all /\ gen' = <<>> /\ Feed(r, new)

\* A line of the user, up to generate_start: if the cache holds a prefix of the
\* conversation, only the rest is fed, else the cache is reset.
Say(content) ==
  LET h   == Append(history, [role |-> "user", content |-> content])
      all == Encode(h)
      hit == cached # <<>> /\ IsPrefix(cached, all)
      new == IF hit THEN SubSeq(all, Len(cached) + 1, Len(all)) ELSE all
      r   == IF hit THEN row ELSE ResetRow(row)
  IN /\ pc = "idle" /\ Len(history) + 2 <= MaxMessages
     /\ history' = h /\ UNCHANGED clears
     /\ cached' = IF hit THEN cached ELSE <<>>
     /\ IF new = <<>>
        THEN row' = r /\ UNCHANGED <<pc, ids, gen, logits>>
        ELSE ids' = all /\ gen' = <<>> /\ Feed(r, new)

\* Mutant: no number of tokens is enough.
ReachedNever(n) == FALSE

\* st->n_generated >= st->max_tokens
Reached(n) == n >= MaxTokens

\* generate_next: a token is sampled; a stop ends the reply, any other token is
\* fed to the model before it is returned.
Sample(t) ==
  /\ pc = "gen" /\ ~Reached(Len(gen))
  /\ IF t \in Stops
     THEN pc' = "done" /\ UNCHANGED <<row, gen, logits>>
     ELSE gen' = Append(gen, t) /\ Feed(row, <<t>>)
  /\ UNCHANGED <<history, cached, ids, clears>>

\* generate_next when there are enough tokens.
Enough ==
  /\ pc = "gen" /\ Reached(Len(gen))
  /\ pc' = "done"
  /\ UNCHANGED <<history, cached, row, ids, gen, logits, clears>>

\* Mutant: the reply is not counted among what the cache holds.
EndTurnForgets ==
  /\ pc = "done"
  /\ history' = Append(history, [role |-> "assistant", content |-> Strip(gen)])
  /\ cached' = ids
  /\ pc' = "idle"
  /\ ids' = <<>> /\ gen' = <<>> /\ logits' = Garbage
  /\ UNCHANGED <<row, clears>>

\* The rest of the turn: the reply joins the history, and its tokens the
\* cached ones.
EndTurn ==
  /\ pc = "done"
  /\ history' = Append(history, [role |-> "assistant", content |-> Strip(gen)])
  /\ cached' = ids \o gen
  /\ pc' = "idle"
  /\ ids' = <<>> /\ gen' = <<>> /\ logits' = Garbage
  /\ UNCHANGED <<row, clears>>

Reply == (\E t \in Vocab : Sample(t)) \/ Enough \/ EndTurn

ChatNext == Clear \/ Exit \/ (\E c \in Lines : Say(c)) \/ Reply

-----------------------------------------------------------------------------
(* Properties.                                                             *)

ChatTypeOK ==
  /\ Len(history) <= MaxMessages
  /\ row.n \in 0 .. MaxSeq /\ Len(row.rec) = row.n
  /\ pc \in {"idle", "gen", "done", "dead", "exited"}
  /\ Len(gen) <= MaxTokens

\* Every token of a reply is sampled from logits that were computed from the
\* conversation as it now stands and the reply so far, whatever the cache held
\* of earlier turns.
ChatContext == pc = "gen" => logits = LogitsOf(Encode(history) \o gen)

\* At the prompt, cached_ids is what the cache holds.
CachedIds == pc = "idle" => Past(row) = cached /\ row.rec = cached

\* The program dies only if the conversation is longer than the cache or has a
\* token that the model lacks: what is left in the cache of earlier turns never
\* kills it.
DiesOnlyWhenFull == pc = "dead" => Len(ids) + Len(gen) > MaxSeq \/ ~Known(ids)

\* A reply comes to its end with at most MaxTokens tokens, and the user is
\* asked again; only a full cache keeps it from that.
Replied == pc = "done" /\ Len(gen) <= MaxTokens
CutShort == pc = "dead" /\ Len(gen) <= MaxTokens /\ Len(ids) + Len(gen) > MaxSeq
TurnEnds == /\ (pc = "gen") ~> (Replied \/ CutShort)
            /\ (pc = "done") ~> (pc = "idle")
=============================================================================
