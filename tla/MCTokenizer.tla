---------------------------- MODULE MCTokenizer -----------------------------
(***************************************************************************)
(* Tokenizer on small vocabularies: one with merges that compete, three    *)
(* with the characters the scanners tell apart, one with specials that     *)
(* overlap, and one with broken characters and hidden tokens.              *)
(***************************************************************************)
EXTENDS Tokenizer

MCRanges == <<[lo |-> 9, hi |-> 13, cat |-> "space"], [lo |-> 32, hi |-> 32, cat |-> "space"],
              [lo |-> 48, hi |-> 57, cat |-> "number"], [lo |-> 65, hi |-> 90, cat |-> "letter"],
              [lo |-> 97, hi |-> 122, cat |-> "letter"], [lo |-> 192, hi |-> 214, cat |-> "letter"],
              [lo |-> 768, hi |-> 879, cat |-> "mark"]>>

MCHash(p) == FoldLeft(LAMBDA h, c : h + c, 0, p) % 3

Upto(S, n) == UNION {[1 .. k -> S] : k \in 0 .. n}
Bytes(bs) == [k \in DOMAIN bs |-> <<ByteToCp[bs[k]]>>]

A == <<97>>  B == <<98>>  S == <<115>>
File(tokens, types, merges, pre, arch, thinking) ==
  [tokens |-> tokens, types |-> types, merges |-> merges, pre |-> pre, arch |-> arch,
   thinking |-> thinking]

\* abab and bb are merged and are no tokens.
MergeTokens == <<A, B, A \o B, B \o A, A \o A, A \o B \o A>>
MergeTables == <<
  << <<A, B>>, <<B, A>>, <<A \o B, A>>, <<A, A>> >>,
  << <<A, A>>, <<A \o B, A \o B>>, <<A, B \o A>>, <<B, A>>, <<A, B>> >>,
  << <<B, A>>, <<A, B \o A>>, <<B, B>>, <<A, B>>, <<A \o A, B>> >> >>

SplitBytes == <<97, 115, 39, 32, 10, 49, 46, 204, 129>>
SplitAtoms == {<<97>>, <<115>>, <<39>>, <<32>>, <<10>>, <<49>>, <<46>>, <<204, 129>>}

Bars == <<60, 124, 124, 62>>
SpecialTokens == Bytes(<<60, 124, 62, 97>>) \o <<Bars, <<124, 62>>, <<60, 124>>, <<124>> >>

ReplyTokens == Bytes(<<97, 195, 169, 226, 130, 172>>)
               \o << <<ByteToCp[240], ByteToCp[159]>>, <<ByteToCp[152], ByteToCp[128], 97>>,
                     Bars, ThinkOpen, ThinkClose >>

MCFiles ==
  [m1 |-> File(MergeTokens, <<>>, MergeTables[1], "smollm", "llama", FALSE),
   m2 |-> File(MergeTokens, <<>>, MergeTables[2], "smollm", "llama", FALSE),
   m3 |-> File(MergeTokens, <<>>, MergeTables[3], "smollm", "llama", FALSE),
   smollm |-> File(Bytes(SplitBytes), <<>>, <<>>, "smollm", "llama", FALSE),
   qwen2  |-> File(Bytes(SplitBytes), <<>>, <<>>, "qwen2", "qwen2", FALSE),
   qwen35 |-> File(Bytes(SplitBytes), <<>>, <<>>, "qwen35", "qwen35", FALSE),
   special |-> File(SpecialTokens, [k \in 6 .. 7 |-> "control"], <<>>, "smollm", "llama", FALSE),
   reply |-> File(ReplyTokens, <<>>, <<>>, "qwen35", "qwen35", TRUE)]

MCTexts ==
  [m \in DOMAIN MCFiles |->
     CASE m \in {"m1", "m2", "m3"} -> Upto({97, 98}, 6)
       [] m \in {"smollm", "qwen2", "qwen35"} -> {FlattenSeq(t) : t \in Upto(SplitAtoms, 4)}
       [] m = "special" -> Upto({60, 124, 62}, 6)
       [] m = "reply" -> {<<226, 130, 172, 195, 169, 97, 195, 169>>}]
=============================================================================
