------------------------------ MODULE Tokenizer -----------------------------
(***************************************************************************)
(* tokenizer.c: a tokenizer made from the tables of a GGUF file encodes a  *)
(* text - special tokens, words, merges by a heap whose items go stale -   *)
(* and the tokens, or tokens a model samples, go through the stream        *)
(* decoder one by one.                                                     *)
(*                                                                         *)
(* Texts are sequences of bytes; a piece of the vocabulary is the sequence *)
(* of its code points; token ids start at 1.                               *)
(***************************************************************************)
EXTENDS Pretokenize, MinHeap, OpenHash

CONSTANTS
  Files,       \* file -> [tokens, types, merges, pre, arch, thinking]
  Texts,       \* file -> the texts that are encoded with it
  MaxReply     \* bound: tokens a model samples

VARIABLES
  tok,         \* the tokenizer of the model in use
  text,        \* what is encoded, or <<>>
  phase,       \* what is being done
  frags,       \* what partition found and is not yet encoded
  frag, words, \* the plain piece in work and its words that are left
  chain,       \* bpe: [word, alive, next, prev]
  heap,        \* bpe: the pairs that may be merged
  ids,         \* tokens: of the text, or of a reply
  at,          \* how many of them went through the stream decoder
  dec,         \* StreamDecoder: [buf, think]
  shown        \* what it has given out

vars == <<tok, text, phase, frags, frag, words, chain, heap, ids, at, dec, shown>>

-----------------------------------------------------------------------------
(* The tokenizer of a file.                                                *)

\* init_byte_tables: bytes that are not printed move to 256 and on.
Printable == 33 .. 126 \cup 161 .. 172 \cup 174 .. 255
ByteToCp == [b \in 0 .. 255 |-> IF b \in Printable THEN b
                                ELSE 256 + Cardinality(0 .. b - 1 \ Printable)]
CpToByte == [cp \in {ByteToCp[b] : b \in 0 .. 255} |->
               CHOOSE b \in 0 .. 255 : ByteToCp[b] = cp]

ThinkOpen  == <<60, 116, 104, 105, 110, 107, 62>>
ThinkClose == <<60, 47, 116, 104, 105, 110, 107, 62>>

\* arr_int_at
TypeOf(f, i) == IF i \in DOMAIN f.types THEN f.types[i] ELSE "normal"

\* is_special_tok
IsSpecial(piece, type) ==
  \/ piece \in {ThinkOpen, ThinkClose}
  \/ type \in {"unknown", "control", "user"}
  \/ /\ Len(piece) >= 4
     /\ SubSeq(piece, 1, 2) = <<60, 124>>
     /\ SubSeq(piece, Len(piece) - 1, Len(piece)) = <<124, 62>>

\* The specials, the longest first (spec_cmp).
Specials(f) ==
  LET is(i) == IsSpecial(f.tokens[i], TypeOf(f, i))
  IN SetToSortSeq({i \in DOMAIN f.tokens : is(i)},
       LAMBDA i, j : \/ Len(f.tokens[i]) > Len(f.tokens[j])
                     \/ Len(f.tokens[i]) = Len(f.tokens[j]) /\ i < j)

\* token_to_id, a StrMap: of a piece that is there twice the later id.
TokenIds(f) == [p \in ToSet(f.tokens) |-> Max({i \in DOMAIN f.tokens : f.tokens[i] = p})]

\* index_merges_from_gguf: a merge with a side that is no token is left out.
MergePairs(f) ==
  LET ok == {k \in DOMAIN f.merges : ToSet(f.merges[k]) \subseteq ToSet(f.tokens)}
      key(k) == <<TokenIds(f)[f.merges[k][1]], TokenIds(f)[f.merges[k][2]]>>
  IN [p \in {key(k) : k \in ok} |-> CHOOSE k \in ok : key(k) = p]

\* tokenizer_from_gguf_ex
FromFile(f) ==
  LET specials == [k \in DOMAIN Specials(f) |-> f.tokens[Specials(f)[k]]]
  IN [vocab |-> f.tokens, ids |-> TokenIds(f), pairs |-> MergePairs(f),
      specials |-> specials,
      special |-> FoldLeft(LAMBDA m, p : Put(m, p, 1), EmptyMap(0), specials),
      pre |-> f.pre, hides |-> f.arch = "qwen35" /\ f.thinking]

\* Every byte of the texts has a token, pieces decode to bytes, specials are
\* ASCII and not empty, no pair of tokens has two ranks.
ASSUME FilesAssumption ==
  \A n \in DOMAIN Files :
    LET f == Files[n]
    IN /\ \A t \in Texts[n], i \in 1 .. 9 :
            i \in DOMAIN t => <<ByteToCp[t[i]]>> \in ToSet(f.tokens)
       /\ \A i \in DOMAIN f.tokens :
            IF IsSpecial(f.tokens[i], TypeOf(f, i))
            THEN f.tokens[i] # <<>> /\ ToSet(f.tokens[i]) \subseteq 1 .. 127
            ELSE ToSet(f.tokens[i]) \subseteq DOMAIN CpToByte
       /\ IsInjective(f.merges)

-----------------------------------------------------------------------------
(* partition                                                               *)

Frag(special, s) == [special |-> special, s |-> s]
HitsAt(s, spec, i) == SubSeq(s, i, i + Len(spec) - 1) = spec
Holds(s, spec) == \E i \in 1 .. Len(s) - Len(spec) + 1 : HitsAt(s, spec, i)

\* A piece of text is cut at every place where strstr finds the special.
CutAt(s, spec) ==
  LET from[p \in Nat] ==
        LET hits == {i \in p .. Len(s) - Len(spec) + 1 : HitsAt(s, spec, i)}
        IN IF hits = {} THEN <<Frag(FALSE, SubSeq(s, p, Len(s)))>>
           ELSE <<Frag(FALSE, SubSeq(s, p, Min(hits) - 1)), Frag(TRUE, spec)>>
                \o from[Min(hits) + Len(spec)]
  IN from[1]

\* Special after special; in the end what is empty is dropped.
Partition(t, s) ==
  LET cut(fs, spec) ==
        FlattenSeq([k \in DOMAIN fs |->
          IF fs[k].special \/ ~Holds(fs[k].s, spec) THEN <<fs[k]>> ELSE CutAt(fs[k].s, spec)])
  IN SelectSeq(FoldLeft(cut, <<Frag(FALSE, s)>>, t.specials), LAMBDA fr : fr.s # <<>>)

-----------------------------------------------------------------------------
(* tokenizer_encode                                                        *)

Idle == UNCHANGED <<at, dec, shown>>
NoChain == [word |-> <<>>, alive |-> <<>>, next |-> <<>>, prev |-> <<>>]

Init ==
  /\ \E n \in DOMAIN Files :
       /\ tok = FromFile(Files[n])
       /\ \/ text \in Texts[n] /\ phase = "start"
          \/ text = <<>> /\ phase = "reply"
  /\ frags = <<>> /\ frag = <<>> /\ words = <<>> /\ chain = NoChain /\ heap = <<>>
  /\ ids = <<>> /\ at = 0 /\ shown = <<>>
  /\ dec = [buf |-> <<>>, think |-> tok.hides]

CutSpecials ==
  /\ phase = "start"
  /\ frags' = Partition(tok, text)
  /\ phase' = "frag"
  /\ UNCHANGED <<tok, text, frag, words, chain, heap, ids>> /\ Idle

\* encode_text: the words of a piece, as bytes.
TextWords(s) ==
  LET cs == Codepoints(s)
      ws == CASE tok.pre = "qwen2"  -> Qwen(cs, FALSE)
              [] tok.pre = "qwen35" -> Qwen(cs, TRUE)
              [] OTHER              -> Smollm(cs)
  IN [k \in DOMAIN ws |-> EncodeAll(ws[k])]

NextFrag ==
  /\ phase = "frag" /\ frags # <<>>
  /\ frags' = Tail(frags)
  /\ IF Head(frags).special
     THEN ids' = Append(ids, tok.ids[Head(frags).s]) /\ UNCHANGED <<phase, frag, words>>
     ELSE /\ frag' = Head(frags).s /\ words' = TextWords(frag')
          /\ phase' = "word" /\ UNCHANGED ids
  /\ UNCHANGED <<tok, text, chain, heap>> /\ Idle

\* gpt2_byte_encode
ByteEncode(w) == [i \in DOMAIN w |-> ByteToCp[w[i]]]

\* merge_rank; 0 if the pair is not merged.
MergeRank(l, r) ==
  IF {l, r} \subseteq DOMAIN tok.ids /\ <<tok.ids[l], tok.ids[r]>> \in DOMAIN tok.pairs
  THEN tok.pairs[<<tok.ids[l], tok.ids[r]>>] ELSE 0

\* The pairs of ps with a rank go into the heap h.
PushPairs(h, word, ps) ==
  FoldLeft(LAMBDA g, p : LET r == MergeRank(word[p[1]], word[p[2]])
                         IN IF r = 0 THEN g ELSE HeapPush(g, <<r, p[1], p[2]>>), h, ps)

\* bpe begins: a word that is a token is done, one that is a single code
\* point without a token is lost, any other is a chain of code points.
NextWord ==
  /\ phase = "word"
  /\ IF words = <<>> THEN phase' = "frag" /\ UNCHANGED <<words, chain, heap, ids>>
     ELSE LET w == ByteEncode(Head(words))
              n == Len(w)
              one == [i \in 1 .. n |-> <<w[i]>>]
          IN /\ words' = Tail(words)
             /\ IF w \in DOMAIN tok.ids
                THEN ids' = Append(ids, tok.ids[w]) /\ UNCHANGED <<phase, chain, heap>>
                ELSE IF n <= 1 THEN UNCHANGED <<phase, chain, heap, ids>>
                ELSE /\ chain' = [word |-> one, alive |-> [i \in 1 .. n |-> TRUE],
                                  next |-> [i \in 1 .. n |-> IF i < n THEN i + 1 ELSE 0],
                                  prev |-> [i \in 1 .. n |-> i - 1]]
                     /\ heap' = PushPairs(<<>>, one, [i \in 1 .. n - 1 |-> <<i, i + 1>>])
                     /\ phase' = "merge" /\ UNCHANGED ids
  /\ UNCHANGED <<tok, text, frags, frag>> /\ Idle

\* Mutant: the rank of a pair that has changed is not looked up again.
CurrentUnranked(it) ==
  /\ chain.alive[it[2]] /\ chain.alive[it[3]]
  /\ chain.next[it[2]] = it[3]

\* An item still stands for a pair of neighbours with its rank.
Current(it) ==
  /\ chain.alive[it[2]] /\ chain.alive[it[3]]
  /\ chain.next[it[2]] = it[3]
  /\ MergeRank(chain.word[it[2]], chain.word[it[3]]) = it[1]

\* An item is popped; the right one of its pair goes into the left one, and
\* the pairs with its neighbours are new.
Merge ==
  /\ phase = "merge" /\ heap # <<>>
  /\ LET it == Head(heap)
         left == it[2]  right == it[3]
         word == [chain.word EXCEPT ![left] = @ \o chain.word[right]]
         nxt == chain.next[right]
         prv == chain.prev[left]
     IN IF ~Current(it) THEN heap' = HeapPop(heap) /\ UNCHANGED chain
        ELSE /\ chain' = [word |-> word,
                          alive |-> [chain.alive EXCEPT ![right] = FALSE],
                          next |-> [chain.next EXCEPT ![left] = nxt],
                          prev |-> [i \in DOMAIN word |-> IF i = nxt THEN left ELSE chain.prev[i]]]
             /\ heap' = PushPairs(HeapPop(heap), word,
                          (IF prv # 0 THEN <<(<<prv, left>>)>> ELSE <<>>)
                          \o (IF nxt # 0 THEN <<(<<left, nxt>>)>> ELSE <<>>))
  /\ UNCHANGED <<tok, text, phase, frags, frag, words, ids>> /\ Idle

\* The pieces of the chain, from the first on.
ChainPieces ==
  LET from[i \in Nat] == IF i = 0 THEN <<>>
                         ELSE (IF chain.alive[i] THEN <<chain.word[i]>> ELSE <<>>)
                              \o from[chain.next[i]]
  IN from[1]

\* The token of a piece, or those of its code points.
PieceIds(p) ==
  IF p \in DOMAIN tok.ids THEN <<tok.ids[p]>>
  ELSE FlattenSeq([i \in DOMAIN p |->
         IF <<p[i]>> \in DOMAIN tok.ids THEN <<tok.ids[<<p[i]>>]>> ELSE <<>>])

\* Mutant: a merged piece that is no token is left out.
EmitKnown ==
  /\ phase = "merge" /\ heap = <<>>
  /\ ids' = ids \o [k \in DOMAIN SelectSeq(ChainPieces, LAMBDA p : p \in DOMAIN tok.ids) |->
                      tok.ids[SelectSeq(ChainPieces, LAMBDA p : p \in DOMAIN tok.ids)[k]]]
  /\ phase' = "word" /\ chain' = NoChain
  /\ UNCHANGED <<tok, text, frags, frag, words, heap>> /\ Idle

\* bpe ends.
Emit ==
  /\ phase = "merge" /\ heap = <<>>
  /\ ids' = ids \o FlattenSeq([k \in DOMAIN ChainPieces |-> PieceIds(ChainPieces[k])])
  /\ phase' = "word" /\ chain' = NoChain
  /\ UNCHANGED <<tok, text, frags, frag, words, heap>> /\ Idle

Encoded ==
  /\ phase = "frag" /\ frags = <<>>
  /\ phase' = "stream"
  /\ UNCHANGED <<tok, text, frags, frag, words, chain, heap, ids>> /\ Idle

-----------------------------------------------------------------------------
(* Decoding.                                                               *)

\* decode_piece_bytes
PieceBytes(p) == IF Has(tok.special, p) THEN p ELSE [i \in DOMAIN p |-> CpToByte[p[i]]]

\* tokenizer_decode
DecodeIds(is, skip) ==
  LET step(s, id) ==
        LET p == tok.vocab[id]
        IN CASE skip /\ p = ThinkOpen  -> [s EXCEPT !.hide = TRUE]
             [] skip /\ p = ThinkClose -> [s EXCEPT !.hide = FALSE]
             [] OTHER -> IF s.hide \/ (skip /\ Has(tok.special, p)) THEN s
                         ELSE [s EXCEPT !.raw = @ \o PieceBytes(p)]
  IN FoldLeft(step, [raw |-> <<>>, hide |-> skip /\ tok.hides], is).raw

\* The longest prefix of b, short of at most three bytes, that is whole
\* characters; nothing if there is none.
Ready(b) ==
  LET fits == {d \in 0 .. 3 : (d = 0 \/ Len(b) > d) /\ ValidPrefix(SubSeq(b, 1, Len(b) - d)) = 1}
  IN IF fits = {} THEN <<>> ELSE SubSeq(b, 1, Len(b) - Min(fits))

\* Mutant: what was given out stays in the buffer.
PushTokenKeeps(id) ==
  LET p == tok.vocab[id]
      b == dec.buf \o PieceBytes(p)
  IN CASE p = ThinkOpen  -> dec' = [dec EXCEPT !.think = TRUE] /\ UNCHANGED shown
       [] p = ThinkClose -> dec' = [dec EXCEPT !.think = FALSE] /\ UNCHANGED shown
       [] OTHER -> IF dec.think \/ Has(tok.special, p) THEN UNCHANGED <<dec, shown>>
                   ELSE shown' = shown \o Ready(b) /\ dec' = [dec EXCEPT !.buf = b]

\* stream_decoder_push, with skip_special as its callers set it.
PushToken(id) ==
  LET p == tok.vocab[id]
      b == dec.buf \o PieceBytes(p)
  IN CASE p = ThinkOpen  -> dec' = [dec EXCEPT !.think = TRUE] /\ UNCHANGED shown
       [] p = ThinkClose -> dec' = [dec EXCEPT !.think = FALSE] /\ UNCHANGED shown
       [] OTHER -> IF dec.think \/ Has(tok.special, p) THEN UNCHANGED <<dec, shown>>
                   ELSE /\ shown' = shown \o Ready(b)
                        /\ dec' = [dec EXCEPT !.buf = SubSeq(b, Len(Ready(b)) + 1, Len(b))]

\* stream_decoder_flush: characters as far as there are, and a mark for every
\* other byte.
Flushed(b) ==
  LET from[i \in Nat] ==
        LET good == {n \in 1 .. Min({4, Len(b) - i + 1}) : ValidPrefix(SubSeq(b, i, i + n - 1)) = 1}
        IN IF i > Len(b) THEN <<>>
           ELSE IF good # {} THEN SubSeq(b, i, i + Max(good) - 1) \o from[i + Max(good)]
           ELSE EncodePoint(65533) \o from[i + 1]
  IN from[1]

Stay == UNCHANGED <<tok, text, frags, frag, words, chain, heap>>

\* The tokens of a text that was encoded.
Stream ==
  /\ phase = "stream" /\ at < Len(ids)
  /\ PushToken(ids[at + 1])
  /\ at' = at + 1
  /\ UNCHANGED <<phase, ids>> /\ Stay

\* A token that the model sampled: any.
Reply ==
  /\ phase = "reply" /\ Len(ids) < MaxReply
  /\ \E id \in DOMAIN tok.vocab : PushToken(id) /\ ids' = Append(ids, id)
  /\ at' = at + 1
  /\ UNCHANGED phase /\ Stay

Flush ==
  /\ phase \in {"stream", "reply"} /\ at = Len(ids)
  /\ shown' = shown \o Flushed(dec.buf)
  /\ dec' = [dec EXCEPT !.buf = <<>>]
  /\ phase' = "done"
  /\ UNCHANGED <<ids, at>> /\ Stay

Done == phase = "done" /\ UNCHANGED vars

Next == \/ CutSpecials \/ NextFrag \/ NextWord \/ Merge \/ Emit \/ Encoded
        \/ Stream \/ Reply \/ Flush \/ Done

Spec == Init /\ [][Next]_vars

-----------------------------------------------------------------------------
(* Properties.                                                             *)

\* The state in its ranges; the heap is one, and of a text that is UTF-8 the
\* stream decoder never holds back more than a character that is not complete.
TextTypeOK ==
  /\ tok.vocab \in {Files[n].tokens : n \in DOMAIN Files}
  /\ phase \in {"start", "frag", "word", "merge", "stream", "reply", "done"}
  /\ ToSet(ids) \subseteq DOMAIN tok.vocab /\ at \in 0 .. Len(ids)
  /\ HeapOrdered(heap)
  /\ phase = "stream" => dec.buf = <<>> \/ ValidPrefix(dec.buf) = -1

\* The pieces of a word by the definition of byte-pair encoding: while two
\* neighbours may be merged, those with the least rank are, the first of them.
GreedyPieces(w) ==
  LET merge[ps \in Seq(Seq(Nat))] ==
        LET rank(i) == MergeRank(ps[i], ps[i + 1])
            can == {i \in 1 .. Len(ps) - 1 : rank(i) # 0}
            i == CHOOSE i \in can : \A j \in can :
                   rank(i) < rank(j) \/ (rank(i) = rank(j) /\ i <= j)
        IN IF can = {} THEN ps
           ELSE merge[SubSeq(ps, 1, i - 1) \o <<ps[i] \o ps[i + 1]>> \o SubSeq(ps, i + 2, Len(ps))]
  IN merge[[i \in DOMAIN w |-> <<w[i]>>]]

\* With all its stale items the heap gives the pieces of that definition, and
\* never anything else than the word: the chain spells it at every step.
BpeIsGreedy ==
  phase = "merge" =>
    LET pieces == ChainPieces
        w == FlattenSeq(pieces)
    IN /\ \A i \in DOMAIN chain.word : chain.alive[i] /\ chain.next[i] # 0 =>
             chain.alive[chain.next[i]] /\ chain.prev[chain.next[i]] = i
       /\ heap = <<>> => pieces = GreedyPieces(w)

\* The scanners cut a text as the regular expressions of the models do.
WordsMatch ==
  phase = "word" =>
    LET ws == RegexWords(Codepoints(frag), tok.pre)
    IN IsSuffix(words, [k \in DOMAIN ws |-> EncodeAll(ws[k])])

\* Nothing of a text is lost, doubled or moved: what is encoded, the word in
\* work and what is left spell it at every step, and in the end its tokens
\* alone do; and no plain piece holds a special token.
TextKept ==
  phase \in {"frag", "word", "merge", "stream"} =>
    LET inWork == FlattenSeq(ChainPieces)
    IN /\ DecodeIds(ids, FALSE)
          \o (IF phase = "merge" THEN [i \in DOMAIN inWork |-> CpToByte[inWork[i]]] ELSE <<>>)
          \o FlattenSeq(words)
          \o FlattenSeq([k \in DOMAIN frags |-> frags[k].s]) = text
       /\ \A k \in DOMAIN frags : ~frags[k].special =>
             \A s \in ToSet(tok.specials) : ~Holds(frags[k].s, s)

\* A character begins at i and has n bytes: encoding it gives them again.
CharAt(b, i, n) ==
  /\ Need(b[i]) = n /\ i + n - 1 <= Len(b)
  /\ Point(b, i, n) <= 1114111 /\ EncodePoint(Point(b, i, n)) = SubSeq(b, i, i + n - 1)

\* Bytes as text, with a mark for every byte that belongs to no character.
Replaced(b) ==
  LET from[i \in Nat] ==
        IF i > Len(b) THEN <<>>
        ELSE LET n == Need(b[i])
             IN IF n > 0 /\ CharAt(b, i, n) THEN SubSeq(b, i, i + n - 1) \o from[i + n]
                ELSE <<239, 191, 189>> \o from[i + 1]
  IN from[1]

\* What the stream decoder gives out is what tokenizer_decode makes of the
\* same tokens: whatever the tokens are, wherever characters are cut and
\* whatever is hidden between them.
StreamIsDecode ==
  phase = "done" => shown = Replaced(DecodeIds(ids, TRUE))
=============================================================================
