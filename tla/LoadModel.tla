------------------------------ MODULE LoadModel ------------------------------
(***************************************************************************)
(* What a program does with its model file: open_gguf and load_model       *)
(* (gguf.c), llama_model_init (model.c), the tables of the tokenizer, and  *)
(* at the end the freeing of all this.                                     *)
(*                                                                         *)
(* A file is a set of fields of the format, each at its place: who reads   *)
(* as many bytes as a field has, from where it begins, gets its value.  A  *)
(* name is a pair: <<prefix, suffix>> of a key, <<layer, role>> of a       *)
(* tensor, where TOP is the layer of a tensor outside the layers.  What no *)
(* writer of the format writes is left out: another magic number, a string *)
(* that runs past the end, more than eight dimensions.                     *)
(***************************************************************************)
EXTENDS Integers, Sequences, SequencesExt

CONSTANTS
  Files,          \* the files there are: [version, kv, align, tensors] each, as meant
  NameLen(_), StrLen(_),   \* bytes of a name and of another string
  BlockOf(_),     \* elements and bytes of a block of a ggml type, <<0, 0>> if unknown
  IntMax          \* INT_MAX

TOP == 0          \* layers count from 1

VARIABLES
  file,           \* which of Files
  gg,             \* GGUFFile: [pos, nTensors, nKv, kv, tensors, data], whole
  hp,             \* LlamaHParams
  weights,        \* LoadedModel.weights
  net,            \* LlamaModel: embd, output, outputNorm and the layers, each
                  \* from roles to indices of weights, 0 for none
  interned,       \* what the backend was told of: <<weight, elements>>
  vocab,          \* Tokenizer.vocab
  heap,           \* what is allocated
  loading         \* where the program is; whole is FALSE once it has read or
                  \* freed what it should not have

loadVars == <<file, gg, hp, weights, net, interned, vocab, heap, loading>>

-----------------------------------------------------------------------------
(* The format: what is written, in fields <<value, bytes>>: the header,    *)
(* the entries and the table of tensors.                                   *)

Scalars == [u8 |-> 1, i8 |-> 1, bool |-> 1, u16 |-> 2, i16 |-> 2, u32 |-> 4, i32 |-> 4,
            f32 |-> 4, u64 |-> 8, i64 |-> 8, f64 |-> 8]
StrFields(s, n) == << <<n, 8>>, <<s, n>> >>
ValueFields(e) ==
  CASE e.type = "str" -> StrFields(e.val, StrLen(e.val))
    [] e.type = "arr" ->
         << <<e.of, 4>>, <<Len(e.val), 8>> >>
         \o FlattenSeq([k \in DOMAIN e.val |->
              IF e.of = "str" THEN StrFields(e.val[k], StrLen(e.val[k]))
              ELSE << <<e.val[k], Scalars[e.of]>> >>])
    [] OTHER -> << <<e.val, Scalars[e.type]>> >>
Header(f) ==
  << << <<"GGUF", 4>>, <<f.version, 4>>, <<Len(f.tensors), 8>>, <<Len(f.kv), 8>> >> >>
  \o [i \in DOMAIN f.kv |->
       StrFields(f.kv[i].key, NameLen(f.kv[i].key)) \o << <<f.kv[i].type, 4>> >>
       \o ValueFields(f.kv[i])]
  \o [i \in DOMAIN f.tensors |->
       LET t == f.tensors[i]
       IN StrFields(t.name, NameLen(t.name)) \o << <<Len(t.dims), 4>> >>
          \o [d \in DOMAIN t.dims |-> <<t.dims[d], 8>>] \o << <<t.type, 4>>, <<t.offset, 8>> >>]

\* ggml_nbytes, and the number of elements
NBytes(type, n) ==
  LET b == BlockOf(type)
  IN IF b[1] = 0 \/ b[2] = 0 \/ n % b[1] # 0 THEN 0 ELSE (n \div b[1]) * b[2]
Elements(t) == FoldLeft(LAMBDA n, d : n * d, 1, t.dims)

RoundUp(n, a) == ((n + a - 1) \div a) * a
\* Where each of the pieces begins that lie one after the other, and where they end
Starts(sizes) ==
  LET at[i \in 1 .. Len(sizes) + 1] == IF i = 1 THEN 0 ELSE at[i - 1] + sizes[i - 1] IN at
Ends(sizes) == Starts(sizes)[Len(sizes) + 1]

Written(f) ==
  LET pieces == Header(f)
      sizes(p) == [k \in DOMAIN p |-> p[k][2]]
      all == [i \in DOMAIN pieces |-> Ends(sizes(pieces[i]))]
      start == RoundUp(Ends(all), f.align)
      placed(p, from) ==
        {<<from + Starts(sizes(p))[k], p[k][2], p[k][1]>> : k \in DOMAIN p}
      blob(t, i) ==
        [at |-> start + t.offset, tensor |-> i, bytes |-> NBytes(t.type, Elements(t))]
  IN [fields |-> UNION {placed(pieces[i], Starts(all)[i]) : i \in DOMAIN pieces},
      data |-> {blob(f.tensors[i], i) : i \in DOMAIN f.tensors}]

Disk == [i \in DOMAIN Files |-> Written(Files[i])]

-----------------------------------------------------------------------------
(* Reading.  A reader r is [pos, whole, got]: where it is, whether all it  *)
(* has read were fields, and what it has read.                             *)

\* rd_u8 .. rd_f64
Rd(r, w) ==
  LET here == {x \in Disk[file].fields : x[1] = r.pos /\ x[2] = w}
  IN [pos |-> r.pos + w, whole |-> r.whole /\ here # {},
      got |-> Append(r.got, IF here = {} THEN 0 ELSE (CHOOSE x \in here : TRUE)[3])]

\* rd_str: in place of its length, the string
Named(r) == [Rd(r, Last(r.got)) EXCEPT !.got = Append(Front(r.got), Last(@))]
RdStr(r) == Named(Rd(r, 8))

\* The rest of read_array, whose r has read the type and the number of the
\* elements.  An array keeps as many of the first bytes of GGUFValue.v as an
\* element has: those of a number, but of a float half of its double.
Kept(r) == [r EXCEPT !.got = Append(Front(@), <<"half", Last(@)>>)]
Elems(r, of) ==
  FoldLeft(LAMBDA q, k : CASE of = "str" -> RdStr(q)
                           [] of = "f32" -> Kept(Rd(q, 4))
                           [] OTHER -> Rd(q, Scalars[of]),
           r, [k \in 1 .. Last(r.got) |-> k])
IsElem(of) == of \in DOMAIN Scalars \cup {"str"}
ReadArray(r) == IF IsElem(r.got[Len(r.got) - 1]) THEN Elems(r, r.got[Len(r.got) - 1]) ELSE r

\* read_value, whose r has read the type
ReadValue(r) ==
  CASE Last(r.got) = "str" -> RdStr(r)
    [] Last(r.got) = "arr" -> ReadArray(Rd(Rd(r, 4), 8))
    [] OTHER -> Rd(r, Scalars[Last(r.got)])
ReadEntry(r) == ReadValue(Rd(RdStr(r), 4))

\* An entry of what was read of it
Entry(got) ==
  IF got[2] = "arr"
  THEN [key |-> got[1], type |-> "arr", of |-> got[3], val |-> SubSeq(got, 5, Len(got))]
  ELSE [key |-> got[1], type |-> got[2], val |-> got[3]]

\* A tensor of the table in the file
RdDims(r) == FoldLeft(LAMBDA q, d : Rd(q, 8), r, [d \in 1 .. Last(r.got) |-> d])
ReadInfo(r) == Rd(Rd(RdDims(Rd(RdStr(r), 4)), 4), 8)
Info(got) ==
  LET n == got[2]
  IN [name |-> got[1], dims |-> SubSeq(got, 3, n + 2), type |-> got[n + 3], offset |-> got[n + 4]]

\* gguf_get, loaded_find_weight: the first of that name, 0 if there is none
Find(entries, key) == SelectInSeq(entries, LAMBDA e : e.key = key)
FindWeight(name) == SelectInSeq(weights, LAMBDA w : w.name = name)

Has(key) == Find(gg.kv, key) # 0
\* kv_int, kv_float
KvInt(key, def) == IF Has(key) THEN gg.kv[Find(gg.kv, key)].val ELSE def
IsStrings(key) ==
  Has(key) /\ LET e == gg.kv[Find(gg.kv, key)] IN e.type = "arr" /\ e.of = "str"

-----------------------------------------------------------------------------
(* The heap: an object is <<what, of which, part>>.                        *)

\* What an entry of the file's table owns.
EntryObjs(i, e) ==
  {<<"key", i, 0>>}
  \cup (IF e.type \in {"str", "arr"} THEN {<<"value", i, 0>>} ELSE {})
  \cup (IF e.type = "arr" /\ e.of = "str" THEN {<<"value", i, k>> : k \in DOMAIN e.val} ELSE {})
NameObjs == {<<"tensor", i, 0>> : i \in DOMAIN gg.tensors}
OpenObjs == {<<what, 0, 0>> : what \in {"file", "path", "fd", "map", "entries"}}
\* The strings of LlamaHParams: 0 those of the loaded model, 1 the tokenizer's
HParamObjs(owner) == {<<"hparams", owner, k>> : k \in 1 .. 3}
WeightObjs(i, w) ==
  {<<"weight", i, 0>>} \cup IF w.owned THEN {<<"weight", i, 1>>} ELSE {}
VocabObjs(n) == {<<"tokenizer", 0, 0>>} \cup {<<"vocab", 0, k>> : k \in 1 .. n}
ModelObjs == {<<"model", 0, 0>>, <<"layers", 0, 0>>}

At(ph) == loading.ph = ph
Go(ph) == loading' = [loading EXCEPT !.ph = ph]
Alloc(objs) == heap' = heap \cup objs
\* free, of what is not allocated too
Free(objs, ph) ==
  /\ heap' = heap \ objs
  /\ loading' = [ph |-> ph, clean |-> loading.clean /\ objs \subseteq heap]

-----------------------------------------------------------------------------
(* Opening the file and loading the tensors.                               *)

LoadInit ==
  /\ file \in DOMAIN Files
  /\ gg = [pos |-> 0, whole |-> TRUE, nTensors |-> 0, nKv |-> 0, kv |-> <<>>, tensors |-> <<>>,
           data |-> 0]
  /\ hp = [arch |-> ""] /\ weights = <<>> /\ net = <<>> /\ interned = {} /\ vocab = <<>>
  /\ heap = {} /\ loading = [ph |-> "open", clean |-> TRUE]

Read(r) == [gg EXCEPT !.pos = r.pos, !.whole = r.whole]
Here == [pos |-> gg.pos, whole |-> gg.whole, got |-> <<>>]

\* open_gguf as far as the counts
OpenFile ==
  /\ At("open")
  /\ \E r \in {Rd(Rd(Rd(Rd(Here, 4), 4), 8), 8)} :
       IF r.got[2] # 3 THEN Go("dead") /\ UNCHANGED gg
       ELSE gg' = [Read(r) EXCEPT !.nTensors = r.got[3], !.nKv = r.got[4]] /\ Go("entries")
  /\ Alloc(OpenObjs)
  /\ UNCHANGED <<file, hp, weights, net, interned, vocab>>

\* It dies of an array of arrays, or of a type there is not.
ReadKv ==
  /\ At("entries") /\ Len(gg.kv) < gg.nKv
  /\ \E r \in {ReadEntry(Here)} :
       IF r.got[2] = "arr" /\ ~IsElem(r.got[3]) THEN Go("dead") /\ UNCHANGED <<gg, heap>>
       ELSE /\ gg' = [Read(r) EXCEPT !.kv = Append(@, Entry(r.got))]
            /\ Alloc(EntryObjs(Len(gg.kv) + 1, Entry(r.got)))
            /\ UNCHANGED loading
  /\ UNCHANGED <<file, hp, weights, net, interned, vocab>>

ReadTensorInfo ==
  /\ At("entries") /\ Len(gg.kv) = gg.nKv /\ Len(gg.tensors) < gg.nTensors
  /\ \E r \in {ReadInfo(Here)} : gg' = [Read(r) EXCEPT !.tensors = Append(@, Info(r.got))]
  /\ Alloc(NameObjs' \cup {<<"tensors", 0, 0>>})
  /\ UNCHANGED <<file, hp, weights, net, interned, vocab, loading>>

\* Mutant: the data follows the table.
AlignDataNot ==
  /\ At("entries") /\ Len(gg.kv) = gg.nKv /\ Len(gg.tensors) = gg.nTensors
  /\ gg' = [gg EXCEPT !.data = gg.pos]
  /\ Go("hparams")
  /\ UNCHANGED <<file, hp, weights, net, interned, vocab, heap>>

AlignData ==
  /\ At("entries") /\ Len(gg.kv) = gg.nKv /\ Len(gg.tensors) = gg.nTensors
  /\ gg' = [gg EXCEPT !.data = RoundUp(gg.pos, KvInt(<<"general", "alignment">>, 32))]
  /\ Go("hparams")
  /\ UNCHANGED <<file, hp, weights, net, interned, vocab, heap>>

Required == {"embedding_length", "attention.head_count", "block_count", "feed_forward_length",
             "attention.head_count_kv", "context_length", "attention.layer_norm_rms_epsilon",
             "rope.freq_base"}

\* hparams_from_kv, of which only what loading looks at is kept.  kv_int and
\* kv_float give the same number of every type of entry.
ReadHParams ==
  /\ At("hparams")
  /\ LET arch == KvInt(<<"general", "architecture">>, "")
         int(key, def) == KvInt(<<arch, key>>, def)
         tokens == <<"tokenizer", "tokens">>
         nVocab == int("vocab_size", 0)
         h == [arch |-> arch, nEmbd |-> int("embedding_length", 0),
               nHead |-> int("attention.head_count", 0),
               headDim |-> int("attention.key_length",
                               int("embedding_length", 0) \div int("attention.head_count", 1)),
               nHeadKv |-> int("attention.head_count_kv", 0), nLayer |-> int("block_count", 0),
               nextn |-> int("nextn_predict_layers", 0),
               interval |-> int("full_attention_interval", 4),
               dConv |-> int("ssm.conv_kernel", 0), dInner |-> int("ssm.inner_size", 0),
               dState |-> int("ssm.state_size", 0), dtRank |-> int("ssm.time_step_rank", 0),
               nGroup |-> int("ssm.group_count", 0),
               nVocab |-> IF nVocab = 0 /\ Has(tokens) THEN Len(KvInt(tokens, <<>>)) ELSE nVocab]
     IN IF \/ arch \notin {"llama", "qwen2", "qwen35"}
           \/ \E key \in Required : ~Has(<<arch, key>>)
           \/ h.nextn >= h.nLayer
        THEN Go("dead") /\ UNCHANGED <<hp, heap>>
        ELSE hp' = h /\ Alloc(HParamObjs(0)) /\ Go("weights")
  /\ UNCHANGED <<file, gg, weights, net, interned, vocab>>

\* row_keep_quantized
KeepsQuantized(t) ==
  /\ t.type # "f32" /\ Len(t.dims) >= 2
  /\ BlockOf(t.type)[1] > 0 /\ t.dims[1] % BlockOf(t.type)[1] = 0

\* dequant_tensor
Dequantizes(t) == BlockOf(t.type)[1] > 0 /\ Elements(t) % BlockOf(t.type)[1] = 0

\* A turn of the loop of load_model: a view of the file, or a copy that the
\* model owns; both begin at `at` of the file.  It dies of a tensor that is too
\* large or of no type it knows.
LoadTensor ==
  /\ At("weights") /\ Len(weights) < Len(gg.tensors)
  /\ LET t == gg.tensors[Len(weights) + 1]
         view == t.type = "f32" \/ KeepsQuantized(t)
         w == [name |-> t.name, n |-> Elements(t), type |-> IF view THEN t.type ELSE "f32",
               at |-> gg.data + t.offset, owned |-> ~view]
     IN IF Elements(t) > IntMax \/ (~view /\ ~Dequantizes(t)) THEN Go("dead") /\ UNCHANGED <<weights, heap>>
        ELSE /\ weights' = Append(weights, w)
             /\ Alloc(WeightObjs(Len(weights) + 1, w) \cup {<<"weights", 0, 0>>})
             /\ UNCHANGED loading
  /\ UNCHANGED <<file, gg, hp, net, interned, vocab>>

-----------------------------------------------------------------------------
(* llama_model_init: the weights of each layer by their names.             *)

\* layer_is_gdn
IsGdn(i) == hp.arch = "qwen35" /\ i % (IF hp.interval > 0 THEN hp.interval ELSE 4) # 0

\* n_layer_fwd
NLayers == hp.nLayer - hp.nextn

\* must_weight, must_f32 and opt_f32
Mats(i) ==
  IF i = TOP THEN {"token_embd"}
  ELSE {"ffn_gate", "ffn_up", "ffn_down"}
       \cup IF IsGdn(i) THEN {"attn_qkv", "attn_gate", "ssm_alpha", "ssm_beta", "ssm_out"}
            ELSE {"attn_q", "attn_k", "attn_v", "attn_output"}
Vectors(i) ==
  IF i = TOP THEN {"output_norm"}
  ELSE {"attn_norm"} \cup IF IsGdn(i) THEN {"ssm_a", "ssm_conv1d", "ssm_dt", "ssm_norm"} ELSE {}
Optional(i) ==
  IF i = TOP \/ IsGdn(i) THEN {}
  ELSE {"attn_q.bias", "attn_k.bias", "attn_v.bias", "attn_q_norm", "attn_k_norm"}

\* What a role is called in the file: two roles have a second name.
Bound(i, role) ==
  LET w == FindWeight(<<i, role>>)
  IN CASE w = 0 /\ role = "ffn_norm" -> FindWeight(<<i, "post_attention_norm">>)
       [] w = 0 /\ role = "output" -> FindWeight(<<i, "token_embd">>)
       [] OTHER -> w
Other(i) == IF i = TOP THEN {"output"} ELSE {"ffn_norm"}

\* First the embeddings, whatever number of layers there is, then each layer.
BindLayer ==
  /\ At("weights") /\ Len(weights) = Len(gg.tensors) /\ (net = <<>> \/ Len(net) <= NLayers)
  /\ LET i == Len(net)
         roles == Mats(i) \cup Vectors(i) \cup Optional(i) \cup Other(i)
         bound == [r \in roles |-> Bound(i, r)]
         floats == Vectors(i) \cup Optional(i) \cup {"ffn_norm"}
     IN IF \/ \E r \in roles \ Optional(i) : bound[r] = 0
           \/ \E r \in roles \cap floats : bound[r] # 0 /\ weights[bound[r]].type # "f32"
        THEN Go("dead") /\ UNCHANGED <<net, heap>>
        ELSE net' = Append(net, bound) /\ Alloc(ModelObjs) /\ UNCHANGED loading
  /\ UNCHANGED <<file, gg, hp, weights, interned, vocab>>

\* How many floats intern_w is told a vector has.
Floats(role) ==
  CASE role \in {"attn_norm", "ffn_norm", "output_norm"} -> hp.nEmbd
    [] role \in {"ssm_a", "ssm_dt"} -> hp.dtRank
    [] role = "ssm_conv1d" -> (2 * hp.dState * hp.nGroup + hp.dInner) * hp.dConv
    [] role = "ssm_norm" -> hp.dState
    [] role = "attn_q.bias" -> (IF hp.arch = "qwen35" THEN 2 ELSE 1) * hp.nHead * hp.headDim
    [] role \in {"attn_k.bias", "attn_v.bias"} -> hp.nHeadKv * hp.headDim
    [] role \in {"attn_q_norm", "attn_k_norm"} -> hp.headDim

\* The end of llama_model_init: intern_mat of matrices, intern_w of vectors.
Intern ==
  /\ At("weights") /\ net # <<>> /\ Len(net) = NLayers + 1
  /\ LET there(i) == {r \in DOMAIN net[i + 1] : net[i + 1][r] # 0}
         size(i, r) == IF r \in Mats(i) \cup {"output"} THEN weights[net[i + 1][r]].n ELSE Floats(r)
     IN interned' = UNION {{<<net[i + 1][r], size(i, r)>> : r \in there(i)} : i \in 0 .. NLayers}
  /\ Go("tokenizer")
  /\ UNCHANGED <<file, gg, hp, weights, net, vocab, heap>>

\* tokenizer_from_gguf_ex without a prepared table of merges.  Everything it
\* keeps is copied, of which the vocabulary stands for the rest.
BuildTokenizer ==
  /\ At("tokenizer")
  /\ LET tokens == KvInt(<<"tokenizer", "tokens">>, <<>>)
     IN IF \/ KvInt(<<"tokenizer", "model">>, "") # "gpt2"
           \/ ~IsStrings(<<"tokenizer", "tokens">>) \/ ~IsStrings(<<"tokenizer", "merges">>)
        THEN Go("dead") /\ UNCHANGED <<vocab, heap>>
        ELSE vocab' = tokens /\ Alloc(VocabObjs(Len(tokens)) \cup HParamObjs(1)) /\ Go("run")
  /\ UNCHANGED <<file, gg, hp, weights, net, interned>>

-----------------------------------------------------------------------------
(* The end of main.                                                        *)

FreeTokenizer ==
  /\ At("run")
  /\ Free(VocabObjs(Len(vocab)) \cup HParamObjs(1), "model")
  /\ UNCHANGED <<file, gg, hp, weights, net, interned, vocab>>

FreeModel ==
  /\ At("model")
  /\ Free(ModelObjs, "loaded")
  /\ UNCHANGED <<file, gg, hp, weights, net, interned, vocab>>

GgufObjs ==
  OpenObjs \cup NameObjs \cup {<<"tensors", 0, 0>>}
  \cup UNION {EntryObjs(i, gg.kv[i]) : i \in DOMAIN gg.kv}

\* Mutant: the data of every weight is freed.
FreeLoadedAll ==
  /\ At("loaded")
  /\ Free((UNION {{<<"weight", i, 0>>, <<"weight", i, 1>>} : i \in DOMAIN weights})
          \cup {<<"weights", 0, 0>>} \cup HParamObjs(0) \cup GgufObjs, "closed")
  /\ UNCHANGED <<file, gg, hp, weights, net, interned, vocab>>

\* loaded_model_free
FreeLoaded ==
  /\ At("loaded")
  /\ Free((UNION {WeightObjs(i, weights[i]) : i \in DOMAIN weights})
          \cup {<<"weights", 0, 0>>} \cup HParamObjs(0) \cup GgufObjs, "closed")
  /\ UNCHANGED <<file, gg, hp, weights, net, interned, vocab>>

LoadNext ==
  \/ OpenFile \/ ReadKv \/ ReadTensorInfo \/ AlignData \/ ReadHParams \/ LoadTensor
  \/ BindLayer \/ Intern \/ BuildTokenizer \/ FreeTokenizer \/ FreeModel \/ FreeLoaded

-----------------------------------------------------------------------------
(* Properties.                                                             *)

\* What has been read is what was written, entry by entry and tensor by
\* tensor; every weight is the whole data of its tensor, in the type it says
\* it has; and the backend is told of every weight that a layer uses, of one
\* with its true size.  (The elements of arrays of floats, which nobody uses,
\* are not kept right.)
LoadedIsFile ==
  /\ gg.whole
  /\ \A i \in DOMAIN gg.kv :
       LET e == gg.kv[i]
       IN IF e.type = "arr" THEN e.of = "f32" \/ e = Files[file].kv[i] ELSE e = Files[file].kv[i]
  /\ gg.tensors = SubSeq(Files[file].tensors, 1, Len(gg.tensors))
  /\ \A i \in DOMAIN weights :
       LET t == Files[file].tensors[i]
       IN /\ weights[i].type \in {t.type, "f32"}
          /\ [at |-> weights[i].at, tensor |-> i, bytes |-> NBytes(t.type, weights[i].n)]
               \in Disk[file].data
  /\ At("run") =>
       \A i \in DOMAIN net : \A r \in DOMAIN net[i] :
         LET w == net[i][r] IN w # 0 => {x \in interned : x[1] = w} = {<<w, weights[w].n>>}

\* Nothing is freed that is not allocated, nothing that is used later is
\* freed, and after the last free nothing is left.
OwnedOnce ==
  /\ loading.clean
  /\ At("closed") => heap = {}
  /\ loading.ph \in {"run", "model"} =>
       /\ {<<"map", 0, 0>>, <<"fd", 0, 0>>} \subseteq heap
       /\ \A i \in DOMAIN weights : WeightObjs(i, weights[i]) \subseteq heap
=============================================================================
