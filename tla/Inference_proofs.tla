--------------------------- MODULE Inference_proofs ---------------------------
(***************************************************************************)
(* Proofs about the programs around one model: who owns what of a loaded   *)
(* model, for every file, whatever numbers and names stand in it, and      *)
(* however far the program comes with it; and the chat and the batch, for  *)
(* every vocabulary, every length of the cache, every number of prompts    *)
(* and any retokenisation.  That the tokenizer returns tokens at all is    *)
(* the one hypothesis about it (EncodesToTokens).  At the end: what is     *)
(* read of a file is what was written to it.                               *)
(***************************************************************************)
EXTENDS Inference, LoopTheorems, FiniteSetTheorems

\* GGUFFile has its fields.
IsFile(g) ==
  g = [pos |-> g.pos, whole |-> g.whole, nTensors |-> g.nTensors, nKv |-> g.nKv,
       kv |-> g.kv, tensors |-> g.tensors, data |-> g.data]

\* What the open file owns.
Tables ==
  OpenObjs \cup NameObjs \cup (IF gg.tensors = <<>> THEN {} ELSE {<<"tensors", 0, 0>>})
  \cup UNION {EntryObjs(i, gg.kv[i]) : i \in DOMAIN gg.kv}

\* What the LoadedModel owns, what the LlamaModel and what the tokenizer.
Copies ==
  (UNION {WeightObjs(i, weights[i]) : i \in DOMAIN weights})
  \cup (IF weights = <<>> THEN {} ELSE {<<"weights", 0, 0>>})
Bindings == IF net = <<>> THEN {} ELSE ModelObjs
Vocabulary == VocabObjs(Len(vocab)) \cup HParamObjs(1)
Loaded == Tables \cup HParamObjs(0) \cup Copies

\* The heap at each point, to the last object.
HeapInv ==
  /\ At("open") => heap = {}
  /\ loading.ph \in {"entries", "hparams"} => heap = Tables
  /\ loading.ph \in {"weights", "tokenizer"} => heap = Loaded \cup Bindings
  /\ At("run") => heap = Loaded \cup ModelObjs \cup Vocabulary
  /\ At("model") => heap = Loaded \cup ModelObjs
  /\ At("loaded") => heap = Loaded
  /\ At("closed") => heap = {}

\* What a layer is bound to is a weight, and a weight is of a tensor: so the
\* tables that are freed at the end were all allocated.
OrderInv ==
  /\ At("open") => gg.kv = <<>> /\ gg.tensors = <<>>
  /\ loading.ph \in {"open", "entries", "hparams"} => weights = <<>> /\ net = <<>>
  /\ loading.ph \in {"tokenizer", "run", "model", "loaded"} => net # <<>>
  /\ net # <<>> => weights # <<>>
  /\ weights # <<>> => gg.tensors # <<>>

Phases == {"open", "entries", "hparams", "weights", "tokenizer", "run", "model", "loaded",
           "closed", "dead"}
ListInv ==
  /\ IsFile(gg) /\ IsList(gg.kv) /\ IsList(gg.tensors) /\ IsList(weights) /\ IsList(net)
  /\ loading = [ph |-> loading.ph, clean |-> TRUE] /\ loading.ph \in Phases

LoadInv == ListInv /\ OrderInv /\ HeapInv

-----------------------------------------------------------------------------
(* Assignments to records.                                                 *)

\* A GGUFFile is a record of seven fields.
FileOf(p, w, n, k, kv, t, d) ==
  [pos |-> p, whole |-> w, nTensors |-> n, nKv |-> k, kv |-> kv, tensors |-> t, data |-> d]

LEMMA FileFields ==
  ASSUME NEW g, IsFile(g)
  PROVE  \E p, w, n, k, kv, t, d : g = FileOf(p, w, n, k, kv, t, d)
BY Zenon DEF IsFile, FileOf

LEMMA FileTables ==
  \A g, p, w, n, k, kv, t, d :
    g = FileOf(p, w, n, k, kv, t, d) => IsFile(g) /\ g.kv = kv /\ g.tensors = t
BY DEF IsFile, FileOf

\* What has been read keeps the tables.
LEMMA ReadPlace ==
  ASSUME IsFile(gg), NEW r
  PROVE  IsFile(Read(r)) /\ Read(r).kv = gg.kv /\ Read(r).tensors = gg.tensors
<1>1. PICK p, w, n, k, kv, t, d : gg = FileOf(p, w, n, k, kv, t, d)
  BY FileFields
<1> DEFINE h == [gg EXCEPT !.pos = r.pos]
<1>2. h = FileOf(r.pos, w, n, k, kv, t, d)
  BY <1>1 DEF FileOf
<1>3. [h EXCEPT !.whole = r.whole] = FileOf(r.pos, r.whole, n, k, kv, t, d)
  <2> HIDE DEF h
  <2> QED
    BY <1>2 DEF FileOf
<1>4. Read(r) = FileOf(r.pos, r.whole, n, k, kv, t, d)
  BY <1>3 DEF Read
<1> QED
  BY <1>1, <1>4, FileTables

\* To go elsewhere leaves the rest of where the program is.
LEMMA GoTo ==
  ASSUME ListInv, NEW p \in Phases, Go(p)
  PROVE  /\ loading' = [ph |-> loading'.ph, clean |-> TRUE]
         /\ loading'.ph = p /\ loading'.ph \in Phases
<1>1. PICK q : loading = [ph |-> q, clean |-> TRUE]
  BY Zenon DEF ListInv
<1>2. loading' = [loading EXCEPT !.ph = p]
  BY DEF Go
<1>3. loading' = [ph |-> p, clean |-> TRUE]
  BY <1>1, <1>2
<1> QED
  BY <1>3

-----------------------------------------------------------------------------
(* What is owned, as the tables and lists grow.                            *)

LEMMA EntriesGrow ==
  ASSUME IsList(gg.kv), NEW e, gg'.kv = Append(gg.kv, e), gg'.tensors = gg.tensors
  PROVE  Tables' = Tables \cup EntryObjs(Len(gg.kv) + 1, e)
<1> DEFINE n == Len(gg.kv)
           a == gg.kv
           b == gg'.kv
<1>1. /\ n \in Nat /\ DOMAIN a = 1 .. n /\ DOMAIN b = 1 .. n + 1
      /\ \A i \in 1 .. n : b[i] = a[i]
      /\ b[n + 1] = e
  BY AppendList
<1>2. NameObjs' = NameObjs
  BY DEF NameObjs
<1>3. UNION {EntryObjs(i, b[i]) : i \in DOMAIN b}
        = (UNION {EntryObjs(i, a[i]) : i \in DOMAIN a}) \cup EntryObjs(n + 1, e)
  <2>1. 1 .. n + 1 = (1 .. n) \cup {n + 1}
    BY <1>1
  <2> HIDE DEF n, a, b
  <2> QED
    BY <1>1, <2>1
<1> QED
  BY <1>2, <1>3 DEF Tables

LEMMA NamesGrow ==
  ASSUME IsList(gg.tensors), NEW t, gg'.tensors = Append(gg.tensors, t), gg'.kv = gg.kv
  PROVE  Tables' = Tables \cup (NameObjs' \cup {<<"tensors", 0, 0>>})
<1>1. /\ Len(gg.tensors) \in Nat /\ gg'.tensors # <<>>
      /\ DOMAIN gg.tensors = 1 .. Len(gg.tensors)
      /\ DOMAIN gg'.tensors = 1 .. Len(gg.tensors) + 1
  BY AppendList
<1>2. DOMAIN gg.tensors \subseteq DOMAIN gg'.tensors
  BY <1>1
<1>3. NameObjs \subseteq NameObjs'
  BY <1>2 DEF NameObjs
<1> QED
  BY <1>1, <1>3 DEF Tables

LEMMA CopiesGrow ==
  ASSUME IsList(weights), NEW w, weights' = Append(weights, w)
  PROVE  Copies' = Copies \cup (WeightObjs(Len(weights) + 1, w) \cup {<<"weights", 0, 0>>})
<1> DEFINE n == Len(weights)
           a == weights
           b == weights'
<1>1. /\ n \in Nat /\ DOMAIN a = 1 .. n /\ DOMAIN b = 1 .. n + 1 /\ b # <<>>
      /\ \A i \in 1 .. n : b[i] = a[i]
      /\ b[n + 1] = w
  BY AppendList
<1>2. UNION {WeightObjs(i, b[i]) : i \in DOMAIN b}
        = (UNION {WeightObjs(i, a[i]) : i \in DOMAIN a}) \cup WeightObjs(n + 1, w)
  <2>1. 1 .. n + 1 = (1 .. n) \cup {n + 1}
    BY <1>1
  <2> HIDE DEF n, a, b
  <2> QED
    BY <1>1, <2>1
<1> QED
  BY <1>1, <1>2 DEF Copies

-----------------------------------------------------------------------------
(* Nobody owns what another owns.                                          *)

LEMMA TablesTags ==
  \A x \in Tables :
    x[1] \in {"file", "path", "fd", "map", "entries", "key", "value", "tensor", "tensors"}
<1>1. \A i, e : \A x \in EntryObjs(i, e) : x[1] \in {"key", "value"}
  BY DEF EntryObjs
<1>2. \A x \in OpenObjs : x[1] \in {"file", "path", "fd", "map", "entries"}
  BY DEF OpenObjs
<1>3. \A x \in NameObjs : x[1] = "tensor"
  BY DEF NameObjs
<1> QED
  BY <1>1, <1>2, <1>3 DEF Tables

LEMMA CopiesTags == \A x \in Copies : x[1] \in {"weight", "weights"}
<1>1. \A i, w : \A x \in WeightObjs(i, w) : x[1] = "weight"
  BY DEF WeightObjs
<1> QED
  BY <1>1 DEF Copies

LEMMA ModelApart == ModelObjs \cap Loaded = {}
<1>1. \A x \in ModelObjs : x[1] \in {"model", "layers"}
  BY DEF ModelObjs
<1>2. \A x \in HParamObjs(0) : x[1] = "hparams"
  BY DEF HParamObjs
<1> QED
  BY <1>1, <1>2, TablesTags, CopiesTags DEF Loaded

LEMMA VocabularyApart == Vocabulary \cap (Loaded \cup ModelObjs) = {}
<1>1. \A n : \A x \in VocabObjs(n) : x[1] \in {"tokenizer", "vocab"}
  BY DEF VocabObjs
<1>2. \A x \in HParamObjs(1) : x[1] = "hparams" /\ x[2] = 1
  BY DEF HParamObjs
<1>3. \A x \in HParamObjs(0) : x[1] = "hparams" /\ x[2] = 0
  BY DEF HParamObjs
<1>4. \A x \in ModelObjs : x[1] \in {"model", "layers"}
  BY DEF ModelObjs
<1> QED
  BY <1>1, <1>2, <1>3, <1>4, TablesTags, CopiesTags DEF Loaded, Vocabulary

-----------------------------------------------------------------------------
(* The invariant, action by action.                                        *)

\* What an action leaves alone, its owner owns as before.
LEMMA OwnedAsBefore ==
  /\ gg' = gg => Tables' = Tables
  /\ weights' = weights => Copies' = Copies
  /\ net' = net => Bindings' = Bindings
  /\ vocab' = vocab => Vocabulary' = Vocabulary
<1>1. gg' = gg => Tables' = Tables
  BY DEF Tables, NameObjs
<1>2. weights' = weights => Copies' = Copies
  BY DEF Copies
<1>3. net' = net => Bindings' = Bindings
  BY DEF Bindings
<1>4. vocab' = vocab => Vocabulary' = Vocabulary
  BY DEF Vocabulary
<1> QED
  BY <1>1, <1>2, <1>3, <1>4

\* A program that dies frees nothing, and leaves its lists as they are.
LEMMA DeadKeeps ==
  ASSUME LoadInv, Go("dead"), UNCHANGED <<gg, weights, net>>
  PROVE  LoadInv'
<1>1. /\ loading' = [ph |-> loading'.ph, clean |-> TRUE]
      /\ loading'.ph = "dead" /\ loading'.ph \in Phases
  BY GoTo DEF LoadInv, Phases
<1>2. ListInv'
  BY <1>1 DEF LoadInv, ListInv
<1>3. OrderInv'
  BY <1>1 DEF LoadInv, OrderInv, At
<1>4. HeapInv'
  BY <1>1 DEF HeapInv, At
<1> QED
  BY <1>2, <1>3, <1>4 DEF LoadInv

LEMMA OpenFileKeeps ==
  ASSUME LoadInv, OpenFile
  PROVE  LoadInv'
<1>1. /\ loading.ph = "open" /\ heap = {} /\ gg.kv = <<>> /\ gg.tensors = <<>>
      /\ weights = <<>> /\ net = <<>> /\ IsFile(gg)
  BY DEF OpenFile, LoadInv, ListInv, OrderInv, HeapInv, At
<1>2. heap' = OpenObjs /\ weights' = <<>> /\ net' = <<>>
  BY <1>1 DEF OpenFile, Alloc
<1>3. PICK r :
        IF r.got[2] # 3 THEN Go("dead") /\ UNCHANGED gg
        ELSE /\ gg' = [Read(r) EXCEPT !.nTensors = r.got[3], !.nKv = r.got[4]]
             /\ Go("entries")
  BY DEF OpenFile
<1>4. CASE r.got[2] # 3
  BY <1>1, <1>2, <1>3, <1>4, DeadKeeps
<1>5. CASE ~(r.got[2] # 3)
  <2>1. gg' = [Read(r) EXCEPT !.nTensors = r.got[3], !.nKv = r.got[4]] /\ Go("entries")
    BY <1>3, <1>5
  <2>2. /\ loading' = [ph |-> loading'.ph, clean |-> TRUE]
        /\ loading'.ph = "entries" /\ loading'.ph \in Phases
    BY <2>1, GoTo DEF LoadInv, Phases
  <2>3. IsFile(Read(r)) /\ Read(r).kv = <<>> /\ Read(r).tensors = <<>>
    BY <1>1, ReadPlace
  <2>4. IsFile(gg') /\ gg'.kv = <<>> /\ gg'.tensors = <<>>
    <3>1. PICK p, w, n, k, kv, t, d : Read(r) = FileOf(p, w, n, k, kv, t, d)
      BY <2>3, FileFields
    <3>2. kv = <<>> /\ t = <<>>
      BY <2>3, <3>1, FileTables
    <3> DEFINE a == r.got[3]
               b == r.got[4]
               h == [Read(r) EXCEPT !.nTensors = a]
    <3>3. h = FileOf(p, w, a, k, kv, t, d)
      BY <3>1 DEF FileOf
    <3>4. [h EXCEPT !.nKv = b] = FileOf(p, w, a, b, kv, t, d)
      <4> HIDE DEF h
      <4> QED
        BY <3>3 DEF FileOf
    <3>5. gg' = FileOf(p, w, a, b, kv, t, d)
      BY <2>1, <3>4
    <3>6. IsFile(gg') /\ gg'.kv = kv /\ gg'.tensors = t
      BY <3>5, FileTables
    <3> QED
      BY <3>2, <3>6
  <2>5. ListInv'
    BY <1>2, <2>2, <2>4, EmptyList DEF ListInv
  <2>6. OrderInv'
    BY <1>2, <2>2, <2>4 DEF OrderInv, At
  <2>7. Tables' = OpenObjs
    BY <2>4, EmptyList DEF Tables, NameObjs
  <2>8. HeapInv'
    BY <1>2, <2>2, <2>7 DEF HeapInv, At
  <2> QED
    BY <2>5, <2>6, <2>8 DEF LoadInv
<1> QED
  BY <1>4, <1>5

LEMMA ReadKvKeeps ==
  ASSUME LoadInv, ReadKv
  PROVE  LoadInv'
<1>1. /\ loading.ph = "entries" /\ heap = Tables /\ weights = <<>> /\ net = <<>>
      /\ IsFile(gg) /\ IsList(gg.kv) /\ IsList(gg.tensors)
      /\ loading = [ph |-> loading.ph, clean |-> TRUE]
  BY DEF ReadKv, LoadInv, ListInv, OrderInv, HeapInv, At
<1>2. UNCHANGED <<weights, net>>
  BY DEF ReadKv
<1>3. PICK r :
        IF r.got[2] = "arr" /\ ~IsElem(r.got[3]) THEN Go("dead") /\ UNCHANGED <<gg, heap>>
        ELSE /\ gg' = [Read(r) EXCEPT !.kv = Append(@, Entry(r.got))]
             /\ Alloc(EntryObjs(Len(gg.kv) + 1, Entry(r.got)))
             /\ UNCHANGED loading
  BY DEF ReadKv
<1>4. CASE r.got[2] = "arr" /\ ~IsElem(r.got[3])
  BY <1>2, <1>3, <1>4, DeadKeeps
<1>5. CASE ~(r.got[2] = "arr" /\ ~IsElem(r.got[3]))
  <2> DEFINE e == Entry(r.got)
  <2>1. /\ gg' = [Read(r) EXCEPT !.kv = Append(Read(r).kv, e)]
        /\ heap' = heap \cup EntryObjs(Len(gg.kv) + 1, e)
        /\ UNCHANGED loading
    BY <1>3, <1>5 DEF Alloc
  <2> HIDE DEF e
  <2>2. IsFile(Read(r)) /\ Read(r).kv = gg.kv /\ Read(r).tensors = gg.tensors
    BY <1>1, ReadPlace
  <2>3. IsFile(gg') /\ gg'.kv = Append(gg.kv, e) /\ gg'.tensors = gg.tensors
    <3>1. PICK p, w, n, k, kv, t, d : Read(r) = FileOf(p, w, n, k, kv, t, d)
      BY <2>2, FileFields
    <3>2. kv = gg.kv /\ t = gg.tensors
      BY <2>2, <3>1, FileTables
    <3> DEFINE v == Append(gg.kv, e)
    <3>3. gg' = [Read(r) EXCEPT !.kv = v]
      BY <2>1, <2>2
    <3> HIDE DEF v
    <3>4. [Read(r) EXCEPT !.kv = v] = FileOf(p, w, n, k, v, t, d)
      BY <3>1 DEF FileOf
    <3>5. gg' = FileOf(p, w, n, k, v, t, d)
      BY <3>3, <3>4
    <3>6. IsFile(gg') /\ gg'.kv = v /\ gg'.tensors = t
      BY <3>5, FileTables
    <3> QED
      BY <3>2, <3>6 DEF v
  <2>4. IsList(gg'.kv)
    BY <1>1, <2>3, AppendList
  <2>5. ListInv'
    BY <1>1, <1>2, <2>1, <2>3, <2>4 DEF LoadInv, ListInv
  <2>6. OrderInv'
    BY <1>1, <1>2, <2>1 DEF OrderInv, At
  <2>7. Tables' = Tables \cup EntryObjs(Len(gg.kv) + 1, e)
    BY <1>1, <2>3, EntriesGrow
  <2>8. HeapInv'
    BY <1>1, <2>1, <2>7 DEF HeapInv, At
  <2> QED
    BY <2>5, <2>6, <2>8 DEF LoadInv
<1> QED
  BY <1>4, <1>5

LEMMA ReadTensorInfoKeeps ==
  ASSUME LoadInv, ReadTensorInfo
  PROVE  LoadInv'
<1>1. /\ loading.ph = "entries" /\ heap = Tables /\ weights = <<>> /\ net = <<>>
      /\ IsFile(gg) /\ IsList(gg.kv) /\ IsList(gg.tensors)
  BY DEF ReadTensorInfo, LoadInv, ListInv, OrderInv, HeapInv, At
<1>2. /\ UNCHANGED <<weights, net, loading>>
      /\ heap' = heap \cup (NameObjs' \cup {<<"tensors", 0, 0>>})
  BY DEF ReadTensorInfo, Alloc
<1>3. PICK r : gg' = [Read(r) EXCEPT !.tensors = Append(@, Info(r.got))]
  BY DEF ReadTensorInfo
<1> DEFINE t == Info(r.got)
<1>4. gg' = [Read(r) EXCEPT !.tensors = Append(Read(r).tensors, t)]
  BY <1>3
<1> HIDE DEF t
<1>5. IsFile(Read(r)) /\ Read(r).kv = gg.kv /\ Read(r).tensors = gg.tensors
  BY <1>1, ReadPlace
<1>6. IsFile(gg') /\ gg'.kv = gg.kv /\ gg'.tensors = Append(gg.tensors, t)
  <2>1. PICK p, w, n, k, kv, s, d : Read(r) = FileOf(p, w, n, k, kv, s, d)
    BY <1>5, FileFields
  <2>2. kv = gg.kv /\ s = gg.tensors
    BY <1>5, <2>1, FileTables
  <2> DEFINE v == Append(gg.tensors, t)
  <2>3. gg' = [Read(r) EXCEPT !.tensors = v]
    BY <1>4, <1>5
  <2> HIDE DEF v
  <2>4. [Read(r) EXCEPT !.tensors = v] = FileOf(p, w, n, k, kv, v, d)
    BY <2>1 DEF FileOf
  <2>5. gg' = FileOf(p, w, n, k, kv, v, d)
    BY <2>3, <2>4
  <2>6. IsFile(gg') /\ gg'.kv = kv /\ gg'.tensors = v
    BY <2>5, FileTables
  <2> QED
    BY <2>2, <2>6 DEF v
<1>7. IsList(gg'.tensors)
  BY <1>1, <1>6, AppendList
<1>8. ListInv'
  BY <1>1, <1>2, <1>6, <1>7 DEF LoadInv, ListInv
<1>9. OrderInv'
  BY <1>1, <1>2 DEF OrderInv, At
<1>10. Tables' = Tables \cup (NameObjs' \cup {<<"tensors", 0, 0>>})
  BY <1>1, <1>6, NamesGrow
<1>11. HeapInv'
  BY <1>1, <1>2, <1>10 DEF HeapInv, At
<1> QED
  BY <1>8, <1>9, <1>11 DEF LoadInv

LEMMA AlignDataKeeps ==
  ASSUME LoadInv, AlignData
  PROVE  LoadInv'
<1>1. /\ loading.ph = "entries" /\ heap = Tables /\ weights = <<>> /\ net = <<>>
      /\ IsFile(gg) /\ IsList(gg.kv) /\ IsList(gg.tensors)
  BY DEF AlignData, LoadInv, ListInv, OrderInv, HeapInv, At
<1>2. UNCHANGED <<weights, net, heap>> /\ Go("hparams")
  BY DEF AlignData
<1> DEFINE d == RoundUp(gg.pos, KvInt(<<"general", "alignment">>, 32))
<1>3. gg' = [gg EXCEPT !.data = d]
  BY DEF AlignData
<1> HIDE DEF d
<1>4. IsFile(gg') /\ gg'.kv = gg.kv /\ gg'.tensors = gg.tensors
  <2>1. PICK p, w, n, k, kv, t, o : gg = FileOf(p, w, n, k, kv, t, o)
    BY <1>1, FileFields
  <2>2. gg' = FileOf(p, w, n, k, kv, t, d)
    BY <1>3, <2>1 DEF FileOf
  <2> QED
    BY <2>1, <2>2, FileTables
<1>5. /\ loading' = [ph |-> loading'.ph, clean |-> TRUE]
      /\ loading'.ph = "hparams" /\ loading'.ph \in Phases
  BY <1>2, GoTo DEF LoadInv, Phases
<1>6. ListInv'
  BY <1>1, <1>2, <1>4, <1>5 DEF LoadInv, ListInv
<1>7. OrderInv'
  BY <1>1, <1>2, <1>5 DEF OrderInv, At
<1>8. Tables' = Tables
  BY <1>4 DEF Tables, NameObjs
<1>9. HeapInv'
  BY <1>1, <1>2, <1>5, <1>8 DEF HeapInv, At
<1> QED
  BY <1>6, <1>7, <1>9 DEF LoadInv

LEMMA ReadHParamsKeeps ==
  ASSUME LoadInv, ReadHParams
  PROVE  LoadInv'
<1>1. loading.ph = "hparams" /\ heap = Tables /\ weights = <<>> /\ net = <<>>
  BY DEF ReadHParams, LoadInv, OrderInv, HeapInv, At
<1>2. UNCHANGED <<gg, weights, net>>
  BY DEF ReadHParams
<1>3. Go("dead") \/ (heap' = heap \cup HParamObjs(0) /\ Go("weights"))
  BY DEF ReadHParams, Alloc
<1>4. CASE Go("dead")
  BY <1>2, <1>4, DeadKeeps
<1>5. CASE heap' = heap \cup HParamObjs(0) /\ Go("weights")
  <2>1. /\ loading' = [ph |-> loading'.ph, clean |-> TRUE]
        /\ loading'.ph = "weights" /\ loading'.ph \in Phases
    BY <1>5, GoTo DEF LoadInv, Phases
  <2>2. ListInv'
    BY <1>2, <2>1 DEF LoadInv, ListInv
  <2>3. OrderInv'
    BY <1>1, <1>2, <2>1 DEF OrderInv, At
  <2>4. Tables' = Tables /\ Copies' = {} /\ Bindings' = {}
    BY <1>1, <1>2, OwnedAsBefore, EmptyList DEF Copies, Bindings
  <2>5. heap' = (Loaded \cup Bindings)'
    BY <1>1, <1>5, <2>4 DEF Loaded
  <2>6. HeapInv'
    BY <2>1, <2>5 DEF HeapInv, At
  <2> QED
    BY <2>2, <2>3, <2>6 DEF LoadInv
<1> QED
  BY <1>3, <1>4, <1>5

LEMMA LoadTensorKeeps ==
  ASSUME LoadInv, LoadTensor
  PROVE  LoadInv'
<1>1. /\ loading.ph = "weights" /\ heap = Loaded \cup Bindings /\ IsList(weights)
      /\ Len(weights) < Len(gg.tensors) /\ IsList(gg.tensors)
  BY DEF LoadTensor, LoadInv, ListInv, HeapInv, At
<1>2. UNCHANGED <<gg, net>>
  BY DEF LoadTensor
<1>3. PICK w :
        \/ Go("dead") /\ UNCHANGED weights
        \/ /\ weights' = Append(weights, w)
           /\ heap' = heap \cup (WeightObjs(Len(weights) + 1, w) \cup {<<"weights", 0, 0>>})
           /\ UNCHANGED loading
  BY DEF LoadTensor, Alloc
<1>4. CASE Go("dead") /\ UNCHANGED weights
  BY <1>2, <1>4, DeadKeeps
<1>5. CASE /\ weights' = Append(weights, w)
           /\ heap' = heap \cup (WeightObjs(Len(weights) + 1, w) \cup {<<"weights", 0, 0>>})
           /\ UNCHANGED loading
  <2>1. IsList(weights') /\ weights' # <<>>
    BY <1>1, <1>5, AppendList
  <2>2. ListInv'
    BY <1>2, <1>5, <2>1 DEF LoadInv, ListInv
  <2>3. gg.tensors # <<>>
    <3>1. /\ Len(weights) \in Nat /\ Len(gg.tensors) \in Nat
          /\ DOMAIN gg.tensors = 1 .. Len(gg.tensors)
      BY <1>1, AppendList
    <3>2. 1 \in DOMAIN gg.tensors
      BY <1>1, <3>1
    <3> QED
      BY <3>2, EmptyList
  <2>4. OrderInv'
    BY <1>1, <1>2, <1>5, <2>1, <2>3 DEF LoadInv, OrderInv, At
  <2>5. Copies' = Copies \cup (WeightObjs(Len(weights) + 1, w) \cup {<<"weights", 0, 0>>})
    BY <1>1, <1>5, CopiesGrow
  <2>6. Tables' = Tables /\ Bindings' = Bindings
    BY <1>2, OwnedAsBefore
  <2>7. heap' = (Loaded \cup Bindings)'
    BY <1>1, <1>5, <2>5, <2>6 DEF Loaded
  <2>8. HeapInv'
    BY <1>1, <1>5, <2>7 DEF HeapInv, At
  <2> QED
    BY <2>2, <2>4, <2>8 DEF LoadInv
<1> QED
  BY <1>3, <1>4, <1>5

\* Where the embeddings have been found there is a weight.
LEMMA EmbeddingsFound ==
  ASSUME Bound(TOP, "token_embd") # 0
  PROVE  weights # <<>>
<1> SUFFICES ASSUME weights = <<>> PROVE FALSE
  OBVIOUS
<1>1. Len(weights) = 0
  BY EmptySeq
<1>2. 1 .. Len(weights) = {}
  BY <1>1
<1>3. FindWeight(<<TOP, "token_embd">>) = 0
  BY <1>2 DEF FindWeight, SelectInSeq
<1>4. Bound(TOP, "token_embd") = FindWeight(<<TOP, "token_embd">>)
  BY DEF Bound
<1> QED
  BY <1>3, <1>4

LEMMA BindLayerKeeps ==
  ASSUME LoadInv, BindLayer
  PROVE  LoadInv'
<1>1. /\ loading.ph = "weights" /\ heap = Loaded \cup Bindings /\ IsList(net)
      /\ net # <<>> => weights # <<>>
  BY DEF BindLayer, LoadInv, ListInv, OrderInv, HeapInv, At
<1>2. UNCHANGED <<gg, weights>>
  BY DEF BindLayer
<1> DEFINE i == Len(net)
           roles == Mats(i) \cup Vectors(i) \cup Optional(i) \cup Other(i)
<1>3. PICK bound :
        /\ bound = [r \in roles |-> Bound(i, r)]
        /\ \/ Go("dead") /\ UNCHANGED net
           \/ /\ \A r \in roles \ Optional(i) : bound[r] # 0
              /\ net' = Append(net, bound) /\ heap' = heap \cup ModelObjs /\ UNCHANGED loading
  BY DEF BindLayer, Alloc
<1>4. CASE Go("dead") /\ UNCHANGED net
  BY <1>2, <1>4, DeadKeeps
<1>5. CASE /\ \A r \in roles \ Optional(i) : bound[r] # 0
           /\ net' = Append(net, bound) /\ heap' = heap \cup ModelObjs /\ UNCHANGED loading
  <2>1. IsList(net') /\ net' # <<>>
    BY <1>1, <1>5, AppendList
  <2>2. ListInv'
    BY <1>2, <1>5, <2>1 DEF LoadInv, ListInv
  <2>3. weights # <<>>
    <3>1. CASE net = <<>>
      <4>1. i = TOP
        BY <3>1, EmptySeq DEF TOP
      <4>2. "token_embd" \in roles \ Optional(i)
        BY <4>1 DEF Mats, Optional
      <4>3. Bound(TOP, "token_embd") # 0
        BY <1>3, <1>5, <4>1, <4>2
      <4> QED
        BY <4>3, EmbeddingsFound
    <3> QED
      BY <1>1, <3>1
  <2>4. OrderInv'
    BY <1>1, <1>2, <1>5, <2>1, <2>3 DEF LoadInv, OrderInv, At
  <2>5. Tables' = Tables /\ Copies' = Copies
    BY <1>2, OwnedAsBefore
  <2>6. Bindings' = ModelObjs /\ (Bindings = {} \/ Bindings = ModelObjs)
    BY <2>1 DEF Bindings
  <2>7. heap' = (Loaded \cup Bindings)'
    BY <1>1, <1>5, <2>5, <2>6 DEF Loaded
  <2>8. HeapInv'
    BY <1>1, <1>5, <2>7 DEF HeapInv, At
  <2> QED
    BY <2>2, <2>4, <2>8 DEF LoadInv
<1> QED
  BY <1>3, <1>4, <1>5

LEMMA InternKeeps ==
  ASSUME LoadInv, Intern
  PROVE  LoadInv'
<1>1. loading.ph = "weights" /\ heap = Loaded \cup Bindings /\ net # <<>>
  BY DEF Intern, LoadInv, HeapInv, At
<1>2. UNCHANGED <<gg, weights, net, heap>> /\ Go("tokenizer")
  BY DEF Intern
<1>3. /\ loading' = [ph |-> loading'.ph, clean |-> TRUE]
      /\ loading'.ph = "tokenizer" /\ loading'.ph \in Phases
  BY <1>2, GoTo DEF LoadInv, Phases
<1>4. ListInv'
  BY <1>2, <1>3 DEF LoadInv, ListInv
<1>5. OrderInv'
  BY <1>1, <1>2, <1>3 DEF LoadInv, OrderInv, At
<1>6. heap' = (Loaded \cup Bindings)'
  BY <1>1, <1>2, OwnedAsBefore DEF Loaded
<1>7. HeapInv'
  BY <1>3, <1>6 DEF HeapInv, At
<1> QED
  BY <1>4, <1>5, <1>7 DEF LoadInv

LEMMA BuildTokenizerKeeps ==
  ASSUME LoadInv, BuildTokenizer
  PROVE  LoadInv'
<1>1. loading.ph = "tokenizer" /\ heap = Loaded \cup Bindings /\ net # <<>>
  BY DEF BuildTokenizer, LoadInv, OrderInv, HeapInv, At
<1>2. UNCHANGED <<gg, weights, net>>
  BY DEF BuildTokenizer
<1>3. \/ Go("dead")
      \/ heap' = heap \cup (VocabObjs(Len(vocab')) \cup HParamObjs(1)) /\ Go("run")
  BY DEF BuildTokenizer, Alloc
<1>4. CASE Go("dead")
  BY <1>2, <1>4, DeadKeeps
<1>5. CASE heap' = heap \cup (VocabObjs(Len(vocab')) \cup HParamObjs(1)) /\ Go("run")
  <2>1. /\ loading' = [ph |-> loading'.ph, clean |-> TRUE]
        /\ loading'.ph = "run" /\ loading'.ph \in Phases
    BY <1>5, GoTo DEF LoadInv, Phases
  <2>2. ListInv'
    BY <1>2, <2>1 DEF LoadInv, ListInv
  <2>3. OrderInv'
    BY <1>1, <1>2, <2>1 DEF LoadInv, OrderInv, At
  <2>4. Tables' = Tables /\ Copies' = Copies /\ Bindings = ModelObjs
    BY <1>1, <1>2, OwnedAsBefore DEF Bindings
  <2>5. heap' = (Loaded \cup ModelObjs \cup Vocabulary)'
    BY <1>1, <1>5, <2>4 DEF Loaded, Vocabulary, ModelObjs
  <2>6. HeapInv'
    BY <2>1, <2>5 DEF HeapInv, At
  <2> QED
    BY <2>2, <2>3, <2>6 DEF LoadInv
<1> QED
  BY <1>3, <1>4, <1>5

\* What is freed all at once was all there, so the heap stays clean.
LEMMA FreeClean ==
  ASSUME ListInv, NEW objs, objs \subseteq heap, NEW p \in Phases, Free(objs, p)
  PROVE  /\ heap' = heap \ objs
         /\ loading' = [ph |-> loading'.ph, clean |-> TRUE]
         /\ loading'.ph = p /\ loading'.ph \in Phases
<1>1. PICK q : loading = [ph |-> q, clean |-> TRUE]
  BY Zenon DEF ListInv
<1>2. loading' = [ph |-> p, clean |-> loading.clean /\ objs \subseteq heap] /\ heap' = heap \ objs
  BY DEF Free
<1>3. loading.clean /\ objs \subseteq heap <=> TRUE
  BY <1>1
<1>4. loading' = [ph |-> p, clean |-> TRUE]
  BY <1>2, <1>3
<1>5. loading'.ph = p
  BY <1>4
<1>6. loading' = [ph |-> loading'.ph, clean |-> TRUE]
  BY <1>4, <1>5
<1>7. heap' = heap \ objs
  BY <1>2
<1> QED
  BY <1>5, <1>6, <1>7

LEMMA FreeTokenizerKeeps ==
  ASSUME LoadInv, FreeTokenizer
  PROVE  LoadInv'
<1>1. loading.ph = "run" /\ heap = Loaded \cup ModelObjs \cup Vocabulary /\ net # <<>>
  BY DEF FreeTokenizer, LoadInv, OrderInv, HeapInv, At
<1>2. UNCHANGED <<gg, weights, net>> /\ Free(Vocabulary, "model")
  BY DEF FreeTokenizer, Vocabulary
<1>3. /\ heap' = heap \ Vocabulary
      /\ loading' = [ph |-> loading'.ph, clean |-> TRUE]
      /\ loading'.ph = "model" /\ loading'.ph \in Phases
  BY <1>1, <1>2, FreeClean DEF LoadInv, Phases
<1>4. ListInv'
  BY <1>2, <1>3 DEF LoadInv, ListInv
<1>5. OrderInv'
  BY <1>1, <1>2, <1>3 DEF LoadInv, OrderInv, At
<1>6. heap' = Loaded \cup ModelObjs
  BY <1>1, <1>3, VocabularyApart
<1>7. heap' = (Loaded \cup ModelObjs)'
  BY <1>2, <1>6, OwnedAsBefore DEF Loaded, ModelObjs
<1>8. HeapInv'
  BY <1>3, <1>7 DEF HeapInv, At
<1> QED
  BY <1>4, <1>5, <1>8 DEF LoadInv

LEMMA FreeModelKeeps ==
  ASSUME LoadInv, FreeModel
  PROVE  LoadInv'
<1>1. loading.ph = "model" /\ heap = Loaded \cup ModelObjs /\ net # <<>>
  BY DEF FreeModel, LoadInv, OrderInv, HeapInv, At
<1>2. UNCHANGED <<gg, weights, net>> /\ Free(ModelObjs, "loaded")
  BY DEF FreeModel
<1>3. /\ heap' = heap \ ModelObjs
      /\ loading' = [ph |-> loading'.ph, clean |-> TRUE]
      /\ loading'.ph = "loaded" /\ loading'.ph \in Phases
  BY <1>1, <1>2, FreeClean DEF LoadInv, Phases
<1>4. ListInv'
  BY <1>2, <1>3 DEF LoadInv, ListInv
<1>5. OrderInv'
  BY <1>1, <1>2, <1>3 DEF LoadInv, OrderInv, At
<1>6. heap' = Loaded
  BY <1>1, <1>3, ModelApart
<1>7. heap' = Loaded'
  BY <1>2, <1>6, OwnedAsBefore DEF Loaded
<1>8. HeapInv'
  BY <1>3, <1>7 DEF HeapInv, At
<1> QED
  BY <1>4, <1>5, <1>8 DEF LoadInv

LEMMA FreeLoadedKeeps ==
  ASSUME LoadInv, FreeLoaded
  PROVE  LoadInv'
<1>1. /\ loading.ph = "loaded" /\ heap = Loaded
      /\ net # <<>> /\ weights # <<>> /\ gg.tensors # <<>>
  BY DEF FreeLoaded, LoadInv, OrderInv, HeapInv, At
<1> DEFINE objs == (UNION {WeightObjs(i, weights[i]) : i \in DOMAIN weights})
                   \cup {<<"weights", 0, 0>>} \cup HParamObjs(0) \cup GgufObjs
<1>2. UNCHANGED <<gg, weights, net>> /\ Free(objs, "closed")
  BY DEF FreeLoaded
<1>3. objs = Loaded
  BY <1>1 DEF Loaded, Copies, Tables, GgufObjs
<1> HIDE DEF objs
<1>4. /\ heap' = heap \ objs
      /\ loading' = [ph |-> loading'.ph, clean |-> TRUE]
      /\ loading'.ph = "closed" /\ loading'.ph \in Phases
  BY <1>1, <1>2, <1>3, FreeClean DEF LoadInv, Phases
<1>5. ListInv'
  BY <1>2, <1>4 DEF LoadInv, ListInv
<1>6. OrderInv'
  BY <1>1, <1>2, <1>4 DEF LoadInv, OrderInv, At
<1>7. HeapInv'
  BY <1>1, <1>3, <1>4 DEF HeapInv, At
<1> QED
  BY <1>5, <1>6, <1>7 DEF LoadInv

-----------------------------------------------------------------------------
(* The whole.                                                              *)

\* A program that has not opened its file owns nothing.
LEMMA LoadBegins == LoadInit => LoadInv
<1> SUFFICES ASSUME LoadInit PROVE LoadInv
  OBVIOUS
<1>1. /\ gg = FileOf(0, TRUE, 0, 0, <<>>, <<>>, 0)
      /\ weights = <<>> /\ net = <<>> /\ heap = {}
      /\ loading = [ph |-> "open", clean |-> TRUE]
  BY DEF LoadInit, FileOf
<1>2. IsFile(gg) /\ gg.kv = <<>> /\ gg.tensors = <<>>
  <2>1. gg = [pos |-> 0, whole |-> TRUE, nTensors |-> 0, nKv |-> 0, kv |-> <<>>,
              tensors |-> <<>>, data |-> 0]
    BY DEF LoadInit
  <2>2. gg.kv = <<>> /\ gg.tensors = <<>>
    BY <2>1
  <2>3. IsFile(gg)
    BY <2>1, Zenon DEF IsFile
  <2> QED
    BY <2>2, <2>3
<1>3. loading.ph = "open"
  BY <1>1
<1>4. ListInv
  BY <1>1, <1>2, <1>3, EmptyList DEF ListInv, Phases
<1>5. OrderInv
  BY <1>1, <1>2, <1>3 DEF OrderInv, At
<1>6. HeapInv
  BY <1>1, <1>3 DEF HeapInv, At
<1> QED
  BY <1>4, <1>5, <1>6 DEF LoadInv

\* Each step of loading and of freeing keeps the account.
LEMMA LoadKeeps == LoadInv /\ [LoadNext]_loadVars => LoadInv'
<1> SUFFICES ASSUME LoadInv, [LoadNext]_loadVars PROVE LoadInv'
  OBVIOUS
<1>1. CASE UNCHANGED loadVars
  <2>1. UNCHANGED <<gg, weights, net, vocab, heap, loading>>
    BY <1>1 DEF loadVars
  <2>2. ListInv' /\ OrderInv'
    BY <2>1 DEF LoadInv, ListInv, OrderInv, At
  <2>3. Loaded' = Loaded /\ Tables' = Tables /\ Bindings' = Bindings
    BY <2>1, OwnedAsBefore DEF Loaded
  <2>4. Vocabulary' = Vocabulary
    BY <2>1, OwnedAsBefore
  <2>5. HeapInv'
    BY <2>1, <2>3, <2>4 DEF LoadInv, HeapInv, At, ModelObjs
  <2> QED
    BY <2>2, <2>5 DEF LoadInv
<1>2. CASE LoadNext
  BY <1>2, OpenFileKeeps, ReadKvKeeps, ReadTensorInfoKeeps, AlignDataKeeps, ReadHParamsKeeps,
     LoadTensorKeeps, BindLayerKeeps, InternKeeps, BuildTokenizerKeeps, FreeTokenizerKeeps,
     FreeModelKeeps, FreeLoadedKeeps
  DEF LoadNext
<1> QED
  BY <1>1, <1>2

\* The account shows that no object is freed twice, too early or never.
LEMMA AccountBalances == LoadInv => OwnedOnce
<1> SUFFICES ASSUME LoadInv PROVE OwnedOnce
  OBVIOUS
<1>1. loading.clean
  BY DEF LoadInv, ListInv
<1>2. At("closed") => heap = {}
  BY DEF LoadInv, HeapInv
<1>3. ASSUME loading.ph \in {"run", "model"}
      PROVE  /\ {<<"map", 0, 0>>, <<"fd", 0, 0>>} \subseteq heap
             /\ \A i \in DOMAIN weights : WeightObjs(i, weights[i]) \subseteq heap
  <2>1. Loaded \subseteq heap
    BY <1>3 DEF LoadInv, HeapInv, At
  <2>2. {<<"map", 0, 0>>, <<"fd", 0, 0>>} \subseteq Loaded
    BY DEF Loaded, Tables, OpenObjs
  <2>3. \A i \in DOMAIN weights : WeightObjs(i, weights[i]) \subseteq Loaded
    BY DEF Loaded, Copies
  <2> QED
    BY <2>1, <2>2, <2>3
<1> QED
  BY <1>1, <1>2, <1>3 DEF OwnedOnce

-----------------------------------------------------------------------------
(* The chat and the batch.                                                 *)

\* tokenizer_encode returns a list of tokens.
Words == UNION {Range(Retok(s)) : s \in Seq(Vocab)}
EncodesToTokens == \A s \in Seq(Vocab) : Retok(s) \in Seq(Words)

\* What the template adds, and whatever can be a token.
Roles == {"user", "assistant"}
Marks == Roles \cup {"start", "end", "think"}
Token == Vocab \cup Unknown \cup Words \cup STRING \cup Marks \cup {Pad, Eos}
Message == [role : Roles, content : Seq(Vocab)]

-----------------------------------------------------------------------------
(* Rows of the cache: facts about the operators of KvForward.              *)

\* Whatever was fed to the row before, it holds the text t: the entry at each
\* position has attended to the text up to there, and to nothing else.
HoldsText(r, t) ==
  /\ r = [n |-> r.n, kv |-> r.kv, rec |-> r.rec] /\ DOMAIN r.kv = 0 .. MaxSeq - 1
  /\ r.n = Len(t) /\ r.n <= MaxSeq /\ r.rec = t
  /\ \A p \in 0 .. r.n - 1 : r.kv[p] = SubSeq(t, 1, p + 1)

\* A prefix of a text is as long as it says and has the text's tokens.
LEMMA PrefixFacts ==
  ASSUME NEW T, NEW s \in Seq(T), NEW k \in 0 .. Len(s)
  PROVE  /\ SubSeq(s, 1, k) \in Seq(T) /\ Len(SubSeq(s, 1, k)) = k
         /\ \A i \in 1 .. k : SubSeq(s, 1, k)[i] = s[i]
<1>1. k \in Int /\ \A i \in 1 .. k : s[i] \in T
  BY ElementOfSeq
<1>2. /\ SubSeq(s, 1, k) \in Seq(T)
      /\ Len(SubSeq(s, 1, k)) = IF 1 <= k THEN k - 1 + 1 ELSE 0
      /\ \A i \in 1 .. k - 1 + 1 : SubSeq(s, 1, k)[i] = s[1 + i - 1]
  BY <1>1, SubSeqProperties
<1>3. k \in Nat
  OBVIOUS
<1>4. Len(SubSeq(s, 1, k)) = k
  BY <1>2, <1>3
<1>5. \A i \in 1 .. k : i \in 1 .. k - 1 + 1 /\ 1 + i - 1 = i
  BY <1>3
<1> QED
  BY <1>2, <1>4, <1>5

\* Of two texts one after the other, a prefix that reaches into the second.
LEMMA PrefixOfConcat ==
  ASSUME NEW T, NEW s \in Seq(T), NEW t \in Seq(T), NEW k \in 0 .. Len(t)
  PROVE  SubSeq(s \o t, 1, Len(s) + k) = s \o SubSeq(t, 1, k)
<1> DEFINE w == s \o t
           u == SubSeq(t, 1, k)
           m == Len(s)
           n == Len(t)
<1>1. /\ w \in Seq(T) /\ Len(w) = m + n /\ m \in Nat /\ n \in Nat
      /\ \A i \in 1 .. m + n : w[i] = IF i <= m THEN s[i] ELSE t[i - m]
  BY ConcatProperties, LenProperties
<1>2. /\ u \in Seq(T) /\ Len(u) = k /\ \A i \in 1 .. k : u[i] = t[i]
  BY PrefixFacts
<1>3. /\ s \o u \in Seq(T) /\ Len(s \o u) = m + k
      /\ \A i \in 1 .. m + k : (s \o u)[i] = IF i <= m THEN s[i] ELSE u[i - m]
  BY <1>2, ConcatProperties
<1> HIDE DEF w, u, m, n
<1>4. k \in 0 .. n
  BY DEF n
<1>5. m + k \in 0 .. Len(w)
  BY <1>1, <1>4
<1>6. /\ SubSeq(w, 1, m + k) \in Seq(T) /\ Len(SubSeq(w, 1, m + k)) = m + k
      /\ \A i \in 1 .. m + k : SubSeq(w, 1, m + k)[i] = w[i]
  BY <1>1, <1>5, PrefixFacts
<1>7. ASSUME NEW i \in 1 .. m + k PROVE SubSeq(w, 1, m + k)[i] = (s \o u)[i]
  <2>1. i \in 1 .. m + n /\ (i <= m \/ i - m \in 1 .. k)
    BY <1>1, <1>4
  <2> QED
    BY <1>1, <1>2, <1>3, <1>6, <2>1
<1>8. SubSeq(w, 1, m + k) = s \o u
  BY <1>3, <1>6, <1>7, SeqEqual
<1> QED
  BY <1>8 DEF w, u, m

\* A prefix of a prefix.
LEMMA PrefixOfPrefix ==
  ASSUME NEW T, NEW s \in Seq(T), NEW k \in 0 .. Len(s), NEW j \in 0 .. k
  PROVE  SubSeq(SubSeq(s, 1, k), 1, j) = SubSeq(s, 1, j)
<1> DEFINE u == SubSeq(s, 1, k)
<1>1. u \in Seq(T) /\ Len(u) = k /\ \A i \in 1 .. k : u[i] = s[i]
  BY PrefixFacts
<1> HIDE DEF u
<1>2. /\ SubSeq(u, 1, j) \in Seq(T) /\ Len(SubSeq(u, 1, j)) = j
      /\ \A i \in 1 .. j : SubSeq(u, 1, j)[i] = u[i]
  BY <1>1, PrefixFacts
<1>3. j \in 0 .. Len(s) /\ \A i \in 1 .. j : i \in 1 .. k
  <2>1. Len(s) \in Nat
    BY LenProperties
  <2> QED
    BY <2>1
<1>4. /\ SubSeq(s, 1, j) \in Seq(T) /\ Len(SubSeq(s, 1, j)) = j
      /\ \A i \in 1 .. j : SubSeq(s, 1, j)[i] = s[i]
  BY <1>3, PrefixFacts
<1>5. SubSeq(u, 1, j) = SubSeq(s, 1, j)
  BY <1>1, <1>2, <1>3, <1>4, SeqEqual
<1> QED
  BY <1>5 DEF u

\* A prefix of the first of two texts.
LEMMA PrefixOfFirst ==
  ASSUME NEW T, NEW s \in Seq(T), NEW t \in Seq(T), NEW k \in 0 .. Len(s)
  PROVE  SubSeq(s \o t, 1, k) = SubSeq(s, 1, k)
<1> DEFINE w == s \o t
<1>1. /\ w \in Seq(T) /\ Len(w) = Len(s) + Len(t)
      /\ Len(s) \in Nat /\ Len(t) \in Nat
      /\ \A i \in 1 .. Len(s) + Len(t) : w[i] = IF i <= Len(s) THEN s[i] ELSE t[i - Len(s)]
  BY ConcatProperties, LenProperties
<1> HIDE DEF w
<1>2. k \in 0 .. Len(w) /\ \A i \in 1 .. k : w[i] = s[i]
  BY <1>1
<1>3. /\ SubSeq(w, 1, k) \in Seq(T) /\ Len(SubSeq(w, 1, k)) = k
      /\ \A i \in 1 .. k : SubSeq(w, 1, k)[i] = w[i]
  BY <1>1, <1>2, PrefixFacts
<1>4. /\ SubSeq(s, 1, k) \in Seq(T) /\ Len(SubSeq(s, 1, k)) = k
      /\ \A i \in 1 .. k : SubSeq(s, 1, k)[i] = s[i]
  BY PrefixFacts
<1>5. SubSeq(w, 1, k) = SubSeq(s, 1, k)
  BY <1>2, <1>3, <1>4, SeqEqual
<1> QED
  BY <1>5 DEF w

\* What a token attends to in a row that holds a text is that text.
LEMMA PastText ==
  ASSUME NEW T, NEW t \in Seq(T), NEW r, HoldsText(r, t)
  PROVE  Past(r) = t
<1>1. Len(t) \in Nat /\ r.n = Len(t)
  BY LenProperties DEF HoldsText
<1>2. CASE r.n = 0
  BY <1>1, <1>2, EmptySeq DEF Past
<1>3. CASE r.n # 0
  <2>1. r.n - 1 \in 0 .. r.n - 1 /\ (r.n - 1) + 1 = Len(t)
    BY <1>1, <1>3
  <2>2. r.kv[r.n - 1] = SubSeq(t, 1, (r.n - 1) + 1)
    BY <2>1 DEF HoldsText
  <2>3. r.kv[r.n - 1] = t
    BY <2>1, <2>2, SubSeqFull
  <2>4. Coherent(r)
    BY <2>3 DEF HoldsText, Coherent
  <2> QED
    BY <1>3, <2>3, <2>4 DEF Past
<1> QED
  BY <1>2, <1>3

\* A new row holds the empty text.
LEMMA NewText == HoldsText(NewRow, <<>>)
<1>1. MaxSeq \in Nat
  BY ForwardAssumption
<1> QED
  BY <1>1 DEF HoldsText, NewRow

\* A row that was reset holds the empty text, whatever its K and V still are.
LEMMA ResetText ==
  ASSUME NEW t, NEW r, HoldsText(r, t)
  PROVE  HoldsText(ResetRow(r), <<>>)
<1>1. MaxSeq \in Nat /\ r = [n |-> r.n, kv |-> r.kv, rec |-> r.rec]
      /\ DOMAIN r.kv = 0 .. MaxSeq - 1
  BY ForwardAssumption DEF HoldsText
<1>2. ResetRow(r) = [n |-> 0, kv |-> r.kv, rec |-> <<>>]
  <2>1. ASSUME NEW n, NEW kv, NEW rec
        PROVE  [[n |-> n, kv |-> kv, rec |-> rec] EXCEPT !.n = 0, !.rec = <<>>]
                 = [n |-> 0, kv |-> kv, rec |-> <<>>]
    <3>1. [[n |-> n, kv |-> kv, rec |-> rec] EXCEPT !.n = 0] = [n |-> 0, kv |-> kv, rec |-> rec]
      OBVIOUS
    <3>2. [[n |-> 0, kv |-> kv, rec |-> rec] EXCEPT !.rec = <<>>]
            = [n |-> 0, kv |-> kv, rec |-> <<>>]
      OBVIOUS
    <3> QED
      BY <3>1, <3>2
  <2>2. ResetRow([n |-> r.n, kv |-> r.kv, rec |-> r.rec])
          = [n |-> 0, kv |-> r.kv, rec |-> <<>>]
    BY <2>1 DEF ResetRow
  <2> QED
    BY <1>1, <2>2
<1> QED
  BY <1>1, <1>2 DEF HoldsText

\* A row that holds t and is fed tokens that fit holds t and the tokens that
\* count; the padding and the old entries above do not matter.
LEMMA ForwardText ==
  ASSUME NEW T, NEW t \in Seq(T), NEW toks \in Seq(T), NEW v \in 0 .. Len(toks),
         NEW r, HoldsText(r, t), ~Overflows(r, v)
  PROVE  HoldsText(ForwardRow(r, toks, v), t \o SubSeq(toks, 1, v))
<1> DEFINE u == SubSeq(toks, 1, v)
           w == t \o u
           q == ForwardRow(r, toks, v)
           entry(p) == t \o SubSeq(toks, 1, p - r.n + 1)
<1>1. u \in Seq(T) /\ Len(u) = v
  BY PrefixFacts
<1>2. w \in Seq(T) /\ Len(w) = Len(t) + v
  BY <1>1, ConcatProperties
<1>3. /\ Len(t) \in Nat /\ r.n = Len(t) /\ v \in Nat /\ MaxSeq \in Nat
      /\ r.n + v <= MaxSeq /\ r.rec = t /\ DOMAIN r.kv = 0 .. MaxSeq - 1
      /\ \A p \in 0 .. r.n - 1 : r.kv[p] = SubSeq(t, 1, p + 1)
  <2>1. Len(t) \in Nat /\ Len(toks) \in Nat /\ MaxSeq \in Nat
    BY LenProperties, ForwardAssumption
  <2>2. r.n = Len(t) /\ ~(r.n + v > MaxSeq)
    BY DEF HoldsText, Overflows
  <2>3. v \in Nat /\ r.n + v <= MaxSeq
    BY <2>1, <2>2
  <2> QED
    BY <2>1, <2>2, <2>3 DEF HoldsText
<1>4. Past(r) = t
  BY PastText
<1>5. /\ q = [n |-> r.n + v,
              kv |-> [p \in DOMAIN r.kv |-> IF p \in r.n .. r.n + v - 1 THEN entry(p)
                                            ELSE r.kv[p]],
              rec |-> w]
  BY <1>3, <1>4 DEF ForwardRow
<1>6. /\ q = [n |-> q.n, kv |-> q.kv, rec |-> q.rec] /\ q.n = r.n + v /\ q.rec = w
      /\ DOMAIN q.kv = 0 .. MaxSeq - 1
      /\ \A p \in 0 .. MaxSeq - 1 :
           q.kv[p] = IF p \in r.n .. r.n + v - 1 THEN entry(p) ELSE r.kv[p]
  <2> DEFINE kv == [p \in DOMAIN r.kv |-> IF p \in r.n .. r.n + v - 1 THEN entry(p)
                                          ELSE r.kv[p]]
             n == r.n + v
  <2>1. /\ DOMAIN kv = 0 .. MaxSeq - 1
        /\ \A p \in 0 .. MaxSeq - 1 :
             kv[p] = IF p \in r.n .. r.n + v - 1 THEN entry(p) ELSE r.kv[p]
    <3> HIDE DEF entry
    <3> QED
      BY <1>3
  <2>2. q = [n |-> n, kv |-> kv, rec |-> w]
    BY <1>5
  <2> HIDE DEF q, kv, n, w, entry
  <2>3. q.n = n /\ q.kv = kv /\ q.rec = w /\ q = [n |-> q.n, kv |-> q.kv, rec |-> q.rec]
    BY <2>2
  <2> QED
    BY <2>1, <2>3 DEF n
<1> HIDE DEF q, entry, u, w
<1>7. ASSUME NEW p \in 0 .. q.n - 1 PROVE q.kv[p] = SubSeq(w, 1, p + 1)
  <2>1. p \in 0 .. MaxSeq - 1 /\ p \in Nat
    BY <1>3, <1>6
  <2>2. CASE p \in r.n .. r.n + v - 1
    <3> DEFINE k == p - r.n + 1
    <3>1. k \in 0 .. v /\ p + 1 = Len(t) + k /\ v \in 0 .. Len(toks)
      BY SMTT(30), <1>3, <2>1, <2>2
    <3>2. SubSeq(w, 1, Len(t) + k) = t \o SubSeq(u, 1, k)
      BY <1>1, <3>1, PrefixOfConcat DEF w
    <3>3. SubSeq(u, 1, k) = SubSeq(toks, 1, k)
      BY <3>1, PrefixOfPrefix DEF u
    <3>4. q.kv[p] = t \o SubSeq(toks, 1, k)
      BY <1>6, <2>1, <2>2 DEF entry
    <3> HIDE DEF k
    <3> QED
      BY <3>1, <3>2, <3>3, <3>4
  <2>3. CASE p \notin r.n .. r.n + v - 1
    <3>1. p \in 0 .. r.n - 1 /\ p + 1 \in 0 .. Len(t)
      BY SMTT(30), <1>3, <1>6, <2>1, <2>3
    <3>2. SubSeq(w, 1, p + 1) = SubSeq(t, 1, p + 1)
      BY <1>1, <3>1, PrefixOfFirst DEF w
    <3> QED
      BY <1>3, <1>6, <2>1, <2>3, <3>1, <3>2
  <2> QED
    BY <2>2, <2>3
<1>8. q.n = Len(w) /\ q.n <= MaxSeq
  BY <1>2, <1>3, <1>6
<1>9. HoldsText(q, w)
  BY <1>6, <1>7, <1>8 DEF HoldsText
<1> QED
  BY <1>9 DEF q, w, u

\* Its logits are those of t and the tokens that count, if any counts.
LEMMA LogitsText ==
  ASSUME NEW T, NEW t \in Seq(T), NEW toks, NEW v, v # 0, NEW r, HoldsText(r, t)
  PROVE  LogitsRow(r, toks, v) = LogitsOf(t \o SubSeq(toks, 1, v))
<1>1. Past(r) = t /\ r.rec = t
  BY PastText DEF HoldsText
<1> QED
  BY <1>1 DEF LogitsRow, LogitsOf

-----------------------------------------------------------------------------
(* Sequences.                                                              *)

\* A bounded set of naturals has a greatest element.
LEMMA GreatestElement ==
  ASSUME NEW N \in Nat, NEW S \in SUBSET (0 .. N), S # {}
  PROVE  \E x \in S : \A y \in S : x >= y
<1> DEFINE D == {N - x : x \in S}
<1>1. D \in SUBSET Nat /\ D # {}
  <2>1. \A x \in S : N - x \in Nat
    OBVIOUS
  <2>2. PICK x \in S : TRUE
    OBVIOUS
  <2>3. N - x \in D
    OBVIOUS
  <2> QED
    BY <2>1, <2>3
<1> HIDE DEF D
<1>2. PICK d \in D : \A e \in D : d <= e
  BY <1>1, LeastElement
<1>3. PICK x \in S : d = N - x
  BY <1>2 DEF D
<1>4. ASSUME NEW y \in S PROVE x >= y
  <2>1. N - y \in D /\ x \in 0 .. N /\ y \in 0 .. N
    BY DEF D
  <2>2. N - x <= N - y
    BY <1>2, <1>3, <2>1
  <2> QED
    BY <2>1, <2>2
<1> QED
  BY <1>4

\* The greatest element is an element, and the greatest.
LEMMA MaxFacts ==
  ASSUME NEW N \in Nat, NEW S \in SUBSET (0 .. N), S # {}
  PROVE  Max(S) \in S /\ \A y \in S : Max(S) >= y
<1>1. \E x \in S : \A y \in S : x >= y
  BY GreatestElement
<1> QED
  BY <1>1 DEF Max

\* So is the least.
LEMMA MinFacts ==
  ASSUME NEW S \in SUBSET Nat, S # {}
  PROVE  Min(S) \in S /\ \A y \in S : Min(S) <= y
<1>1. \E x \in S : \A y \in S : x <= y
  BY LeastElement
<1> QED
  BY <1>1 DEF Min

\* Dropping white space at the end leaves a text.
LEMMA DropBlanksType ==
  ASSUME NEW s \in Seq(Vocab)
  PROVE  DropBlanks(s) \in Seq(Vocab)
<1> DEFINE B == {0} \cup {i \in DOMAIN s : s[i] \notin Blanks}
<1>1. Len(s) \in Nat /\ DOMAIN s = 1 .. Len(s)
  BY LenProperties
<1>2. B \in SUBSET (0 .. Len(s)) /\ B # {}
  BY <1>1
<1>3. DropBlanks(s) = SubSeq(s, 1, Max(B))
  BY DEF DropBlanks
<1> HIDE DEF B
<1>4. Max(B) \in 0 .. Len(s)
  BY <1>1, <1>2, MaxFacts
<1> QED
  BY <1>3, <1>4, PrefixFacts

\* So does dropping it at both ends,
LEMMA TrimType ==
  ASSUME NEW s \in Seq(Vocab)
  PROVE  Trim(s) \in Seq(Vocab)
<1> DEFINE r == DropBlanks(s)
           B == {Len(r) + 1} \cup {i \in DOMAIN r : r[i] \notin Blanks}
<1>1. r \in Seq(Vocab)
  BY DropBlanksType
<1>2. Trim(s) = SubSeq(r, Min(B), Len(r))
  BY DEF Trim
<1> HIDE DEF r
<1>3. Len(r) \in Nat /\ DOMAIN r = 1 .. Len(r)
  BY <1>1, LenProperties
<1>4. B \in SUBSET (1 .. Len(r) + 1) /\ B \in SUBSET Nat /\ B # {}
  BY <1>3
<1> HIDE DEF B
<1>5. Min(B) \in 1 .. Len(r) + 1
  BY <1>4, MinFacts
<1>6. Min(B) \in Int /\ Len(r) \in Int /\ \A i \in Min(B) .. Len(r) : r[i] \in Vocab
  <2>1. \A i \in Min(B) .. Len(r) : i \in 1 .. Len(r)
    BY <1>3, <1>5
  <2> QED
    BY <1>1, <1>3, <1>5, <2>1, ElementOfSeq
<1> QED
  BY <1>2, <1>6, SubSeqProperties

\* and dropping a final END with it.
LEMMA StripType ==
  ASSUME NEW s \in Seq(Vocab)
  PROVE  Strip(s) \in Seq(Vocab)
<1> DEFINE r == DropBlanks(s)
<1>1. r \in Seq(Vocab)
  BY DropBlanksType
<1> HIDE DEF r
<1>2. ASSUME r # <<>> PROVE Front(r) \in Seq(Vocab)
  <2>1. Len(r) \in Nat \ {0}
    BY <1>1, <1>2, EmptySeq
  <2>2. Len(r) - 1 \in 0 .. Len(r)
    BY <2>1
  <2> QED
    BY <1>1, <2>2, PrefixFacts DEF Front
<1> QED
  BY <1>1, <1>2, DropBlanksType DEF Strip, r

\* The conversation in its template is a text.
LEMMA TurnType ==
  ASSUME EncodesToTokens, NEW m \in Message
  PROVE  Turn(m) \in Seq(Token)
<1>1. m.role \in Roles /\ m.content \in Seq(Vocab)
  BY DEF Message
<1>2. Retok(Trim(m.content)) \in Seq(Token)
  <2>1. Retok(Trim(m.content)) \in Seq(Words)
    BY <1>1, TrimType DEF EncodesToTokens
  <2> QED
    BY <2>1, SeqMonotonic DEF Token
<1>3. <<"start", m.role>> \in Seq(Token) /\ <<"end">> \in Seq(Token)
  <2>1. "start" \in Token /\ "end" \in Token /\ m.role \in Token
    BY <1>1 DEF Token, Marks, Roles
  <2> HIDE DEF Token
  <2>2. \A a, b \in Token : <<a, b>> \in Seq(Token) /\ <<a>> \in Seq(Token)
    OBVIOUS
  <2> QED
    BY <2>1, <2>2
<1> QED
  BY <1>2, <1>3, ConcatProperties DEF Turn

\* So is a whole conversation.
LEMMA EncodeType ==
  ASSUME EncodesToTokens, NEW h \in Seq(Message)
  PROVE  Encode(h) \in Seq(Token)
<1> DEFINE turns == [i \in DOMAIN h |-> Turn(h[i])]
<1>1. Len(h) \in Nat /\ DOMAIN h = 1 .. Len(h) /\ \A i \in 1 .. Len(h) : h[i] \in Message
  BY LenProperties, ElementOfSeq
<1>2. turns \in Seq(Seq(Token))
  <2>1. turns \in [1 .. Len(h) -> Seq(Token)]
    BY <1>1, TurnType
  <2> QED
    BY <1>1, <2>1, SeqDef
<1>3. System \in Seq(Token)
  BY ChatAssumption, SeqMonotonic DEF Token
<1>4. ReplyHead \in Seq(Token)
  <2>1. <<"start", "assistant">> \in Seq(Token) /\ <<"think">> \in Seq(Token)
        /\ <<>> \in Seq(Token)
    <3>1. "start" \in Token /\ "assistant" \in Token /\ "think" \in Token
      BY DEF Token, Marks, Roles
    <3> HIDE DEF Token
    <3>2. \A a, b \in Token : <<a, b>> \in Seq(Token) /\ <<a>> \in Seq(Token)
      OBVIOUS
    <3> QED
      BY <3>1, <3>2, EmptySeq
  <2> QED
    BY <2>1, ConcatProperties DEF ReplyHead
<1> HIDE DEF turns
<1>5. FlattenSeq(turns) \in Seq(Token)
  BY <1>2, FlattenType
<1> QED
  BY <1>3, <1>4, <1>5, ConcatProperties DEF Encode, turns

-----------------------------------------------------------------------------
(* The chat program.                                                       *)

\* A text with a token that the model lacks has it whatever comes before.
LEMMA UnknownRest ==
  ASSUME NEW T, NEW s \in Seq(T), NEW u \in Seq(T), ~Known(u)
  PROVE  ~Known(s \o u)
<1>1. PICK i \in 1 .. Len(u) : u[i] \in Unknown
  BY DEF Known, Range
<1>2. /\ Len(s) \in Nat /\ Len(u) \in Nat /\ Len(s \o u) = Len(s) + Len(u)
      /\ s \o u \in Seq(T) /\ DOMAIN (s \o u) = 1 .. Len(s \o u)
  BY ConcatProperties, LenProperties
<1>3. Len(s) + i \in DOMAIN (s \o u) /\ (s \o u)[Len(s) + i] = u[i]
  BY <1>2
<1> QED
  BY <1>1, <1>3 DEF Known, Range

\* llama_model_forward of tokens that all count, on a row that holds t: it
\* holds these tokens too, or they do not fit, or the model lacks one of them,
\* and nothing has changed.
LEMMA FeedText ==
  ASSUME NEW T, NEW t \in Seq(T), NEW toks \in Seq(T), toks # <<>>,
         NEW r, HoldsText(r, t), Feed(r, toks)
  PROVE  \/ /\ pc' = "dead" /\ row' = row /\ logits' = logits
            /\ Len(t) + Len(toks) > MaxSeq \/ ~Known(toks)
         \/ /\ pc' = "gen" /\ HoldsText(row', t \o toks)
            /\ logits' = LogitsOf(t \o toks)
<1> DEFINE v == Len(toks)
<1>1. v \in 0 .. Len(toks) /\ v # 0
  BY EmptySeq
<1>2. SubSeq(toks, 1, v) = toks
  BY SubSeqFull
<1>3. CASE Overflows(r, v)
  <2>1. Len(t) + v > MaxSeq
    BY <1>3 DEF Overflows, HoldsText
  <2> QED
    BY <1>3, <2>1 DEF Feed
<1>4. CASE ~Overflows(r, v) /\ Known(toks)
  <2>1. pc' = "gen" /\ row' = ForwardRow(r, toks, v) /\ logits' = LogitsRow(r, toks, v)
    BY <1>4 DEF Feed
  <2> HIDE DEF v
  <2>2. HoldsText(ForwardRow(r, toks, v), t \o SubSeq(toks, 1, v))
    BY <1>1, <1>4, ForwardText
  <2>3. LogitsRow(r, toks, v) = LogitsOf(t \o SubSeq(toks, 1, v))
    BY <1>1, LogitsText
  <2> QED
    BY <1>2, <2>1, <2>2, <2>3
<1>5. CASE ~Known(toks)
  BY <1>5 DEF Feed
<1> QED
  BY <1>3, <1>4, <1>5

\* What generate_next and generate_start keep: the texts are texts, and there
\* is room in the history for the reply.
Texts ==
  /\ history \in Seq(Message) /\ Len(history) <= MaxMessages
  /\ pc \in {"gen", "done"} => Len(history) + 1 <= MaxMessages
  /\ cached \in Seq(Token) /\ ids \in Seq(Token)
  /\ gen \in Seq(Vocab) /\ Len(gen) <= MaxTokens
  /\ pc \in {"idle", "gen", "done", "dead", "exited"}

\* Whatever the cache held before, it holds one text.
OneText == \E t \in Seq(Token) : HoldsText(row, t)

\* At the prompt the cache holds what cached_ids says; within a turn the
\* conversation and the reply so far, of which the logits are.
IdleText == pc = "idle" => HoldsText(row, cached)
TurnText == pc \in {"gen", "done"} => HoldsText(row, ids \o gen)
NextToken == pc = "gen" => ids = Encode(history) /\ logits = LogitsOf(ids \o gen)

ChatInv == Texts /\ OneText /\ IdleText /\ TurnText /\ NextToken /\ DiesOnlyWhenFull

\* The chat begins with an empty cache and nothing in it.
LEMMA ChatBegins ==
  ASSUME ChatInit
  PROVE  ChatInv
<1>1. /\ history = <<>> /\ cached = <<>> /\ ids = <<>> /\ gen = <<>>
      /\ row = NewRow /\ pc = "idle"
  BY DEF ChatInit
<1>2. <<>> \in Seq(Message) /\ <<>> \in Seq(Token) /\ <<>> \in Seq(Vocab)
      /\ Len(<<>>) = 0
  BY EmptySeq
<1>3. MaxMessages \in Nat /\ MaxTokens \in Nat
  BY ChatAssumption, ForwardAssumption
<1>4. Texts
  BY <1>1, <1>2, <1>3 DEF Texts
<1>5. HoldsText(row, <<>>)
  BY <1>1, NewText
<1>6. OneText /\ IdleText
  BY <1>1, <1>2, <1>5 DEF OneText, IdleText
<1>7. TurnText /\ NextToken /\ DiesOnlyWhenFull
  BY <1>1 DEF TurnText, NextToken, DiesOnlyWhenFull
<1> QED
  BY <1>4, <1>6, <1>7 DEF ChatInv

\* /reset empties history, cached_ids and cache at once.
LEMMA ClearKeeps ==
  ASSUME ChatInv, Clear
  PROVE  ChatInv'
<1>1. /\ pc = "idle" /\ pc' = "idle" /\ history' = <<>> /\ cached' = <<>>
      /\ ids' = ids /\ gen' = gen /\ row' = ResetRow(row)
  BY DEF Clear
<1>2. <<>> \in Seq(Message) /\ <<>> \in Seq(Token) /\ Len(<<>>) = 0
  BY EmptySeq
<1>3. MaxMessages \in Nat
  BY ChatAssumption
<1>4. Texts'
  BY <1>1, <1>2, <1>3 DEF Texts, ChatInv
<1>5. HoldsText(row', <<>>)
  BY <1>1, ResetText DEF ChatInv, IdleText
<1>6. OneText' /\ IdleText'
  BY <1>1, <1>2, <1>5 DEF OneText, IdleText
<1>7. TurnText' /\ NextToken' /\ DiesOnlyWhenFull'
  BY <1>1 DEF TurnText, NextToken, DiesOnlyWhenFull
<1> QED
  BY <1>4, <1>6, <1>7 DEF ChatInv

\* The end of the program changes no text.
LEMMA ExitKeeps ==
  ASSUME ChatInv, Exit
  PROVE  ChatInv'
<1>1. /\ pc = "idle" /\ pc' = "exited" /\ history' = history /\ cached' = cached
      /\ ids' = ids /\ gen' = gen /\ row' = row
  BY DEF Exit
<1> QED
  BY <1>1 DEF ChatInv, Texts, OneText, IdleText, TurnText, NextToken, DiesOnlyWhenFull

\* A cache that holds a prefix of the conversation is fed the rest of it.
LEMMA RestOfPrefix ==
  ASSUME NEW T, NEW s \in Seq(T), NEW t \in Seq(T), IsPrefix(s, t)
  PROVE  /\ SubSeq(t, Len(s) + 1, Len(t)) \in Seq(T)
         /\ t = s \o SubSeq(t, Len(s) + 1, Len(t))
<1> DEFINE k == Len(s)
           n == Len(t)
<1>1. k \in Nat /\ n \in Nat /\ k <= n /\ SubSeq(t, 1, k) = s
  BY LenProperties, SubSeqFull DEF IsPrefix
<1>2. \A i \in k + 1 .. n : t[i] \in T
  <2>1. \A i \in k + 1 .. n : i \in 1 .. Len(t)
    BY <1>1
  <2> QED
    BY <2>1, ElementOfSeq
<1>3. SubSeq(t, 1, n) = t
  BY SubSeqFull
<1>4. 1 \in 1 .. Len(t) + 1 /\ k \in 1 - 1 .. Len(t) /\ n \in k .. Len(t)
  BY <1>1
<1> HIDE DEF k, n
<1>5. SubSeq(t, 1, k) \o SubSeq(t, k + 1, n) = SubSeq(t, 1, n)
  BY <1>4, ConcatAdjacentSubSeq
<1>6. SubSeq(t, k + 1, n) \in Seq(T)
  BY <1>1, <1>2, SubSeqProperties
<1> QED
  BY <1>1, <1>3, <1>5, <1>6 DEF k, n

\* A line: after a hit the cache is continued, after a miss it is reset; in
\* both cases the logits are then those of the whole conversation.
LEMMA SayKeeps ==
  ASSUME EncodesToTokens, ChatInv, NEW content \in Lines, Say(content)
  PROVE  ChatInv'
<1> DEFINE m == [role |-> "user", content |-> content]
           h == Append(history, m)
           all == Encode(h)
           hit == cached # <<>> /\ IsPrefix(cached, all)
           new == IF hit THEN SubSeq(all, Len(cached) + 1, Len(all)) ELSE all
           r == IF hit THEN row ELSE ResetRow(row)
           held == IF hit THEN cached ELSE <<>>
<1>1. /\ pc = "idle" /\ Len(history) + 2 <= MaxMessages /\ history' = h /\ cached' = held
      /\ IF new = <<>> THEN row' = r /\ pc' = pc /\ ids' = ids /\ gen' = gen
         ELSE ids' = all /\ gen' = <<>> /\ Feed(r, new)
  BY DEF Say
<1>2. /\ history \in Seq(Message) /\ Len(history) \in Nat /\ cached \in Seq(Token)
      /\ ids \in Seq(Token) /\ gen \in Seq(Vocab) /\ Len(gen) <= MaxTokens
  BY LenProperties DEF ChatInv, Texts
<1>3. HoldsText(row, cached)
  BY <1>1 DEF ChatInv, IdleText
<1>4. h \in Seq(Message) /\ Len(h) = Len(history) + 1
  <2>1. m \in Message
    BY ChatAssumption DEF Message, Roles
  <2> HIDE DEF m
  <2> QED
    BY <1>2, <2>1, AppendProperties
<1>5. all \in Seq(Token)
  BY <1>4, EncodeType
<1>6. <<>> \in Seq(Token) /\ <<>> \in Seq(Vocab) /\ Len(<<>>) = 0
  BY EmptySeq
<1>7. MaxMessages \in Nat /\ MaxTokens \in Nat
  BY ChatAssumption, ForwardAssumption
<1> HIDE DEF h, all
<1>8. held \in Seq(Token) /\ new \in Seq(Token) /\ all = held \o new /\ HoldsText(r, held)
  <2>1. CASE hit
    <3>1. IsPrefix(cached, all)
      BY <2>1
    <3>2. /\ SubSeq(all, Len(cached) + 1, Len(all)) \in Seq(Token)
          /\ all = cached \o SubSeq(all, Len(cached) + 1, Len(all))
      BY <1>2, <1>5, <3>1, RestOfPrefix
    <3> QED
      BY <1>2, <1>3, <2>1, <3>2
  <2>2. CASE ~hit
    <3>1. HoldsText(ResetRow(row), <<>>)
      BY <1>3, ResetText
    <3>2. <<>> \o all = all
      BY <1>5, ConcatEmptySeq
    <3> QED
      BY <1>5, <1>6, <2>2, <3>1, <3>2
  <2> QED
    BY <2>1, <2>2
<1> HIDE DEF hit, new, r, held
<1>9. CASE new = <<>>
  <2>1. row' = r /\ pc' = "idle" /\ ids' = ids /\ gen' = gen
    BY <1>1, <1>9
  <2>2. Texts'
    <3>1. Len(history') <= MaxMessages
      BY <1>1, <1>2, <1>4, <1>7
    <3> QED
      BY <1>1, <1>2, <1>4, <1>8, <2>1, <3>1 DEF Texts
  <2>3. OneText' /\ IdleText'
    BY <1>1, <1>8, <2>1 DEF OneText, IdleText
  <2>4. TurnText' /\ NextToken' /\ DiesOnlyWhenFull'
    BY <2>1 DEF TurnText, NextToken, DiesOnlyWhenFull
  <2> QED
    BY <2>2, <2>3, <2>4 DEF ChatInv
<1>10. CASE new # <<>>
  <2>1. ids' = all /\ gen' = <<>> /\ Feed(r, new)
    BY <1>1, <1>10
  <2>2. \/ /\ pc' = "dead" /\ row' = row
           /\ Len(held) + Len(new) > MaxSeq \/ ~Known(new)
        \/ pc' = "gen" /\ HoldsText(row', all) /\ logits' = LogitsOf(all)
    BY <1>8, <1>10, <2>1, FeedText
  <2>3. Len(all) = Len(held) + Len(new) /\ Len(all) \in Nat /\ all \o <<>> = all
    BY <1>8, ConcatProperties, ConcatEmptySeq, LenProperties
  <2>4. Texts'
    <3>1. Len(history') + 1 <= MaxMessages /\ Len(history') <= MaxMessages
      BY <1>1, <1>2, <1>4, <1>7
    <3>2. pc' \in {"idle", "gen", "done", "dead", "exited"}
      BY <2>2
    <3> QED
      BY <1>1, <1>4, <1>5, <1>6, <1>7, <1>8, <2>1, <3>1, <3>2 DEF Texts
  <2>5. OneText'
    BY <1>2, <1>3, <1>5, <2>2 DEF OneText
  <2>6. IdleText' /\ TurnText'
    BY <2>1, <2>2, <2>3 DEF IdleText, TurnText
  <2>7. NextToken'
    <3>1. all = Encode(history')
      BY <1>1 DEF all, h
    <3> QED
      BY <2>1, <2>2, <2>3, <3>1 DEF NextToken
  <2>8. DiesOnlyWhenFull'
    <3>1. ~Known(new) => ~Known(all)
      BY <1>8, UnknownRest
    <3>2. pc' = "dead" => Len(all) + 0 > MaxSeq \/ ~Known(all)
      BY <2>2, <2>3, <3>1
    <3> QED
      BY <1>6, <2>1, <3>2 DEF DiesOnlyWhenFull
  <2> QED
    BY <2>4, <2>5, <2>6, <2>7, <2>8 DEF ChatInv
<1> QED
  BY <1>9, <1>10

\* A sampled token joins the reply and the cache, or nothing does.
LEMMA SampleKeeps ==
  ASSUME ChatInv, NEW t \in Vocab, Sample(t)
  PROVE  ChatInv'
<1>1. /\ pc = "gen" /\ ~(Len(gen) >= MaxTokens)
      /\ history' = history /\ cached' = cached /\ ids' = ids
  BY DEF Sample, Reached
<1>2. /\ history \in Seq(Message) /\ Len(history) + 1 <= MaxMessages
      /\ Len(history) <= MaxMessages /\ cached \in Seq(Token)
      /\ ids \in Seq(Token) /\ gen \in Seq(Vocab) /\ Len(gen) <= MaxTokens
  BY <1>1 DEF ChatInv, Texts
<1>3. /\ HoldsText(row, ids \o gen) /\ ids = Encode(history) /\ OneText
  BY <1>1 DEF ChatInv, TurnText, NextToken
<1>4. CASE t \in Stops
  <2>1. pc' = "done" /\ row' = row /\ gen' = gen
    BY <1>4 DEF Sample
  <2> QED
    BY <1>1, <1>2, <1>3, <2>1
    DEF ChatInv, Texts, OneText, IdleText, TurnText, NextToken, DiesOnlyWhenFull
<1>5. CASE t \notin Stops
  <2>1. gen' = Append(gen, t) /\ Feed(row, <<t>>)
    BY <1>5 DEF Sample
  <2>2. /\ gen' \in Seq(Vocab) /\ Len(gen') = Len(gen) + 1 /\ gen' = gen \o <<t>>
    BY <1>2, <2>1, AppendProperties, AppendIsConcat
  <2>3. gen \in Seq(Token) /\ <<t>> \in Seq(Token) /\ <<t>> # <<>> /\ Len(<<t>>) = 1
    <3>1. Vocab \subseteq Token /\ t \in Token
      BY DEF Token
    <3> HIDE DEF Token
    <3> QED
      BY <1>2, <3>1, SeqMonotonic
  <2>4. /\ ids \o gen \in Seq(Token) /\ Len(ids \o gen) = Len(ids) + Len(gen)
        /\ (ids \o gen) \o <<t>> = ids \o gen'
    BY SMTT(30), <1>2, <2>2, <2>3, ConcatProperties, ConcatAssociative
  <2>5. \/ pc' = "dead" /\ row' = row /\ Len(ids \o gen) + 1 > MaxSeq
        \/ pc' = "gen" /\ HoldsText(row', ids \o gen') /\ logits' = LogitsOf(ids \o gen')
    <3> DEFINE u == ids \o gen
               v == <<t>>
    <3> HIDE DEF u, v
    <3>1. u \in Seq(Token) /\ v \in Seq(Token) /\ v # <<>> /\ Len(v) = 1
          /\ HoldsText(row, u) /\ Feed(row, v) /\ u \o v = ids \o gen'
      BY <1>3, <2>1, <2>3, <2>4 DEF u, v
    <3>2. \/ /\ pc' = "dead" /\ row' = row /\ logits' = logits
             /\ Len(u) + Len(v) > MaxSeq \/ ~Known(v)
          \/ /\ pc' = "gen" /\ HoldsText(row', u \o v)
             /\ logits' = LogitsOf(u \o v)
      BY <3>1, FeedText
    <3>3. u = ids \o gen
      BY DEF u
    <3>4. Known(v)
      BY ForwardAssumption DEF Known, Range, v
    <3> QED
      BY <3>1, <3>2, <3>3, <3>4
  <2>6. Len(gen) \in Nat /\ Len(ids) \in Nat /\ MaxTokens \in Nat
    BY <1>2, LenProperties, ForwardAssumption
  <2>7. Texts'
    <3>1. Len(gen') <= MaxTokens
      BY <1>1, <2>2, <2>6
    <3> QED
      BY <1>1, <1>2, <2>2, <2>5, <3>1 DEF Texts
  <2>8. OneText'
    <3>1. ids \o gen' \in Seq(Token)
      BY <2>3, <2>4, ConcatProperties
    <3> QED
      BY <1>3, <2>5, <3>1 DEF OneText
  <2>9. IdleText' /\ TurnText' /\ NextToken'
    BY <1>1, <1>3, <2>5 DEF IdleText, TurnText, NextToken
  <2>10. DiesOnlyWhenFull'
    <3>1. pc' = "dead" => Len(ids) + Len(gen') > MaxSeq
      BY <2>2, <2>4, <2>5, <2>6
    <3> QED
      BY <1>1, <3>1 DEF DiesOnlyWhenFull
  <2> QED
    BY <2>7, <2>8, <2>9, <2>10 DEF ChatInv
<1> QED
  BY <1>4, <1>5

\* When there are enough tokens the cache holds them all.
LEMMA EnoughKeeps ==
  ASSUME ChatInv, Enough
  PROVE  ChatInv'
<1>1. /\ pc = "gen" /\ pc' = "done" /\ history' = history /\ cached' = cached
      /\ ids' = ids /\ gen' = gen /\ row' = row
  BY DEF Enough
<1> QED
  BY <1>1 DEF ChatInv, Texts, OneText, IdleText, TurnText, NextToken, DiesOnlyWhenFull

\* At the end of a turn cached_ids becomes what the cache holds.
LEMMA EndTurnKeeps ==
  ASSUME ChatInv, EndTurn
  PROVE  ChatInv'
<1> DEFINE m == [role |-> "assistant", content |-> Strip(gen)]
<1>1. /\ pc = "done" /\ pc' = "idle" /\ history' = Append(history, m)
      /\ cached' = ids \o gen /\ ids' = <<>> /\ gen' = <<>> /\ row' = row
  BY DEF EndTurn
<1>2. /\ history \in Seq(Message) /\ Len(history) + 1 <= MaxMessages
      /\ ids \in Seq(Token) /\ gen \in Seq(Vocab)
      /\ HoldsText(row, ids \o gen) /\ OneText
  BY <1>1 DEF ChatInv, Texts, TurnText
<1>3. m \in Message
  BY <1>2, StripType DEF Message, Roles
<1> HIDE DEF m
<1>4. history' \in Seq(Message) /\ Len(history') <= MaxMessages
  BY <1>1, <1>2, <1>3, AppendProperties
<1>5. cached' \in Seq(Token)
  <2>1. Vocab \subseteq Token
    BY DEF Token
  <2>2. gen \in Seq(Token)
    BY <1>2, <2>1, SeqMonotonic
  <2> QED
    BY <1>1, <1>2, <2>2, ConcatProperties
<1>6. /\ <<>> \in Seq(Token) /\ <<>> \in Seq(Vocab) /\ Len(<<>>) = 0
      /\ MaxTokens \in Nat
  BY EmptySeq, ForwardAssumption
<1>7. Texts'
  BY <1>1, <1>4, <1>5, <1>6 DEF Texts
<1>8. OneText' /\ IdleText' /\ TurnText' /\ NextToken' /\ DiesOnlyWhenFull'
  BY <1>1, <1>2 DEF OneText, IdleText, TurnText, NextToken, DiesOnlyWhenFull
<1> QED
  BY <1>7, <1>8 DEF ChatInv

\* Every step of the process keeps the invariant of the chat.
LEMMA ChatKeeps ==
  ASSUME EncodesToTokens, ChatInv, [Next]_vars
  PROVE  ChatInv'
<1>1. CASE ChatStep
  BY <1>1, ClearKeeps, ExitKeeps, SayKeeps, SampleKeeps, EnoughKeeps, EndTurnKeeps
  DEF ChatStep, ChatNext, Reply
<1>2. ASSUME UNCHANGED chatVars PROVE ChatInv'
  BY <1>2 DEF chatVars, ChatInv, Texts, OneText, IdleText, TurnText, NextToken,
              DiesOnlyWhenFull
<1>3. CASE BatchStep \/ LoadStep
  BY <1>2, <1>3 DEF BatchStep, LoadStep
<1>4. CASE UNCHANGED vars
  BY <1>2, <1>4 DEF vars
<1> QED
  BY <1>1, <1>3, <1>4 DEF Next

\* The invariant of the chat program, from which its properties follow.
THEOREM ChatInductive ==
  ASSUME EncodesToTokens
  PROVE  Spec => []ChatInv
<1>1. Init => ChatInv
  BY ChatBegins DEF Init
<1>2. ChatInv /\ [Next]_vars => ChatInv'
  BY ChatKeeps
<1> QED
  BY <1>1, <1>2, PTL DEF Spec

\* Whatever lines are written, resets done and replies sampled: the lengths
\* and the cache stay in their bounds.
THEOREM ChatType ==
  ASSUME EncodesToTokens
  PROVE  Spec => []ChatTypeOK
<1>1. ChatInv => ChatTypeOK
  <2> SUFFICES ASSUME ChatInv PROVE ChatTypeOK
    OBVIOUS
  <2>1. PICK t \in Seq(Token) : HoldsText(row, t)
    BY DEF ChatInv, OneText
  <2>2. Len(t) \in Nat /\ MaxSeq \in Nat
    BY LenProperties, ForwardAssumption
  <2>3. row.n \in 0 .. MaxSeq /\ Len(row.rec) = row.n
    BY <2>1, <2>2 DEF HoldsText
  <2> QED
    BY <2>3 DEF ChatInv, Texts, ChatTypeOK
<1> QED
  BY <1>1, ChatInductive, PTL

\* Every token of a reply is sampled from logits of the conversation as it
\* stands, however much of it chat.c found in the cache of earlier turns.
THEOREM SampledFromConversation ==
  ASSUME EncodesToTokens
  PROVE  Spec => []ChatContext
<1>1. ChatInv => ChatContext
  BY DEF ChatInv, NextToken, ChatContext
<1> QED
  BY <1>1, ChatInductive, PTL

\* At the prompt cached_ids is what the cache holds.
THEOREM CacheIsKnown ==
  ASSUME EncodesToTokens
  PROVE  Spec => []CachedIds
<1>1. ChatInv => CachedIds
  <2> SUFFICES ASSUME ChatInv, pc = "idle" PROVE Past(row) = cached /\ row.rec = cached
    BY DEF CachedIds
  <2>1. HoldsText(row, cached) /\ cached \in Seq(Token)
    BY DEF ChatInv, IdleText, Texts
  <2>2. Past(row) = cached
    BY <2>1, PastText
  <2> QED
    BY <2>1, <2>2 DEF HoldsText
<1> QED
  BY <1>1, ChatInductive, PTL

\* The chat dies of a full cache only of a conversation that is longer than it.
THEOREM DeathIsOverflow ==
  ASSUME EncodesToTokens
  PROVE  Spec => []DiesOnlyWhenFull
<1>1. ChatInv => DiesOnlyWhenFull
  BY DEF ChatInv
<1> QED
  BY <1>1, ChatInductive, PTL

-----------------------------------------------------------------------------
(* The batch.                                                              *)

\* Finitely many lengths have a bound.
LEMMA LengthsBounded ==
  ASSUME NEW R, IsFiniteSet(R), NEW f \in [R -> Nat]
  PROVE  \E N \in Nat : \A b \in R : f[b] <= N
<1>1. PICK q \in Seq(R) : \A b \in R : \E i \in 1 .. Len(q) : q[i] = b
  BY DEF IsFiniteSet
<1>2. Len(q) \in Nat /\ \A i \in 1 .. Len(q) : q[i] \in R
  BY LenProperties, ElementOfSeq
<1> DEFINE bounds(n, N) == \A i \in 1 .. n : f[q[i]] <= N
           D == {n \in 0 .. Len(q) : \E N \in Nat : bounds(n, N)}
<1>3. 0 \in D
  <2>1. bounds(0, 0) /\ 0 \in Nat /\ 0 \in 0 .. Len(q)
    BY <1>2
  <2> QED
    BY <2>1
<1>4. ASSUME NEW n \in 1 .. Len(q), n - 1 \in D PROVE n \in D
  <2>1. PICK N \in Nat : bounds(n - 1, N)
    BY <1>4
  <2>2. f[q[n]] \in Nat
    BY <1>2
  <2>3. ASSUME NEW M \in Nat, N <= M, f[q[n]] <= M PROVE bounds(n, M)
    <3>1. ASSUME NEW i \in 1 .. n PROVE f[q[i]] <= M
      <4>1. CASE i = n
        BY <2>3, <4>1
      <4>2. CASE i # n
        <5>1. i \in 1 .. n - 1 /\ i \in 1 .. Len(q)
          BY <1>2, <4>2
        <5>2. f[q[i]] <= N /\ f[q[i]] \in Nat
          BY <1>2, <2>1, <5>1
        <5> QED
          BY <2>3, <5>2
      <4> QED
        BY <4>1, <4>2
    <3> QED
      BY <3>1
  <2> HIDE DEF bounds
  <2>4. \E M \in Nat : bounds(n, M)
    <3>1. CASE N <= f[q[n]]
      BY <2>2, <2>3, <3>1
    <3>2. CASE f[q[n]] <= N
      BY <2>3, <3>2
    <3> QED
      BY <2>2, <3>1, <3>2
  <2>5. n \in 0 .. Len(q)
    BY <1>2
  <2> QED
    BY <2>4, <2>5
<1>5. Len(q) \in D
  <2> HIDE DEF D
  <2>1. 0 .. Len(q) \subseteq D
    BY <1>2, <1>3, <1>4, LoopInduction
  <2> QED
    BY <1>2, <2>1
<1>6. PICK N \in Nat : bounds(Len(q), N)
  BY <1>5
<1> QED
  BY <1>1, <1>6

\* as_batch: no prompt is longer than slen.
LEMMA LongestBounds ==
  ASSUME prompt \in [Rows -> Seq(Token)], NEW b \in Rows
  PROVE  Longest \in Nat /\ Len(prompt[b]) \in 0 .. Longest
<1> DEFINE f == [c \in Rows |-> Len(prompt[c])]
           S == {Len(prompt[c]) : c \in Rows}
<1>1. \A c \in Rows : Len(prompt[c]) \in Nat
  BY LenProperties
<1>2. f \in [Rows -> Nat]
  BY <1>1
<1>3. PICK N \in Nat : \A c \in Rows : f[c] <= N
  <2> HIDE DEF f
  <2> QED
    BY <1>2, LengthsBounded, BatchAssumption
<1>4. S \in SUBSET (0 .. N) /\ S # {} /\ Len(prompt[b]) \in S
  <2>1. \A c \in Rows : Len(prompt[c]) <= N
    BY <1>3
  <2>2. \A c \in Rows : Len(prompt[c]) \in 0 .. N
    BY <1>1, <2>1
  <2> QED
    BY <2>2
<1>5. Longest = Max(S)
  BY DEF Longest
<1> HIDE DEF S
<1>6. Longest \in S /\ \A y \in S : Longest >= y
  BY <1>4, <1>5, MaxFacts
<1>7. Longest \in Nat
  BY <1>4, <1>6
<1>8. Longest >= Len(prompt[b])
  BY <1>4, <1>6
<1> QED
  BY <1>1, <1>7, <1>8

\* The padded prompt begins with the prompt.
LEMMA PaddedText ==
  ASSUME prompt \in [Rows -> Seq(Token)], NEW b \in Rows
  PROVE  /\ Padded(b) \in Seq(Token) /\ Len(prompt[b]) \in 0 .. Len(Padded(b))
         /\ SubSeq(Padded(b), 1, Len(prompt[b])) = prompt[b]
<1> DEFINE n == Len(prompt[b])
           p == Padded(b)
<1>1. Longest \in Nat /\ n \in 0 .. Longest
  BY LongestBounds
<1>2. prompt[b] \in Seq(Token) /\ \A i \in 1 .. n : prompt[b][i] \in Token
  BY ElementOfSeq
<1>3. Pad \in Token
  BY DEF Token
<1> HIDE DEF Token
<1>4. p = [i \in 1 .. Longest |-> IF i <= n THEN prompt[b][i] ELSE Pad]
  BY DEF Padded
<1> HIDE DEF p, n
<1>5. p \in [1 .. Longest -> Token]
  <2>1. ASSUME NEW i \in 1 .. Longest
        PROVE  (IF i <= n THEN prompt[b][i] ELSE Pad) \in Token
    <3>1. i <= n => i \in 1 .. n
      BY <1>1
    <3> QED
      BY <1>2, <1>3, <3>1
  <2> QED
    BY <1>4, <2>1
<1>6. p \in Seq(Token) /\ Len(p) = Longest
  BY <1>1, <1>5, SeqDef
<1>7. n \in 0 .. Len(p)
  BY <1>1, <1>6
<1>8. /\ SubSeq(p, 1, n) \in Seq(Token) /\ Len(SubSeq(p, 1, n)) = n
      /\ \A i \in 1 .. n : SubSeq(p, 1, n)[i] = p[i]
  BY <1>6, <1>7, PrefixFacts
<1>9. \A i \in 1 .. n : p[i] = prompt[b][i]
  <2>1. \A i \in 1 .. n : i \in 1 .. Longest /\ i <= n
    BY <1>1
  <2> QED
    BY <1>4, <2>1
<1>10. prompt[b] \in Seq(Token) /\ Len(prompt[b]) = n
  BY <1>2 DEF n
<1>11. SubSeq(p, 1, n) = prompt[b]
  BY <1>8, <1>9, <1>10, SeqEqual
<1> QED
  BY <1>6, <1>7, <1>11 DEF p, n

\* Before the first forward the cache is empty.
Fresh == bpc = "start" => \A b \in Rows : cache[b] = NewRow /\ out[b] = <<>>

\* Then every row holds its own prompt and its own reply.
RowTexts == bpc = "step" => \A b \in Rows : HoldsText(cache[b], prompt[b] \o out[b])

BatchTexts == prompt \in [Rows -> Seq(Token) \ {<<>>}] /\ out \in [Rows -> Seq(Token)]

BatchInv == BatchTexts /\ Fresh /\ RowTexts /\ RowsIndependent

\* The batch begins with empty rows.
LEMMA BatchBegins ==
  ASSUME BatchInit
  PROVE  BatchInv
<1>1. /\ prompt \in [Rows -> Prompts] /\ out = [b \in Rows |-> <<>>]
      /\ cache = [b \in Rows |-> NewRow] /\ bpc = "start"
  BY DEF BatchInit
<1>2. Prompts \subseteq Seq(Token) \ {<<>>} /\ <<>> \in Seq(Token)
  <2>1. Vocab \cup Unknown \subseteq Token
    BY DEF Token
  <2> HIDE DEF Token
  <2>2. Seq(Vocab \cup Unknown) \subseteq Seq(Token)
    BY <2>1, SeqMonotonic
  <2> QED
    BY <2>2, BatchAssumption, EmptySeq
<1>3. BatchTexts
  BY <1>1, <1>2 DEF BatchTexts
<1> QED
  BY <1>1, <1>3 DEF BatchInv, Fresh, RowTexts, RowsIndependent

\* llama_model_forward of a batch: a row is fed of its own tokens those that
\* count, whatever the other rows are fed.
LEMMA ForwardRows ==
  ASSUME NEW toks, NEW valid, Forward(toks, valid), bpc' = "step", NEW b \in Rows,
         NEW t \in Seq(Token), HoldsText(cache[b], t),
         toks[b] \in Seq(Token), valid[b] \in 0 .. Len(toks[b])
  PROVE  /\ HoldsText(cache'[b], t \o SubSeq(toks[b], 1, valid[b]))
         /\ valid[b] # 0 => outLogits'[b] = LogitsOf(t \o SubSeq(toks[b], 1, valid[b]))
<1>1. /\ ~Overflows(cache[b], valid[b])
      /\ cache'[b] = ForwardRow(cache[b], toks[b], valid[b])
      /\ outLogits'[b] = LogitsRow(cache[b], toks[b], valid[b])
  <2>1. ~\E c \in Rows : Overflows(cache[c], valid[c]) \/ ~Known(toks[c])
    BY DEF Forward
  <2>2. /\ cache' = [c \in Rows |-> ForwardRow(cache[c], toks[c], valid[c])]
        /\ outLogits' = [c \in Rows |-> LogitsRow(cache[c], toks[c], valid[c])]
    BY <2>1 DEF Forward
  <2> QED
    BY <2>1, <2>2
<1> DEFINE r == cache[b]
           k == toks[b]
           v == valid[b]
<1>2. k \in Seq(Token) /\ v \in 0 .. Len(k) /\ HoldsText(r, t) /\ ~Overflows(r, v)
  BY <1>1
<1>3. cache'[b] = ForwardRow(r, k, v) /\ outLogits'[b] = LogitsRow(r, k, v)
  BY <1>1
<1> HIDE DEF r, k, v
<1>4. HoldsText(ForwardRow(r, k, v), t \o SubSeq(k, 1, v))
  BY <1>2, ForwardText
<1>5. v # 0 => LogitsRow(r, k, v) = LogitsOf(t \o SubSeq(k, 1, v))
  BY <1>2, LogitsText
<1> QED
  BY <1>3, <1>4, <1>5 DEF k, v

\* The first forward feeds every row its own prompt without the padding.
LEMMA PrefillKeeps ==
  ASSUME BatchInv, Prefill
  PROVE  BatchInv'
<1> DEFINE toks == [b \in Rows |-> Padded(b)]
           valid == [b \in Rows |-> Len(prompt[b])]
<1>1. bpc = "start" /\ Forward(toks, valid) /\ prompt' = prompt /\ out' = out /\ done' = done
  BY DEF Prefill
<1>2. /\ \A b \in Rows : prompt[b] \in Seq(Token) /\ prompt[b] # <<>>
      /\ prompt \in [Rows -> Seq(Token)]
      /\ \A b \in Rows : cache[b] = NewRow /\ out[b] = <<>>
  BY <1>1 DEF BatchInv, BatchTexts, Fresh
<1>3. bpc' \in {"step", "dead"}
  BY <1>1 DEF Forward
<1>4. BatchTexts' /\ Fresh'
  BY <1>1, <1>3 DEF BatchInv, BatchTexts, Fresh
<1>5. ASSUME bpc' = "step", NEW b \in Rows
      PROVE  /\ HoldsText(cache'[b], prompt'[b] \o out'[b])
             /\ outLogits'[b] = LogitsOf(prompt'[b] \o out'[b])
  <2>1. HoldsText(cache[b], <<>>) /\ <<>> \in Seq(Token)
    BY <1>2, NewText, EmptySeq
  <2>2. /\ toks[b] \in Seq(Token) /\ valid[b] \in 0 .. Len(toks[b])
        /\ SubSeq(toks[b], 1, valid[b]) = prompt[b]
    BY <1>2, PaddedText
  <2>3. valid[b] # 0
    BY <1>2, EmptySeq
  <2>4. <<>> \o prompt[b] = prompt[b] /\ prompt[b] \o <<>> = prompt[b]
    BY <1>2, ConcatEmptySeq
  <2> HIDE DEF toks, valid
  <2>5. /\ HoldsText(cache'[b], <<>> \o SubSeq(toks[b], 1, valid[b]))
        /\ valid[b] # 0 => outLogits'[b] = LogitsOf(<<>> \o SubSeq(toks[b], 1, valid[b]))
    BY <1>1, <1>5, <2>1, <2>2, ForwardRows
  <2> QED
    BY <1>1, <1>2, <2>2, <2>3, <2>4, <2>5
<1>6. RowTexts' /\ RowsIndependent'
  BY <1>5 DEF RowTexts, RowsIndependent
<1> QED
  BY <1>4, <1>6 DEF BatchInv

\* One token more after two texts.
LEMMA OneMore ==
  ASSUME NEW T, NEW s \in Seq(T), NEW u \in Seq(T), NEW e \in T
  PROVE  s \o Append(u, e) = (s \o u) \o <<e>>
<1>1. Append(u, e) = u \o <<e>> /\ <<e>> \in Seq(T)
  BY AppendIsConcat
<1> DEFINE v == <<e>>
<1> HIDE DEF v
<1>2. (s \o u) \o v = s \o (u \o v)
  BY <1>1, ConcatAssociative DEF v
<1> QED
  BY <1>1, <1>2 DEF v

\* A step of the loop feeds a row its own token, or one that does not count.
LEMMA StepKeeps ==
  ASSUME BatchInv, NEW pick \in [Rows -> Vocab], Step(pick)
  PROVE  BatchInv'
<1> DEFINE ends(b) == done[b] \/ pick[b] \in Stops
           toks == [b \in Rows |-> <<IF ends(b) THEN Eos ELSE pick[b]>>]
           valid == [b \in Rows |-> IF ends(b) THEN 0 ELSE 1]
<1>1. /\ bpc = "step" /\ prompt' = prompt /\ Forward(toks, valid)
      /\ out' = [b \in Rows |-> IF ends(b) THEN out[b] ELSE Append(out[b], pick[b])]
      /\ done' = [b \in Rows |-> ends(b)]
  BY DEF Step
<1>2. /\ \A b \in Rows : prompt[b] \in Seq(Token) /\ out[b] \in Seq(Token)
      /\ \A b \in Rows : HoldsText(cache[b], prompt[b] \o out[b])
  BY <1>1 DEF BatchInv, BatchTexts, RowTexts
<1>3. bpc' \in {"step", "dead"}
  <2> HIDE DEF toks, valid
  <2> QED
    BY <1>1 DEF Forward
<1> HIDE DEF ends
<1>4. \A b \in Rows : pick[b] \in Token /\ Append(out[b], pick[b]) \in Seq(Token)
  <2>1. \A b \in Rows : pick[b] \in Token
    BY DEF Token
  <2> HIDE DEF Token
  <2> QED
    BY <1>2, <2>1, AppendProperties
<1>5. BatchTexts' /\ Fresh'
  <2>1. out' \in [Rows -> Seq(Token)]
    BY <1>1, <1>2, <1>4
  <2> QED
    BY <1>1, <1>3, <2>1 DEF BatchInv, BatchTexts, Fresh
<1>6. ASSUME bpc' = "step", NEW b \in Rows
      PROVE  /\ HoldsText(cache'[b], prompt'[b] \o out'[b])
             /\ ~done'[b] => outLogits'[b] = LogitsOf(prompt'[b] \o out'[b])
  <2> DEFINE t == prompt[b] \o out[b]
             x == IF ends(b) THEN Eos ELSE pick[b]
             v == IF ends(b) THEN 0 ELSE 1
  <2>1. t \in Seq(Token)
    BY <1>2, ConcatProperties
  <2>2. x \in Token
    BY DEF Token
  <2>3. toks[b] = <<x>> /\ valid[b] = v
    OBVIOUS
  <2> HIDE DEF toks, valid, x, Token
  <2>4. toks[b] \in Seq(Token) /\ valid[b] \in 0 .. Len(toks[b]) /\ Len(toks[b]) = 1
    BY <2>2, <2>3
  <2>5. HoldsText(cache[b], t)
    BY <1>2
  <2> HIDE DEF t
  <2>6. /\ HoldsText(cache'[b], t \o SubSeq(toks[b], 1, valid[b]))
        /\ valid[b] # 0 => outLogits'[b] = LogitsOf(t \o SubSeq(toks[b], 1, valid[b]))
    BY <1>1, <1>6, <2>1, <2>4, <2>5, ForwardRows
  <2>7. CASE ends(b)
    <3>1. out'[b] = out[b] /\ done'[b] /\ valid[b] = 0
      BY <1>1, <2>3, <2>7
    <3>2. SubSeq(toks[b], 1, 0) = <<>>
      BY SubSeqEmpty
    <3>3. t \o <<>> = t
      BY <2>1, ConcatEmptySeq
    <3> QED
      BY <1>1, <2>6, <3>1, <3>2, <3>3 DEF t
  <2>8. CASE ~ends(b)
    <3>1. out'[b] = Append(out[b], pick[b]) /\ valid[b] = 1 /\ x = pick[b]
      BY <1>1, <2>3, <2>8 DEF x
    <3>2. SubSeq(toks[b], 1, 1) = <<pick[b]>>
      <4>1. SubSeq(toks[b], 1, Len(toks[b])) = toks[b]
        BY <2>4, SubSeqFull
      <4> QED
        BY <2>3, <2>4, <3>1, <4>1
    <3>3. t \o <<pick[b]>> = prompt'[b] \o out'[b]
      <4>1. prompt[b] \in Seq(Token) /\ out[b] \in Seq(Token) /\ pick[b] \in Token
        BY <1>2, <1>4
      <4>2. \A p, o \in Seq(Token) : \A e \in Token : p \o Append(o, e) = (p \o o) \o <<e>>
        <5> TAKE p, o \in Seq(Token)
        <5> TAKE e \in Token
        <5> QED
          BY OneMore
      <4> QED
        BY <1>1, <3>1, <4>1, <4>2 DEF t
    <3>4. SubSeq(toks[b], 1, valid[b]) = <<pick[b]>> /\ valid[b] # 0
      BY <3>1, <3>2
    <3> QED
      BY <2>6, <3>3, <3>4, Zenon
  <2> QED
    BY <2>7, <2>8
<1>7. RowTexts' /\ RowsIndependent'
  BY <1>6 DEF RowTexts, RowsIndependent
<1> QED
  BY <1>5, <1>7 DEF BatchInv

\* Every step of the process keeps the invariant of the batch.
LEMMA BatchKeeps ==
  ASSUME BatchInv, [Next]_vars
  PROVE  BatchInv'
<1>1. ASSUME UNCHANGED batchVars PROVE BatchInv'
  BY <1>1 DEF batchVars, BatchInv, BatchTexts, Fresh, RowTexts, RowsIndependent
<1>2. CASE BatchStep
  <2>1. CASE Finish
    BY <2>1 DEF Finish, BatchInv, BatchTexts, Fresh, RowTexts, RowsIndependent
  <2> QED
    BY <1>2, <2>1, PrefillKeeps, StepKeeps DEF BatchStep, BatchNext
<1>3. CASE ChatStep \/ LoadStep
  BY <1>1, <1>3 DEF ChatStep, LoadStep
<1>4. CASE UNCHANGED vars
  BY <1>1, <1>4 DEF vars
<1> QED
  BY <1>2, <1>3, <1>4 DEF Next

\* However many prompts of whatever lengths, and whenever each of them ends:
\* a row is sampled from logits of its own prompt and its own reply.
THEOREM RowsApart == Spec => []RowsIndependent
<1>1. Init => BatchInv
  BY BatchBegins DEF Init
<1>2. BatchInv /\ [Next]_vars => BatchInv'
  BY BatchKeeps
<1>3. BatchInv => RowsIndependent
  BY DEF BatchInv
<1> QED
  BY <1>1, <1>2, <1>3, PTL DEF Spec

-----------------------------------------------------------------------------
(* The model file.                                                         *)

\* Of what a program allocates while it opens a file, loads and binds its
\* weights and builds a tokenizer, it frees each object once, none that it
\* still uses, and at the end all: of whatever file.
THEOREM Ownership == Spec => []OwnedOnce
<1>1. Init => LoadInv
  BY LoadBegins DEF Init
<1>2. [Next]_vars => [LoadNext]_loadVars
  BY DEF Next, ChatStep, BatchStep, LoadStep, vars
<1>3. LoadInv => OwnedOnce
  BY AccountBalances
<1> QED
  BY <1>1, <1>2, <1>3, LoadKeeps, PTL DEF Spec
-----------------------------------------------------------------------------
(* What is read of the model file is what was written to it.               *)

\* One piece after the other.
LEMMA StartsAre ==
  ASSUME NEW s \in Seq(Nat)
  PROVE  /\ Len(s) \in Nat
         /\ Starts(s)[1] = 0
         /\ \A i \in 1 .. Len(s) : Starts(s)[i + 1] = Starts(s)[i] + s[i]
         /\ \A i \in 1 .. Len(s) + 1 : Starts(s)[i] \in Nat
         /\ Ends(s) = Starts(s)[Len(s) + 1]
<1> DEFINE N == Len(s)
           Runs(f) == f = [i \in 1 .. Len(s) + 1 |-> IF i = 1 THEN 0 ELSE f[i - 1] + s[i - 1]]
           f == CHOOSE f : Runs(f)
           F == [p \in Nat \X (1 .. N) |-> p[1] + s[p[2]]]
<1>1. N \in Nat /\ \A i \in 1 .. N : s[i] \in Nat
  BY LenProperties, ElementOfSeq
<1>2. Starts(s) = f
  BY DEF Starts
<1> HIDE DEF N
<1>3. F \in [Nat \X (1 .. N) -> Nat]
  <2>1. \A e \in Nat, i \in 1 .. N : e + s[i] \in Nat
    BY <1>1
  <2> QED
    BY <2>1
<1>4. PICK g \in [0 .. N -> Nat] : Rounds(g, N, 0, F)
  <2> HIDE DEF F
  <2>1. 0 \in Nat
    OBVIOUS
  <2> QED
    BY <1>1, <1>3, <2>1, LoopRecursion
<1>5. g[0] = 0 /\ \A i \in 1 .. N : g[i] = g[i - 1] + s[i]
  <2>1. \A i \in 0 .. N : g[i] = IF i = 0 THEN 0 ELSE F[<<g[i - 1], i>>]
    <3> HIDE DEF F
    <3> QED
      BY <1>4 DEF Rounds
  <2>2. 0 \in 0 .. N
    BY <1>1
  <2>3. ASSUME NEW i \in 1 .. N PROVE g[i] = g[i - 1] + s[i]
    <3>1. i \in 0 .. N /\ i - 1 \in 0 .. N /\ i # 0
      BY <1>1
    <3>2. g[i - 1] \in Nat
      BY <3>1
    <3>3. F[<<g[i - 1], i>>] = g[i - 1] + s[i]
      BY <3>2
    <3> QED
      BY <2>1, <3>1, <3>3
  <2> QED
    BY <2>1, <2>2, <2>3
<1> DEFINE h == [i \in 1 .. Len(s) + 1 |-> g[i - 1]]
<1>6. Runs(h)
  <2> HIDE DEF F
  <2>1. ASSUME NEW i \in 1 .. Len(s) + 1
        PROVE  h[i] = IF i = 1 THEN 0 ELSE h[i - 1] + s[i - 1]
    <3>1. CASE i = 1
      BY <1>5, <3>1
    <3>2. CASE i # 1
      <4>1. i - 1 \in 1 .. N /\ i - 1 \in 1 .. Len(s) + 1 /\ i - 1 \in Int
        BY <1>1, <3>2 DEF N
      <4>2. h[i] = g[i - 1] /\ h[i - 1] = g[(i - 1) - 1]
        BY <4>1
      <4>3. g[i - 1] = g[(i - 1) - 1] + s[i - 1]
        BY <1>5, <4>1
      <4> QED
        BY <3>2, <4>2, <4>3
    <3> QED
      BY <3>1, <3>2
  <2>2. h = [i \in 1 .. Len(s) + 1 |-> h[i]]
    OBVIOUS
  <2> HIDE DEF h
  <2> QED
    BY <2>1, <2>2
<1>7. Runs(f)
  <2> HIDE DEF Runs, h
  <2> QED
    BY <1>6
<1> HIDE DEF f, h, F
<1>8. \A i \in 1 .. N + 1 : f[i] = IF i = 1 THEN 0 ELSE f[i - 1] + s[i - 1]
  BY <1>7 DEF N
<1>9. f[1] = 0 /\ \A i \in 1 .. N : f[i + 1] = f[i] + s[i]
  <2>1. 1 \in 1 .. N + 1
    BY <1>1
  <2>2. ASSUME NEW i \in 1 .. N PROVE f[i + 1] = f[i] + s[i]
    <3>1. i + 1 \in 1 .. N + 1 /\ i + 1 # 1 /\ (i + 1) - 1 = i
      BY <1>1
    <3> QED
      BY <1>8, <3>1
  <2> QED
    BY <1>8, <2>1, <2>2
<1> DEFINE T == {n \in 0 .. N : f[n + 1] \in Nat}
<1>10. 0 .. N \subseteq T
  <2>1. 0 \in T
    BY <1>1, <1>9
  <2>2. ASSUME NEW n \in 1 .. N, n - 1 \in T PROVE n \in T
    <3>1. (n - 1) + 1 = n /\ n \in 0 .. N
      BY <1>1
    <3>2. f[n] \in Nat /\ s[n] \in Nat /\ f[n + 1] = f[n] + s[n]
      BY <1>1, <1>9, <2>2, <3>1
    <3> QED
      BY <3>1, <3>2
  <2> HIDE DEF T
  <2> QED
    BY <1>1, <2>1, <2>2, LoopInduction
<1>11. \A i \in 1 .. N + 1 : f[i] \in Nat
  <2> SUFFICES ASSUME NEW i \in 1 .. N + 1 PROVE f[i] \in Nat
    OBVIOUS
  <2>1. i - 1 \in 0 .. N /\ (i - 1) + 1 = i
    BY <1>1
  <2> QED
    BY <1>10, <2>1
<1> QED
  BY <1>1, <1>2, <1>9, <1>11 DEF N, Ends

\* The bytes of fields, and where each of them is.
Sizes(p) == [k \in DOMAIN p |-> p[k][2]]
StartOf(p, k) == Starts(Sizes(p))[k]
SizeOf(p) == Ends(Sizes(p))
Places(p, from) == {<<from + StartOf(p, k), p[k][2], p[k][1]>> : k \in DOMAIN p}

\* A list of fields, where nothing without bytes comes first or after another.
FieldList(p) ==
  /\ IsList(p)
  /\ \A k \in DOMAIN p : p[k][2] \in Nat /\ (p[k][2] = 0 => k > 1 /\ p[k - 1][2] > 0)

LEMMA FieldStarts ==
  ASSUME NEW p, FieldList(p)
  PROVE  /\ Len(p) \in Nat /\ DOMAIN p = 1 .. Len(p)
         /\ StartOf(p, 1) = 0 /\ SizeOf(p) = StartOf(p, Len(p) + 1) /\ SizeOf(p) \in Nat
         /\ \A k \in 1 .. Len(p) : StartOf(p, k + 1) = StartOf(p, k) + p[k][2]
         /\ \A k \in 1 .. Len(p) + 1 : StartOf(p, k) \in Nat
<1>1. Len(p) \in Nat /\ DOMAIN p = 1 .. Len(p)
  BY LenProperties DEF FieldList, IsList
<1>2. Sizes(p) \in Seq(Nat) /\ Len(Sizes(p)) = Len(p)
  <2>1. Sizes(p) \in [1 .. Len(p) -> Nat]
    BY <1>1 DEF Sizes, FieldList
  <2> QED
    BY <1>1, <2>1, SeqDef, LenProperties
<1> DEFINE s == Sizes(p)
<1>3. \A k \in 1 .. Len(p) : s[k] = p[k][2]
  BY <1>1 DEF Sizes
<1> HIDE DEF s
<1>4. /\ Starts(s)[1] = 0 /\ Ends(s) = Starts(s)[Len(s) + 1] /\ Len(s) = Len(p)
      /\ \A i \in 1 .. Len(s) : Starts(s)[i + 1] = Starts(s)[i] + s[i]
      /\ \A i \in 1 .. Len(s) + 1 : Starts(s)[i] \in Nat
  BY <1>2, StartsAre DEF s
<1>5. Len(p) + 1 \in 1 .. Len(p) + 1
  BY <1>1
<1> QED
  BY <1>1, <1>3, <1>4, <1>5 DEF StartOf, SizeOf, s

\* A piece begins where an earlier one has ended, or after that.
LEMMA LaterPiece ==
  ASSUME NEW s \in Seq(Nat), NEW j \in 1 .. Len(s), NEW k \in 1 .. Len(s) + 1, j < k
  PROVE  Starts(s)[j] + s[j] <= Starts(s)[k]
<1> DEFINE N == Len(s)
           T == {n \in 0 .. N : j <= n => Starts(s)[j] + s[j] <= Starts(s)[n + 1]}
<1>1. /\ N \in Nat
      /\ \A i \in 1 .. N : Starts(s)[i + 1] = Starts(s)[i] + s[i]
      /\ \A i \in 1 .. N + 1 : Starts(s)[i] \in Nat
  BY StartsAre
<1>2. \A i \in 1 .. N : s[i] \in Nat
  BY ElementOfSeq
<1>3. 0 \in T
  BY <1>1
<1>4. ASSUME NEW n \in 1 .. N, n - 1 \in T PROVE n \in T
  <2>1. n \in 0 .. N /\ n \in 1 .. N + 1 /\ (n - 1) + 1 = n
    BY <1>1
  <2>2. Starts(s)[n + 1] = Starts(s)[n] + s[n] /\ Starts(s)[n] \in Nat /\ s[n] \in Nat
    BY <1>1, <1>2, <2>1
  <2>3. CASE j = n
    BY <2>1, <2>2, <2>3
  <2>4. CASE j # n /\ j <= n
    <3>1. j <= n - 1
      BY <2>4, <1>1
    <3>2. Starts(s)[j] + s[j] <= Starts(s)[n]
      BY <1>4, <2>1, <3>1
    <3>3. j \in 1 .. N + 1
      BY <1>1
    <3>4. Starts(s)[j] \in Nat /\ s[j] \in Nat
      BY <1>1, <1>2, <3>3
    <3>5. \A x \in Nat, y \in Nat, z \in Nat : x <= y => x <= y + z
      OBVIOUS
    <3>6. Starts(s)[j] + s[j] \in Nat
      BY <3>4
    <3>7. Starts(s)[j] + s[j] <= Starts(s)[n + 1]
      <4> DEFINE x == Starts(s)[j] + s[j]
      <4> HIDE DEF x
      <4>1. x \in Nat /\ x <= Starts(s)[n]
        BY <3>2, <3>6 DEF x
      <4>2. x <= Starts(s)[n] + s[n]
        BY <2>2, <3>5, <4>1
      <4> QED
        BY <2>2, <4>2 DEF x
    <3> QED
      BY <2>1, <3>7
  <2>5. CASE ~(j <= n)
    BY <2>1, <2>5
  <2> QED
    BY <2>3, <2>4, <2>5
<1>5. 0 .. N \subseteq T
  <2> HIDE DEF T, N
  <2> QED
    BY <1>1, <1>3, <1>4, LoopInduction
<1>6. k - 1 \in 0 .. N /\ j <= k - 1 /\ (k - 1) + 1 = k
  BY <1>1
<1>7. k - 1 \in T
  BY <1>5, <1>6
<1> QED
  BY <1>6, <1>7

\* The bytes of the fields of a list.
LEMMA FieldSizes ==
  ASSUME NEW p, FieldList(p)
  PROVE  Sizes(p) \in Seq(Nat) /\ Len(Sizes(p)) = Len(p) /\ \A k \in 1 .. Len(p) : Sizes(p)[k] = p[k][2]
<1>1. Len(p) \in Nat /\ DOMAIN p = 1 .. Len(p)
  BY LenProperties DEF FieldList, IsList
<1>2. Sizes(p) \in [1 .. Len(p) -> Nat]
  BY <1>1 DEF Sizes, FieldList
<1>3. Sizes(p) \in Seq(Nat) /\ Len(Sizes(p)) = Len(p)
  BY <1>1, <1>2, SeqDef, LenProperties
<1> QED
  BY <1>1, <1>3 DEF Sizes

\* So do fields.
LEMMA LaterField ==
  ASSUME NEW p, FieldList(p), NEW j \in 1 .. Len(p), NEW k \in 1 .. Len(p) + 1, j < k
  PROVE  StartOf(p, j) + p[j][2] <= StartOf(p, k)
<1>1. /\ Sizes(p) \in Seq(Nat) /\ Len(Sizes(p)) = Len(p)
      /\ Sizes(p)[j] = p[j][2]
  BY FieldSizes
<1>2. Starts(Sizes(p))[j] + Sizes(p)[j] <= Starts(Sizes(p))[k]
  BY <1>1, LaterPiece
<1> QED
  BY <1>1, <1>2 DEF StartOf

\* A field is in its list; one without bytes does not begin it.
LEMMA FieldInside ==
  ASSUME NEW p, FieldList(p), NEW k \in 1 .. Len(p)
  PROVE  /\ StartOf(p, k) \in Nat /\ p[k][2] \in Nat
         /\ StartOf(p, k) + p[k][2] <= SizeOf(p)
         /\ p[k][2] = 0 => StartOf(p, k) > 0
<1>1. /\ Len(p) \in Nat /\ DOMAIN p = 1 .. Len(p) /\ SizeOf(p) = StartOf(p, Len(p) + 1)
      /\ \A i \in 1 .. Len(p) : StartOf(p, i + 1) = StartOf(p, i) + p[i][2]
      /\ \A i \in 1 .. Len(p) + 1 : StartOf(p, i) \in Nat
  BY FieldStarts
<1>2. k \in 1 .. Len(p) + 1 /\ Len(p) + 1 \in 1 .. Len(p) + 1 /\ k < Len(p) + 1
  BY <1>1
<1>3. StartOf(p, k) \in Nat /\ p[k][2] \in Nat
  BY <1>1, <1>2 DEF FieldList
<1>4. StartOf(p, k) + p[k][2] <= SizeOf(p)
  BY <1>1, <1>2, LaterField
<1>5. ASSUME p[k][2] = 0 PROVE StartOf(p, k) > 0
  <2>1. k > 1 /\ p[k - 1][2] > 0
    BY <1>1, <1>5 DEF FieldList
  <2>2. k - 1 \in 1 .. Len(p) /\ k - 1 \in 1 .. Len(p) + 1 /\ (k - 1) + 1 = k
    BY <1>1, <2>1
  <2>3. StartOf(p, k) = StartOf(p, k - 1) + p[k - 1][2] /\ StartOf(p, k - 1) \in Nat
    BY <1>1, <2>2
  <2>4. p[k - 1][2] \in Nat
    BY <1>1, <2>2 DEF FieldList
  <2> QED
    BY <2>1, <2>3, <2>4
<1> QED
  BY <1>3, <1>4, <1>5

\* A place and a width are those of one field of a list.
LEMMA OnePlace ==
  ASSUME NEW p, FieldList(p), NEW j \in 1 .. Len(p), NEW k \in 1 .. Len(p),
         StartOf(p, j) = StartOf(p, k), p[j][2] = p[k][2]
  PROVE  j = k
<1>0. Len(p) \in Nat /\ DOMAIN p = 1 .. Len(p)
  BY FieldStarts
<1>1. ASSUME NEW a \in 1 .. Len(p), NEW b \in 1 .. Len(p), a < b,
             StartOf(p, a) = StartOf(p, b), p[a][2] = p[b][2]
      PROVE  FALSE
  <2>1. b \in 1 .. Len(p) + 1
    BY <1>0
  <2>2. StartOf(p, a) + p[a][2] <= StartOf(p, b)
    BY <1>1, <2>1, LaterField
  <2>3. StartOf(p, a) \in Nat /\ p[a][2] \in Nat
    BY FieldInside
  <2>4. p[a][2] = 0
    BY <1>1, <2>2, <2>3
  <2>5. p[b][2] = 0 /\ b > 1 /\ p[b - 1][2] > 0
    BY <1>0, <1>1, <2>4 DEF FieldList
  <2>6. b - 1 \in 1 .. Len(p) /\ b - 1 \in 1 .. Len(p) + 1 /\ b - 1 < b
    BY <1>0, <2>5
  <2>7. a # b - 1
    BY <2>4, <2>5
  <2>8. a < b - 1
    BY <1>1, <2>6, <2>7
  <2>9. StartOf(p, a) + p[a][2] <= StartOf(p, b - 1)
    BY <2>6, <2>8, LaterField
  <2>10. StartOf(p, b - 1) + p[b - 1][2] <= StartOf(p, b)
    BY <2>1, <2>6, LaterField
  <2>11. StartOf(p, b - 1) \in Nat /\ p[b - 1][2] \in Nat
    BY <2>6, FieldInside
  <2> QED
    BY <1>1, <2>3, <2>4, <2>5, <2>9, <2>10, <2>11
<1>2. j \in Int /\ k \in Int
  OBVIOUS
<1>3. ~(j < k) /\ ~(k < j)
  BY <1>1
<1> QED
  BY <1>2, <1>3

\* A sequence over a set is a list.
LEMMA KnownList ==
  ASSUME NEW S, NEW s \in Seq(S)
  PROVE  IsList(s)
<1>1. s \in Seq(Range(s))
  BY SeqOfRange
<1>2. Range(s) = {s[i] : i \in DOMAIN s}
  BY DEF Range
<1> QED
  BY <1>1, <1>2 DEF IsList

\* Two lists with the same elements.
LEMMA SameLists ==
  ASSUME NEW s, IsList(s), NEW t, IsList(t), Len(s) = Len(t), \A i \in 1 .. Len(s) : s[i] = t[i]
  PROVE  s = t
<1> DEFINE S == {s[i] : i \in DOMAIN s}
           T == {t[i] : i \in DOMAIN t}
           U == S \cup T
<1>1. s \in Seq(S) /\ t \in Seq(T)
  BY DEF IsList
<1> HIDE DEF S, T
<1>2. s \in Seq(U) /\ t \in Seq(U)
  BY <1>1, SeqMonotonic
<1> HIDE DEF U
<1> QED
  BY <1>2, SeqEqual

\* r is the list s and after it the list t.
Follows(r, s, t) ==
  /\ IsList(r) /\ Len(s) \in Nat /\ Len(t) \in Nat
  /\ DOMAIN s = 1 .. Len(s) /\ DOMAIN t = 1 .. Len(t)
  /\ DOMAIN r = 1 .. Len(s) + Len(t) /\ Len(r) = Len(s) + Len(t)
  /\ \A i \in 1 .. Len(s) : r[i] = s[i]
  /\ \A i \in 1 .. Len(t) : r[Len(s) + i] = t[i]

LEMMA JoinLists ==
  ASSUME NEW s, IsList(s), NEW t, IsList(t)
  PROVE  Follows(s \o t, s, t)
<1> DEFINE S == {s[i] : i \in DOMAIN s}
           T == {t[i] : i \in DOMAIN t}
           U == S \cup T
           u == s \o t
<1>1. s \in Seq(S) /\ t \in Seq(T)
  BY DEF IsList
<1> HIDE DEF S, T
<1>2. s \in Seq(U) /\ t \in Seq(U)
  BY <1>1, SeqMonotonic
<1> HIDE DEF U
<1>3. /\ Len(s) \in Nat /\ Len(t) \in Nat /\ DOMAIN s = 1 .. Len(s) /\ DOMAIN t = 1 .. Len(t)
  BY <1>2, LenProperties
<1>4. /\ u \in Seq(U) /\ Len(u) = Len(s) + Len(t)
      /\ \A i \in 1 .. Len(u) : u[i] = IF i <= Len(s) THEN s[i] ELSE t[i - Len(s)]
  BY <1>2, ConcatProperties
<1> HIDE DEF u
<1>5. DOMAIN u = 1 .. Len(s) + Len(t)
  BY <1>4, LenProperties
<1>6. \A i \in 1 .. Len(s) : u[i] = s[i]
  <2> SUFFICES ASSUME NEW i \in 1 .. Len(s) PROVE u[i] = s[i]
    OBVIOUS
  <2>1. i \in 1 .. Len(u) /\ i <= Len(s)
    BY <1>3, <1>4
  <2> QED
    BY <1>4, <2>1
<1>7. \A i \in 1 .. Len(t) : u[Len(s) + i] = t[i]
  <2> SUFFICES ASSUME NEW i \in 1 .. Len(t) PROVE u[Len(s) + i] = t[i]
    OBVIOUS
  <2>1. Len(s) + i \in 1 .. Len(u) /\ ~(Len(s) + i <= Len(s)) /\ (Len(s) + i) - Len(s) = i
    BY <1>3, <1>4
  <2> QED
    BY <1>4, <2>1
<1>8. IsList(u)
  <2>1. u \in Seq(Range(u))
    BY <1>4, SeqOfRange
  <2>2. Range(u) = {u[i] : i \in DOMAIN u}
    BY DEF Range
  <2> QED
    BY <2>1, <2>2 DEF IsList
<1> QED
  BY <1>3, <1>4, <1>5, <1>6, <1>7, <1>8 DEF u, Follows

\* Fields one after the other.
FieldsFollow(r, p, q) ==
  /\ FieldList(r) /\ SizeOf(r) = SizeOf(p) + SizeOf(q)
  /\ \A from \in Nat : Places(r, from) = Places(p, from) \cup Places(q, from + SizeOf(p))

LEMMA JoinFields ==
  ASSUME NEW p, FieldList(p), NEW q, FieldList(q)
  PROVE  FieldsFollow(p \o q, p, q)
<1> DEFINE r == p \o q
           m == Len(p)
           n == Len(q)
<1>1. /\ IsList(r) /\ m \in Nat /\ n \in Nat /\ DOMAIN p = 1 .. m /\ DOMAIN q = 1 .. n
      /\ DOMAIN r = 1 .. m + n /\ Len(r) = m + n
      /\ \A i \in 1 .. m : r[i] = p[i]
      /\ \A i \in 1 .. n : r[m + i] = q[i]
  <2>1. Follows(r, p, q)
    BY JoinLists DEF FieldList
  <2> HIDE DEF r
  <2> QED
    BY <2>1 DEF Follows
<1> HIDE DEF r
<1>2. \A k \in 1 .. m + n : k \in 1 .. m \/ (k - m \in 1 .. n /\ k = m + (k - m))
  BY <1>1
<1>3. FieldList(r)
  <2> SUFFICES ASSUME NEW k \in 1 .. m + n
               PROVE  r[k][2] \in Nat /\ (r[k][2] = 0 => k > 1 /\ r[k - 1][2] > 0)
    BY <1>1 DEF FieldList
  <2>1. CASE k \in 1 .. m
    <3>1. r[k] = p[k] /\ p[k][2] \in Nat /\ (p[k][2] = 0 => k > 1 /\ p[k - 1][2] > 0)
      BY <1>1, <2>1 DEF FieldList
    <3>2. k > 1 => k - 1 \in 1 .. m
      BY <1>1, <2>1
    <3>3. k > 1 => r[k - 1] = p[k - 1]
      BY <1>1, <3>2
    <3> QED
      BY <3>1, <3>3
  <2>2. ASSUME NEW i \in 1 .. n, k = m + i
        PROVE  r[k][2] \in Nat /\ (r[k][2] = 0 => k > 1 /\ r[k - 1][2] > 0)
    <3>1. r[k] = q[i] /\ q[i][2] \in Nat /\ (q[i][2] = 0 => i > 1 /\ q[i - 1][2] > 0)
      BY <1>1, <2>2 DEF FieldList
    <3>2. i > 1 => i - 1 \in 1 .. n /\ m + (i - 1) = k - 1 /\ k > 1
      BY <1>1, <2>2
    <3>3. i > 1 => r[k - 1] = q[i - 1]
      BY <1>1, <3>2
    <3> QED
      BY <3>1, <3>2, <3>3
  <2> QED
    BY <1>2, <2>1, <2>2
<1>4. /\ StartOf(p, 1) = 0 /\ SizeOf(p) = StartOf(p, m + 1) /\ SizeOf(p) \in Nat
      /\ \A k \in 1 .. m : StartOf(p, k + 1) = StartOf(p, k) + p[k][2]
      /\ \A k \in 1 .. m + 1 : StartOf(p, k) \in Nat
  BY FieldStarts
<1>5. /\ StartOf(q, 1) = 0 /\ SizeOf(q) = StartOf(q, n + 1) /\ SizeOf(q) \in Nat
      /\ \A k \in 1 .. n : StartOf(q, k + 1) = StartOf(q, k) + q[k][2]
      /\ \A k \in 1 .. n + 1 : StartOf(q, k) \in Nat
  BY FieldStarts
<1>6. /\ StartOf(r, 1) = 0 /\ SizeOf(r) = StartOf(r, (m + n) + 1)
      /\ \A k \in 1 .. m + n : StartOf(r, k + 1) = StartOf(r, k) + r[k][2]
  BY <1>1, <1>3, FieldStarts
<1> HIDE DEF m, n
<1> DEFINE T == {k \in 0 .. m : StartOf(r, k + 1) = StartOf(p, k + 1)}
<1>7. 0 .. m \subseteq T
  <2>1. 0 \in T
    BY <1>1, <1>4, <1>6
  <2>2. ASSUME NEW k \in 1 .. m, k - 1 \in T PROVE k \in T
    <3>1. k \in 1 .. m + n /\ (k - 1) + 1 = k /\ k \in 0 .. m
      BY <1>1
    <3>2. StartOf(r, k) = StartOf(p, k) /\ r[k] = p[k]
      BY <1>1, <2>2, <3>1
    <3>3. StartOf(r, k + 1) = StartOf(p, k + 1)
      BY <1>4, <1>6, <3>1, <3>2
    <3> QED
      BY <3>1, <3>3
  <2> HIDE DEF T
  <2> QED
    BY <1>1, <2>1, <2>2, LoopInduction
<1> DEFINE U == {k \in 0 .. n : StartOf(r, m + (k + 1)) = SizeOf(p) + StartOf(q, k + 1)}
<1>8. 0 .. n \subseteq U
  <2>1. 0 \in U
    <3>1. m \in T
      BY <1>1, <1>7
    <3>2. StartOf(r, m + 1) = SizeOf(p)
      BY <1>4, <3>1
    <3>3. 0 \in 0 .. n /\ 0 + 1 = 1 /\ SizeOf(p) + 0 = SizeOf(p)
      BY <1>1, <1>4
    <3> QED
      BY <1>5, <3>2, <3>3
  <2>2. ASSUME NEW k \in 1 .. n, k - 1 \in U PROVE k \in U
    <3>0. m \in Nat /\ n \in Nat
      BY <1>1
    <3>1. /\ m + k \in 1 .. m + n /\ (k - 1) + 1 = k /\ k \in 0 .. n /\ (m + k) + 1 = m + (k + 1)
          /\ k \in 1 .. n + 1 /\ k + 1 \in 1 .. n + 1
      BY <3>0
    <3>2. StartOf(r, m + k) = SizeOf(p) + StartOf(q, k) /\ r[m + k] = q[k]
      BY <1>1, <2>2, <3>1
    <3>3. StartOf(r, m + (k + 1)) = StartOf(r, m + k) + q[k][2]
      BY <1>6, <3>1, <3>2
    <3>4. StartOf(q, k + 1) = StartOf(q, k) + q[k][2] /\ StartOf(q, k) \in Nat /\ q[k][2] \in Nat
      BY <1>1, <1>5, <3>1 DEF FieldList
    <3>6. SizeOf(p) \in Nat
      BY <1>4
    <3>5. StartOf(r, m + (k + 1)) = SizeOf(p) + StartOf(q, k + 1)
      BY <3>2, <3>3, <3>4, <3>6
    <3> QED
      BY <3>1, <3>5
  <2> HIDE DEF U
  <2> QED
    BY <1>1, <2>1, <2>2, LoopInduction
<1>9. \A k \in 1 .. m : StartOf(r, k) = StartOf(p, k)
  <2> SUFFICES ASSUME NEW k \in 1 .. m PROVE StartOf(r, k) = StartOf(p, k)
    OBVIOUS
  <2>1. k - 1 \in 0 .. m /\ (k - 1) + 1 = k
    BY <1>1
  <2> QED
    BY <1>7, <2>1
<1>10. \A k \in 1 .. n : StartOf(r, m + k) = SizeOf(p) + StartOf(q, k)
  <2> SUFFICES ASSUME NEW k \in 1 .. n PROVE StartOf(r, m + k) = SizeOf(p) + StartOf(q, k)
    OBVIOUS
  <2>1. k - 1 \in 0 .. n /\ (k - 1) + 1 = k
    BY <1>1
  <2> QED
    BY <1>8, <2>1
<1>11. SizeOf(r) = SizeOf(p) + SizeOf(q)
  <2>1. n \in U /\ m + (n + 1) = (m + n) + 1
    BY <1>1, <1>8
  <2> QED
    BY <1>5, <1>6, <2>1
<1> HIDE DEF T, U
<1>12. ASSUME NEW from \in Nat
       PROVE  Places(r, from) = Places(p, from) \cup Places(q, from + SizeOf(p))
  <2> DEFINE at(k) == <<from + StartOf(r, k), r[k][2], r[k][1]>>
             inP(k) == <<from + StartOf(p, k), p[k][2], p[k][1]>>
             inQ(k) == <<(from + SizeOf(p)) + StartOf(q, k), q[k][2], q[k][1]>>
  <2>1. \A k \in 1 .. m : at(k) = inP(k)
    BY <1>1, <1>9
  <2>2. \A k \in 1 .. n : at(m + k) = inQ(k)
    <3> SUFFICES ASSUME NEW k \in 1 .. n PROVE at(m + k) = inQ(k)
      OBVIOUS
    <3>1. StartOf(r, m + k) = SizeOf(p) + StartOf(q, k) /\ r[m + k] = q[k]
      BY <1>1, <1>10
    <3>2. k \in 1 .. n + 1
      BY <1>1
    <3>3. StartOf(q, k) \in Nat
      BY <1>5, <3>2
    <3>4. from + StartOf(r, m + k) = (from + SizeOf(p)) + StartOf(q, k)
      BY <1>4, <3>1, <3>3
    <3> QED
      BY <3>1, <3>4
  <2>3. /\ Places(r, from) = {at(k) : k \in 1 .. m + n}
        /\ Places(p, from) = {inP(k) : k \in 1 .. m}
        /\ Places(q, from + SizeOf(p)) = {inQ(k) : k \in 1 .. n}
    BY <1>1 DEF Places
  <2>4. \A k \in 1 .. m : k \in 1 .. m + n
    BY <1>1
  <2>5. \A k \in 1 .. n : m + k \in 1 .. m + n
    BY <1>1
  <2> HIDE DEF at, inP, inQ
  <2>6. {at(k) : k \in 1 .. m + n} = {inP(k) : k \in 1 .. m} \cup {inQ(k) : k \in 1 .. n}
    <3>1. ASSUME NEW k \in 1 .. m + n
          PROVE  at(k) \in {inP(j) : j \in 1 .. m} \cup {inQ(j) : j \in 1 .. n}
      BY <1>2, <2>1, <2>2
    <3>2. ASSUME NEW k \in 1 .. m PROVE inP(k) \in {at(j) : j \in 1 .. m + n}
      BY <2>1, <2>4
    <3>3. ASSUME NEW k \in 1 .. n PROVE inQ(k) \in {at(j) : j \in 1 .. m + n}
      BY <2>2, <2>5
    <3> QED
      BY <3>1, <3>2, <3>3
  <2> QED
    BY <2>3, <2>6
<1> QED
  BY <1>3, <1>11, <1>12 DEF r, FieldsFollow

\* Lists of fields one after the other: the bytes of each, and where it is.
FieldLists(ss) == IsList(ss) /\ \A i \in DOMAIN ss : FieldList(ss[i])
Bytes(ss) == [i \in DOMAIN ss |-> SizeOf(ss[i])]
ListAt(ss, i) == Starts(Bytes(ss))[i]
PlacesOf(ss, from) == UNION {Places(ss[i], from + ListAt(ss, i)) : i \in DOMAIN ss}

LEMMA ListStarts ==
  ASSUME NEW ss, FieldLists(ss)
  PROVE  /\ Len(ss) \in Nat /\ DOMAIN ss = 1 .. Len(ss)
         /\ Bytes(ss) \in Seq(Nat) /\ Len(Bytes(ss)) = Len(ss)
         /\ ListAt(ss, 1) = 0 /\ Ends(Bytes(ss)) = ListAt(ss, Len(ss) + 1)
         /\ \A i \in 1 .. Len(ss) : SizeOf(ss[i]) \in Nat /\ Bytes(ss)[i] = SizeOf(ss[i])
         /\ \A i \in 1 .. Len(ss) : ListAt(ss, i + 1) = ListAt(ss, i) + SizeOf(ss[i])
         /\ \A i \in 1 .. Len(ss) + 1 : ListAt(ss, i) \in Nat
<1> DEFINE s == Bytes(ss)
<1>1. Len(ss) \in Nat /\ DOMAIN ss = 1 .. Len(ss)
  BY LenProperties DEF FieldLists, IsList
<1>2. \A i \in 1 .. Len(ss) : SizeOf(ss[i]) \in Nat
  <2> SUFFICES ASSUME NEW i \in 1 .. Len(ss) PROVE SizeOf(ss[i]) \in Nat
    OBVIOUS
  <2>1. FieldList(ss[i])
    BY <1>1 DEF FieldLists
  <2> QED
    BY <2>1, FieldStarts
<1>3. s \in [1 .. Len(ss) -> Nat] /\ \A i \in 1 .. Len(ss) : s[i] = SizeOf(ss[i])
  BY <1>1, <1>2 DEF Bytes
<1>4. s \in Seq(Nat) /\ Len(s) = Len(ss)
  <2> HIDE DEF s
  <2> QED
    BY <1>1, <1>3, SeqDef, LenProperties
<1> HIDE DEF s
<1>5. /\ Starts(s)[1] = 0 /\ Ends(s) = Starts(s)[Len(s) + 1]
      /\ \A i \in 1 .. Len(s) : Starts(s)[i + 1] = Starts(s)[i] + s[i]
      /\ \A i \in 1 .. Len(s) + 1 : Starts(s)[i] \in Nat
  BY <1>4, StartsAre
<1> QED
  BY <1>1, <1>2, <1>3, <1>4, <1>5 DEF ListAt, s

\* A field of a list is between its ends.
LEMMA FieldAmong ==
  ASSUME NEW ss, FieldLists(ss), NEW i \in 1 .. Len(ss), NEW a \in Places(ss[i], 0 + ListAt(ss, i))
  PROVE  \E k \in 1 .. Len(ss[i]) :
           /\ a = <<ListAt(ss, i) + StartOf(ss[i], k), ss[i][k][2], ss[i][k][1]>>
           /\ a[1] \in Nat /\ a[2] \in Nat
           /\ ListAt(ss, i) <= a[1] /\ a[1] + a[2] <= ListAt(ss, i + 1)
           /\ a[2] = 0 => ListAt(ss, i) < a[1]
<1> DEFINE p == ss[i]
           at == ListAt(ss, i)
<1>1. FieldList(p) /\ at \in Nat /\ ListAt(ss, i + 1) = at + SizeOf(p) /\ SizeOf(p) \in Nat
  <2>1. Len(ss) \in Nat /\ DOMAIN ss = 1 .. Len(ss)
    BY ListStarts
  <2>2. i \in 1 .. Len(ss) + 1
    BY <2>1
  <2> QED
    BY <2>1, <2>2, ListStarts DEF FieldLists
<1> HIDE DEF p, at
<1>2. DOMAIN p = 1 .. Len(p)
  BY <1>1, FieldStarts
<1>3. PICK k \in 1 .. Len(p) : a = <<(0 + at) + StartOf(p, k), p[k][2], p[k][1]>>
  BY <1>2 DEF Places, p, at
<1>4. /\ StartOf(p, k) \in Nat /\ p[k][2] \in Nat
      /\ StartOf(p, k) + p[k][2] <= SizeOf(p)
      /\ p[k][2] = 0 => StartOf(p, k) > 0
  BY <1>1, FieldInside
<1>5. a = <<at + StartOf(p, k), p[k][2], p[k][1]>> /\ a[1] = at + StartOf(p, k) /\ a[2] = p[k][2]
  <2>1. (0 + at) + StartOf(p, k) = at + StartOf(p, k)
    BY <1>1, <1>4
  <2> QED
    BY <1>3, <2>1
<1>6. /\ a[1] \in Nat /\ a[2] \in Nat
      /\ at <= a[1] /\ a[1] + a[2] <= ListAt(ss, i + 1)
      /\ a[2] = 0 => at < a[1]
  <2>1. \A x, y, z, w \in Nat :
          /\ x + y \in Nat /\ x <= x + y
          /\ y + z <= w => (x + y) + z <= x + w
          /\ y > 0 => x < x + y
    OBVIOUS
  <2>2. at \in Nat /\ SizeOf(p) \in Nat /\ ListAt(ss, i + 1) = at + SizeOf(p)
    BY <1>1
  <2>3. a[1] = at + StartOf(p, k) /\ a[2] = p[k][2]
    BY <1>5
  <2>4. at + StartOf(p, k) \in Nat /\ at <= at + StartOf(p, k)
    BY <1>4, <2>1, <2>2
  <2>5. (at + StartOf(p, k)) + p[k][2] <= at + SizeOf(p)
    BY <1>4, <2>1, <2>2
  <2>6. p[k][2] = 0 => at < at + StartOf(p, k)
    BY <1>4, <2>1, <2>2
  <2> QED
    BY <1>4, <2>2, <2>3, <2>4, <2>5, <2>6
<1> QED
  BY <1>5, <1>6 DEF p, at

\* Of two fields of one place and one width there is one value.
OneValue(s) == \A a \in s, b \in s : a[1] = b[1] /\ a[2] = b[2] => a[3] = b[3]

LEMMA OneField ==
  ASSUME NEW ss, FieldLists(ss)
  PROVE  OneValue(PlacesOf(ss, 0))
<1> DEFINE In(i) == Places(ss[i], 0 + ListAt(ss, i))
<1>0. Len(ss) \in Nat /\ DOMAIN ss = 1 .. Len(ss)
  BY ListStarts
<1>1. ASSUME NEW i \in 1 .. Len(ss), NEW j \in 1 .. Len(ss), NEW a \in In(i), NEW b \in In(j),
             i < j, a[1] = b[1], a[2] = b[2]
      PROVE  FALSE
  <2>1. /\ a[1] \in Nat /\ a[2] \in Nat
        /\ a[1] + a[2] <= ListAt(ss, i + 1)
    BY FieldAmong
  <2>2. b[1] \in Nat /\ ListAt(ss, j) <= b[1] /\ (b[2] = 0 => ListAt(ss, j) < b[1])
    BY FieldAmong
  <2>3. ListAt(ss, i + 1) <= ListAt(ss, j)
    <3>1. /\ Bytes(ss) \in Seq(Nat) /\ Len(Bytes(ss)) = Len(ss)
          /\ Bytes(ss)[i] = SizeOf(ss[i]) /\ ListAt(ss, i + 1) = ListAt(ss, i) + SizeOf(ss[i])
      BY ListStarts
    <3>2. j \in 1 .. Len(ss) + 1
      BY <1>0
    <3>3. Starts(Bytes(ss))[i] + Bytes(ss)[i] <= Starts(Bytes(ss))[j]
      BY <1>1, <3>1, <3>2, LaterPiece
    <3> QED
      BY <3>1, <3>3 DEF ListAt
  <2>4. ListAt(ss, i + 1) \in Nat /\ ListAt(ss, j) \in Nat
    <3>1. i + 1 \in 1 .. Len(ss) + 1 /\ j \in 1 .. Len(ss) + 1
      BY <1>0
    <3> QED
      BY <3>1, ListStarts
  <2> QED
    BY <1>1, <2>1, <2>2, <2>3, <2>4
<1>2. ASSUME NEW i \in 1 .. Len(ss), NEW a \in In(i), NEW b \in In(i), a[1] = b[1], a[2] = b[2]
      PROVE  a[3] = b[3]
  <2> DEFINE p == ss[i]
  <2>1. PICK j \in 1 .. Len(p) : a = <<ListAt(ss, i) + StartOf(p, j), p[j][2], p[j][1]>>
    BY FieldAmong
  <2>2. PICK k \in 1 .. Len(p) : b = <<ListAt(ss, i) + StartOf(p, k), p[k][2], p[k][1]>>
    BY FieldAmong
  <2>3. FieldList(p)
    BY <1>0 DEF FieldLists
  <2>4. ListAt(ss, i) \in Nat
    <3>1. i \in 1 .. Len(ss) + 1
      BY <1>0
    <3> QED
      BY <3>1, ListStarts
  <2> HIDE DEF p
  <2>5. StartOf(p, j) \in Nat /\ StartOf(p, k) \in Nat
    BY <2>3, FieldInside
  <2>6. StartOf(p, j) = StartOf(p, k) /\ p[j][2] = p[k][2]
    BY <1>2, <2>1, <2>2, <2>4, <2>5
  <2>7. j = k
    BY <2>3, <2>6, OnePlace
  <2> QED
    BY <2>1, <2>2, <2>7
<1> SUFFICES ASSUME NEW a \in PlacesOf(ss, 0), NEW b \in PlacesOf(ss, 0), a[1] = b[1], a[2] = b[2]
             PROVE  a[3] = b[3]
  BY DEF OneValue
<1>3. PICK i \in 1 .. Len(ss) : a \in In(i)
  BY <1>0 DEF PlacesOf
<1>4. PICK j \in 1 .. Len(ss) : b \in In(j)
  BY <1>0 DEF PlacesOf
<1>5. ~(i < j) /\ ~(j < i)
  <2> HIDE DEF In
  <2> QED
    BY <1>1, <1>3, <1>4
<1>6. i = j
  BY <1>5
<1> QED
  BY <1>2, <1>3, <1>4, <1>6

\* No fields.
LEMMA NoFields == FieldList(<<>>) /\ SizeOf(<<>>) = 0 /\ \A from : Places(<<>>, from) = {}
<1>1. IsList(<<>>) /\ DOMAIN <<>> = {}
  BY EmptyList
<1>2. FieldList(<<>>)
  BY <1>1 DEF FieldList
<1>3. SizeOf(<<>>) = StartOf(<<>>, Len(<<>>) + 1) /\ StartOf(<<>>, 1) = 0 /\ Len(<<>>) = 0
  BY <1>2, FieldStarts, EmptySeq
<1>4. Len(<<>>) + 1 = 1
  BY <1>3
<1>5. \A from : Places(<<>>, from) = {}
  BY <1>1 DEF Places
<1> QED
  BY <1>2, <1>3, <1>4, <1>5

\* FlattenSeq puts the fields of lists one after the other.
LEMMA FlattenFields ==
  ASSUME NEW ss, FieldLists(ss)
  PROVE  /\ FieldList(FlattenSeq(ss)) /\ SizeOf(FlattenSeq(ss)) = Ends(Bytes(ss))
         /\ \A from \in Nat : Places(FlattenSeq(ss), from) = PlacesOf(ss, from)
<1>1. /\ Len(ss) \in Nat /\ DOMAIN ss = 1 .. Len(ss)
      /\ ListAt(ss, 1) = 0 /\ Ends(Bytes(ss)) = ListAt(ss, Len(ss) + 1)
      /\ \A i \in 1 .. Len(ss) : ListAt(ss, i + 1) = ListAt(ss, i) + SizeOf(ss[i])
      /\ \A i \in 1 .. Len(ss) + 1 : ListAt(ss, i) \in Nat
      /\ \A i \in 1 .. Len(ss) : FieldList(ss[i]) /\ IsList(ss[i])
  BY ListStarts DEF FieldLists, FieldList
<1>2. CASE ss = <<>>
  <2>1. FlattenSeq(ss) = <<>> /\ Len(ss) = 0 /\ DOMAIN ss = {}
    BY <1>2, EmptySeq, EmptyList DEF FlattenSeq
  <2>2. Ends(Bytes(ss)) = 0
    <3>1. Len(ss) + 1 = 1
      BY <2>1
    <3> QED
      BY <1>1, <3>1
  <2>3. \A from : PlacesOf(ss, from) = {}
    BY <2>1 DEF PlacesOf
  <2> QED
    BY <2>1, <2>2, <2>3, NoFields
<1>3. CASE ss # <<>>
  <2> DEFINE n == Len(ss)
             T == UNION {{ss[i][k] : k \in DOMAIN ss[i]} : i \in DOMAIN ss}
  <2>1. ss \in Seq(Seq(T))
    <3>1. ASSUME NEW i \in 1 .. n PROVE ss[i] \in Seq(T)
      <4> DEFINE V == {ss[i][k] : k \in DOMAIN ss[i]}
      <4>1. ss[i] \in Seq(V)
        BY <1>1 DEF IsList
      <4>2. V \subseteq T
        BY <1>1
      <4> HIDE DEF V, T
      <4> QED
        BY <4>1, <4>2, SeqMonotonic
    <3> DEFINE S == {ss[i] : i \in DOMAIN ss}
    <3>2. S \subseteq Seq(T)
      <4> HIDE DEF T
      <4> QED
        BY <1>1, <3>1
    <3>3. ss \in Seq(S)
      BY DEF FieldLists, IsList
    <3> HIDE DEF S, T
    <3> QED
      BY <3>2, <3>3, SeqMonotonic
  <2> HIDE DEF T
  <2>2. PICK f : Joined(f, ss) /\ n \in Nat \ {0}
    BY <1>3, <2>1, FlattenRounds
  <2>3. /\ f[1] = ss[1] /\ (\A i \in 2 .. n : f[i] = f[i - 1] \o ss[i])
        /\ FlattenSeq(ss) = f[n]
    BY <2>2 DEF Joined
  <2> DEFINE In(i, from) == Places(ss[i], from + ListAt(ss, i))
             Done(m) == /\ FieldList(f[m]) /\ SizeOf(f[m]) = ListAt(ss, m + 1)
                        /\ \A from \in Nat : Places(f[m], from) = UNION {In(i, from) : i \in 1 .. m}
             R == {m \in 0 .. n - 1 : Done(m + 1)}
  <2>4. 0 \in R
    <3>1. 1 \in 1 .. n /\ 0 + 1 = 1 /\ 0 \in 0 .. n - 1
      BY <2>2
    <3>2. FieldList(f[1]) /\ ListAt(ss, 1 + 1) = ListAt(ss, 1) + SizeOf(ss[1])
      BY <1>1, <2>3, <3>1
    <3>3. SizeOf(f[1]) = ListAt(ss, 1 + 1)
      <4>1. SizeOf(f[1]) \in Nat
        BY <3>2, FieldStarts
      <4> QED
        BY <1>1, <2>3, <3>2, <4>1
    <3>4. ASSUME NEW from \in Nat PROVE Places(f[1], from) = UNION {In(i, from) : i \in 1 .. 1}
      <4>1. from + ListAt(ss, 1) = from
        BY <1>1
      <4>2. In(1, from) = Places(f[1], from)
        BY <2>3, <4>1
      <4>3. 1 .. 1 = {1}
        OBVIOUS
      <4> HIDE DEF In
      <4> QED
        BY <4>2, <4>3
    <3> QED
      BY <3>1, <3>2, <3>3, <3>4
  <2>5. ASSUME NEW m \in 1 .. n - 1, m - 1 \in R PROVE m \in R
    <3>1. /\ m + 1 \in 2 .. n /\ m + 1 \in 1 .. n /\ (m + 1) - 1 = m /\ (m - 1) + 1 = m /\ m \in Nat
          /\ m \in 0 .. n - 1
      BY <2>2
    <3>2. Done(m) /\ f[m + 1] = f[m] \o ss[m + 1] /\ FieldList(ss[m + 1])
      BY <1>1, <2>3, <2>5, <3>1
    <3> HIDE DEF R
    <3>3. /\ FieldList(f[m + 1])
          /\ SizeOf(f[m + 1]) = SizeOf(f[m]) + SizeOf(ss[m + 1])
          /\ \A from \in Nat : Places(f[m + 1], from)
               = Places(f[m], from) \cup Places(ss[m + 1], from + SizeOf(f[m]))
      <4>1. FieldsFollow(f[m + 1], f[m], ss[m + 1])
        BY <3>2, JoinFields
      <4> QED
        BY <4>1 DEF FieldsFollow
    <3>4. SizeOf(f[m + 1]) = ListAt(ss, (m + 1) + 1)
      <4>1. ListAt(ss, (m + 1) + 1) = ListAt(ss, m + 1) + SizeOf(ss[m + 1])
        BY <1>1, <3>1
      <4> QED
        BY <3>2, <3>3, <4>1
    <3>5. ASSUME NEW from \in Nat
          PROVE  Places(f[m + 1], from) = UNION {In(i, from) : i \in 1 .. m + 1}
      <4>1. Places(ss[m + 1], from + SizeOf(f[m])) = In(m + 1, from)
        BY <3>2
      <4>2. 1 .. m + 1 = (1 .. m) \cup {m + 1}
        BY <3>1
      <4>3. Places(f[m], from) = UNION {In(i, from) : i \in 1 .. m}
        BY <3>2
      <4> HIDE DEF In
      <4> QED
        BY <3>3, <4>1, <4>2, <4>3
    <3>6. Done(m + 1)
      BY <3>3, <3>4, <3>5
    <3> HIDE DEF Done
    <3> QED
      BY <3>1, <3>6 DEF R
  <2>6. Done(n)
    <3>1. n - 1 \in Nat /\ (n - 1) + 1 = n /\ n - 1 \in 0 .. n - 1
      BY <2>2
    <3>2. 0 .. n - 1 \subseteq R
      <4> HIDE DEF R, n
      <4> QED
        BY <2>4, <2>5, <3>1, LoopInduction
    <3>3. n - 1 \in R
      BY <3>1, <3>2
    <3> HIDE DEF Done
    <3> QED
      BY <3>1, <3>3 DEF R
  <2>7. \A from \in Nat : PlacesOf(ss, from) = UNION {In(i, from) : i \in 1 .. n}
    BY <1>1 DEF PlacesOf
  <2> HIDE DEF In
  <2> QED
    BY <1>1, <2>3, <2>6, <2>7
<1> QED
  BY <1>2, <1>3

\* One field.
LEMMA FieldAlone ==
  ASSUME NEW v, NEW w \in Nat \ {0}
  PROVE  /\ FieldList(<< <<v, w>> >>) /\ SizeOf(<< <<v, w>> >>) = w
         /\ \A from \in Nat : Places(<< <<v, w>> >>, from) = {<<from, w, v>>}
<1> DEFINE p == << <<v, w>> >>
<1>1. IsList(p) /\ DOMAIN p = 1 .. 1 /\ Len(p) = 1 /\ p[1] = <<v, w>>
  <2>1. p \in Seq({<<v, w>>})
    OBVIOUS
  <2>2. DOMAIN p = 1 .. 1 /\ Len(p) = 1 /\ p[1] = <<v, w>>
    OBVIOUS
  <2> HIDE DEF p
  <2>3. IsList(p)
    BY <2>1, KnownList
  <2> QED
    BY <2>2, <2>3
<1>2. FieldList(p)
  BY <1>1 DEF FieldList
<1> HIDE DEF p
<1>3. /\ StartOf(p, 1) = 0 /\ SizeOf(p) = StartOf(p, 1 + 1)
      /\ \A k \in 1 .. 1 : StartOf(p, k + 1) = StartOf(p, k) + p[k][2]
  BY <1>1, <1>2, FieldStarts
<1>4. SizeOf(p) = w
  <2>1. 1 \in 1 .. 1 /\ p[1][2] = w
    BY <1>1
  <2> QED
    BY <1>3, <2>1
<1>5. ASSUME NEW from \in Nat PROVE Places(p, from) = {<<from, w, v>>}
  <2>1. from + StartOf(p, 1) = from
    BY <1>3
  <2>2. 1 .. 1 = {1}
    OBVIOUS
  <2>3. Places(p, from) = {<<from + StartOf(p, k), p[k][2], p[k][1]>> : k \in {1}}
    BY <1>1, <2>2 DEF Places
  <2>4. p[1][2] = w /\ p[1][1] = v
    BY <1>1
  <2> QED
    BY <2>1, <2>3, <2>4
<1> QED
  BY <1>2, <1>4, <1>5 DEF p

\* Two fields.
LEMMA FieldPair ==
  ASSUME NEW v, NEW w \in Nat \ {0}, NEW x, NEW y \in Nat
  PROVE  /\ FieldList(<< <<v, w>>, <<x, y>> >>) /\ SizeOf(<< <<v, w>>, <<x, y>> >>) = w + y
         /\ \A from \in Nat : Places(<< <<v, w>>, <<x, y>> >>, from) = {<<from, w, v>>, <<from + w, y, x>>}
<1> DEFINE p == << <<v, w>>, <<x, y>> >>
<1>1. IsList(p) /\ DOMAIN p = 1 .. 2 /\ Len(p) = 2 /\ p[1] = <<v, w>> /\ p[2] = <<x, y>>
  <2>1. p \in Seq({<<v, w>>, <<x, y>>})
    OBVIOUS
  <2>2. DOMAIN p = 1 .. 2 /\ Len(p) = 2 /\ p[1] = <<v, w>> /\ p[2] = <<x, y>>
    OBVIOUS
  <2> HIDE DEF p
  <2>3. IsList(p)
    BY <2>1, KnownList
  <2> QED
    BY <2>2, <2>3
<1> HIDE DEF p
<1>2. 1 .. 2 = {1, 2}
  OBVIOUS
<1>3. FieldList(p)
  BY <1>1, <1>2 DEF FieldList
<1>4. /\ StartOf(p, 1) = 0 /\ SizeOf(p) = StartOf(p, 2 + 1)
      /\ \A k \in {1, 2} : StartOf(p, k + 1) = StartOf(p, k) + p[k][2]
  BY <1>1, <1>2, <1>3, FieldStarts
<1>5. StartOf(p, 2) = w /\ SizeOf(p) = w + y
  <2>1. StartOf(p, 1 + 1) = StartOf(p, 1) + w /\ StartOf(p, 2 + 1) = StartOf(p, 2) + y
    BY <1>1, <1>4
  <2> QED
    BY <1>4, <2>1
<1>6. ASSUME NEW from \in Nat
      PROVE  Places(p, from) = {<<from, w, v>>, <<from + w, y, x>>}
  <2>1. from + StartOf(p, 1) = from /\ from + StartOf(p, 2) = from + w
    BY <1>4, <1>5
  <2>2. Places(p, from) = {<<from + StartOf(p, k), p[k][2], p[k][1]>> : k \in {1, 2}}
    BY <1>1, <1>2 DEF Places
  <2>3. p[1][2] = w /\ p[1][1] = v /\ p[2][2] = y /\ p[2][1] = x
    BY <1>1
  <2> QED
    BY <2>1, <2>2, <2>3
<1> QED
  BY <1>3, <1>5, <1>6 DEF p

\* The length of a string, and the string.
LEMMA StringFields ==
  ASSUME NEW s, NEW n \in Nat
  PROVE  /\ FieldList(StrFields(s, n)) /\ SizeOf(StrFields(s, n)) = 8 + n
         /\ \A from \in Nat : Places(StrFields(s, n), from) = {<<from, 8, n>>, <<from + 8, n, s>>}
<1>1. 8 \in Nat \ {0}
  OBVIOUS
<1> QED
  BY <1>1, FieldPair DEF StrFields

\* What can stand in a file: an entry with a number, a string, or an array of
\* these; of an array of anything else, which the program dies of, nothing is
\* said.  The alignment is the one that the entries give, or 32.
EntryOK(e) ==
  /\ NameLen(e.key) \in Nat
  /\ \/ e = [key |-> e.key, type |-> e.type, val |-> e.val] /\ e.type \in DOMAIN Scalars
     \/ e = [key |-> e.key, type |-> "str", val |-> e.val] /\ StrLen(e.val) \in Nat
     \/ /\ e = [key |-> e.key, type |-> "arr", of |-> e.of, val |-> e.val] /\ IsList(e.val)
        /\ \/ e.of \in DOMAIN Scalars
           \/ e.of = "str" /\ \A k \in DOMAIN e.val : StrLen(e.val[k]) \in Nat
           \/ ~IsElem(e.of) /\ e.val = <<>>
TensorOK(t) ==
  /\ t = [name |-> t.name, dims |-> t.dims, type |-> t.type, offset |-> t.offset]
  /\ NameLen(t.name) \in Nat /\ IsList(t.dims)
AlignOK(f) ==
  LET i == Find(f.kv, <<"general", "alignment">>)
  IN IF i = 0 THEN f.align = 32 ELSE f.align = f.kv[i].val /\ f.kv[i].type # "arr"
WellFormed(f) ==
  /\ IsList(f.kv) /\ \A i \in DOMAIN f.kv : EntryOK(f.kv[i])
  /\ IsList(f.tensors) /\ \A i \in DOMAIN f.tensors : TensorOK(f.tensors[i])
  /\ AlignOK(f)

\* The parts of the header.
HeadFields(f) == << <<"GGUF", 4>>, <<f.version, 4>>, <<Len(f.tensors), 8>>, <<Len(f.kv), 8>> >>
ElemFields(e) ==
  [k \in DOMAIN e.val |-> IF e.of = "str" THEN StrFields(e.val[k], StrLen(e.val[k]))
                          ELSE << <<e.val[k], Scalars[e.of]>> >>]
EntryFields(e) == StrFields(e.key, NameLen(e.key)) \o << <<e.type, 4>> >> \o ValueFields(e)
DimFields(t) == [d \in DOMAIN t.dims |-> <<t.dims[d], 8>>]
TensorFields(t) ==
  StrFields(t.name, NameLen(t.name)) \o << <<Len(t.dims), 4>> >> \o DimFields(t)
  \o << <<t.type, 4>>, <<t.offset, 8>> >>

LEMMA ScalarBytes == \A s \in DOMAIN Scalars : Scalars[s] \in Nat \ {0} /\ s # "str" /\ s # "arr"
BY DEF Scalars

\* The fields of a list, each made of one of another list.
LEMMA MappedList ==
  ASSUME NEW n \in Nat, NEW q, q = [k \in 1 .. n |-> q[k]]
  PROVE  IsList(q) /\ Len(q) = n /\ DOMAIN q = 1 .. n
<1> DEFINE T == {q[k] : k \in 1 .. n}
<1>1. q \in [1 .. n -> T]
  OBVIOUS
<1> HIDE DEF T
<1>2. q \in Seq(T)
  BY <1>1, SeqDef
<1>3. DOMAIN q = 1 .. n
  BY <1>1
<1>4. Len(q) = n
  BY <1>2, <1>3, LenProperties
<1> QED
  BY <1>2, <1>3, <1>4, KnownList

LEMMA ElemLists ==
  ASSUME NEW e, EntryOK(e), e.type = "arr"
  PROVE  /\ FieldLists(ElemFields(e)) /\ IsList(e.val) /\ Len(e.val) \in Nat
         /\ DOMAIN e.val = 1 .. Len(e.val) /\ Len(ElemFields(e)) = Len(e.val)
<1>1. /\ IsList(e.val)
      /\ \/ e.of \in DOMAIN Scalars
         \/ e.of = "str" /\ \A k \in DOMAIN e.val : StrLen(e.val[k]) \in Nat
         \/ e.val = <<>>
  <2>1. CASE e = [key |-> e.key, type |-> e.type, val |-> e.val] /\ e.type \in DOMAIN Scalars
    BY <2>1, ScalarBytes
  <2>2. CASE e = [key |-> e.key, type |-> "str", val |-> e.val]
    BY <2>2
  <2> QED
    BY <2>1, <2>2 DEF EntryOK
<1>2. Len(e.val) \in Nat /\ DOMAIN e.val = 1 .. Len(e.val)
  BY <1>1, LenProperties DEF IsList
<1> DEFINE n == Len(e.val)
           q == ElemFields(e)
<1>3. q = [k \in 1 .. n |-> q[k]]
  BY <1>2 DEF ElemFields
<1>4. \A k \in 1 .. n : q[k] = IF e.of = "str" THEN StrFields(e.val[k], StrLen(e.val[k]))
                                ELSE << <<e.val[k], Scalars[e.of]>> >>
  BY <1>2 DEF ElemFields
<1> HIDE DEF q, n
<1>5. IsList(q) /\ Len(q) = n /\ DOMAIN q = 1 .. n
  BY <1>2, <1>3, MappedList DEF n
<1>6. ASSUME NEW k \in 1 .. n PROVE FieldList(q[k])
  <2>1. CASE e.of = "str"
    <3>1. q[k] = StrFields(e.val[k], StrLen(e.val[k]))
      BY <1>4, <2>1
    <3>2. e.val # <<>>
      BY <1>2, EmptySeq DEF n
    <3>3. StrLen(e.val[k]) \in Nat
      BY <1>1, <1>2, <2>1, <3>2, ScalarBytes DEF n
    <3> QED
      BY <3>1, <3>3, StringFields
  <2>2. CASE e.of \in DOMAIN Scalars
    <3>1. q[k] = << <<e.val[k], Scalars[e.of]>> >> /\ Scalars[e.of] \in Nat \ {0}
      BY <1>4, <2>2, ScalarBytes
    <3> QED
      BY <3>1, FieldAlone
  <2>3. CASE e.val = <<>>
    BY <2>3, EmptySeq DEF n
  <2> QED
    BY <1>1, <2>1, <2>2, <2>3
<1> QED
  BY <1>1, <1>2, <1>5, <1>6 DEF FieldLists, q, n

LEMMA ArrayFields ==
  ASSUME NEW e, EntryOK(e), e.type = "arr"
  PROVE  /\ FieldList(ValueFields(e)) /\ SizeOf(ValueFields(e)) = 12 + Ends(Bytes(ElemFields(e)))
         /\ \A from \in Nat : Places(ValueFields(e), from)
              = {<<from, 4, e.of>>, <<from + 4, 8, Len(e.val)>>} \cup PlacesOf(ElemFields(e), from + 12)
<1> DEFINE p == << <<e.of, 4>>, <<Len(e.val), 8>> >>
           q == FlattenSeq(ElemFields(e))
<1>1. FieldLists(ElemFields(e))
  BY ElemLists
<1>2. /\ FieldList(p) /\ SizeOf(p) = 4 + 8
      /\ \A from \in Nat : Places(p, from) = {<<from, 4, e.of>>, <<from + 4, 8, Len(e.val)>>}
  <2>1. 4 \in Nat \ {0} /\ 8 \in Nat
    OBVIOUS
  <2> QED
    BY <2>1, FieldPair
<1>3. /\ FieldList(q) /\ SizeOf(q) = Ends(Bytes(ElemFields(e)))
      /\ \A from \in Nat : Places(q, from) = PlacesOf(ElemFields(e), from)
  BY <1>1, FlattenFields
<1>4. ValueFields(e) = p \o q
  BY DEF ValueFields, ElemFields
<1> HIDE DEF p, q
<1>5. /\ FieldList(p \o q) /\ SizeOf(p \o q) = SizeOf(p) + SizeOf(q)
      /\ \A from \in Nat : Places(p \o q, from) = Places(p, from) \cup Places(q, from + SizeOf(p))
  <2>1. FieldsFollow(p \o q, p, q)
    BY <1>2, <1>3, JoinFields
  <2> QED
    BY <2>1 DEF FieldsFollow
<1>6. SizeOf(p) = 12 /\ \A from \in Nat : from + 12 \in Nat
  BY <1>2
<1> QED
  BY <1>2, <1>3, <1>4, <1>5, <1>6

\* The kinds of entries.
LEMMA KindsOfEntry ==
  ASSUME NEW e, EntryOK(e)
  PROVE  /\ NameLen(e.key) \in Nat
         /\ \/ /\ e.type \in DOMAIN Scalars /\ Scalars[e.type] \in Nat \ {0}
               /\ e.type # "str" /\ e.type # "arr"
               /\ e = [key |-> e.key, type |-> e.type, val |-> e.val]
               /\ ValueFields(e) = << <<e.val, Scalars[e.type]>> >>
            \/ /\ e.type = "str" /\ e = [key |-> e.key, type |-> "str", val |-> e.val]
               /\ StrLen(e.val) \in Nat /\ ValueFields(e) = StrFields(e.val, StrLen(e.val))
            \/ e.type = "arr" /\ e = [key |-> e.key, type |-> "arr", of |-> e.of, val |-> e.val]
<1>1. CASE e = [key |-> e.key, type |-> e.type, val |-> e.val] /\ e.type \in DOMAIN Scalars
  <2>1. Scalars[e.type] \in Nat \ {0} /\ e.type # "str" /\ e.type # "arr"
    BY <1>1, ScalarBytes
  <2>2. ValueFields(e) = << <<e.val, Scalars[e.type]>> >>
    BY <2>1 DEF ValueFields
  <2> QED
    BY <1>1, <2>1, <2>2 DEF EntryOK
<1>2. CASE e = [key |-> e.key, type |-> "str", val |-> e.val] /\ StrLen(e.val) \in Nat
  <2>1. e.type = "str"
    BY <1>2
  <2>2. ValueFields(e) = StrFields(e.val, StrLen(e.val))
    BY <2>1 DEF ValueFields
  <2> QED
    BY <1>2, <2>1, <2>2 DEF EntryOK
<1>3. CASE e = [key |-> e.key, type |-> "arr", of |-> e.of, val |-> e.val]
  <2>1. e.type = "arr"
    BY <1>3
  <2> QED
    BY <1>3, <2>1 DEF EntryOK
<1> QED
  BY <1>1, <1>2, <1>3 DEF EntryOK

LEMMA ValueList ==
  ASSUME NEW e, EntryOK(e)
  PROVE  FieldList(ValueFields(e))
<1>1. CASE /\ Scalars[e.type] \in Nat \ {0}
           /\ ValueFields(e) = << <<e.val, Scalars[e.type]>> >>
  BY <1>1, FieldAlone
<1>2. CASE StrLen(e.val) \in Nat /\ ValueFields(e) = StrFields(e.val, StrLen(e.val))
  BY <1>2, StringFields
<1>3. CASE e.type = "arr"
  BY <1>3, ArrayFields
<1> QED
  BY <1>1, <1>2, <1>3, KindsOfEntry

\* A string of n bytes and a field of four, as entries and tensors begin.
Opening(from, n, s, v) == {<<from, 8, n>>, <<from + 8, n, s>>, <<(from + 8) + n, 4, v>>}

LEMMA StringAnd ==
  ASSUME NEW s, NEW n \in Nat, NEW v
  PROVE  /\ FieldList(StrFields(s, n) \o << <<v, 4>> >>)
         /\ SizeOf(StrFields(s, n) \o << <<v, 4>> >>) = (8 + n) + 4
         /\ \A from \in Nat :
              Places(StrFields(s, n) \o << <<v, 4>> >>, from) = Opening(from, n, s, v)
<1> DEFINE p == StrFields(s, n)
           q == << <<v, 4>> >>
<1>1. /\ FieldList(p) /\ SizeOf(p) = 8 + n
      /\ \A from \in Nat : Places(p, from) = {<<from, 8, n>>, <<from + 8, n, s>>}
  BY StringFields
<1>2. /\ FieldList(q) /\ SizeOf(q) = 4
      /\ \A from \in Nat : Places(q, from) = {<<from, 4, v>>}
  <2>1. 4 \in Nat \ {0}
    OBVIOUS
  <2> QED
    BY <2>1, FieldAlone
<1> HIDE DEF p, q
<1>3. FieldsFollow(p \o q, p, q)
  BY <1>1, <1>2, JoinFields
<1>4. ASSUME NEW from \in Nat
      PROVE  Places(p \o q, from) = Opening(from, n, s, v)
  <2>1. from + SizeOf(p) \in Nat /\ from + SizeOf(p) = (from + 8) + n
    BY <1>1
  <2>2. Places(q, from + SizeOf(p)) = {<<(from + 8) + n, 4, v>>}
    BY <1>2, <2>1
  <2>3. Places(p, from) = {<<from, 8, n>>, <<from + 8, n, s>>}
    BY <1>1
  <2>4. Places(p \o q, from) = Places(p, from) \cup Places(q, from + SizeOf(p))
    BY <1>3 DEF FieldsFollow
  <2> QED
    BY <2>2, <2>3, <2>4 DEF Opening
<1>5. FieldList(p \o q) /\ SizeOf(p \o q) = (8 + n) + 4
  BY <1>1, <1>2, <1>3 DEF FieldsFollow
<1> QED
  BY <1>4, <1>5 DEF p, q

\* The fields of an entry.
EntrySpots(e, from) ==
  Opening(from, NameLen(e.key), e.key, e.type)
  \cup Places(ValueFields(e), ((from + 8) + NameLen(e.key)) + 4)

LEMMA EntryPlaces ==
  ASSUME NEW e, EntryOK(e)
  PROVE  /\ NameLen(e.key) \in Nat /\ FieldList(EntryFields(e)) /\ FieldList(ValueFields(e))
         /\ SizeOf(EntryFields(e)) = ((8 + NameLen(e.key)) + 4) + SizeOf(ValueFields(e))
         /\ \A from \in Nat : Places(EntryFields(e), from) = EntrySpots(e, from)
<1> DEFINE n == NameLen(e.key)
           p == StrFields(e.key, n) \o << <<e.type, 4>> >>
           q == ValueFields(e)
<1>1. n \in Nat /\ FieldList(q)
  BY ValueList, KindsOfEntry
<1> HIDE DEF n
<1>2. /\ FieldList(p) /\ SizeOf(p) = (8 + n) + 4
      /\ \A from \in Nat : Places(p, from) = Opening(from, n, e.key, e.type)
  BY <1>1, StringAnd
<1>3. EntryFields(e) = p \o q
  BY DEF EntryFields, n
<1> HIDE DEF p, q
<1>4. FieldsFollow(p \o q, p, q)
  BY <1>1, <1>2, JoinFields
<1>5. ASSUME NEW from \in Nat PROVE Places(EntryFields(e), from) = EntrySpots(e, from)
  <2>1. from + SizeOf(p) = ((from + 8) + n) + 4
    BY <1>1, <1>2
  <2>2. Places(p \o q, from) = Places(p, from) \cup Places(q, from + SizeOf(p))
    BY <1>4 DEF FieldsFollow
  <2>3. Places(p, from) = Opening(from, n, e.key, e.type)
    BY <1>2
  <2> QED
    BY <1>3, <2>1, <2>2, <2>3 DEF EntrySpots, n, q
<1>6. FieldList(p \o q) /\ SizeOf(p \o q) = ((8 + n) + 4) + SizeOf(q)
  BY <1>2, <1>4 DEF FieldsFollow
<1> QED
  BY <1>1, <1>3, <1>5, <1>6 DEF n, q

\* The dimensions of a tensor.
LEMMA DimPlaces ==
  ASSUME NEW t, IsList(t.dims)
  PROVE  /\ FieldList(DimFields(t)) /\ Len(t.dims) \in Nat /\ Len(DimFields(t)) = Len(t.dims)
         /\ DOMAIN t.dims = 1 .. Len(t.dims)
         /\ \A d \in 1 .. Len(t.dims) : DimFields(t)[d] = <<t.dims[d], 8>>
<1> DEFINE n == Len(t.dims)
           q == DimFields(t)
<1>1. n \in Nat /\ DOMAIN t.dims = 1 .. n
  BY LenProperties DEF IsList
<1>2. q = [d \in 1 .. n |-> q[d]]
  BY <1>1 DEF DimFields
<1>3. \A d \in 1 .. n : q[d] = <<t.dims[d], 8>>
  BY <1>1 DEF DimFields
<1> HIDE DEF q, n
<1>4. IsList(q) /\ Len(q) = n /\ DOMAIN q = 1 .. n
  BY <1>1, <1>2, MappedList
<1>5. FieldList(q)
  BY <1>3, <1>4 DEF FieldList
<1> QED
  BY <1>1, <1>3, <1>4, <1>5 DEF n, q

\* The fields of a tensor of the table.
TensorSpots(t, from) ==
  LET at == ((from + 8) + NameLen(t.name)) + 4
      end == at + SizeOf(DimFields(t))
  IN Opening(from, NameLen(t.name), t.name, Len(t.dims)) \cup Places(DimFields(t), at)
     \cup {<<end, 4, t.type>>, <<end + 4, 8, t.offset>>}

LEMMA TensorPlaces ==
  ASSUME NEW t, TensorOK(t)
  PROVE  /\ NameLen(t.name) \in Nat /\ SizeOf(DimFields(t)) \in Nat
         /\ FieldList(TensorFields(t)) /\ FieldList(DimFields(t))
         /\ SizeOf(TensorFields(t)) = (((8 + NameLen(t.name)) + 4) + SizeOf(DimFields(t))) + 12
         /\ \A from \in Nat : Places(TensorFields(t), from) = TensorSpots(t, from)
<1> DEFINE n == NameLen(t.name)
           m == SizeOf(DimFields(t))
           a == StrFields(t.name, n) \o << <<Len(t.dims), 4>> >>
           b == DimFields(t)
           c == << <<t.type, 4>>, <<t.offset, 8>> >>
           ab == a \o b
<1>1. n \in Nat /\ FieldList(b) /\ m \in Nat
  <2>1. n \in Nat /\ FieldList(b)
    BY DimPlaces DEF TensorOK
  <2> QED
    BY <2>1, FieldStarts
<1>4. TensorFields(t) = ab \o c
  BY DEF TensorFields
<1> HIDE DEF n
<1>2. /\ FieldList(a) /\ SizeOf(a) = (8 + n) + 4
      /\ \A from \in Nat : Places(a, from) = Opening(from, n, t.name, Len(t.dims))
  BY <1>1, StringAnd
<1>3. /\ FieldList(c) /\ SizeOf(c) = 4 + 8
      /\ \A from \in Nat : Places(c, from) = {<<from, 4, t.type>>, <<from + 4, 8, t.offset>>}
  <2>1. 4 \in Nat \ {0} /\ 8 \in Nat
    OBVIOUS
  <2> QED
    BY <2>1, FieldPair
<1> HIDE DEF a, c
<1>5. FieldsFollow(ab, a, b)
  BY <1>1, <1>2, JoinFields
<1> HIDE DEF b
<1>6. FieldList(ab) /\ SizeOf(ab) = SizeOf(a) + m
  BY <1>5 DEF FieldsFollow, b
<1> HIDE DEF ab
<1>7. FieldsFollow(ab \o c, ab, c)
  BY <1>3, <1>6, JoinFields
<1> HIDE DEF m
<1>8. FieldList(ab \o c) /\ SizeOf(ab \o c) = (((8 + n) + 4) + m) + 12 /\ SizeOf(ab) = ((8 + n) + 4) + m
  <2>1. FieldList(ab \o c) /\ SizeOf(ab \o c) = SizeOf(ab) + SizeOf(c)
    BY <1>7 DEF FieldsFollow
  <2> QED
    BY <1>1, <1>2, <1>3, <1>6, <2>1
<1>9. ASSUME NEW from \in Nat PROVE Places(ab \o c, from) = TensorSpots(t, from)
  <2> DEFINE x == ((from + 8) + n) + 4
             y == x + m
  <2>1. from + SizeOf(a) = x /\ from + SizeOf(ab) = y /\ y \in Nat
    BY <1>1, <1>2, <1>8
  <2>2. TensorSpots(t, from) = Opening(from, n, t.name, Len(t.dims)) \cup Places(b, x)
          \cup {<<y, 4, t.type>>, <<y + 4, 8, t.offset>>}
    BY DEF TensorSpots, n, m, b
  <2> HIDE DEF x, y
  <2>3. Places(c, from + SizeOf(ab)) = {<<y, 4, t.type>>, <<y + 4, 8, t.offset>>}
    BY <1>3, <2>1
  <2>4. Places(ab, from) = Places(a, from) \cup Places(b, from + SizeOf(a))
    BY <1>5 DEF FieldsFollow, ab
  <2>5. Places(ab \o c, from) = Places(ab, from) \cup Places(c, from + SizeOf(ab))
    BY <1>7 DEF FieldsFollow
  <2>6. Places(a, from) = Opening(from, n, t.name, Len(t.dims))
    BY <1>2
  <2> QED
    BY <2>1, <2>2, <2>3, <2>4, <2>5, <2>6
<1>10. FieldList(DimFields(t))
  BY <1>1 DEF b
<1> QED
  BY <1>1, <1>4, <1>8, <1>9, <1>10 DEF n, m

\* The fields the file begins with.
LEMMA HeadPlaces ==
  ASSUME NEW f
  PROVE  /\ FieldList(HeadFields(f)) /\ SizeOf(HeadFields(f)) = 24
         /\ Places(HeadFields(f), 0)
              = {<<0, 4, "GGUF">>, <<4, 4, f.version>>, <<8, 8, Len(f.tensors)>>,
                 <<16, 8, Len(f.kv)>>}
<1> DEFINE t == Len(f.tensors)
           k == Len(f.kv)
           p == << <<"GGUF", 4>>, <<f.version, 4>> >>
           q == << <<t, 8>>, <<k, 8>> >>
           r == << <<"GGUF", 4>>, <<f.version, 4>>, <<t, 8>>, <<k, 8>> >>
<1> HIDE DEF t, k
<1>1. /\ FieldList(p) /\ SizeOf(p) = 4 + 4
      /\ \A from \in Nat : Places(p, from) = {<<from, 4, "GGUF">>, <<from + 4, 4, f.version>>}
  <2>1. 4 \in Nat \ {0} /\ 4 \in Nat
    OBVIOUS
  <2> QED
    BY <2>1, FieldPair
<1>2. /\ FieldList(q) /\ SizeOf(q) = 8 + 8
      /\ \A from \in Nat : Places(q, from) = {<<from, 8, t>>, <<from + 8, 8, k>>}
  <2>1. 8 \in Nat \ {0} /\ 8 \in Nat
    OBVIOUS
  <2> QED
    BY <2>1, FieldPair
<1>3. r = p \o q
  <2>1. Len(p) = 2 /\ Len(q) = 2 /\ p[1] = r[1] /\ p[2] = r[2] /\ q[1] = r[3] /\ q[2] = r[4] /\ Len(r) = 4
    OBVIOUS
  <2>2. r \in Seq({<<"GGUF", 4>>, <<f.version, 4>>, <<t, 8>>, <<k, 8>>})
    OBVIOUS
  <2> HIDE DEF r, p, q
  <2>3. Follows(p \o q, p, q)
    BY <1>1, <1>2, JoinLists DEF FieldList
  <2> DEFINE s == p \o q
  <2> HIDE DEF s
  <2>4. /\ IsList(s) /\ Len(s) = 2 + 2
        /\ \A i \in 1 .. 2 : s[i] = p[i]
        /\ \A i \in 1 .. 2 : s[2 + i] = q[i]
    BY <2>1, <2>3 DEF Follows, s
  <2>5. s[1] = p[1] /\ s[2] = p[2] /\ s[3] = q[1] /\ s[4] = q[2]
    <3>1. s[2 + 1] = q[1] /\ s[2 + 2] = q[2]
      BY <2>4
    <3> QED
      BY <2>4, <3>1
  <2>6. \A i \in 1 .. Len(r) : r[i] = s[i]
    <3>1. \A i \in 1 .. 4 : i \in {1, 2, 3, 4}
      OBVIOUS
    <3> QED
      BY <2>1, <2>5, <3>1
  <2>7. IsList(r)
    BY <2>2, KnownList
  <2>8. Len(r) = Len(s)
    BY <2>1, <2>4
  <2> QED
    BY <2>4, <2>6, <2>7, <2>8, SameLists DEF s
<1>4. HeadFields(f) = r
  BY DEF HeadFields, t, k
<1> HIDE DEF p, q, r
<1>5. FieldsFollow(p \o q, p, q)
  BY <1>1, <1>2, JoinFields
<1>6. FieldList(r) /\ SizeOf(r) = 24
  BY <1>1, <1>2, <1>3, <1>5 DEF FieldsFollow
<1>7. Places(r, 0) = {<<0, 4, "GGUF">>, <<4, 4, f.version>>, <<8, 8, t>>, <<16, 8, k>>}
  <2>1. 0 \in Nat /\ 8 \in Nat /\ 0 + 4 = 4 /\ 0 + SizeOf(p) = 8 /\ 8 + 8 = 16
    BY <1>1
  <2>2. Places(r, 0) = Places(p, 0) \cup Places(q, 0 + SizeOf(p))
    BY <1>3, <1>5, <2>1 DEF FieldsFollow
  <2>3. Places(p, 0) = {<<0, 4, "GGUF">>, <<4, 4, f.version>>}
    BY <1>1, <2>1
  <2>4. Places(q, 8) = {<<8, 8, t>>, <<16, 8, k>>}
    BY <1>2, <2>1
  <2> QED
    BY <2>1, <2>2, <2>3, <2>4
<1> QED
  BY <1>4, <1>6, <1>7 DEF t, k

\* The header is that, the entries and the tensors.
HeaderIs(f, h, K, M) ==
  /\ K = Len(f.kv) /\ M = Len(f.tensors) /\ K \in Nat /\ M \in Nat
  /\ FieldLists(h) /\ Len(h) = (1 + K) + M
  /\ h[1] = HeadFields(f)
  /\ \A i \in 1 .. K : h[1 + i] = EntryFields(f.kv[i])
  /\ \A i \in 1 .. M : h[(1 + K) + i] = TensorFields(f.tensors[i])

LEMMA HeaderLists ==
  ASSUME NEW f, WellFormed(f)
  PROVE  HeaderIs(f, Header(f), Len(f.kv), Len(f.tensors))
<1> DEFINE K == Len(f.kv)
           M == Len(f.tensors)
           a == <<HeadFields(f)>>
           b == [i \in DOMAIN f.kv |-> EntryFields(f.kv[i])]
           c == [i \in DOMAIN f.tensors |-> TensorFields(f.tensors[i])]
           ab == a \o b
           h == ab \o c
<1>1. Header(f) = h
  BY DEF Header, HeadFields, EntryFields, TensorFields, DimFields
<1>2. K \in Nat /\ DOMAIN f.kv = 1 .. K /\ M \in Nat /\ DOMAIN f.tensors = 1 .. M
  BY LenProperties DEF WellFormed, IsList
<1>3. /\ IsList(a) /\ Len(a) = 1 /\ DOMAIN a = 1 .. 1 /\ a[1] = HeadFields(f)
  <2> DEFINE x == HeadFields(f)
  <2>1. a \in Seq({x}) /\ Len(a) = 1 /\ DOMAIN a = 1 .. 1 /\ a[1] = x
    OBVIOUS
  <2> HIDE DEF x, a
  <2>2. IsList(a)
    BY <2>1, KnownList
  <2> QED
    BY <2>1, <2>2 DEF x
<1>4. /\ IsList(b) /\ Len(b) = K /\ DOMAIN b = 1 .. K
      /\ \A i \in 1 .. K : b[i] = EntryFields(f.kv[i])
  <2>1. b = [i \in 1 .. K |-> b[i]] /\ \A i \in 1 .. K : b[i] = EntryFields(f.kv[i])
    BY <1>2
  <2> HIDE DEF b
  <2> QED
    BY <1>2, <2>1, MappedList
<1>5. /\ IsList(c) /\ Len(c) = M /\ DOMAIN c = 1 .. M
      /\ \A i \in 1 .. M : c[i] = TensorFields(f.tensors[i])
  <2>1. c = [i \in 1 .. M |-> c[i]] /\ \A i \in 1 .. M : c[i] = TensorFields(f.tensors[i])
    BY <1>2
  <2> HIDE DEF c
  <2> QED
    BY <1>2, <2>1, MappedList
<1> HIDE DEF a, b, c, K, M
<1>6. /\ IsList(ab) /\ Len(ab) = 1 + K /\ ab[1] = HeadFields(f)
      /\ \A i \in 1 .. K : ab[1 + i] = EntryFields(f.kv[i])
  <2>1. /\ IsList(ab) /\ Len(ab) = Len(a) + Len(b)
        /\ \A i \in 1 .. Len(a) : ab[i] = a[i]
        /\ \A i \in 1 .. Len(b) : ab[Len(a) + i] = b[i]
    <3>1. Follows(ab, a, b)
      BY <1>3, <1>4, JoinLists
    <3> HIDE DEF ab
    <3> QED
      BY <3>1 DEF Follows
  <2> HIDE DEF ab
  <2> QED
    BY <1>3, <1>4, <2>1
<1> HIDE DEF ab
<1>7. /\ IsList(h) /\ Len(h) = (1 + K) + M /\ DOMAIN h = 1 .. (1 + K) + M
      /\ \A i \in 1 .. 1 + K : h[i] = ab[i]
      /\ \A i \in 1 .. M : h[(1 + K) + i] = TensorFields(f.tensors[i])
  <2>1. /\ IsList(h) /\ Len(h) = Len(ab) + Len(c) /\ DOMAIN h = 1 .. Len(ab) + Len(c)
        /\ \A i \in 1 .. Len(ab) : h[i] = ab[i]
        /\ \A i \in 1 .. Len(c) : h[Len(ab) + i] = c[i]
    <3>1. Follows(h, ab, c)
      BY <1>5, <1>6, JoinLists
    <3> HIDE DEF h
    <3> QED
      BY <3>1 DEF Follows
  <2> HIDE DEF h
  <2> QED
    BY <1>5, <1>6, <2>1
<1> HIDE DEF h
<1>8. h[1] = HeadFields(f) /\ \A i \in 1 .. K : h[1 + i] = EntryFields(f.kv[i])
  <2>1. 1 \in 1 .. 1 + K /\ \A i \in 1 .. K : 1 + i \in 1 .. 1 + K
    BY <1>2
  <2> QED
    BY <1>6, <1>7, <2>1
<1>9. ASSUME NEW i \in 1 .. (1 + K) + M PROVE FieldList(h[i])
  <2>1. i = 1 \/ i - 1 \in 1 .. K \/ i - (1 + K) \in 1 .. M
    BY <1>2
  <2>2. CASE i = 1
    BY <1>8, <2>2, HeadPlaces
  <2>3. CASE i - 1 \in 1 .. K
    <3>1. h[1 + (i - 1)] = EntryFields(f.kv[i - 1]) /\ 1 + (i - 1) = i
      BY <1>8, <2>3
    <3>2. EntryOK(f.kv[i - 1])
      BY <1>2, <2>3 DEF WellFormed
    <3> QED
      BY <3>1, <3>2, EntryPlaces
  <2>4. CASE i - (1 + K) \in 1 .. M
    <3>1. h[(1 + K) + (i - (1 + K))] = TensorFields(f.tensors[i - (1 + K)])
      BY <1>7, <2>4
    <3>2. TensorOK(f.tensors[i - (1 + K)])
      BY <1>2, <2>4 DEF WellFormed
    <3>3. (1 + K) + (i - (1 + K)) = i
      BY <1>2
    <3>4. FieldList(TensorFields(f.tensors[i - (1 + K)]))
      BY <3>2, TensorPlaces
    <3> QED
      BY <3>1, <3>3, <3>4
  <2> QED
    BY <2>1, <2>2, <2>3, <2>4
<1>10. FieldLists(h)
  BY <1>7, <1>9 DEF FieldLists
<1> QED
  BY <1>1, <1>2, <1>7, <1>8, <1>10 DEF HeaderIs, K, M

\* Where the data begins in the file, and where in it a tensor's is.
DataStart(f) == RoundUp(Ends(Bytes(Header(f))), f.align)
Blob(f, i) ==
  [at |-> DataStart(f) + f.tensors[i].offset, tensor |-> i,
   bytes |-> NBytes(f.tensors[i].type, Elements(f.tensors[i]))]

\* The fields on the disk, and the data.
LEMMA DiskHolds ==
  ASSUME file \in DOMAIN Files, NEW f, f = Files[file], WellFormed(f)
  PROVE  /\ OneValue(Disk[file].fields)
         /\ \A i \in 1 .. Len(Header(f)) :
              Places(Header(f)[i], ListAt(Header(f), i)) \subseteq Disk[file].fields
         /\ \A i \in DOMAIN f.tensors : Blob(f, i) \in Disk[file].data
<1> DEFINE h == Header(f)
<1>1. FieldLists(h)
  BY HeaderLists DEF HeaderIs
<1>2. Disk[file] = Written(f)
  BY DEF Disk
<1>3. Written(f).fields = UNION {Places(h[i], ListAt(h, i)) : i \in DOMAIN h}
  BY DEF Written, Places, StartOf, Sizes, ListAt, Bytes, SizeOf
<1>4. Written(f).data = {Blob(f, i) : i \in DOMAIN f.tensors}
  BY DEF Written, Blob, DataStart, Bytes, SizeOf, Sizes
<1> HIDE DEF h
<1>5. DOMAIN h = 1 .. Len(h) /\ Len(h) \in Nat /\ \A i \in 1 .. Len(h) + 1 : ListAt(h, i) \in Nat
  BY <1>1, ListStarts
<1>6. \A i \in 1 .. Len(h) : 0 + ListAt(h, i) = ListAt(h, i)
  <2> SUFFICES ASSUME NEW i \in 1 .. Len(h) PROVE 0 + ListAt(h, i) = ListAt(h, i)
    OBVIOUS
  <2>1. i \in 1 .. Len(h) + 1
    BY <1>5
  <2> QED
    BY <1>5, <2>1
<1>7. PlacesOf(h, 0) = UNION {Places(h[i], ListAt(h, i)) : i \in DOMAIN h}
  BY <1>5, <1>6 DEF PlacesOf
<1>8. OneValue(PlacesOf(h, 0))
  BY <1>1, OneField
<1>9. Disk[file].fields = PlacesOf(h, 0)
  BY <1>2, <1>3, <1>7
<1>10. \A i \in 1 .. Len(h) : Places(h[i], ListAt(h, i)) \subseteq Disk[file].fields
  BY <1>2, <1>3, <1>5
<1>11. \A i \in DOMAIN f.tensors : Blob(f, i) \in Disk[file].data
  BY <1>2, <1>4
<1> QED
  BY <1>8, <1>9, <1>10, <1>11 DEF h

\* The last element of a list, and the others.
LEMMA LastOf ==
  ASSUME NEW s, IsList(s), NEW e
  PROVE  Last(Append(s, e)) = e /\ Front(Append(s, e)) = s
<1> DEFINE t == Append(s, e)
           T == {t[i] : i \in DOMAIN t}
           u == SubSeq(t, 1, Len(s))
<1>1. /\ IsList(t) /\ Len(s) \in Nat /\ DOMAIN t = 1 .. Len(s) + 1
      /\ \A i \in 1 .. Len(s) : t[i] = s[i]
      /\ t[Len(s) + 1] = e
  BY AppendList
<1>2. t \in Seq(T)
  BY <1>1 DEF IsList
<1> HIDE DEF t, T
<1>3. Len(t) = Len(s) + 1
  BY <1>1, <1>2, LenProperties
<1>4. Last(t) = e
  BY <1>1, <1>3 DEF Last
<1>5. Len(s) \in 0 .. Len(t) /\ (Len(s) + 1) - 1 = Len(s)
  BY <1>1, <1>3
<1>6. u \in Seq(T) /\ Len(u) = Len(s) /\ \A i \in 1 .. Len(s) : u[i] = t[i]
  BY <1>2, <1>5, PrefixFacts
<1>7. Front(t) = u
  BY <1>3, <1>5 DEF Front
<1> HIDE DEF u
<1>8. IsList(u)
  BY <1>6, KnownList
<1>9. \A i \in 1 .. Len(u) : u[i] = s[i]
  BY <1>1, <1>6
<1>10. u = s
  BY <1>6, <1>8, <1>9, SameLists
<1> QED
  BY <1>4, <1>7, <1>10 DEF t

\* A list, and the elements of another one by one after it.
Grown(g, vs, m) == SubSeq(g \o vs, 1, Len(g) + m)
Grows(g, vs, n) ==
  /\ Grown(g, vs, 0) = g /\ Grown(g, vs, n) = g \o vs
  /\ \A m \in 0 .. n : IsList(Grown(g, vs, m))
  /\ \A m \in 1 .. n : Grown(g, vs, m) = Append(Grown(g, vs, m - 1), vs[m])

LEMMA Growing ==
  ASSUME NEW g, IsList(g), NEW vs, IsList(vs)
  PROVE  Grows(g, vs, Len(vs))
<1> DEFINE w == g \o vs
           T == {w[i] : i \in DOMAIN w}
           n == Len(vs)
           k == Len(g)
<1>1. /\ IsList(w) /\ k \in Nat /\ n \in Nat /\ Len(w) = k + n
      /\ \A i \in 1 .. k : w[i] = g[i]
      /\ \A i \in 1 .. n : w[k + i] = vs[i]
  <2>1. Follows(w, g, vs)
    BY JoinLists
  <2> HIDE DEF w
  <2> QED
    BY <2>1 DEF Follows
<1>2. w \in Seq(T)
  BY <1>1 DEF IsList
<1> HIDE DEF w, T
<1>3. ASSUME NEW m \in 0 .. n
      PROVE  /\ IsList(Grown(g, vs, m)) /\ Len(Grown(g, vs, m)) = k + m
             /\ \A i \in 1 .. k + m : Grown(g, vs, m)[i] = w[i]
  <2> DEFINE u == SubSeq(w, 1, k + m)
  <2>1. k + m \in 0 .. Len(w)
    BY <1>1
  <2>2. u \in Seq(T) /\ Len(u) = k + m /\ \A i \in 1 .. k + m : u[i] = w[i]
    BY <1>2, <2>1, PrefixFacts
  <2>3. Grown(g, vs, m) = u
    BY DEF Grown, w
  <2> HIDE DEF u
  <2> QED
    BY <2>2, <2>3, KnownList
<1> HIDE DEF n, k
<1>4. Grown(g, vs, 0) = g
  <2>1. 0 \in 0 .. n /\ k + 0 = k
    BY <1>1
  <2>2. IsList(Grown(g, vs, 0)) /\ Len(Grown(g, vs, 0)) = k /\ \A i \in 1 .. k : Grown(g, vs, 0)[i] = w[i]
    BY <1>3, <2>1
  <2>3. \A i \in 1 .. k : Grown(g, vs, 0)[i] = g[i]
    BY <1>1, <2>2
  <2> QED
    BY <2>2, <2>3, SameLists DEF k
<1>5. Grown(g, vs, n) = w
  <2>1. n \in 0 .. n
    BY <1>1
  <2>2. /\ IsList(Grown(g, vs, n)) /\ Len(Grown(g, vs, n)) = k + n
        /\ \A i \in 1 .. k + n : Grown(g, vs, n)[i] = w[i]
    BY <1>3, <2>1
  <2> QED
    BY <1>1, <2>2, SameLists
<1>6. ASSUME NEW m \in 1 .. n
      PROVE  Grown(g, vs, m) = Append(Grown(g, vs, m - 1), vs[m])
  <2> DEFINE u == Grown(g, vs, m - 1)
             x == Grown(g, vs, m)
             y == Append(u, vs[m])
  <2>1. m \in 0 .. n /\ m - 1 \in 0 .. n /\ k + (m - 1) \in Nat /\ (k + (m - 1)) + 1 = k + m
    BY <1>1
  <2>2. /\ IsList(u) /\ Len(u) = k + (m - 1) /\ \A i \in 1 .. k + (m - 1) : u[i] = w[i]
    BY <1>3, <2>1
  <2>3. /\ IsList(x) /\ Len(x) = k + m /\ \A i \in 1 .. k + m : x[i] = w[i]
    BY <1>3, <2>1
  <2> HIDE DEF u, x
  <2>4. /\ IsList(y) /\ DOMAIN y = 1 .. k + m
        /\ \A i \in 1 .. k + (m - 1) : y[i] = u[i]
        /\ y[k + m] = vs[m]
    BY <2>1, <2>2, AppendList
  <2> HIDE DEF y
  <2>5. Len(y) = k + m
    <3>1. Len(y) \in Nat /\ DOMAIN y = 1 .. Len(y)
      BY <2>4, LenProperties DEF IsList
    <3>2. k + m \in Nat
      BY <1>1
    <3> QED
      BY <2>4, <3>1, <3>2
  <2>6. ASSUME NEW i \in 1 .. k + m PROVE x[i] = y[i]
    <3>1. i \in 1 .. k + (m - 1) \/ i = k + m
      BY <1>1
    <3>2. w[k + m] = vs[m]
      BY <1>1
    <3> QED
      BY <2>2, <2>3, <2>4, <3>1, <3>2
  <2>7. x = y
    BY <2>3, <2>4, <2>5, <2>6, SameLists
  <2> QED
    BY <2>7 DEF u, x, y
<1> QED
  BY <1>3, <1>4, <1>5, <1>6 DEF Grows, w, n

-----------------------------------------------------------------------------
(* Reading.                                                                *)

\* A reader at p that has read g, fields only.
Reader(p, g) == [pos |-> p, whole |-> TRUE, got |-> g]

\* Of a field on the disk its value is read.
LEMMA ReadField ==
  ASSUME OneValue(Disk[file].fields), NEW p, NEW w, NEW v, NEW g,
         <<p, w, v>> \in Disk[file].fields
  PROVE  Rd(Reader(p, g), w) = Reader(p + w, Append(g, v))
<1> DEFINE here == {x \in Disk[file].fields : x[1] = p /\ x[2] = w}
           c == CHOOSE x \in here : TRUE
<1>1. <<p, w, v>> \in here
  OBVIOUS
<1>2. c \in here
  BY <1>1
<1>3. c[1] = p /\ c[2] = w /\ c \in Disk[file].fields
  BY <1>2
<1> DEFINE b == <<p, w, v>>
<1>4. b[1] = p /\ b[2] = w /\ b[3] = v /\ b \in Disk[file].fields
  OBVIOUS
<1> HIDE DEF b, c
<1>5. c[3] = v
  BY <1>3, <1>4 DEF OneValue
<1>6. here # {}
  BY <1>1
<1>7. Reader(p, g).pos = p /\ Reader(p, g).whole = TRUE /\ Reader(p, g).got = g
  BY DEF Reader
<1> DEFINE r == Reader(p, g)
<1> HIDE DEF r
<1>8. Rd(r, w) = [pos |-> r.pos + w, whole |-> r.whole /\ here # {},
                  got |-> Append(r.got, IF here = {} THEN 0 ELSE c[3])]
  BY <1>7 DEF Rd, c, r
<1> HIDE DEF here
<1>9. Rd(r, w) = [pos |-> p + w, whole |-> TRUE, got |-> Append(g, v)]
  BY <1>5, <1>6, <1>7, <1>8 DEF r
<1> QED
  BY <1>9 DEF r, Reader

\* To change what has been read leaves the place.
LEMMA ChangeField ==
  ASSUME NEW p, NEW g, NEW x
  PROVE  [[pos |-> p, whole |-> TRUE, got |-> g] EXCEPT !.got = x] = [pos |-> p, whole |-> TRUE, got |-> x]
<1> DEFINE r == [pos |-> p, whole |-> TRUE, got |-> g]
           s == [pos |-> p, whole |-> TRUE, got |-> x]
           u == [r EXCEPT !.got = x]
           K == {"pos", "whole", "got"}
<1>1. r.pos = p /\ r.whole = TRUE /\ r = [k \in K |-> r[k]]
  OBVIOUS
<1>2. s.pos = p /\ s.whole = TRUE /\ s.got = x /\ s = [k \in K |-> s[k]]
  OBVIOUS
<1> HIDE DEF r, s
<1>3. u.pos = p /\ u.whole = TRUE /\ u.got = x /\ u = [k \in K |-> u[k]]
  BY <1>1
<1> HIDE DEF u
<1>4. u = s
  BY <1>2, <1>3
<1> QED
  BY <1>4 DEF u, r, s

LEMMA ChangeGot ==
  ASSUME NEW p, NEW g, NEW x
  PROVE  Reader(p, g).got = g /\ [Reader(p, g) EXCEPT !.got = x] = Reader(p, x)
<1>1. Reader(p, g).got = g
  BY DEF Reader
<1>2. [Reader(p, g) EXCEPT !.got = x] = Reader(p, x)
  BY ChangeField DEF Reader
<1> QED
  BY <1>1, <1>2

\* And of a string on the disk the string.
LEMMA ReadString ==
  ASSUME OneValue(Disk[file].fields), NEW p, NEW n, NEW s, NEW g, IsList(g),
         <<p, 8, n>> \in Disk[file].fields, <<p + 8, n, s>> \in Disk[file].fields
  PROVE  RdStr(Reader(p, g)) = Reader((p + 8) + n, Append(g, s))
<1> DEFINE h == Append(g, n)
           k == Append(h, s)
           q == (p + 8) + n
<1>1. Rd(Reader(p, g), 8) = Reader(p + 8, h)
  BY ReadField
<1>2. IsList(h) /\ Last(h) = n /\ Front(h) = g
  BY AppendList, LastOf
<1> HIDE DEF h
<1>3. Rd(Reader(p + 8, h), n) = Reader(q, k)
  BY ReadField
<1>4. Last(k) = s
  BY <1>2, LastOf
<1> HIDE DEF k, q
<1> DEFINE r == Reader(p + 8, h)
           x == Rd(r, Last(r.got))
<1>5. r.got = h
  BY ChangeGot
<1>6. x = Reader(q, k)
  BY <1>2, <1>3, <1>5
<1>7. x.got = k
  BY <1>6, ChangeGot
<1>8. Named(r) = [x EXCEPT !.got = Append(Front(r.got), Last(x.got))]
  BY DEF Named
<1> HIDE DEF x, r
<1>9. Append(Front(r.got), Last(x.got)) = Append(g, s)
  BY <1>2, <1>4, <1>5, <1>7
<1>10. Named(r) = [Reader(q, k) EXCEPT !.got = Append(g, s)]
  BY <1>6, <1>8, <1>9
<1>11. Named(r) = Reader(q, Append(g, s))
  BY <1>10, ChangeGot
<1>12. RdStr(Reader(p, g)) = Named(r)
  BY <1>1 DEF RdStr, r
<1> QED
  BY <1>11, <1>12 DEF q

\* A float of an array, of which half is kept.
LEMMA ReadHalf ==
  ASSUME NEW p, NEW g, IsList(g), NEW v
  PROVE  Kept(Reader(p, Append(g, v))) = Reader(p, Append(g, <<"half", v>>))
<1> DEFINE h == Append(g, v)
           r == Reader(p, h)
           x == Append(Front(r.got), <<"half", Last(r.got)>>)
<1>1. Last(h) = v /\ Front(h) = g
  BY LastOf
<1> HIDE DEF h
<1>2. r.got = h
  BY ChangeGot
<1>3. Kept(r) = [r EXCEPT !.got = x]
  BY DEF Kept
<1>4. [r EXCEPT !.got = x] = Reader(p, x)
  BY ChangeGot
<1> HIDE DEF r
<1>5. x = Append(g, <<"half", v>>)
  BY <1>1, <1>2
<1> HIDE DEF x
<1> QED
  BY <1>3, <1>4, <1>5 DEF r, h

\* A round of the loop over the elements of an array, and the whole loop over
\* n of them.
ElemStep(q, of) ==
  CASE of = "str" -> RdStr(q)
    [] of = "f32" -> Kept(Rd(q, 4))
    [] OTHER -> Rd(q, Scalars[of])
Reads(f, n, r, of) ==
  f = [s \in SUBSET (1 .. n) |-> IF s = {} THEN r ELSE ElemStep(f[s \ {Max(s)}], of)]
\* The readers after each round.
Stepwise(st, n, r, of) == st[0] = r /\ \A m \in 1 .. n : ElemStep(st[m - 1], of) = st[m]

\* Numbers without the greatest are one less.
LEMMA TakeOut ==
  ASSUME NEW n \in Nat, NEW s \in SUBSET (1 .. n), s # {}
  PROVE  /\ s \ {Max(s)} \in SUBSET (1 .. n)
         /\ Cardinality(s) \in 1 .. n /\ Cardinality(s \ {Max(s)}) = Cardinality(s) - 1
<1> DEFINE x == Max(s)
<1>1. x \in s
  <2>1. s \in SUBSET (0 .. n)
    OBVIOUS
  <2> QED
    BY <2>1, Greatest
<1> HIDE DEF x
<1>2. IsFiniteSet(1 .. n) /\ Cardinality(1 .. n) <= n
  <2>1. 1 \in Int /\ n \in Int /\ n \in Nat
    OBVIOUS
  <2>2. IsFiniteSet(1 .. n) /\ Cardinality(1 .. n) = IF 1 > n THEN 0 ELSE n - 1 + 1
    BY <2>1, FS_Interval
  <2> QED
    BY <2>1, <2>2
<1>3. IsFiniteSet(s) /\ Cardinality(s) <= Cardinality(1 .. n)
  BY <1>2, FS_Subset
<1>4. Cardinality(s) \in Nat /\ Cardinality(1 .. n) \in Nat
  BY <1>2, <1>3, FS_CardinalityType
<1>5. Cardinality(s) # 0
  BY <1>3, FS_EmptySet
<1>6. Cardinality(s \ {x}) = Cardinality(s) - 1
  BY <1>1, <1>3, FS_RemoveElement
<1>7. Cardinality(s) \in 1 .. n
  BY <1>2, <1>3, <1>4, <1>5
<1> QED
  BY <1>6, <1>7 DEF x

\* The loop gives the reader after the last round.
LEMMA LoopReads ==
  ASSUME NEW n \in Nat, NEW r, NEW of, NEW st, Stepwise(st, n, r, of)
  PROVE  (\E f : Reads(f, n, r, of)) /\ \A f : Reads(f, n, r, of) => f[1 .. n] = st[n]
<1> DEFINE S == SUBSET (1 .. n)
           h == [s \in S |-> st[Cardinality(s)]]
<1>1. Cardinality({}) = 0
  BY FS_EmptySet
<1>2. ASSUME NEW s \in S, s # {}
      PROVE  s \ {Max(s)} \in S /\ st[Cardinality(s)] = ElemStep(st[Cardinality(s \ {Max(s)})], of)
  <2> DEFINE c == Cardinality(s)
             t == s \ {Max(s)}
  <2>1. t \in S /\ c \in 1 .. n /\ Cardinality(t) = c - 1
    BY <1>2, TakeOut
  <2> HIDE DEF c, t
  <2>2. ElemStep(st[c - 1], of) = st[c]
    BY <2>1 DEF Stepwise
  <2> QED
    BY <2>1, <2>2 DEF c, t
<1>3. Reads(h, n, r, of)
  <2>1. ASSUME NEW s \in S
        PROVE  h[s] = IF s = {} THEN r ELSE ElemStep(h[s \ {Max(s)}], of)
    <3>1. CASE s = {}
      BY <1>1, <3>1 DEF Stepwise
    <3>2. CASE s # {}
      <4> DEFINE t == s \ {Max(s)}
      <4>1. t \in S /\ st[Cardinality(s)] = ElemStep(st[Cardinality(t)], of)
        BY <1>2, <3>2
      <4> HIDE DEF t
      <4>2. h[s] = st[Cardinality(s)] /\ h[t] = st[Cardinality(t)]
        BY <4>1
      <4> HIDE DEF h
      <4>3. h[s] = ElemStep(h[t], of)
        BY <4>1, <4>2
      <4> QED
        BY <3>2, <4>3 DEF t
    <3> QED
      BY <3>1, <3>2
  <2>2. h = [s \in S |-> h[s]]
    OBVIOUS
  <2> HIDE DEF h
  <2> QED
    BY <2>1, <2>2 DEF Reads
<1>4. ASSUME NEW f, Reads(f, n, r, of)
      PROVE  f[1 .. n] = st[n]
  <2> DEFINE T == {s \in S : f[s] = st[Cardinality(s)]}
  <2>1. \A s \in S : f[s] = IF s = {} THEN r ELSE ElemStep(f[s \ {Max(s)}], of)
    BY <1>4 DEF Reads
  <2>2. {} \in T
    BY <1>1, <2>1 DEF Stepwise
  <2>3. ASSUME NEW s \in S, s # {} /\ s \ {Max(s)} \in T PROVE s \in T
    <3> DEFINE t == s \ {Max(s)}
    <3>1. t \in S /\ st[Cardinality(s)] = ElemStep(st[Cardinality(t)], of) /\ f[t] = st[Cardinality(t)]
      BY <1>2, <2>3
    <3>2. f[s] = ElemStep(f[t], of)
      BY <2>1, <2>3
    <3> HIDE DEF t
    <3>3. f[s] = st[Cardinality(s)]
      BY <3>1, <3>2
    <3> QED
      BY <3>3
  <2>4. 1 .. n \in SUBSET (0 .. n)
    OBVIOUS
  <2>5. S \subseteq T
    <3> HIDE DEF T
    <3> QED
      BY <2>2, <2>3, <2>4, EachInduction
  <2>6. f[1 .. n] = st[Cardinality(1 .. n)]
    BY <2>5
  <2>7. Cardinality(1 .. n) = n
    <3>1. 1 \in Int /\ n \in Int /\ n \in Nat
      OBVIOUS
    <3>2. Cardinality(1 .. n) = IF 1 > n THEN 0 ELSE n - 1 + 1
      BY <3>1, FS_Interval
    <3> QED
      BY <3>1, <3>2
  <2> QED
    BY <2>6, <2>7
<1> QED
  BY <1>3, <1>4

LEMMA ElemsAre ==
  ASSUME NEW r, NEW of, NEW n \in Nat, Last(r.got) = n, NEW st, Stepwise(st, n, r, of)
  PROVE  Elems(r, of) = st[n]
<1> DEFINE P0(f) == f = [s \in SUBSET DOMAIN [k \in 1 .. Last(r.got) |-> k] |->
                      IF s = {} THEN r
                      ELSE CASE of = "str" -> RdStr(f[s \ {Max(s)}])
                             [] of = "f32" -> Kept(Rd(f[s \ {Max(s)}], 4))
                             [] OTHER -> Rd(f[s \ {Max(s)}], Scalars[of])]
           f == CHOOSE f : P0(f)
<1>1. Elems(r, of) = f[DOMAIN [k \in 1 .. Last(r.got) |-> k]]
  BY DEF Elems, FoldLeft, MapThenFoldSet
<1>2. DOMAIN [k \in 1 .. Last(r.got) |-> k] = 1 .. n
  OBVIOUS
<1>3. \A g : P0(g) <=> Reads(g, n, r, of)
  BY <1>2 DEF Reads, ElemStep
<1>4. (\E g : Reads(g, n, r, of)) /\ \A g : Reads(g, n, r, of) => g[1 .. n] = st[n]
  BY LoopReads
<1>5. P0(f)
  <2> HIDE DEF P0
  <2> QED
    BY <1>3, <1>4
<1> HIDE DEF f, P0
<1> QED
  BY <1>1, <1>2, <1>3, <1>4, <1>5

\* So are dimensions read, which are eight bytes each.
LEMMA DimsAre ==
  ASSUME NEW r, NEW n \in Nat, Last(r.got) = n, NEW st, Stepwise(st, n, r, "u64")
  PROVE  RdDims(r) = st[n]
<1> DEFINE P0(f) == f = [s \in SUBSET DOMAIN [d \in 1 .. Last(r.got) |-> d] |->
                      IF s = {} THEN r ELSE Rd(f[s \ {Max(s)}], 8)]
           f == CHOOSE f : P0(f)
<1>1. RdDims(r) = f[DOMAIN [d \in 1 .. Last(r.got) |-> d]]
  BY DEF RdDims, FoldLeft, MapThenFoldSet
<1>2. DOMAIN [k \in 1 .. Last(r.got) |-> k] = 1 .. n
  OBVIOUS
<1>3. \A q : ElemStep(q, "u64") = Rd(q, 8)
  BY DEF ElemStep, Scalars
<1>4. \A g : P0(g) <=> Reads(g, n, r, "u64")
  BY <1>2, <1>3 DEF Reads
<1>5. (\E g : Reads(g, n, r, "u64")) /\ \A g : Reads(g, n, r, "u64") => g[1 .. n] = st[n]
  BY LoopReads
<1>6. P0(f)
  <2> HIDE DEF P0
  <2> QED
    BY <1>4, <1>5
<1> HIDE DEF f, P0
<1> QED
  BY <1>1, <1>2, <1>4, <1>5, <1>6

\* What is kept of the elements of an array.
KeptOf(e) == IF e.of = "f32" THEN [k \in DOMAIN e.val |-> <<"half", e.val[k]>>] ELSE e.val

LEMMA KeptLists ==
  ASSUME NEW e, EntryOK(e), e.type = "arr"
  PROVE  /\ IsList(KeptOf(e)) /\ Len(KeptOf(e)) = Len(e.val) /\ Len(e.val) \in Nat
         /\ \A k \in 1 .. Len(e.val) :
              KeptOf(e)[k] = IF e.of = "f32" THEN <<"half", e.val[k]>> ELSE e.val[k]
<1> DEFINE n == Len(e.val)
           q == [k \in 1 .. n |-> <<"half", e.val[k]>>]
<1>1. IsList(e.val) /\ n \in Nat /\ DOMAIN e.val = 1 .. n
  BY ElemLists
<1>2. CASE e.of = "f32"
  <2>1. KeptOf(e) = q
    BY <1>1, <1>2 DEF KeptOf
  <2>2. \A k \in 1 .. n : q[k] = <<"half", e.val[k]>>
    OBVIOUS
  <2>3. q = [k \in 1 .. n |-> q[k]]
    OBVIOUS
  <2> HIDE DEF q, n
  <2>4. IsList(q) /\ Len(q) = n
    BY <1>1, <2>3, MappedList
  <2> QED
    BY <1>1, <1>2, <2>1, <2>2, <2>4 DEF n
<1>3. CASE e.of # "f32"
  BY <1>1, <1>3 DEF KeptOf
<1> QED
  BY <1>2, <1>3

\* The fields of one element of an array.
LEMMA ElemPlaces ==
  ASSUME NEW e, EntryOK(e), e.type = "arr", NEW m \in 1 .. Len(e.val)
  PROVE  /\ e.of = "str" \/ e.of \in DOMAIN Scalars
         /\ e.of = "str" =>
              /\ StrLen(e.val[m]) \in Nat /\ SizeOf(ElemFields(e)[m]) = 8 + StrLen(e.val[m])
              /\ \A from \in Nat : Places(ElemFields(e)[m], from)
                   = {<<from, 8, StrLen(e.val[m])>>, <<from + 8, StrLen(e.val[m]), e.val[m]>>}
         /\ e.of \in DOMAIN Scalars =>
              /\ Scalars[e.of] \in Nat /\ e.of # "str" /\ SizeOf(ElemFields(e)[m]) = Scalars[e.of]
              /\ \A from \in Nat : Places(ElemFields(e)[m], from) = {<<from, Scalars[e.of], e.val[m]>>}
<1> DEFINE n == Len(e.val)
           v == e.val[m]
<1>1. IsList(e.val) /\ n \in Nat /\ DOMAIN e.val = 1 .. n
  BY ElemLists
<1>2. e.val # <<>>
  BY <1>1, EmptySeq
<1>3. \/ e.of \in DOMAIN Scalars
      \/ e.of = "str" /\ \A k \in DOMAIN e.val : StrLen(e.val[k]) \in Nat
  <2>1. CASE e = [key |-> e.key, type |-> e.type, val |-> e.val] /\ e.type \in DOMAIN Scalars
    BY <2>1, ScalarBytes
  <2>2. CASE e = [key |-> e.key, type |-> "str", val |-> e.val]
    BY <2>2
  <2> QED
    BY <1>2, <2>1, <2>2 DEF EntryOK
<1>4. ElemFields(e)[m] = IF e.of = "str" THEN StrFields(v, StrLen(v)) ELSE << <<v, Scalars[e.of]>> >>
  BY <1>1 DEF ElemFields
<1>5. CASE e.of = "str"
  <2>1. StrLen(v) \in Nat
    BY <1>1, <1>3, <1>5, ScalarBytes
  <2>2. e.of \notin DOMAIN Scalars
    BY <1>5, ScalarBytes
  <2> QED
    BY <1>4, <1>5, <2>1, <2>2, StringFields
<1>6. CASE e.of \in DOMAIN Scalars
  <2>1. Scalars[e.of] \in Nat \ {0} /\ e.of # "str"
    BY <1>6, ScalarBytes
  <2>2. ElemFields(e)[m] = << <<v, Scalars[e.of]>> >>
    BY <1>4, <2>1
  <2> DEFINE w == Scalars[e.of]
             p == ElemFields(e)[m]
  <2>3. w \in Nat \ {0} /\ p = << <<v, w>> >>
    BY <2>1, <2>2
  <2> HIDE DEF w, p, v
  <2>4. SizeOf(p) = w /\ \A from \in Nat : Places(p, from) = {<<from, w, v>>}
    BY <2>3, FieldAlone
  <2> QED
    BY <1>6, <2>1, <2>4 DEF w, p, v
<1> QED
  BY <1>3, <1>5, <1>6

\* A round of the loop reads one element.
LEMMA ReadElem ==
  ASSUME OneValue(Disk[file].fields), NEW e, EntryOK(e), e.type = "arr", NEW m \in 1 .. Len(e.val),
         NEW p \in Nat, Places(ElemFields(e)[m], p) \subseteq Disk[file].fields, NEW h, IsList(h)
  PROVE  ElemStep(Reader(p, h), e.of) = Reader(p + SizeOf(ElemFields(e)[m]), Append(h, KeptOf(e)[m]))
<1> DEFINE v == e.val[m]
           k == StrLen(v)
           w == Scalars[e.of]
           size == SizeOf(ElemFields(e)[m])
           r == Reader(p, h)
<1>1. KeptOf(e)[m] = IF e.of = "f32" THEN <<"half", v>> ELSE v
  BY KeptLists
<1>2. CASE e.of = "str"
  <2>1. k \in Nat /\ size = 8 + k /\ Places(ElemFields(e)[m], p) = {<<p, 8, k>>, <<p + 8, k, v>>}
    BY <1>2, ElemPlaces
  <2>2. <<p, 8, k>> \in Disk[file].fields /\ <<p + 8, k, v>> \in Disk[file].fields
    BY <2>1
  <2>3. ElemStep(r, e.of) = RdStr(r)
    BY <1>2 DEF ElemStep
  <2>4. (p + 8) + k = p + size
    BY <2>1
  <2> HIDE DEF k, size, v
  <2>5. RdStr(Reader(p, h)) = Reader((p + 8) + k, Append(h, v))
    BY <2>2, ReadString
  <2>6. KeptOf(e)[m] = v
    BY <1>1, <1>2
  <2> QED
    BY <2>3, <2>4, <2>5, <2>6 DEF size
<1>3. CASE e.of \in DOMAIN Scalars
  <2>1. w \in Nat /\ size = w /\ e.of # "str" /\ Places(ElemFields(e)[m], p) = {<<p, w, v>>}
    BY <1>3, ElemPlaces
  <2>2. <<p, w, v>> \in Disk[file].fields
    BY <2>1
  <2>3. e.of = "f32" => w = 4
    BY DEF Scalars
  <2>4. ElemStep(r, e.of) = IF e.of = "f32" THEN Kept(Rd(r, w)) ELSE Rd(r, w)
    BY <2>1, <2>3 DEF ElemStep
  <2> HIDE DEF w, size, v
  <2>5. Rd(Reader(p, h), w) = Reader(p + w, Append(h, v))
    BY <2>2, ReadField
  <2>6. Kept(Reader(p + w, Append(h, v))) = Reader(p + w, Append(h, <<"half", v>>))
    BY ReadHalf
  <2>7. ElemStep(r, e.of) = Reader(p + w, Append(h, KeptOf(e)[m]))
    BY <1>1, <2>4, <2>5, <2>6
  <2> QED
    BY <2>1, <2>7 DEF size
<1> QED
  BY <1>2, <1>3, ElemPlaces

\* The loop reads all of them.
LEMMA ReadElems ==
  ASSUME OneValue(Disk[file].fields), NEW e, EntryOK(e), e.type = "arr",
         NEW p \in Nat, PlacesOf(ElemFields(e), p) \subseteq Disk[file].fields, NEW g, IsList(g),
         Last(g) = Len(e.val)
  PROVE  Elems(Reader(p, g), e.of) = Reader(p + Ends(Bytes(ElemFields(e))), g \o KeptOf(e))
<1> DEFINE ss == ElemFields(e)
           vs == KeptOf(e)
           n == Len(e.val)
           r == Reader(p, g)
           st == [m \in 0 .. n |-> Reader(p + ListAt(ss, m + 1), Grown(g, vs, m))]
<1>1. FieldLists(ss) /\ n \in Nat /\ Len(ss) = n /\ IsList(vs) /\ Len(vs) = n
  BY ElemLists, KeptLists
<1> HIDE DEF ss, n
<1>2. /\ DOMAIN ss = 1 .. n /\ ListAt(ss, 1) = 0 /\ Ends(Bytes(ss)) = ListAt(ss, n + 1)
      /\ \A i \in 1 .. n : ListAt(ss, i + 1) = ListAt(ss, i) + SizeOf(ss[i]) /\ SizeOf(ss[i]) \in Nat
      /\ \A i \in 1 .. n + 1 : ListAt(ss, i) \in Nat
  BY <1>1, ListStarts
<1> HIDE DEF vs
<1>3. /\ Grown(g, vs, 0) = g /\ Grown(g, vs, n) = g \o vs
      /\ \A m \in 0 .. n : IsList(Grown(g, vs, m))
      /\ \A m \in 1 .. n : Grown(g, vs, m) = Append(Grown(g, vs, m - 1), vs[m])
  <2>1. Grows(g, vs, n)
    BY <1>1, Growing
  <2> QED
    BY <2>1 DEF Grows
<1>4. ASSUME NEW m \in 1 .. n
      PROVE  ElemStep(st[m - 1], e.of) = st[m]
  <2> DEFINE q == p + ListAt(ss, m)
             h == Grown(g, vs, m - 1)
  <2>1. m - 1 \in 0 .. n /\ m \in 0 .. n /\ (m - 1) + 1 = m /\ m \in 1 .. n + 1
    BY <1>1
  <2>2. q \in Nat /\ p + ListAt(ss, m + 1) = q + SizeOf(ss[m])
    BY <1>2, <2>1
  <2>3. st[m - 1] = Reader(q, h)
    BY <2>1
  <2>4. st[m] = Reader(q + SizeOf(ss[m]), Append(h, vs[m]))
    BY <1>3, <2>1, <2>2
  <2>5. Places(ss[m], q) \subseteq Disk[file].fields
    BY <1>2 DEF PlacesOf, ss
  <2>6. IsList(h)
    BY <1>3, <2>1
  <2> HIDE DEF q, h, st
  <2>7. m \in 1 .. Len(e.val)
    BY DEF n
  <2>8. ElemStep(Reader(q, h), e.of) = Reader(q + SizeOf(ss[m]), Append(h, vs[m]))
    BY <2>2, <2>5, <2>6, <2>7, ReadElem DEF ss, vs
  <2> QED
    BY <2>3, <2>4, <2>8
<1>5. st[0] = r /\ st[n] = Reader(p + Ends(Bytes(ss)), g \o vs)
  <2>1. 0 \in 0 .. n /\ n \in 0 .. n /\ 0 + 1 = 1 /\ p + 0 = p
    BY <1>1
  <2> QED
    BY <1>2, <1>3, <2>1
<1>6. Last(r.got) = n
  BY ChangeGot DEF n
<1> HIDE DEF st, r
<1>7. Stepwise(st, n, r, e.of)
  BY <1>4, <1>5 DEF Stepwise
<1>8. Elems(r, e.of) = st[n]
  BY <1>1, <1>6, <1>7, ElemsAre
<1> QED
  BY <1>5, <1>8 DEF r, ss, vs

\* And the dimensions of a tensor are.
LEMMA ReadDims ==
  ASSUME OneValue(Disk[file].fields), NEW t, IsList(t.dims),
         NEW p \in Nat, Places(DimFields(t), p) \subseteq Disk[file].fields, NEW g, IsList(g),
         Last(g) = Len(t.dims)
  PROVE  RdDims(Reader(p, g)) = Reader(p + SizeOf(DimFields(t)), g \o t.dims)
<1> DEFINE d == DimFields(t)
           vs == t.dims
           n == Len(t.dims)
           r == Reader(p, g)
           st == [m \in 0 .. n |-> Reader(p + StartOf(d, m + 1), Grown(g, vs, m))]
<1>1. FieldList(d) /\ n \in Nat /\ Len(d) = n /\ \A m \in 1 .. n : d[m] = <<vs[m], 8>>
  BY DimPlaces
<1> HIDE DEF d, n
<1>2. /\ DOMAIN d = 1 .. n /\ StartOf(d, 1) = 0 /\ SizeOf(d) = StartOf(d, n + 1)
      /\ \A i \in 1 .. n : StartOf(d, i + 1) = StartOf(d, i) + d[i][2]
      /\ \A i \in 1 .. n + 1 : StartOf(d, i) \in Nat
  BY <1>1, FieldStarts
<1> HIDE DEF vs
<1>3. /\ Grown(g, vs, 0) = g /\ Grown(g, vs, n) = g \o vs
      /\ \A m \in 1 .. n : Grown(g, vs, m) = Append(Grown(g, vs, m - 1), vs[m])
  <2>1. Grows(g, vs, n)
    <3>1. Len(vs) = n /\ IsList(vs)
      BY DEF n, vs
    <3> QED
      BY <3>1, Growing
  <2> QED
    BY <2>1 DEF Grows
<1>4. ASSUME NEW m \in 1 .. n
      PROVE  ElemStep(st[m - 1], "u64") = st[m]
  <2> DEFINE q == p + StartOf(d, m)
             h == Grown(g, vs, m - 1)
  <2>1. m - 1 \in 0 .. n /\ m \in 0 .. n /\ (m - 1) + 1 = m /\ m \in 1 .. n + 1
    BY <1>1
  <2>2. d[m][1] = vs[m] /\ d[m][2] = 8
    BY <1>1
  <2>3. p + StartOf(d, m + 1) = q + 8
    BY <1>2, <2>1, <2>2
  <2>4. st[m - 1] = Reader(q, h)
    BY <2>1
  <2>5. st[m] = Reader(q + 8, Append(h, vs[m]))
    BY <1>3, <2>1, <2>3
  <2>6. <<q, 8, vs[m]>> \in Disk[file].fields
    <3>1. <<p + StartOf(d, m), d[m][2], d[m][1]>> \in Places(d, p)
      BY <1>2 DEF Places
    <3> QED
      BY <2>2, <3>1 DEF d
  <2> HIDE DEF q, h, st
  <2>7. Rd(Reader(q, h), 8) = Reader(q + 8, Append(h, vs[m]))
    BY <2>6, ReadField
  <2>8. ElemStep(Reader(q, h), "u64") = Rd(Reader(q, h), 8)
    BY DEF ElemStep, Scalars
  <2> QED
    BY <2>4, <2>5, <2>7, <2>8
<1>5. st[0] = r /\ st[n] = Reader(p + SizeOf(d), g \o vs)
  <2>1. 0 \in 0 .. n /\ n \in 0 .. n /\ 0 + 1 = 1 /\ p + 0 = p
    BY <1>1
  <2> QED
    BY <1>2, <1>3, <2>1
<1>6. Last(r.got) = n
  BY ChangeGot DEF n
<1> HIDE DEF st, r
<1>7. Stepwise(st, n, r, "u64")
  BY <1>4, <1>5 DEF Stepwise
<1>8. RdDims(r) = st[n]
  BY <1>1, <1>6, <1>7, DimsAre
<1> QED
  BY <1>5, <1>8 DEF r, d, vs

\* t is the list s and one more element.
Longer(t, s, e) ==
  /\ IsList(t) /\ Len(s) \in Nat /\ Len(t) = Len(s) + 1
  /\ \A i \in 1 .. Len(s) : t[i] = s[i]
  /\ t[Len(s) + 1] = e /\ Last(t) = e

LEMMA AppendOne ==
  ASSUME NEW s, IsList(s), NEW e
  PROVE  Longer(Append(s, e), s, e)
<1> DEFINE t == Append(s, e)
<1>1. /\ IsList(t) /\ Len(s) \in Nat /\ DOMAIN t = 1 .. Len(s) + 1
      /\ \A i \in 1 .. Len(s) : t[i] = s[i]
      /\ t[Len(s) + 1] = e
  BY AppendList
<1>2. Last(t) = e
  BY LastOf
<1> HIDE DEF t
<1>3. Len(t) \in Nat /\ DOMAIN t = 1 .. Len(t)
  BY <1>1, LenProperties DEF IsList
<1>4. Len(t) = Len(s) + 1
  BY <1>1, <1>3
<1> QED
  BY <1>1, <1>2, <1>4 DEF Longer, t

\* vs is in the list s, after k of its elements.
Within(s, k, vs) == \A i \in 1 .. Len(vs) : s[k + i] = vs[i]
Part(s, k, vs) == SubSeq(s, k + 1, k + Len(vs)) = vs

\* A part of a list.
LEMMA MiddlePart ==
  ASSUME NEW s, NEW k \in Nat, NEW vs, IsList(vs), Within(s, k, vs)
  PROVE  Part(s, k, vs)
<1> DEFINE n == Len(vs)
           S == {vs[i] : i \in DOMAIN vs}
           m == k + 1
           o == k + n
           u == SubSeq(s, m, o)
<1>1. n \in Nat /\ DOMAIN vs = 1 .. n
  BY LenProperties DEF IsList
<1> HIDE DEF n
<1>2. m \in Int /\ o \in Int /\ (o - m) + 1 = n /\ (m <= o <=> n > 0) /\ o - m + 1 = n
  BY <1>1
<1>3. \A i \in m .. o : s[i] \in S
  <2> SUFFICES ASSUME NEW i \in m .. o PROVE s[i] \in S
    OBVIOUS
  <2>1. i - k \in 1 .. n /\ k + (i - k) = i
    BY <1>1
  <2>2. s[k + (i - k)] = vs[i - k]
    BY <2>1 DEF n, Within
  <2> QED
    BY <1>1, <2>1, <2>2
<1>4. \A i \in 1 .. n : m + i - 1 = k + i
  BY <1>1
<1> HIDE DEF S, m, o
<1>5. /\ u \in Seq(S) /\ Len(u) = IF m <= o THEN o - m + 1 ELSE 0
      /\ \A i \in 1 .. o - m + 1 : u[i] = s[m + i - 1]
  BY <1>2, <1>3, SubSeqProperties
<1> HIDE DEF u
<1>6. IsList(u) /\ Len(u) = n
  BY <1>1, <1>2, <1>5, KnownList
<1>7. \A i \in 1 .. n : u[i] = vs[i]
  BY <1>2, <1>4, <1>5 DEF n, Within
<1>8. u = vs
  BY <1>6, <1>7, SameLists DEF n
<1> QED
  BY <1>8 DEF u, m, o, n, Part

\* The list of two.
Two(a, b) == Append(Append(<<>>, a), b)
LEMMA TwoLong ==
  ASSUME NEW a, NEW b
  PROVE  /\ IsList(Two(a, b)) /\ Len(Two(a, b)) = 2
         /\ Two(a, b)[1] = a /\ Two(a, b)[2] = b /\ Last(Two(a, b)) = b
<1> DEFINE s == Append(<<>>, a)
           t == Append(s, b)
<1>1. Longer(s, <<>>, a)
  BY EmptyList, AppendOne
<1>2. Len(<<>>) = 0
  BY EmptySeq
<1> HIDE DEF s
<1>3. IsList(s) /\ Len(s) = 1 /\ s[1] = a
  <2>1. Len(<<>>) + 1 = 1
    BY <1>2
  <2> QED
    BY <1>1, <2>1 DEF Longer
<1>4. Longer(t, s, b)
  BY <1>3, AppendOne
<1> HIDE DEF t
<1>5. 1 \in 1 .. Len(s) /\ Len(s) + 1 = 2
  BY <1>3
<1>6. IsList(t) /\ Len(t) = 2 /\ t[1] = a /\ t[2] = b /\ Last(t) = b
  BY <1>3, <1>4, <1>5 DEF Longer
<1> QED
  BY <1>6 DEF Two, t, s

\* How entries and tensors begin is read.
LEMMA ReadOpening ==
  ASSUME OneValue(Disk[file].fields), NEW from, NEW n, NEW s, NEW v,
         Opening(from, n, s, v) \subseteq Disk[file].fields
  PROVE  Rd(RdStr(Reader(from, <<>>)), 4) = Reader(((from + 8) + n) + 4, Two(s, v))
<1>1. <<from, 8, n>> \in Disk[file].fields /\ <<from + 8, n, s>> \in Disk[file].fields
      /\ <<(from + 8) + n, 4, v>> \in Disk[file].fields
  BY DEF Opening
<1>2. RdStr(Reader(from, <<>>)) = Reader((from + 8) + n, Append(<<>>, s))
  <2> DEFINE e == <<>>
  <2>1. IsList(e)
    BY EmptyList
  <2> HIDE DEF e
  <2>2. RdStr(Reader(from, e)) = Reader((from + 8) + n, Append(e, s))
    BY <1>1, <2>1, ReadString
  <2> QED
    BY <2>2 DEF e
<1>3. Rd(Reader((from + 8) + n, Append(<<>>, s)), 4)
        = Reader(((from + 8) + n) + 4, Append(Append(<<>>, s), v))
  BY <1>1, ReadField
<1> QED
  BY <1>2, <1>3 DEF Two

\* What is read of a tensor of the table is the tensor.
LEMMA ReadTensor ==
  ASSUME OneValue(Disk[file].fields), NEW t, TensorOK(t), NEW from \in Nat,
         Places(TensorFields(t), from) \subseteq Disk[file].fields
  PROVE  \E got : ReadInfo(Reader(from, <<>>)) = Reader(from + SizeOf(TensorFields(t)), got)
                  /\ Info(got) = t
<1> DEFINE n == NameLen(t.name)
           k == Len(t.dims)
           at == ((from + 8) + n) + 4
           end == at + SizeOf(DimFields(t))
           g == Two(t.name, k)
           h == g \o t.dims
           i == Append(h, t.type)
           got == Append(i, t.offset)
<1>1. /\ n \in Nat /\ SizeOf(DimFields(t)) \in Nat /\ IsList(t.dims)
      /\ SizeOf(TensorFields(t)) = (((8 + n) + 4) + SizeOf(DimFields(t))) + 12
      /\ Places(TensorFields(t), from) = TensorSpots(t, from)
  BY TensorPlaces DEF TensorOK
<1>2. k \in Nat
  BY <1>1, DimPlaces
<1>3. /\ Opening(from, n, t.name, k) \subseteq Disk[file].fields
      /\ Places(DimFields(t), at) \subseteq Disk[file].fields
      /\ <<end, 4, t.type>> \in Disk[file].fields
      /\ <<end + 4, 8, t.offset>> \in Disk[file].fields
  BY <1>1 DEF TensorSpots
<1>4. IsList(g) /\ Len(g) = 2 /\ g[1] = t.name /\ g[2] = k /\ Last(g) = k
  BY TwoLong
<1>5. at \in Nat /\ end \in Nat /\ (end + 4) + 8 = from + SizeOf(TensorFields(t))
  BY <1>1
<1> HIDE DEF n, g, at, end
<1>6. Rd(RdStr(Reader(from, <<>>)), 4) = Reader(at, g)
  BY <1>3, ReadOpening DEF g, at
<1>7. RdDims(Reader(at, g)) = Reader(end, h)
  <2>1. Last(g) = Len(t.dims)
    BY <1>4
  <2> HIDE DEF k
  <2> QED
    BY <1>1, <1>3, <1>4, <1>5, <2>1, ReadDims DEF end
<1>8. Follows(h, g, t.dims)
  BY <1>1, <1>4, JoinLists
<1> HIDE DEF h
<1>9. Rd(Reader(end, h), 4) = Reader(end + 4, i)
  BY <1>3, ReadField
<1>10. Longer(i, h, t.type)
  BY <1>8, AppendOne DEF Follows
<1> HIDE DEF i
<1>11. Rd(Reader(end + 4, i), 8) = Reader((end + 4) + 8, got)
  BY <1>3, ReadField
<1>12. Longer(got, i, t.offset)
  BY <1>10, AppendOne DEF Longer
<1> HIDE DEF got
<1>13. ReadInfo(Reader(from, <<>>)) = Reader(from + SizeOf(TensorFields(t)), got)
  BY <1>5, <1>6, <1>7, <1>9, <1>11 DEF ReadInfo
<1> HIDE DEF k
<1>14. /\ Len(h) = 2 + k /\ h[1] = t.name /\ h[2] = k
       /\ \A j \in 1 .. k : h[2 + j] = t.dims[j]
  <2>1. 1 \in 1 .. 2 /\ 2 \in 1 .. 2
    OBVIOUS
  <2>2. /\ Len(h) = Len(g) + Len(t.dims) /\ \A j \in 1 .. Len(g) : h[j] = g[j]
        /\ \A j \in 1 .. Len(t.dims) : h[Len(g) + j] = t.dims[j]
    BY <1>8 DEF Follows
  <2> QED
    BY <1>4, <2>1, <2>2 DEF k
<1>15. /\ Len(i) = k + 3 /\ i[k + 3] = t.type /\ \A j \in 1 .. 2 + k : i[j] = h[j]
  <2>1. Len(h) + 1 = k + 3
    BY <1>2, <1>14
  <2> QED
    BY <1>10, <1>14, <2>1 DEF Longer
<1>16. got[k + 4] = t.offset /\ \A j \in 1 .. k + 3 : got[j] = i[j]
  <2>1. Len(i) + 1 = k + 4
    BY <1>2, <1>15
  <2> QED
    BY <1>12, <1>15, <2>1 DEF Longer
<1>17. /\ got[1] = t.name /\ got[2] = k /\ got[k + 3] = t.type /\ got[k + 4] = t.offset
       /\ \A j \in 1 .. k : got[2 + j] = t.dims[j]
  <2>1. /\ 1 \in 1 .. k + 3 /\ 2 \in 1 .. k + 3 /\ k + 3 \in 1 .. k + 3
        /\ 1 \in 1 .. 2 + k /\ 2 \in 1 .. 2 + k
        /\ \A j \in 1 .. k : 2 + j \in 1 .. k + 3 /\ 2 + j \in 1 .. 2 + k
    BY <1>2
  <2> QED
    BY <1>14, <1>15, <1>16, <2>1
<1>18. SubSeq(got, 3, k + 2) = t.dims
  <2>1. 3 = 2 + 1 /\ k + 2 = 2 + Len(t.dims) /\ 2 \in Nat
    BY <1>2 DEF k
  <2>2. Within(got, 2, t.dims)
    BY <1>17 DEF k, Within
  <2>3. Part(got, 2, t.dims)
    BY <1>1, <2>1, <2>2, MiddlePart
  <2>4. SubSeq(got, 2 + 1, 2 + Len(t.dims)) = t.dims
    BY <2>3 DEF Part
  <2> QED
    BY <2>1, <2>4
<1>19. Info(got) = t
  <2>1. Info(got) = [name |-> t.name, dims |-> t.dims, type |-> t.type, offset |-> t.offset]
    BY <1>17, <1>18 DEF Info
  <2> QED
    BY <2>1 DEF TensorOK
<1> QED
  BY <1>13, <1>19

\* Lists of three and of four.
ThreeIs(t, a, b, c) == IsList(t) /\ Len(t) = 3 /\ t[1] = a /\ t[2] = b /\ t[3] = c
FourIs(t, a, b, c, d) ==
  IsList(t) /\ Len(t) = 4 /\ t[1] = a /\ t[2] = b /\ t[3] = c /\ t[4] = d /\ Last(t) = d

LEMMA ThreeLong ==
  ASSUME NEW a, NEW b, NEW c
  PROVE  ThreeIs(Append(Two(a, b), c), a, b, c)
<1> DEFINE s == Two(a, b)
           t == Append(s, c)
<1>1. IsList(s) /\ Len(s) = 2 /\ s[1] = a /\ s[2] = b
  BY TwoLong
<1> HIDE DEF s
<1>2. Longer(t, s, c)
  BY <1>1, AppendOne
<1>3. 1 \in 1 .. 2 /\ 2 \in 1 .. 2 /\ 2 + 1 = 3
  OBVIOUS
<1> HIDE DEF t
<1>4. ThreeIs(t, a, b, c)
  BY <1>1, <1>2, <1>3 DEF Longer, ThreeIs
<1> QED
  BY <1>4 DEF t, s

LEMMA FourLong ==
  ASSUME NEW a, NEW b, NEW c, NEW d
  PROVE  FourIs(Append(Append(Two(a, b), c), d), a, b, c, d)
<1> DEFINE s == Append(Two(a, b), c)
           t == Append(s, d)
<1>1. ThreeIs(s, a, b, c)
  BY ThreeLong
<1> HIDE DEF s
<1>2. Longer(t, s, d)
  BY <1>1, AppendOne DEF ThreeIs
<1>3. 1 \in 1 .. 3 /\ 2 \in 1 .. 3 /\ 3 \in 1 .. 3 /\ 3 + 1 = 4
  OBVIOUS
<1> HIDE DEF t
<1>4. FourIs(t, a, b, c, d)
  BY <1>1, <1>2, <1>3 DEF Longer, ThreeIs, FourIs
<1> QED
  BY <1>4 DEF t, s

\* What is kept of an entry is the entry, but of an array of floats not all.
Told(x, e) ==
  x.key = e.key /\ x.type = e.type /\ (x = e \/ (x.type = "arr" /\ x.of = "f32"))

\* How a reader is left that has read the entry e, which ends at end.
EntryRead(r, e, end) ==
  /\ r.got[2] = e.type /\ (e.type = "arr" => r.got[3] = e.of)
  /\ e.type # "arr" \/ IsElem(e.of) => r = Reader(end, r.got) /\ Told(Entry(r.got), e)

\* A number or a string.
LEMMA ReadPlain ==
  ASSUME NEW e, e.type # "arr", e = [key |-> e.key, type |-> e.type, val |-> e.val],
         NEW end, NEW r, r = Reader(end, Append(Two(e.key, e.type), e.val))
  PROVE  EntryRead(r, e, end)
<1> DEFINE t == Append(Two(e.key, e.type), e.val)
<1>0. ThreeIs(t, e.key, e.type, e.val)
  BY ThreeLong
<1>2. r = Reader(end, t)
  OBVIOUS
<1> HIDE DEF t
<1>1. t[1] = e.key /\ t[2] = e.type /\ t[3] = e.val
  BY <1>0 DEF ThreeIs
<1>3. r.got = t
  BY <1>2, ChangeGot
<1>4. Entry(t) = [key |-> e.key, type |-> e.type, val |-> e.val]
  BY <1>1 DEF Entry
<1>5. Entry(t) = e
  BY <1>4
<1> QED
  BY <1>1, <1>2, <1>3, <1>5 DEF EntryRead, Told

\* An array.
LEMMA ReadList ==
  ASSUME OneValue(Disk[file].fields), NEW e, EntryOK(e), e.type = "arr",
         e = [key |-> e.key, type |-> "arr", of |-> e.of, val |-> e.val],
         NEW at \in Nat, Places(ValueFields(e), at) \subseteq Disk[file].fields
  PROVE  EntryRead(ReadArray(Rd(Rd(Reader(at, Two(e.key, e.type)), 4), 8)), e,
                   at + SizeOf(ValueFields(e)))
<1> DEFINE n == Len(e.val)
           g == Append(Append(Two(e.key, e.type), e.of), n)
           q == Reader((at + 4) + 8, g)
           r == ReadArray(q)
           end == at + SizeOf(ValueFields(e))
<1>1. /\ SizeOf(ValueFields(e)) = 12 + Ends(Bytes(ElemFields(e)))
      /\ Places(ValueFields(e), at)
           = {<<at, 4, e.of>>, <<at + 4, 8, n>>} \cup PlacesOf(ElemFields(e), at + 12)
  BY ArrayFields
<1>2. FieldLists(ElemFields(e)) /\ n \in Nat
  BY ElemLists
<1>3. Ends(Bytes(ElemFields(e))) \in Nat
  <2> DEFINE ss == ElemFields(e)
  <2>1. Len(ss) + 1 \in 1 .. Len(ss) + 1 /\ Ends(Bytes(ss)) = ListAt(ss, Len(ss) + 1)
        /\ \A i \in 1 .. Len(ss) + 1 : ListAt(ss, i) \in Nat
    <3> HIDE DEF ss
    <3>1. Len(ss) \in Nat
      BY <1>2, ListStarts DEF ss
    <3> QED
      BY <1>2, <3>1, ListStarts DEF ss
  <2> QED
    BY <2>1
<1> HIDE DEF n
<1>4. Rd(Rd(Reader(at, Two(e.key, e.type)), 4), 8) = q
  <2>1. <<at, 4, e.of>> \in Disk[file].fields /\ <<at + 4, 8, n>> \in Disk[file].fields
    BY <1>1
  <2>2. Rd(Reader(at, Two(e.key, e.type)), 4) = Reader(at + 4, Append(Two(e.key, e.type), e.of))
    BY <2>1, ReadField
  <2>3. Rd(Reader(at + 4, Append(Two(e.key, e.type), e.of)), 8) = q
    BY <2>1, ReadField
  <2> QED
    BY <2>2, <2>3
<1>5. /\ IsList(g) /\ Len(g) = 4 /\ g[1] = e.key /\ g[2] = e.type /\ g[3] = e.of /\ g[4] = n
      /\ Last(g) = n
  <2>1. FourIs(g, e.key, e.type, e.of, n)
    BY FourLong
  <2> HIDE DEF g
  <2> QED
    BY <2>1 DEF FourIs
<1> HIDE DEF g
<1>6. q.got = g
  BY ChangeGot
<1>7. r = IF IsElem(e.of) THEN Elems(q, e.of) ELSE q
  <2>1. q.got[Len(q.got) - 1] = e.of
    <3>1. Len(q.got) - 1 = 3
      BY <1>5, <1>6
    <3> QED
      BY <1>5, <1>6, <3>1
  <2> HIDE DEF q
  <2> QED
    BY <2>1 DEF ReadArray
<1>8. CASE ~IsElem(e.of)
  <2>1. r.got = g
    BY <1>6, <1>7, <1>8
  <2> HIDE DEF r
  <2>2. EntryRead(r, e, end)
    BY <1>5, <1>8, <2>1 DEF EntryRead
  <2> QED
    BY <1>4, <2>2 DEF r
<1>9. CASE IsElem(e.of)
  <2> DEFINE vs == KeptOf(e)
             got == g \o vs
             p == (at + 4) + 8
  <2>1. p \in Nat /\ p = at + 12 /\ end = p + Ends(Bytes(ElemFields(e)))
    BY <1>1, <1>3
  <2>2. r = Reader(end, got)
    <3>1. PlacesOf(ElemFields(e), p) \subseteq Disk[file].fields
      BY <1>1, <2>1
    <3> HIDE DEF p
    <3>2. Last(g) = Len(e.val)
      BY <1>5 DEF n
    <3>3. Elems(Reader(p, g), e.of) = Reader(p + Ends(Bytes(ElemFields(e))), g \o KeptOf(e))
      BY <1>5, <2>1, <3>1, <3>2, ReadElems
    <3> QED
      BY <1>7, <1>9, <2>1, <3>3 DEF p
  <2>3. IsList(vs) /\ Len(vs) = n
    BY KeptLists DEF n
  <2>4. e.of # "f32" => vs = e.val
    BY DEF KeptOf
  <2> HIDE DEF vs, end, r
  <2>5. Follows(got, g, vs)
    BY <1>5, <2>3, JoinLists
  <2> HIDE DEF got
  <2>6. /\ Len(got) = 4 + n /\ (\A j \in 1 .. 4 : got[j] = g[j])
        /\ \A j \in 1 .. n : got[4 + j] = vs[j]
    BY <1>5, <2>3, <2>5 DEF Follows
  <2>7. got[1] = e.key /\ got[2] = "arr" /\ got[3] = e.of
    <3>1. 1 \in 1 .. 4 /\ 2 \in 1 .. 4 /\ 3 \in 1 .. 4
      OBVIOUS
    <3> QED
      BY <1>5, <2>6, <3>1
  <2>8. SubSeq(got, 5, Len(got)) = vs
    <3>1. 5 = 4 + 1 /\ 4 \in Nat
      OBVIOUS
    <3>2. Within(got, 4, vs)
      BY <2>3, <2>6 DEF Within
    <3>3. Part(got, 4, vs)
      BY <2>3, <3>1, <3>2, MiddlePart
    <3>4. SubSeq(got, 4 + 1, 4 + Len(vs)) = vs
      BY <3>3 DEF Part
    <3> QED
      BY <2>3, <2>6, <3>1, <3>4
  <2>9. r.got = got
    BY <2>2, ChangeGot
  <2>10. Entry(got) = [key |-> e.key, type |-> "arr", of |-> e.of, val |-> vs]
    BY <2>7, <2>8 DEF Entry
  <2>11. Told(Entry(got), e)
    <3>1. CASE e.of = "f32"
      BY <2>10, <3>1 DEF Told
    <3>2. CASE e.of # "f32"
      <4>1. Entry(got) = e
        BY <2>4, <2>10, <3>2
      <4> QED
        BY <4>1 DEF Told
    <3> QED
      BY <3>1, <3>2
  <2>12. EntryRead(r, e, end)
    BY <2>2, <2>7, <2>9, <2>11 DEF EntryRead
  <2> QED
    BY <1>4, <2>12 DEF r, end
<1> QED
  BY <1>8, <1>9

\* Any entry.
LEMMA ReadAnEntry ==
  ASSUME OneValue(Disk[file].fields), NEW e, EntryOK(e), NEW from \in Nat,
         Places(EntryFields(e), from) \subseteq Disk[file].fields
  PROVE  EntryRead(ReadEntry(Reader(from, <<>>)), e, from + SizeOf(EntryFields(e)))
<1> DEFINE n == NameLen(e.key)
           at == ((from + 8) + n) + 4
           g == Two(e.key, e.type)
           q == Reader(at, g)
           r == ReadEntry(Reader(from, <<>>))
           end == from + SizeOf(EntryFields(e))
           size == SizeOf(ValueFields(e))
<1>1. /\ n \in Nat /\ FieldList(ValueFields(e))
      /\ SizeOf(EntryFields(e)) = ((8 + n) + 4) + size
      /\ Places(EntryFields(e), from) = EntrySpots(e, from)
  BY EntryPlaces
<1>2. size \in Nat
  BY <1>1, FieldStarts
<1>3. at \in Nat /\ end = at + size
  BY <1>1, <1>2
<1>4. /\ Opening(from, n, e.key, e.type) \subseteq Disk[file].fields
      /\ Places(ValueFields(e), at) \subseteq Disk[file].fields
  BY <1>1 DEF EntrySpots
<1> HIDE DEF n, at, size
<1>5. Rd(RdStr(Reader(from, <<>>)), 4) = q
  BY <1>4, ReadOpening DEF at
<1>6. IsList(g) /\ Last(g) = e.type
  BY TwoLong
<1> HIDE DEF g
<1>7. q.got = g
  BY ChangeGot
<1> HIDE DEF q
<1>8. r = CASE e.type = "str" -> RdStr(q)
            [] e.type = "arr" -> ReadArray(Rd(Rd(q, 4), 8))
            [] OTHER -> Rd(q, Scalars[e.type])
  BY <1>5, <1>6, <1>7 DEF ReadEntry, ReadValue
<1> HIDE DEF r
<1>9. CASE /\ e.type # "str" /\ e.type # "arr" /\ Scalars[e.type] \in Nat \ {0}
           /\ e = [key |-> e.key, type |-> e.type, val |-> e.val]
           /\ ValueFields(e) = << <<e.val, Scalars[e.type]>> >>
  <2> DEFINE w == Scalars[e.type]
             v == e.val
  <2>1. size = w /\ Places(ValueFields(e), at) = {<<at, w, v>>}
    BY <1>3, <1>9, FieldAlone DEF size
  <2>2. <<at, w, v>> \in Disk[file].fields
    BY <1>4, <2>1
  <2> HIDE DEF w, v
  <2>3. Rd(q, w) = Reader(at + w, Append(g, v))
    BY <2>2, ReadField DEF q
  <2>4. r = Reader(end, Append(g, v))
    BY <1>3, <1>8, <1>9, <2>1, <2>3 DEF w
  <2> HIDE DEF end
  <2>5. EntryRead(r, e, end)
    BY <1>9, <2>4, ReadPlain DEF g, v
  <2> QED
    BY <2>5 DEF r, end
<1>10. CASE /\ e.type = "str" /\ e = [key |-> e.key, type |-> "str", val |-> e.val]
            /\ StrLen(e.val) \in Nat /\ ValueFields(e) = StrFields(e.val, StrLen(e.val))
  <2> DEFINE k == StrLen(e.val)
             v == e.val
  <2>1. size = 8 + k /\ Places(ValueFields(e), at) = {<<at, 8, k>>, <<at + 8, k, v>>}
    BY <1>3, <1>10, StringFields DEF size
  <2>2. <<at, 8, k>> \in Disk[file].fields /\ <<at + 8, k, v>> \in Disk[file].fields
    BY <1>4, <2>1
  <2>3. k \in Nat /\ (at + 8) + k = end
    BY <1>3, <1>10, <2>1
  <2> HIDE DEF k, v, end
  <2>4. RdStr(q) = Reader((at + 8) + k, Append(g, v))
    BY <1>6, <2>2, ReadString DEF q
  <2>5. r = Reader(end, Append(g, v))
    BY <1>8, <1>10, <2>3, <2>4
  <2>6. e = [key |-> e.key, type |-> e.type, val |-> e.val] /\ e.type # "arr"
    BY <1>10
  <2>7. EntryRead(r, e, end)
    BY <2>5, <2>6, ReadPlain DEF g, v
  <2> QED
    BY <2>7 DEF r, end
<1>11. CASE e.type = "arr" /\ e = [key |-> e.key, type |-> "arr", of |-> e.of, val |-> e.val]
  <2>1. r = ReadArray(Rd(Rd(Reader(at, Two(e.key, e.type)), 4), 8))
    BY <1>8, <1>11 DEF q, g
  <2>2. EntryRead(r, e, at + SizeOf(ValueFields(e)))
    BY <1>3, <1>4, <1>11, <2>1, ReadList
  <2> QED
    BY <1>3, <2>2 DEF r, size
<1> QED
  BY <1>9, <1>10, <1>11, KindsOfEntry

\* What the file is, as meant.
Meant == Files[file]

\* How far the file has been read: so many entries, and so many tensors when
\* all entries have been.
TablesBegun(f) ==
  /\ gg.nKv = Len(f.kv) /\ gg.nTensors = Len(f.tensors)
  /\ Len(gg.kv) <= gg.nKv /\ Len(gg.tensors) <= gg.nTensors
  /\ Len(gg.tensors) # 0 => Len(gg.kv) = gg.nKv
  /\ gg.pos = ListAt(Header(f), (2 + Len(gg.kv)) + Len(gg.tensors))
PlaceInv ==
  /\ file \in DOMAIN Files /\ gg.whole = TRUE
  /\ At("open") => gg.pos = 0
  /\ At("entries") => TablesBegun(Meant)

\* What has been read is what is meant.
ToldList(s, f) ==
  /\ Len(s) <= Len(f.kv)
  /\ \A i \in 1 .. Len(s) : Told(s[i], f.kv[i])
TableInv == ToldList(gg.kv, Meant) /\ gg.tensors = SubSeq(Meant.tensors, 1, Len(gg.tensors))

\* When all has been read, all has been told, and the data is where it is meant.
AllRead == gg.tensors = Meant.tensors /\ gg.data = DataStart(Meant)
WeightRight(w, f, i) ==
  /\ w.type \in {f.tensors[i].type, "f32"} /\ w.n = Elements(f.tensors[i])
  /\ w.at = DataStart(f) + f.tensors[i].offset
WeightInv ==
  /\ loading.ph \notin {"open", "entries", "dead"} \/ weights # <<>> => AllRead
  /\ Len(weights) <= Len(gg.tensors)
  /\ \A i \in 1 .. Len(weights) : WeightRight(weights[i], Meant, i)

FileInv == PlaceInv /\ TableInv /\ WeightInv

\* A reader begins.
LEMMA HereIs ==
  ASSUME gg.whole = TRUE
  PROVE  Here = Reader(gg.pos, <<>>)
BY Zenon DEF Here, Reader

LEMMA FileParts ==
  \A g, p, w, n, k, kv, t, d :
    g = FileOf(p, w, n, k, kv, t, d) =>
      /\ g.pos = p /\ g.whole = w /\ g.nTensors = n /\ g.nKv = k /\ g.kv = kv
      /\ g.tensors = t /\ g.data = d
BY DEF FileOf

\* What has been read of the file changes the place in it only.
LEMMA ReadOn ==
  ASSUME NEW q, NEW w, NEW n, NEW k, NEW kv, NEW t, NEW d, gg = FileOf(q, w, n, k, kv, t, d),
         NEW r
  PROVE  Read(r) = FileOf(r.pos, r.whole, n, k, kv, t, d)
<1> DEFINE h == [gg EXCEPT !.pos = r.pos]
<1>1. h = FileOf(r.pos, w, n, k, kv, t, d)
  BY DEF FileOf
<1>2. [h EXCEPT !.whole = r.whole] = FileOf(r.pos, r.whole, n, k, kv, t, d)
  <2> HIDE DEF h
  <2> QED
    BY <1>1 DEF FileOf
<1> QED
  BY <1>2 DEF Read

LEMMA ReaderParts == \A p, g : Reader(p, g).pos = p /\ Reader(p, g).whole = TRUE /\ Reader(p, g).got = g
BY DEF Reader

\* The first fields.
LEMMA ReadHead ==
  ASSUME file \in DOMAIN Files, WellFormed(Meant)
  PROVE  \E g : /\ Rd(Rd(Rd(Rd(Reader(0, <<>>), 4), 4), 8), 8) = Reader(24, g)
                /\ FourIs(g, "GGUF", Meant.version, Len(Meant.tensors), Len(Meant.kv))
<1> DEFINE f == Meant
           h == Header(f)
           D == Disk[file].fields
           a == f.version
           b == Len(f.tensors)
           c == Len(f.kv)
           g == Append(Append(Two("GGUF", a), b), c)
<1>0. f = Files[file]
  BY DEF Meant
<1>1. OneValue(D) /\ \A i \in 1 .. Len(h) : Places(h[i], ListAt(h, i)) \subseteq D
  BY <1>0, DiskHolds
<1>2. FieldLists(h) /\ 1 \in 1 .. Len(h) /\ h[1] = HeadFields(f)
  <2>1. HeaderIs(f, h, Len(f.kv), Len(f.tensors))
    BY HeaderLists
  <2>2. Len(f.kv) \in Nat /\ Len(f.tensors) \in Nat /\ Len(h) = (1 + Len(f.kv)) + Len(f.tensors)
    BY <2>1 DEF HeaderIs
  <2>3. FieldLists(h) /\ h[1] = HeadFields(f)
    BY <2>1 DEF HeaderIs
  <2> HIDE DEF h, f
  <2>4. \A k \in Nat, m \in Nat : 1 \in 1 .. (1 + k) + m
    OBVIOUS
  <2>5. 1 \in 1 .. Len(h)
    BY <2>2, <2>4
  <2> QED
    BY <2>3, <2>5
<1>3. ListAt(h, 1) = 0
  BY <1>2, ListStarts
<1>4. Places(h[1], ListAt(h, 1)) \subseteq D
  <2> HIDE DEF h, D
  <2> QED
    BY <1>1, <1>2
<1>5. Places(HeadFields(f), 0) \subseteq D
  BY <1>2, <1>3, <1>4
<1>6. /\ <<0, 4, "GGUF">> \in D /\ <<4, 4, a>> \in D /\ <<8, 8, b>> \in D
      /\ <<16, 8, c>> \in D
  BY <1>5, HeadPlaces
<1> HIDE DEF f, h, a, b, c
<1>7. OneValue(Disk[file].fields)
  BY <1>1
<1>8. Rd(Reader(0, <<>>), 4) = Reader(0 + 4, Append(<<>>, "GGUF"))
  <2>1. \A p, g1 : <<p, 4, "GGUF">> \in D =>
                     Rd(Reader(p, g1), 4) = Reader(p + 4, Append(g1, "GGUF"))
    BY <1>7, ReadField
  <2> HIDE DEF D
  <2> QED
    BY <1>6, <2>1
<1>9. Rd(Reader(4, Append(<<>>, "GGUF")), 4) = Reader(4 + 4, Two("GGUF", a))
  BY <1>6, <1>7, ReadField DEF Two
<1>10. Rd(Reader(8, Two("GGUF", a)), 8) = Reader(8 + 8, Append(Two("GGUF", a), b))
  BY <1>6, <1>7, ReadField
<1>11. Rd(Reader(16, Append(Two("GGUF", a), b)), 8) = Reader(16 + 8, g)
  BY <1>6, <1>7, ReadField
<1>12. 0 + 4 = 4 /\ 4 + 4 = 8 /\ 8 + 8 = 16 /\ 16 + 8 = 24
  OBVIOUS
<1>13. Rd(Rd(Rd(Rd(Reader(0, <<>>), 4), 4), 8), 8) = Reader(24, g)
  <2> HIDE DEF g
  <2> QED
    BY <1>8, <1>9, <1>10, <1>11, <1>12
<1>14. FourIs(g, "GGUF", a, b, c)
  BY FourLong
<1> HIDE DEF g
<1> QED
  BY <1>13, <1>14 DEF a, b, c, f

\* Where the parts of the header are.
LEMMA HeaderPlaces ==
  ASSUME NEW f, WellFormed(f)
  PROVE  /\ ListAt(Header(f), 2) = 24
         /\ \A i \in 1 .. Len(f.kv) :
              ListAt(Header(f), 2 + i) = ListAt(Header(f), 1 + i) + SizeOf(EntryFields(f.kv[i]))
         /\ \A i \in 1 .. Len(f.tensors) :
              ListAt(Header(f), (2 + Len(f.kv)) + i)
                = ListAt(Header(f), (1 + Len(f.kv)) + i) + SizeOf(TensorFields(f.tensors[i]))
         /\ Ends(Bytes(Header(f))) = ListAt(Header(f), (2 + Len(f.kv)) + Len(f.tensors))
<1> DEFINE h == Header(f)
           K == Len(f.kv)
           M == Len(f.tensors)
<1>1. HeaderIs(f, h, K, M)
  BY HeaderLists
<1>2. /\ K \in Nat /\ M \in Nat /\ FieldLists(h) /\ Len(h) = (1 + K) + M
      /\ h[1] = HeadFields(f)
      /\ \A i \in 1 .. K : h[1 + i] = EntryFields(f.kv[i])
      /\ \A i \in 1 .. M : h[(1 + K) + i] = TensorFields(f.tensors[i])
  BY <1>1 DEF HeaderIs
<1> HIDE DEF h, K, M
<1>3. /\ ListAt(h, 1) = 0 /\ Ends(Bytes(h)) = ListAt(h, Len(h) + 1)
      /\ \A i \in 1 .. Len(h) : ListAt(h, i + 1) = ListAt(h, i) + SizeOf(h[i])
  BY <1>2, ListStarts
<1>4. ListAt(h, 2) = 24
  <2>1. 1 \in 1 .. Len(h) /\ 1 + 1 = 2 /\ 0 + 24 = 24
    BY <1>2
  <2>2. ListAt(h, 1 + 1) = ListAt(h, 1) + SizeOf(h[1])
    BY <1>3, <2>1
  <2> QED
    BY <1>2, <1>3, <2>1, <2>2, HeadPlaces
<1>5. ASSUME NEW i \in 1 .. K
      PROVE  ListAt(h, 2 + i) = ListAt(h, 1 + i) + SizeOf(EntryFields(f.kv[i]))
  <2>1. 1 + i \in 1 .. Len(h) /\ (1 + i) + 1 = 2 + i
    BY <1>2
  <2>2. ListAt(h, (1 + i) + 1) = ListAt(h, 1 + i) + SizeOf(h[1 + i])
    BY <1>3, <2>1
  <2> QED
    BY <1>2, <2>1, <2>2
<1>6. ASSUME NEW i \in 1 .. M
      PROVE  ListAt(h, (2 + K) + i) = ListAt(h, (1 + K) + i) + SizeOf(TensorFields(f.tensors[i]))
  <2>1. (1 + K) + i \in 1 .. Len(h) /\ ((1 + K) + i) + 1 = (2 + K) + i
    BY <1>2
  <2>2. ListAt(h, ((1 + K) + i) + 1) = ListAt(h, (1 + K) + i) + SizeOf(h[(1 + K) + i])
    BY <1>3, <2>1
  <2> QED
    BY <1>2, <2>1, <2>2
<1>7. Len(h) + 1 = (2 + K) + M
  BY <1>2
<1>8. Ends(Bytes(h)) = ListAt(h, (2 + K) + M)
  BY <1>3, <1>7
<1> QED
  BY <1>4, <1>5, <1>6, <1>8 DEF h, K, M

\* The first k elements of a list.
Prefix(s, k) == SubSeq(s, 1, k)

LEMMA PrefixOf ==
  ASSUME NEW s, IsList(s), NEW k \in 0 .. Len(s)
  PROVE  /\ IsList(Prefix(s, k)) /\ Len(Prefix(s, k)) = k
         /\ \A i \in 1 .. k : Prefix(s, k)[i] = s[i]
<1> DEFINE T == {s[i] : i \in DOMAIN s}
           u == SubSeq(s, 1, k)
<1>1. s \in Seq(T)
  BY DEF IsList
<1> HIDE DEF T
<1>2. u \in Seq(T) /\ Len(u) = k /\ \A i \in 1 .. k : u[i] = s[i]
  BY <1>1, PrefixFacts
<1> HIDE DEF u
<1>3. IsList(u)
  BY <1>2, KnownList
<1> QED
  BY <1>2, <1>3 DEF Prefix, u

LEMMA PrefixNone ==
  ASSUME NEW s, IsList(s)
  PROVE  Prefix(s, 0) = <<>>
<1>1. Len(s) \in Nat
  BY AppendList
<1>2. 0 \in 0 .. Len(s)
  BY <1>1
<1>3. IsList(Prefix(s, 0)) /\ Len(Prefix(s, 0)) = 0
  BY <1>2, PrefixOf
<1>4. IsList(<<>>) /\ Len(<<>>) = 0
  BY EmptyList, EmptySeq
<1> DEFINE p == Prefix(s, 0)
           q == <<>>
<1> HIDE DEF p, q
<1>5. \A i \in 1 .. Len(p) : p[i] = q[i]
  BY <1>3 DEF p
<1>6. p = q
  BY <1>3, <1>4, <1>5, SameLists DEF p, q
<1> QED
  BY <1>6 DEF p, q

LEMMA PrefixAll ==
  ASSUME NEW s, IsList(s)
  PROVE  Prefix(s, Len(s)) = s
<1>1. Len(s) \in Nat
  BY AppendList
<1> DEFINE p == Prefix(s, Len(s))
<1>2. Len(s) \in 0 .. Len(s)
  BY <1>1
<1>3. IsList(p) /\ Len(p) = Len(s) /\ \A i \in 1 .. Len(p) : p[i] = s[i]
  BY <1>2, PrefixOf
<1> HIDE DEF p
<1>4. p = s
  BY <1>3, SameLists
<1> QED
  BY <1>4 DEF p

LEMMA PrefixMore ==
  ASSUME NEW s, IsList(s), NEW k \in Nat, k < Len(s)
  PROVE  Append(Prefix(s, k), s[k + 1]) = Prefix(s, k + 1)
<1>1. Len(s) \in Nat
  BY AppendList
<1> DEFINE p == Prefix(s, k)
           q == Prefix(s, k + 1)
           e == s[k + 1]
           t == Append(p, e)
<1>2. k \in 0 .. Len(s) /\ k + 1 \in 0 .. Len(s)
  BY <1>1
<1>3. IsList(p) /\ Len(p) = k /\ \A i \in 1 .. k : p[i] = s[i]
  BY <1>2, PrefixOf
<1>4. IsList(q) /\ Len(q) = k + 1 /\ \A i \in 1 .. k + 1 : q[i] = s[i]
  BY <1>2, PrefixOf
<1>5. q[k + 1] = e
  BY <1>4
<1> HIDE DEF p, q, e
<1>6. Longer(t, p, e)
  BY <1>3, AppendOne
<1> HIDE DEF t
<1>7. IsList(t) /\ Len(t) = k + 1 /\ (\A i \in 1 .. k : t[i] = p[i]) /\ t[k + 1] = e
  BY <1>3, <1>6 DEF Longer
<1>8. \A i \in 1 .. Len(t) : t[i] = q[i]
  <2> SUFFICES ASSUME NEW i \in 1 .. k + 1 PROVE t[i] = q[i]
    BY <1>7
  <2>1. CASE i = k + 1
    BY <1>5, <1>7, <2>1
  <2>2. CASE i # k + 1
    <3>1. i \in 1 .. k
      BY <2>2
    <3> QED
      BY <1>3, <1>4, <1>7, <3>1
  <2> QED
    BY <2>1, <2>2
<1>9. t = q
  BY <1>4, <1>7, <1>8, SameLists
<1> QED
  BY <1>9 DEF t, p, q, e

\* Where neither the file nor the weights change, what has been read stays read.
LEMMA FileStays ==
  ASSUME FileInv, UNCHANGED <<file, gg, weights>>, loading'.ph \notin {"open", "entries"},
         loading'.ph = "dead" \/ loading.ph \notin {"open", "entries", "dead"}
  PROVE  FileInv'
<1>1. Meant' = Meant
  BY DEF Meant
<1>2. PlaceInv'
  BY DEF FileInv, PlaceInv, At
<1>3. TableInv'
  BY <1>1 DEF FileInv, TableInv
<1>4. WeightInv'
  BY <1>1 DEF FileInv, WeightInv, AllRead
<1> QED
  BY <1>2, <1>3, <1>4 DEF FileInv

LEMMA OpenFileReads ==
  ASSUME LoadInv, FileInv, WellFormed(Meant), OpenFile
  PROVE  FileInv'
<1>1. /\ loading.ph = "open" /\ gg.kv = <<>> /\ gg.tensors = <<>> /\ weights = <<>>
      /\ IsFile(gg)
  BY DEF OpenFile, LoadInv, ListInv, OrderInv, At
<1>2. UNCHANGED <<file, weights>> /\ Meant' = Meant
  BY DEF OpenFile, Meant
<1>3. file \in DOMAIN Files /\ gg.whole = TRUE /\ gg.pos = 0
  BY <1>1 DEF FileInv, PlaceInv, At
<1>4. PICK p, w, n, k, kv, t, d : gg = FileOf(p, w, n, k, kv, t, d)
  BY <1>1, FileFields
<1>5. kv = <<>> /\ t = <<>>
  BY <1>1, <1>4, FileParts
<1> DEFINE f == Meant
           a == Len(f.tensors)
           b == Len(f.kv)
<1>6. PICK g : /\ Rd(Rd(Rd(Rd(Reader(0, <<>>), 4), 4), 8), 8) = Reader(24, g)
               /\ FourIs(g, "GGUF", f.version, a, b)
  BY <1>3, ReadHead
<1> HIDE DEF a, b
<1>7. Here = Reader(0, <<>>)
  BY <1>3, HereIs
<1> DEFINE r == Reader(24, g)
<1>8. r.pos = 24 /\ r.whole = TRUE /\ r.got = g
  BY ReaderParts
<1>9. g[3] = a /\ g[4] = b
  BY <1>6 DEF FourIs
<1> HIDE DEF r
<1>10. IF r.got[2] # 3 THEN Go("dead") /\ UNCHANGED gg
       ELSE gg' = [Read(r) EXCEPT !.nTensors = r.got[3], !.nKv = r.got[4]] /\ Go("entries")
  <2>1. Rd(Rd(Rd(Rd(Here, 4), 4), 8), 8) = r
    BY <1>6, <1>7 DEF r
  <2> DEFINE Opens(q) ==
               IF q.got[2] # 3 THEN Go("dead") /\ UNCHANGED gg
               ELSE gg' = [Read(q) EXCEPT !.nTensors = q.got[3], !.nKv = q.got[4]]
                    /\ Go("entries")
  <2>2. \E q \in {Rd(Rd(Rd(Rd(Here, 4), 4), 8), 8)} : Opens(q)
    BY DEF OpenFile
  <2>3. Opens(r)
    <3> HIDE DEF Opens
    <3> QED
      BY <2>1, <2>2
  <2> QED
    BY <2>3
<1>11. CASE r.got[2] # 3
  <2>1. Go("dead") /\ UNCHANGED gg
    BY <1>10, <1>11
  <2>2. loading'.ph = "dead"
    BY <2>1, GoTo DEF LoadInv, Phases
  <2> QED
    BY <1>2, <2>1, <2>2, FileStays
<1>12. CASE ~(r.got[2] # 3)
  <2>1. gg' = [Read(r) EXCEPT !.nTensors = a, !.nKv = b] /\ Go("entries")
    BY <1>8, <1>9, <1>10, <1>12
  <2>2. loading'.ph = "entries"
    BY <2>1, GoTo DEF LoadInv, Phases
  <2>3. Read(r) = FileOf(24, r.whole, n, k, kv, t, d)
    BY <1>4, <1>8, ReadOn
  <2> DEFINE h == [Read(r) EXCEPT !.nTensors = a]
  <2>4. h = FileOf(24, r.whole, a, k, kv, t, d)
    BY <2>3 DEF FileOf
  <2>5. [h EXCEPT !.nKv = b] = FileOf(24, r.whole, a, b, kv, t, d)
    <3> HIDE DEF h
    <3> QED
      BY <2>4 DEF FileOf
  <2>6. gg' = FileOf(24, r.whole, a, b, kv, t, d)
    BY <2>1, <2>5
  <2>7. /\ gg'.pos = 24 /\ gg'.whole = TRUE /\ gg'.nTensors = a /\ gg'.nKv = b
        /\ gg'.kv = <<>> /\ gg'.tensors = <<>>
    BY <1>5, <1>8, <2>6, FileParts
  <2>8. Len(<<>>) = 0 /\ a \in Nat /\ b \in Nat /\ IsList(f.tensors)
    <3>1. IsList(f.tensors) /\ IsList(f.kv)
      BY DEF WellFormed
    <3> HIDE DEF f
    <3> QED
      BY <3>1, AppendList, EmptySeq DEF a, b
  <2>9. ListAt(Header(f), 2) = 24
    BY HeaderPlaces
  <2>10. TablesBegun(f)'
    <3>1. (2 + 0) + 0 = 2
      OBVIOUS
    <3>2. f' = f
      BY <1>2
    <3> HIDE DEF f
    <3> QED
      BY <2>7, <2>8, <2>9, <3>1, <3>2 DEF TablesBegun, a, b
  <2>11. PlaceInv'
    BY <1>2, <1>3, <2>2, <2>7, <2>10 DEF PlaceInv, At
  <2>12. TableInv'
    <3>1. ToldList(<<>>, f)
      <4> HIDE DEF f
      <4> QED
        BY <2>8 DEF ToldList, b
    <3>2. <<>> = SubSeq(f.tensors, 1, 0)
      BY <2>8, PrefixNone DEF Prefix
    <3> QED
      BY <1>2, <2>7, <2>8, <3>1, <3>2 DEF TableInv
  <2>13. WeightInv'
    <3>1. weights' = <<>> /\ Len(<<>>) <= Len(<<>>) /\ 1 .. Len(<<>>) = {}
      BY <1>1, <1>2, <2>8
    <3> QED
      BY <2>2, <2>7, <3>1 DEF WeightInv
  <2> QED
    BY <2>11, <2>12, <2>13 DEF FileInv
<1> QED
  BY <1>11, <1>12

\* The entry that is read next.
LEMMA NextEntry ==
  ASSUME PlaceInv, WellFormed(Meant), loading.ph = "entries", Len(gg.kv) \in Nat,
         Len(gg.kv) < gg.nKv, Len(gg.tensors) \in Nat
  PROVE  /\ EntryRead(ReadEntry(Here), Meant.kv[Len(gg.kv) + 1],
                       ListAt(Header(Meant), 2 + (Len(gg.kv) + 1)))
         /\ Len(gg.kv) + 1 \in 1 .. Len(Meant.kv) /\ Len(gg.tensors) = 0
<1> DEFINE f == Meant
           m == Len(gg.kv)
           h == Header(f)
           D == Disk[file].fields
           e == f.kv[m + 1]
           from == ListAt(h, 2 + m)
<1>1. /\ gg.nKv = Len(f.kv) /\ Len(gg.tensors) = 0 /\ gg.whole = TRUE /\ file \in DOMAIN Files
      /\ gg.pos = ListAt(h, (2 + m) + Len(gg.tensors)) /\ m \in Nat /\ m < gg.nKv
  <2>1. TablesBegun(f) /\ gg.whole = TRUE /\ file \in DOMAIN Files
    BY DEF PlaceInv, At
  <2>2. Len(gg.tensors) = 0
    BY <2>1 DEF TablesBegun
  <2> HIDE DEF f
  <2> QED
    BY <2>1, <2>2 DEF TablesBegun
<1> HIDE DEF m
<1>2. HeaderIs(f, h, Len(f.kv), Len(f.tensors))
  BY HeaderLists
<1>3. OneValue(D) /\ \A i \in 1 .. Len(h) : Places(h[i], ListAt(h, i)) \subseteq D
  <2>1. f = Files[file]
    BY DEF Meant
  <2> QED
    BY <1>1, <2>1, DiskHolds
<1>4. /\ ListAt(h, 2 + (m + 1)) = from + SizeOf(EntryFields(e)) /\ m + 1 \in 1 .. Len(f.kv)
      /\ 2 + m = 1 + (m + 1) /\ 2 + m \in 1 .. Len(h) /\ h[2 + m] = EntryFields(e)
  <2> HIDE DEF h, f
  <2>1. m + 1 \in 1 .. Len(f.kv) /\ 2 + m = 1 + (m + 1)
    BY <1>1, <1>2 DEF HeaderIs
  <2>2. ListAt(h, 2 + (m + 1)) = ListAt(h, 1 + (m + 1)) + SizeOf(EntryFields(f.kv[m + 1]))
    BY <2>1, HeaderPlaces DEF h, f
  <2>3. 1 + (m + 1) \in 1 .. Len(h)
    <3>1. /\ Len(h) = (1 + Len(f.kv)) + Len(f.tensors)
          /\ Len(f.kv) \in Nat /\ Len(f.tensors) \in Nat
      BY <1>2 DEF HeaderIs
    <3>2. \A k \in Nat, n \in Nat : m + 1 \in 1 .. k => 1 + (m + 1) \in 1 .. (1 + k) + n
      BY <1>1
    <3> QED
      BY <2>1, <3>1, <3>2
  <2>4. h[1 + (m + 1)] = EntryFields(f.kv[m + 1])
    BY <1>2, <2>1 DEF HeaderIs
  <2> QED
    BY <2>1, <2>2, <2>3, <2>4
<1>5. from \in Nat /\ (2 + m) + Len(gg.tensors) = 2 + m
  <2>1. FieldLists(h)
    BY <1>2 DEF HeaderIs
  <2>2. 2 + m \in 1 .. Len(h) + 1
    <3> HIDE DEF h
    <3>1. Len(h) \in Nat
      BY <2>1, ListStarts
    <3> QED
      BY <1>4, <3>1
  <2> HIDE DEF h
  <2>3. from \in Nat
    BY <2>1, <2>2, ListStarts
  <2> QED
    BY <1>1, <2>3
<1>6. Places(EntryFields(e), from) \subseteq D
  <2> HIDE DEF h, D, e
  <2> QED
    BY <1>3, <1>4
<1>7. EntryOK(e)
  <2>1. DOMAIN f.kv = 1 .. Len(f.kv)
    <3>1. IsList(f.kv)
      BY DEF WellFormed
    <3> QED
      BY <3>1, AppendList
  <2> QED
    BY <1>4, <2>1 DEF WellFormed
<1>8. Here = Reader(from, <<>>)
  <2>1. gg.pos = from
    BY <1>1, <1>5
  <2> HIDE DEF from
  <2> QED
    BY <1>1, <2>1, HereIs
<1> HIDE DEF e, from, h
<1>9. EntryRead(ReadEntry(Reader(from, <<>>)), e, from + SizeOf(EntryFields(e)))
  BY <1>3, <1>5, <1>6, <1>7, ReadAnEntry
<1>10. EntryRead(ReadEntry(Here), e, ListAt(h, 2 + (m + 1)))
  BY <1>4, <1>8, <1>9
<1> QED
  BY <1>1, <1>4, <1>10 DEF e, h, m

\* One entry more has been told.
LEMMA ToldMore ==
  ASSUME NEW s, IsList(s), NEW f, ToldList(s, f), NEW x, Len(s) + 1 \in 1 .. Len(f.kv),
         Told(x, f.kv[Len(s) + 1])
  PROVE  ToldList(Append(s, x), f) /\ Len(Append(s, x)) = Len(s) + 1
<1> DEFINE t == Append(s, x)
<1>1. Longer(t, s, x)
  BY AppendOne
<1> HIDE DEF t
<1>2. /\ Len(s) \in Nat /\ Len(t) = Len(s) + 1 /\ t[Len(s) + 1] = x
      /\ \A i \in 1 .. Len(s) : t[i] = s[i]
  BY <1>1 DEF Longer
<1>3. ASSUME NEW i \in 1 .. Len(t) PROVE Told(t[i], f.kv[i])
  <2>1. CASE i = Len(s) + 1
    BY <1>2, <2>1
  <2>2. CASE i # Len(s) + 1
    <3>1. i \in 1 .. Len(s)
      BY <1>2, <2>2
    <3> QED
      BY <1>2, <3>1 DEF ToldList
  <2> QED
    BY <2>1, <2>2
<1>4. ToldList(t, f)
  BY <1>2, <1>3 DEF ToldList
<1> QED
  BY <1>2, <1>4 DEF t

LEMMA ReadKvReads ==
  ASSUME LoadInv, FileInv, WellFormed(Meant), ReadKv
  PROVE  FileInv'
<1> DEFINE f == Meant
           m == Len(gg.kv)
           r == ReadEntry(Here)
           y == f.kv[m + 1]
           end == ListAt(Header(f), 2 + (m + 1))
<1>1. /\ loading.ph = "entries" /\ weights = <<>> /\ IsFile(gg) /\ m < gg.nKv
      /\ IsList(gg.kv) /\ IsList(gg.tensors)
  BY DEF ReadKv, LoadInv, ListInv, OrderInv, At
<1>2. UNCHANGED <<file, weights>> /\ Meant' = Meant
  BY DEF ReadKv, Meant
<1>3. /\ file \in DOMAIN Files /\ gg.whole = TRUE /\ TablesBegun(f) /\ PlaceInv
      /\ ToldList(gg.kv, f) /\ TableInv
  BY <1>1 DEF FileInv, PlaceInv, TableInv, At
<1>4. m \in Nat /\ Len(gg.tensors) \in Nat
  BY <1>1, AppendList
<1>5. EntryRead(r, y, end) /\ m + 1 \in 1 .. Len(f.kv) /\ Len(gg.tensors) = 0
  BY <1>1, <1>3, <1>4, NextEntry
<1>6. IF r.got[2] = "arr" /\ ~IsElem(r.got[3]) THEN Go("dead") /\ UNCHANGED <<gg, heap>>
      ELSE /\ gg' = [Read(r) EXCEPT !.kv = Append(@, Entry(r.got))]
           /\ Alloc(EntryObjs(Len(gg.kv) + 1, Entry(r.got)))
           /\ UNCHANGED loading
  <2> HIDE DEF r
  <2> QED
    BY DEF ReadKv, r
<1> HIDE DEF r, y, end
<1>7. CASE r.got[2] = "arr" /\ ~IsElem(r.got[3])
  <2>1. Go("dead") /\ UNCHANGED gg
    BY <1>6, <1>7
  <2>2. loading'.ph = "dead"
    BY <2>1, GoTo DEF LoadInv, Phases
  <2> QED
    BY <1>2, <2>1, <2>2, FileStays
<1>8. CASE ~(r.got[2] = "arr" /\ ~IsElem(r.got[3]))
  <2> DEFINE x == Entry(r.got)
  <2>1. gg' = [Read(r) EXCEPT !.kv = Append(Read(r).kv, x)] /\ UNCHANGED loading
    BY <1>6, <1>8
  <2>2. y.type # "arr" \/ IsElem(y.of)
    BY <1>5, <1>8 DEF EntryRead
  <2>3. r = Reader(end, r.got) /\ Told(x, y)
    BY <1>5, <2>2 DEF EntryRead
  <2> HIDE DEF x
  <2>4. r.pos = end /\ r.whole = TRUE
    BY <2>3, ReaderParts
  <2>5. PICK p, w, n, k, kv, t, d : gg = FileOf(p, w, n, k, kv, t, d)
    BY <1>1, FileFields
  <2>6. Read(r) = FileOf(r.pos, r.whole, n, k, kv, t, d)
    BY <2>5, ReadOn
  <2> DEFINE v == Append(kv, x)
  <2>7. gg' = [Read(r) EXCEPT !.kv = v]
    <3>1. Read(r).kv = kv
      BY <2>6, FileParts
    <3> QED
      BY <2>1, <3>1
  <2> HIDE DEF v
  <2>8. [Read(r) EXCEPT !.kv = v] = FileOf(r.pos, r.whole, n, k, v, t, d)
    BY <2>6 DEF FileOf
  <2>9. /\ gg'.pos = end /\ gg'.whole = TRUE /\ gg'.nTensors = gg.nTensors
        /\ gg'.nKv = gg.nKv /\ gg'.kv = Append(gg.kv, x) /\ gg'.tensors = gg.tensors
    <3>1. gg' = FileOf(r.pos, r.whole, n, k, v, t, d)
      BY <2>7, <2>8
    <3>2. /\ gg'.pos = r.pos /\ gg'.whole = r.whole /\ gg'.nTensors = n
          /\ gg'.nKv = k /\ gg'.kv = v /\ gg'.tensors = t
      BY <3>1, FileParts
    <3>3. gg.nTensors = n /\ gg.nKv = k /\ gg.kv = kv /\ gg.tensors = t
      BY <2>5, FileParts
    <3> QED
      BY <2>4, <3>2, <3>3 DEF v
  <2>10. ToldList(gg'.kv, f) /\ Len(gg'.kv) = m + 1
    BY <1>1, <1>3, <1>5, <2>3, <2>9, ToldMore DEF y
  <2>11. TablesBegun(f)'
    <3>1. (2 + (m + 1)) + 0 = 2 + (m + 1) /\ m + 1 <= gg.nKv
      BY <1>3, <1>4, <1>5 DEF TablesBegun
    <3>2. f' = f
      BY <1>2
    <3> HIDE DEF f, m
    <3> QED
      BY <1>3, <1>5, <2>9, <2>10, <3>1, <3>2 DEF TablesBegun, end
  <2>12. PlaceInv'
    BY <1>1, <1>2, <1>3, <2>1, <2>9, <2>11 DEF PlaceInv, At
  <2>13. TableInv'
    BY <1>2, <1>3, <2>9, <2>10 DEF TableInv
  <2>14. WeightInv'
    BY <1>1, <1>2, <2>1, <2>9 DEF FileInv, WeightInv
  <2> QED
    BY <2>12, <2>13, <2>14 DEF FileInv
<1> QED
  BY <1>7, <1>8

\* The tensor that is read next.
LEMMA NextTensor ==
  ASSUME PlaceInv, WellFormed(Meant), loading.ph = "entries", Len(gg.tensors) \in Nat,
         Len(gg.kv) = gg.nKv, Len(gg.tensors) < gg.nTensors
  PROVE  /\ \E got :
              /\ ReadInfo(Here)
                   = Reader(ListAt(Header(Meant), (2 + Len(Meant.kv)) + (Len(gg.tensors) + 1)),
                            got)
              /\ Info(got) = Meant.tensors[Len(gg.tensors) + 1]
         /\ Len(gg.tensors) + 1 \in 1 .. Len(Meant.tensors)
<1> DEFINE f == Meant
           j == Len(gg.tensors)
           h == Header(f)
           D == Disk[file].fields
           t == f.tensors[j + 1]
           K == Len(f.kv)
           from == ListAt(h, (2 + K) + j)
<1>1. /\ gg.nTensors = Len(f.tensors) /\ gg.whole = TRUE /\ file \in DOMAIN Files
      /\ gg.pos = ListAt(h, (2 + K) + j) /\ j \in Nat /\ j < gg.nTensors
  <2>1. TablesBegun(f) /\ gg.whole = TRUE /\ file \in DOMAIN Files
    BY DEF PlaceInv, At
  <2> HIDE DEF f
  <2> QED
    BY <2>1 DEF TablesBegun
<1> HIDE DEF j
<1>2. HeaderIs(f, h, Len(f.kv), Len(f.tensors))
  BY HeaderLists
<1>3. OneValue(D) /\ \A i \in 1 .. Len(h) : Places(h[i], ListAt(h, i)) \subseteq D
  <2>1. f = Files[file]
    BY DEF Meant
  <2> QED
    BY <1>1, <2>1, DiskHolds
<1>4. /\ ListAt(h, (2 + K) + (j + 1)) = from + SizeOf(TensorFields(t))
      /\ j + 1 \in 1 .. Len(f.tensors)
      /\ (2 + K) + j \in 1 .. Len(h) /\ h[(2 + K) + j] = TensorFields(t)
  <2>0. K \in Nat /\ Len(f.tensors) \in Nat
    BY <1>2 DEF HeaderIs
  <2> HIDE DEF h, f, K
  <2>1. K \in Nat /\ j + 1 \in 1 .. Len(f.tensors) /\ (2 + K) + j = (1 + K) + (j + 1)
    BY <1>1, <2>0
  <2>2. ListAt(h, (2 + K) + (j + 1)) = ListAt(h, (1 + K) + (j + 1)) + SizeOf(TensorFields(f.tensors[j + 1]))
    BY <2>1, HeaderPlaces DEF h, f, K
  <2>3. Len(h) = (1 + K) + Len(f.tensors)
    BY <1>2 DEF HeaderIs, K
  <2>5. (1 + K) + (j + 1) \in 1 .. Len(h)
    <3>1. \A k \in Nat, n \in Nat : j + 1 \in 1 .. n => (1 + k) + (j + 1) \in 1 .. (1 + k) + n
      BY <1>1
    <3>2. K \in Nat /\ Len(f.tensors) \in Nat
      BY <1>2 DEF HeaderIs, K
    <3> QED
      BY <2>1, <2>3, <3>1, <3>2
  <2>4. h[(1 + K) + (j + 1)] = TensorFields(f.tensors[j + 1])
    BY <1>2, <2>1 DEF HeaderIs, K
  <2> QED
    BY <2>1, <2>2, <2>4, <2>5
<1>5. from \in Nat
  <2>1. FieldLists(h)
    BY <1>2 DEF HeaderIs
  <2>2. (2 + K) + j \in 1 .. Len(h) + 1
    <3> HIDE DEF h, K
    <3>1. Len(h) \in Nat
      BY <2>1, ListStarts
    <3> QED
      BY <1>4, <3>1
  <2> HIDE DEF h, K
  <2> QED
    BY <2>1, <2>2, ListStarts
<1>6. Places(TensorFields(t), from) \subseteq D
  <2> HIDE DEF h, D, t, K
  <2> QED
    BY <1>3, <1>4
<1>7. TensorOK(t)
  <2>1. DOMAIN f.tensors = 1 .. Len(f.tensors)
    <3>1. IsList(f.tensors)
      BY DEF WellFormed
    <3> QED
      BY <3>1, AppendList
  <2> QED
    BY <1>4, <2>1 DEF WellFormed
<1>8. Here = Reader(from, <<>>)
  <2> HIDE DEF K, h
  <2>1. gg.pos = from
    BY <1>1
  <2> HIDE DEF from
  <2> QED
    BY <1>1, <2>1, HereIs
<1> HIDE DEF t, from, h, K
<1>9. PICK got : /\ ReadInfo(Reader(from, <<>>)) = Reader(from + SizeOf(TensorFields(t)), got)
                 /\ Info(got) = t
  BY <1>3, <1>5, <1>6, <1>7, ReadTensor
<1>10. ReadInfo(Here) = Reader(ListAt(h, (2 + K) + (j + 1)), got)
  BY <1>4, <1>8, <1>9
<1> QED
  BY <1>4, <1>9, <1>10 DEF t, h, K, j

LEMMA ReadTensorInfoReads ==
  ASSUME LoadInv, FileInv, WellFormed(Meant), ReadTensorInfo
  PROVE  FileInv'
<1> DEFINE f == Meant
           j == Len(gg.tensors)
           end == ListAt(Header(f), (2 + Len(f.kv)) + (j + 1))
<1>1. /\ loading.ph = "entries" /\ weights = <<>> /\ IsFile(gg) /\ j < gg.nTensors
      /\ IsList(gg.kv) /\ IsList(gg.tensors) /\ Len(gg.kv) = gg.nKv
  BY DEF ReadTensorInfo, LoadInv, ListInv, OrderInv, At
<1>2. UNCHANGED <<file, weights, loading>> /\ Meant' = Meant
  BY DEF ReadTensorInfo, Meant
<1>3. /\ file \in DOMAIN Files /\ gg.whole = TRUE /\ TablesBegun(f) /\ PlaceInv
      /\ ToldList(gg.kv, f) /\ gg.tensors = Prefix(f.tensors, j)
  BY <1>1 DEF FileInv, PlaceInv, TableInv, At, Prefix
<1>4. j \in Nat /\ IsList(f.tensors)
  BY <1>1, AppendList DEF WellFormed
<1>5. PICK got : ReadInfo(Here) = Reader(end, got) /\ Info(got) = f.tensors[j + 1]
  BY <1>1, <1>3, <1>4, NextTensor
<1>6. j < Len(f.tensors)
  BY <1>1, <1>3 DEF TablesBegun
<1> DEFINE x == f.tensors[j + 1]
           r == Reader(end, got)
<1>7. r.pos = end /\ r.whole = TRUE /\ r.got = got
  BY ReaderParts
<1> HIDE DEF r
<1>8. gg' = [Read(r) EXCEPT !.tensors = Append(@, Info(r.got))]
  <2>1. ReadInfo(Here) = r
    BY <1>5 DEF r
  <2> QED
    BY <2>1 DEF ReadTensorInfo
<1>9. gg' = [Read(r) EXCEPT !.tensors = Append(Read(r).tensors, x)]
  BY <1>5, <1>7, <1>8
<1> HIDE DEF x, end
<1>10. PICK p, w, n, k, kv, t, d : gg = FileOf(p, w, n, k, kv, t, d)
  BY <1>1, FileFields
<1>11. Read(r) = FileOf(r.pos, r.whole, n, k, kv, t, d)
  BY <1>10, ReadOn
<1> DEFINE v == Append(t, x)
<1>12. gg' = [Read(r) EXCEPT !.tensors = v]
  <2>1. Read(r).tensors = t
    BY <1>11, FileParts
  <2> QED
    BY <1>9, <2>1
<1> HIDE DEF v
<1>13. [Read(r) EXCEPT !.tensors = v] = FileOf(r.pos, r.whole, n, k, kv, v, d)
  BY <1>11 DEF FileOf
<1>14. /\ gg'.pos = end /\ gg'.whole = TRUE /\ gg'.nTensors = gg.nTensors
       /\ gg'.nKv = gg.nKv /\ gg'.kv = gg.kv /\ gg'.tensors = Append(gg.tensors, x)
  <2>1. gg' = FileOf(r.pos, r.whole, n, k, kv, v, d)
    BY <1>12, <1>13
  <2>2. /\ gg'.pos = r.pos /\ gg'.whole = r.whole /\ gg'.nTensors = n
        /\ gg'.nKv = k /\ gg'.kv = kv /\ gg'.tensors = v
    BY <2>1, FileParts
  <2>3. gg.nTensors = n /\ gg.nKv = k /\ gg.kv = kv /\ gg.tensors = t
    BY <1>10, FileParts
  <2> QED
    BY <1>7, <2>2, <2>3 DEF v
<1>15. gg'.tensors = Prefix(f.tensors, j + 1) /\ Len(gg'.tensors) = j + 1
  <2>1. Append(Prefix(f.tensors, j), f.tensors[j + 1]) = Prefix(f.tensors, j + 1)
    BY <1>4, <1>6, PrefixMore
  <2>2. gg'.tensors = Prefix(f.tensors, j + 1)
    BY <1>3, <1>14, <2>1 DEF x
  <2>3. Len(f.tensors) \in Nat
    BY <1>4, AppendList
  <2>4. j + 1 \in 0 .. Len(f.tensors)
    BY <1>4, <1>6, <2>3
  <2>5. Len(Prefix(f.tensors, j + 1)) = j + 1
    BY <1>4, <2>4, PrefixOf
  <2> QED
    BY <2>2, <2>5
<1>16. TablesBegun(f)'
  <2>1. j + 1 <= gg.nTensors
    <3>1. gg.nTensors = Len(f.tensors) /\ Len(f.tensors) \in Nat
      BY <1>3, <1>4, AppendList DEF TablesBegun
    <3> QED
      BY <1>4, <1>6, <3>1
  <2>2. f' = f
    BY <1>2
  <2> HIDE DEF f, j
  <2> QED
    BY <1>1, <1>3, <1>14, <1>15, <2>1, <2>2 DEF TablesBegun, end
<1>17. PlaceInv'
  BY <1>1, <1>2, <1>3, <1>14, <1>16 DEF PlaceInv, At
<1>18. TableInv'
  BY <1>2, <1>3, <1>14, <1>15 DEF TableInv, Prefix
<1>19. WeightInv'
  <2>1. weights = <<>> /\ Len(<<>>) = 0 /\ 1 .. Len(<<>>) = {}
    BY <1>1, EmptySeq
  <2>2. Len(gg'.tensors) \in Nat
    BY <1>4, <1>15
  <2> QED
    BY <1>1, <1>2, <2>1, <2>2 DEF WeightInv
<1> QED
  BY <1>17, <1>18, <1>19 DEF FileInv

\* The keys are those of the file, so what has a key is the same.
LEMMA FoundTold ==
  ASSUME NEW s, NEW f, ToldList(s, f), Len(s) = Len(f.kv), NEW key
  PROVE  Find(s, key) = Find(f.kv, key)
<1>1. \A i \in 1 .. Len(s) : s[i].key = f.kv[i].key
  BY DEF ToldList, Told
<1> DEFINE I == {i \in 1 .. Len(s) : s[i].key = key}
           J == {i \in 1 .. Len(f.kv) : f.kv[i].key = key}
<1>2. I = J
  BY <1>1
<1>3. Find(s, key) = IF I # {} THEN Min(I) ELSE 0
  BY Zenon DEF Find, SelectInSeq
<1>4. Find(f.kv, key) = IF J # {} THEN Min(J) ELSE 0
  BY Zenon DEF Find, SelectInSeq
<1> HIDE DEF I, J
<1> QED
  BY <1>2, <1>3, <1>4

LEMMA FoundInside ==
  ASSUME NEW s, Len(s) \in Nat, NEW key, Find(s, key) # 0
  PROVE  Find(s, key) \in 1 .. Len(s)
<1> DEFINE I == {i \in 1 .. Len(s) : s[i].key = key}
<1>1. Find(s, key) = IF I # {} THEN Min(I) ELSE 0
  BY Zenon DEF Find, SelectInSeq
<1>2. I \subseteq 1 .. Len(s) /\ I \in SUBSET Nat
  OBVIOUS
<1> HIDE DEF I
<1>3. I # {}
  BY <1>1
<1>4. \E n \in I : \A m \in I : n <= m
  BY <1>2, <1>3, LeastElement
<1>5. Min(I) \in I
  BY <1>4 DEF Min
<1> QED
  BY <1>1, <1>2, <1>3, <1>5

LEMMA AlignDataReads ==
  ASSUME LoadInv, FileInv, WellFormed(Meant), AlignData
  PROVE  FileInv'
<1> DEFINE f == Meant
           key == <<"general", "alignment">>
           d == RoundUp(gg.pos, KvInt(key, 32))
<1>1. /\ loading.ph = "entries" /\ weights = <<>> /\ IsFile(gg)
      /\ IsList(gg.kv) /\ IsList(gg.tensors) /\ Len(gg.kv) = gg.nKv
      /\ Len(gg.tensors) = gg.nTensors
  BY DEF AlignData, LoadInv, ListInv, OrderInv, At
<1>2. UNCHANGED <<file, weights>> /\ Meant' = Meant /\ Go("hparams")
  BY DEF AlignData, Meant
<1>3. /\ file \in DOMAIN Files /\ gg.whole = TRUE /\ TablesBegun(f) /\ PlaceInv
      /\ ToldList(gg.kv, f) /\ gg.tensors = Prefix(f.tensors, Len(gg.tensors))
  BY <1>1 DEF FileInv, PlaceInv, TableInv, At, Prefix
<1>4. /\ Len(gg.kv) = Len(f.kv) /\ Len(gg.tensors) = Len(f.tensors)
      /\ gg.pos = ListAt(Header(f), (2 + Len(f.kv)) + Len(f.tensors))
  <2> HIDE DEF f
  <2> QED
    BY <1>1, <1>3 DEF TablesBegun
<1>5. gg.tensors = f.tensors
  <2>1. IsList(f.tensors)
    BY DEF WellFormed
  <2> HIDE DEF f
  <2> QED
    BY <1>3, <1>4, <2>1, PrefixAll
<1>6. KvInt(key, 32) = f.align
  <2> DEFINE i == Find(gg.kv, key)
  <2> HIDE DEF f, key
  <2>1. i = Find(f.kv, key)
    BY <1>3, <1>4, FoundTold
  <2>2. KvInt(key, 32) = IF i # 0 THEN gg.kv[i].val ELSE 32
    BY DEF KvInt, Has
  <2>3. IF i = 0 THEN f.align = 32 ELSE f.align = f.kv[i].val /\ f.kv[i].type # "arr"
    BY <2>1 DEF WellFormed, AlignOK, f, key
  <2>4. Len(gg.kv) \in Nat
    BY <1>1, AppendList
  <2>5. i # 0 => i \in 1 .. Len(gg.kv)
    BY <2>4, FoundInside
  <2> HIDE DEF i
  <2>6. CASE i = 0
    BY <2>2, <2>3, <2>6
  <2>7. CASE i # 0
    <3>1. Told(gg.kv[i], f.kv[i])
      BY <1>3, <2>5, <2>7 DEF ToldList
    <3>2. gg.kv[i] = f.kv[i]
      BY <2>3, <2>7, <3>1 DEF Told
    <3> QED
      BY <2>2, <2>3, <2>7, <3>2
  <2> QED
    BY <2>6, <2>7
<1>7. d = DataStart(f)
  <2>1. Ends(Bytes(Header(f))) = gg.pos
    BY <1>4, HeaderPlaces
  <2> HIDE DEF f
  <2> QED
    BY <1>6, <2>1 DEF DataStart
<1>8. gg' = [gg EXCEPT !.data = d]
  BY DEF AlignData
<1> HIDE DEF d, f
<1>9. PICK p, w, n, k, kv, t, o : gg = FileOf(p, w, n, k, kv, t, o)
  BY <1>1, FileFields
<1>10. gg' = FileOf(p, w, n, k, kv, t, d)
  BY <1>8, <1>9 DEF FileOf
<1>11. /\ gg'.whole = gg.whole /\ gg'.kv = gg.kv /\ gg'.tensors = gg.tensors
       /\ gg'.data = d
  BY <1>9, <1>10, FileParts
<1>12. loading'.ph = "hparams"
  BY <1>2, GoTo DEF LoadInv, Phases
<1>13. PlaceInv'
  BY <1>2, <1>3, <1>11, <1>12 DEF PlaceInv, At
<1>14. TableInv'
  BY <1>2, <1>3, <1>11 DEF TableInv, Prefix, f
<1>15. WeightInv'
  <2>1. AllRead'
    BY <1>2, <1>5, <1>7, <1>11 DEF AllRead, f
  <2>2. weights = <<>> /\ Len(<<>>) = 0 /\ 1 .. Len(<<>>) = {}
    BY <1>1, EmptySeq
  <2>3. Len(gg'.tensors) \in Nat
    BY <1>1, <1>11, AppendList
  <2> QED
    BY <1>2, <2>1, <2>2, <2>3 DEF WeightInv
<1> QED
  BY <1>13, <1>14, <1>15 DEF FileInv

LEMMA LoadTensorReads ==
  ASSUME LoadInv, FileInv, WellFormed(Meant), LoadTensor
  PROVE  FileInv'
<1> DEFINE f == Meant
           k == Len(weights)
           t == gg.tensors[k + 1]
           view == t.type = "f32" \/ KeepsQuantized(t)
           w == [name |-> t.name, n |-> Elements(t), type |-> IF view THEN t.type ELSE "f32",
                 at |-> gg.data + t.offset, owned |-> ~view]
<1>1. /\ loading.ph = "weights" /\ k < Len(gg.tensors) /\ IsList(weights)
      /\ UNCHANGED <<file, gg>> /\ Meant' = Meant
  BY DEF LoadTensor, LoadInv, ListInv, At, Meant
<1>2. gg.tensors = f.tensors /\ gg.data = DataStart(f)
  BY <1>1 DEF FileInv, WeightInv, AllRead
<1>3. \/ Go("dead") /\ UNCHANGED weights
      \/ weights' = Append(weights, w) /\ UNCHANGED loading
  BY DEF LoadTensor
<1>4. CASE Go("dead") /\ UNCHANGED weights
  <2>1. loading'.ph = "dead"
    BY <1>4, GoTo DEF LoadInv, Phases
  <2> QED
    BY <1>1, <1>4, <2>1, FileStays
<1>5. CASE weights' = Append(weights, w) /\ UNCHANGED loading
  <2>1. WeightRight(w, f, k + 1)
    <3>1. t = f.tensors[k + 1]
      BY <1>2
    <3>2. w.type \in {t.type, "f32"} /\ w.n = Elements(t) /\ w.at = gg.data + t.offset
      OBVIOUS
    <3> HIDE DEF w, t, f
    <3> QED
      BY <1>2, <3>1, <3>2 DEF WeightRight
  <2> HIDE DEF w, t, view
  <2>2. Longer(weights', weights, w)
    BY <1>1, <1>5, AppendOne
  <2>3. /\ k \in Nat /\ Len(weights') = k + 1 /\ weights'[k + 1] = w
        /\ \A i \in 1 .. k : weights'[i] = weights[i]
    BY <2>2 DEF Longer
  <2>4. ASSUME NEW i \in 1 .. k + 1 PROVE WeightRight(weights'[i], f, i)
    <3>1. CASE i = k + 1
      BY <2>1, <2>3, <3>1
    <3>2. CASE i # k + 1
      <4>1. i \in 1 .. k
        BY <2>3, <3>2
      <4>2. WeightRight(weights[i], Meant, i)
        BY <4>1 DEF FileInv, WeightInv
      <4> QED
        BY <2>3, <4>1, <4>2
    <3> QED
      BY <3>1, <3>2
  <2>5. PlaceInv' /\ TableInv'
    BY <1>1, <1>5 DEF FileInv, PlaceInv, TableInv, At
  <2>6. Len(gg.tensors) \in Nat
    BY AppendList DEF LoadInv, ListInv
  <2>7. WeightInv'
    BY <1>1, <1>2, <2>3, <2>4, <2>6 DEF WeightInv, AllRead
  <2> QED
    BY <2>5, <2>7 DEF FileInv
<1> QED
  BY <1>3, <1>4, <1>5

LEMMA FileBegins == LoadInit /\ (\A i \in DOMAIN Files : WellFormed(Files[i])) => FileInv
<1> SUFFICES ASSUME LoadInit, \A i \in DOMAIN Files : WellFormed(Files[i]) PROVE FileInv
  OBVIOUS
<1>1. /\ file \in DOMAIN Files /\ weights = <<>>
      /\ loading = [ph |-> "open", clean |-> TRUE]
  BY DEF LoadInit
<1>2. gg.pos = 0 /\ gg.whole = TRUE /\ gg.kv = <<>> /\ gg.tensors = <<>>
  <2>1. gg = FileOf(0, TRUE, 0, 0, <<>>, <<>>, 0)
    BY DEF LoadInit, FileOf
  <2>2. \A k, t : gg = FileOf(0, TRUE, 0, 0, k, t, 0) =>
          gg.pos = 0 /\ gg.whole = TRUE /\ gg.kv = k /\ gg.tensors = t
    BY DEF FileOf
  <2> QED
    BY <2>1, <2>2
<1>3. loading.ph = "open" /\ Len(<<>>) = 0 /\ 1 .. 0 = {}
  BY <1>1, EmptySeq
<1>4. IsList(Meant.kv) /\ IsList(Meant.tensors)
  BY <1>1 DEF WellFormed, Meant
<1>5. Len(Meant.kv) \in Nat /\ Prefix(Meant.tensors, 0) = <<>>
  BY <1>4, AppendList, PrefixNone
<1>6. PlaceInv
  BY <1>1, <1>2, <1>3 DEF PlaceInv, At
<1>7. TableInv
  BY <1>2, <1>3, <1>5 DEF TableInv, ToldList, Prefix
<1>8. WeightInv
  <2>1. Len(weights) = 0 /\ Len(gg.tensors) = 0
    BY <1>1, <1>2, EmptySeq
  <2>2. 1 .. Len(weights) = {}
    BY <2>1
  <2> QED
    BY <1>1, <1>3, <2>1, <2>2 DEF WeightInv
<1> QED
  BY <1>6, <1>7, <1>8 DEF FileInv

\* The steps after the file has been read, and the deaths.
LEMMA OthersLeaveFile ==
  ASSUME LoadInv, FileInv,
         ReadHParams \/ BindLayer \/ Intern \/ BuildTokenizer \/ FreeTokenizer \/ FreeModel \/ FreeLoaded
  PROVE  FileInv'
<1>1. UNCHANGED <<file, gg, weights>>
  BY DEF ReadHParams, BindLayer, Intern, BuildTokenizer, FreeTokenizer, FreeModel, FreeLoaded
<1>2. loading.ph \notin {"open", "entries", "dead"}
  BY DEF ReadHParams, BindLayer, Intern, BuildTokenizer, FreeTokenizer, FreeModel, FreeLoaded, At
<1>3. CASE \E p \in {"dead", "weights", "tokenizer", "run"} : Go(p)
  <2>1. PICK p \in {"dead", "weights", "tokenizer", "run"} : Go(p)
    BY <1>3
  <2>2. loading'.ph = p
    BY <2>1, GoTo DEF LoadInv, Phases
  <2> QED
    BY <1>1, <1>2, <2>2, FileStays
<1>4. CASE loading'.ph \in {"model", "loaded", "closed"} \/ UNCHANGED loading
  BY <1>1, <1>2, <1>4, FileStays
<1>5. CASE ReadHParams
  BY <1>3, <1>5 DEF ReadHParams
<1>6. CASE BindLayer
  <2>1. Go("dead") \/ UNCHANGED loading
    BY <1>6 DEF BindLayer
  <2> QED
    BY <1>3, <1>4, <2>1
<1>7. CASE Intern
  <2>1. Go("tokenizer")
    BY <1>7 DEF Intern
  <2> QED
    BY <1>3, <2>1
<1>8. CASE BuildTokenizer
  <2>1. Go("dead") \/ Go("run")
    BY <1>8 DEF BuildTokenizer
  <2> QED
    BY <1>3, <2>1
<1>9. CASE FreeTokenizer \/ FreeModel \/ FreeLoaded
  <2>1. loading'.ph \in {"model", "loaded", "closed"}
    BY <1>9 DEF FreeTokenizer, FreeModel, FreeLoaded, Free
  <2> QED
    BY <1>4, <2>1
<1> QED
  BY <1>5, <1>6, <1>7, <1>8, <1>9

LEMMA FileKeeps ==
  ASSUME \A i \in DOMAIN Files : WellFormed(Files[i])
  PROVE  LoadInv /\ FileInv /\ [LoadNext]_loadVars => FileInv'
<1> SUFFICES ASSUME LoadInv, FileInv, [LoadNext]_loadVars PROVE FileInv'
  OBVIOUS
<1>1. WellFormed(Meant)
  BY DEF FileInv, PlaceInv, Meant
<1>2. CASE UNCHANGED loadVars
  <2>1. UNCHANGED <<file, gg, weights, loading>> /\ Meant' = Meant
    BY <1>2 DEF loadVars, Meant
  <2>2. PlaceInv'
    BY <2>1 DEF FileInv, PlaceInv, TablesBegun, At
  <2>3. TableInv'
    BY <2>1 DEF FileInv, TableInv
  <2>4. WeightInv'
    BY <2>1 DEF FileInv, WeightInv, AllRead
  <2> QED
    BY <2>2, <2>3, <2>4 DEF FileInv
<1>3. CASE LoadNext
  BY <1>1, <1>3, OpenFileReads, ReadKvReads, ReadTensorInfoReads, AlignDataReads,
     LoadTensorReads, OthersLeaveFile
  DEF LoadNext
<1> QED
  BY <1>2, <1>3

\* What the file does not say and llama_model_init does not check: there are
\* layers, and a vector has as many floats as the hyperparameters ask for.
VectorsFit ==
  net # <<>> =>
    /\ NLayers \in Nat
    /\ \A i \in DOMAIN net : \A r \in DOMAIN net[i] \ (Mats(i - 1) \cup {"output"}) :
         net[i][r] # 0 => weights[net[i][r]].n = Floats(r)

\* The backend has been told of each weight its true size, and of it once.
ToldOnce(told, w) == {x \in told : x[1] = w} = {<<w, weights[w].n>>}
InternInv ==
  loading.ph \in {"tokenizer", "run"} =>
    \A i \in DOMAIN net : \A r \in DOMAIN net[i] : net[i][r] # 0 => ToldOnce(interned, net[i][r])

LEMMA InternTells ==
  ASSUME LoadInv, VectorsFit, Intern
  PROVE  InternInv'
<1> DEFINE there(i) == {r \in DOMAIN net[i + 1] : net[i + 1][r] # 0}
           size(i, r) == IF r \in Mats(i) \cup {"output"} THEN weights[net[i + 1][r]].n
                         ELSE Floats(r)
           S == UNION {{<<net[i + 1][r], size(i, r)>> : r \in there(i)} : i \in 0 .. NLayers}
<1>1. /\ net # <<>> /\ Len(net) = NLayers + 1 /\ IsList(net) /\ interned' = S
      /\ UNCHANGED <<net, weights>>
  BY DEF Intern, LoadInv, ListInv
<1>2. /\ NLayers \in Nat
      /\ \A i \in DOMAIN net : \A r \in DOMAIN net[i] \ (Mats(i - 1) \cup {"output"}) :
           net[i][r] # 0 => weights[net[i][r]].n = Floats(r)
  BY <1>1 DEF VectorsFit
<1>3. DOMAIN net = 1 .. NLayers + 1
  <2>1. DOMAIN net = 1 .. Len(net)
    BY <1>1, AppendList
  <2> QED
    BY <1>1, <2>1
<1>4. ASSUME NEW i \in 0 .. NLayers, NEW r \in there(i)
      PROVE  size(i, r) = weights[net[i + 1][r]].n
  <2>1. i + 1 \in DOMAIN net /\ (i + 1) - 1 = i
    BY <1>2, <1>3
  <2>2. CASE r \in Mats(i) \cup {"output"}
    BY <2>2
  <2>3. CASE r \notin Mats(i) \cup {"output"}
    <3>1. r \in DOMAIN net[i + 1] \ (Mats((i + 1) - 1) \cup {"output"}) /\ net[i + 1][r] # 0
      BY <2>1, <2>3
    <3>2. weights[net[i + 1][r]].n = Floats(r)
      BY <1>2, <2>1, <3>1
    <3> QED
      BY <2>3, <3>2
  <2> QED
    BY <2>2, <2>3
<1> HIDE DEF size
<1>5. ASSUME NEW i \in DOMAIN net, NEW r \in DOMAIN net[i], net[i][r] # 0
      PROVE  ToldOnce(S, net[i][r])
  <2> DEFINE w == net[i][r]
             j == i - 1
  <2>1. j \in 0 .. NLayers /\ j + 1 = i
    BY <1>2, <1>3
  <2>2. r \in there(j) /\ net[j + 1][r] = w
    BY <1>5, <2>1
  <2>3. <<w, weights[w].n>> \in S
    <3>1. size(j, r) = weights[w].n
      BY <1>4, <2>1, <2>2
    <3> HIDE DEF w, j
    <3>2. <<net[j + 1][r], size(j, r)>> \in S
      BY <2>1, <2>2
    <3> QED
      BY <2>2, <3>1, <3>2
  <2>4. ASSUME NEW x \in S, x[1] = w PROVE x = <<w, weights[w].n>>
    <3>1. PICK k \in 0 .. NLayers : x \in {<<net[k + 1][q], size(k, q)>> : q \in there(k)}
      OBVIOUS
    <3>2. PICK q \in there(k) : x = <<net[k + 1][q], size(k, q)>>
      BY <3>1
    <3>3. size(k, q) = weights[net[k + 1][q]].n
      BY <1>4
    <3>4. net[k + 1][q] = w
      BY <2>4, <3>2
    <3> HIDE DEF w
    <3> QED
      BY <3>2, <3>3, <3>4
  <2> HIDE DEF S, w
  <2>5. {x \in S : x[1] = w} = {<<w, weights[w].n>>}
    BY <2>3, <2>4
  <2> QED
    BY <2>5 DEF ToldOnce, w
<1> HIDE DEF S
<1>6. ASSUME NEW i \in DOMAIN net, NEW r \in DOMAIN net[i], net[i][r] # 0
      PROVE  ToldOnce(interned, net[i][r])'
  <2>1. ToldOnce(S, net[i][r])
    BY <1>5, <1>6
  <2> QED
    BY <1>1, <2>1 DEF ToldOnce
<1> QED
  BY <1>1, <1>6 DEF InternInv

LEMMA InternKept ==
  LoadInv /\ InternInv /\ VectorsFit /\ [LoadNext]_loadVars => InternInv'
<1> SUFFICES ASSUME LoadInv, InternInv, VectorsFit, [LoadNext]_loadVars PROVE InternInv'
  OBVIOUS
<1>1. CASE UNCHANGED <<net, weights, interned>> /\ (loading'.ph \in {"tokenizer", "run"} => loading.ph \in {"tokenizer", "run"})
  BY <1>1 DEF InternInv, ToldOnce
<1>2. CASE loading'.ph \notin {"tokenizer", "run"}
  BY <1>2 DEF InternInv
<1>3. CASE UNCHANGED loadVars
  BY <1>1, <1>3 DEF loadVars
<1>4. CASE Intern
  BY <1>4, InternTells
<1>5. CASE BuildTokenizer
  <2>1. UNCHANGED <<net, weights, interned>> /\ loading.ph \in {"tokenizer", "run"}
    BY <1>5 DEF BuildTokenizer, At
  <2> QED
    BY <1>1, <2>1
<1>6. CASE LoadNext /\ ~Intern /\ ~BuildTokenizer
  <2>1. ASSUME NEW p \in {"dead", "entries", "hparams", "weights"}, Go(p)
        PROVE  loading'.ph \notin {"tokenizer", "run"}
    BY <2>1, GoTo DEF LoadInv, Phases
  <2>2. CASE OpenFile
    BY <1>2, <2>1, <2>2 DEF OpenFile
  <2>3. CASE ReadKv
    <3>1. Go("dead") \/ (UNCHANGED loading /\ loading.ph = "entries")
      BY <2>3 DEF ReadKv, At
    <3> QED
      BY <1>2, <2>1, <3>1
  <2>4. CASE ReadTensorInfo
    BY <1>2, <2>4 DEF ReadTensorInfo, At
  <2>5. CASE AlignData
    BY <1>2, <2>1, <2>5 DEF AlignData
  <2>6. CASE ReadHParams
    BY <1>2, <2>1, <2>6 DEF ReadHParams
  <2>7. CASE LoadTensor
    <3>1. Go("dead") \/ (UNCHANGED loading /\ loading.ph = "weights")
      BY <2>7 DEF LoadTensor, At
    <3> QED
      BY <1>2, <2>1, <3>1
  <2>8. CASE BindLayer
    <3>1. Go("dead") \/ (UNCHANGED loading /\ loading.ph = "weights")
      BY <2>8 DEF BindLayer, At
    <3> QED
      BY <1>2, <2>1, <3>1
  <2>9. CASE FreeTokenizer \/ FreeModel \/ FreeLoaded
    BY <1>2, <2>9 DEF FreeTokenizer, FreeModel, FreeLoaded, Free
  <2> QED
    BY <1>6, <2>2, <2>3, <2>4, <2>5, <2>6, <2>7, <2>8, <2>9 DEF LoadNext
<1> QED
  BY <1>3, <1>4, <1>5, <1>6

\* What LoadedIsFile says of the reading, which is all but what the backend is
\* told.
ReadRight ==
  /\ gg.whole
  /\ \A i \in DOMAIN gg.kv :
       IF gg.kv[i].type = "arr" THEN gg.kv[i].of = "f32" \/ gg.kv[i] = Files[file].kv[i]
       ELSE gg.kv[i] = Files[file].kv[i]
  /\ gg.tensors = SubSeq(Files[file].tensors, 1, Len(gg.tensors))
  /\ \A i \in DOMAIN weights :
       /\ weights[i].type \in {Files[file].tensors[i].type, "f32"}
       /\ [at |-> weights[i].at, tensor |-> i,
           bytes |-> NBytes(Files[file].tensors[i].type, weights[i].n)] \in Disk[file].data

LEMMA WhatIsRead ==
  ASSUME \A i \in DOMAIN Files : WellFormed(Files[i])
  PROVE  LoadInv /\ FileInv => ReadRight
<1> SUFFICES ASSUME LoadInv, FileInv PROVE ReadRight
  OBVIOUS
<1>1. file \in DOMAIN Files /\ gg.whole = TRUE /\ WellFormed(Meant)
  BY DEF FileInv, PlaceInv, Meant
<1>2. /\ DOMAIN gg.kv = 1 .. Len(gg.kv) /\ DOMAIN weights = 1 .. Len(weights)
      /\ Len(weights) \in Nat /\ Len(gg.tensors) \in Nat
  BY AppendList DEF LoadInv, ListInv
<1>3. ASSUME NEW i \in DOMAIN gg.kv
      PROVE  IF gg.kv[i].type = "arr" THEN gg.kv[i].of = "f32" \/ gg.kv[i] = Files[file].kv[i]
             ELSE gg.kv[i] = Files[file].kv[i]
  <2>1. Told(gg.kv[i], Meant.kv[i])
    BY <1>2 DEF FileInv, TableInv, ToldList
  <2> QED
    BY <2>1 DEF Told, Meant
<1>4. gg.tensors = SubSeq(Files[file].tensors, 1, Len(gg.tensors))
  BY DEF FileInv, TableInv, Meant
<1>5. ASSUME NEW i \in DOMAIN weights
      PROVE  /\ weights[i].type \in {Files[file].tensors[i].type, "f32"}
             /\ [at |-> weights[i].at, tensor |-> i,
                 bytes |-> NBytes(Files[file].tensors[i].type, weights[i].n)] \in Disk[file].data
  <2> DEFINE w == weights[i]
             f == Meant
  <2>1. weights # <<>>
    BY <1>2, EmptyList
  <2>2. gg.tensors = f.tensors /\ WeightRight(w, f, i) /\ Len(weights) <= Len(gg.tensors)
    BY <1>2, <2>1 DEF FileInv, WeightInv, AllRead
  <2>3. i \in DOMAIN f.tensors
    <3>1. i \in 1 .. Len(f.tensors)
      BY <1>2, <2>2
    <3>2. IsList(f.tensors)
      BY <1>1 DEF WellFormed
    <3> HIDE DEF f
    <3> QED
      BY <3>1, <3>2, AppendList
  <2>4. Blob(f, i) \in Disk[file].data
    <3>1. f = Files[file]
      BY DEF Meant
    <3> QED
      BY <1>1, <2>3, <3>1, DiskHolds
  <2> HIDE DEF w
  <2>5. Blob(f, i) = [at |-> w.at, tensor |-> i, bytes |-> NBytes(f.tensors[i].type, w.n)]
    BY <2>2 DEF Blob, WeightRight
  <2> QED
    BY <2>2, <2>4, <2>5 DEF WeightRight, Meant, w
<1> QED
  BY <1>1, <1>3, <1>4, <1>5 DEF ReadRight

LEMMA WhatIsLoaded == ReadRight /\ InternInv => LoadedIsFile
<1> SUFFICES ASSUME ReadRight, InternInv PROVE LoadedIsFile
  OBVIOUS
<1>1. ASSUME At("run"), NEW i \in DOMAIN net, NEW r \in DOMAIN net[i], net[i][r] # 0
      PROVE  {x \in interned : x[1] = net[i][r]} = {<<net[i][r], weights[net[i][r]].n>>}
  BY <1>1 DEF InternInv, At, ToldOnce
<1> QED
  BY <1>1 DEF ReadRight, LoadedIsFile

\* Whatever entries and tensors a well-formed file holds, and however far the
\* loading has come: every field is read where it was written, and every weight
\* is the data of its tensor.
THEOREM ReadsFile ==
  ASSUME \A i \in DOMAIN Files : WellFormed(Files[i])
  PROVE  Spec => []ReadRight
<1> DEFINE Inv == LoadInv /\ FileInv
<1>1. Init => Inv
  BY LoadBegins, FileBegins DEF Init
<1>2. [Next]_vars => [LoadNext]_loadVars
  BY DEF Next, ChatStep, BatchStep, LoadStep, vars
<1>3. Inv /\ [LoadNext]_loadVars => Inv'
  BY LoadKeeps, FileKeeps
<1>4. Inv => ReadRight
  BY WhatIsRead
<1> QED
  BY <1>1, <1>2, <1>3, <1>4, PTL DEF Spec

\* And of the sizes that the backend is told of weights: what has been loaded
\* is what the file holds, if its vectors are as long as its hyperparameters
\* say, which is never checked.
THEOREM LoadsFile ==
  ASSUME \A i \in DOMAIN Files : WellFormed(Files[i])
  PROVE  Spec /\ []VectorsFit => []LoadedIsFile
<1> DEFINE Inv == LoadInv /\ FileInv /\ InternInv
<1>1. Init => Inv
  <2>1. Init => loading.ph = "open"
    <3>1. loading = [ph |-> "open", clean |-> TRUE] => loading.ph = "open"
      OBVIOUS
    <3> QED
      BY <3>1 DEF Init, LoadInit
  <2>2. Init => LoadInit
    BY DEF Init
  <2> QED
    BY <2>1, <2>2, LoadBegins, FileBegins DEF InternInv
<1>2. [Next]_vars => [LoadNext]_loadVars
  BY DEF Next, ChatStep, BatchStep, LoadStep, vars
<1>3. Inv /\ VectorsFit /\ [LoadNext]_loadVars => Inv'
  BY LoadKeeps, FileKeeps, InternKept
<1>4. Inv => LoadedIsFile
  BY WhatIsRead, WhatIsLoaded
<1> QED
  BY <1>1, <1>2, <1>3, <1>4, PTL DEF Spec
=============================================================================
