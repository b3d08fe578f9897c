----------------------------- MODULE GpuForward -----------------------------
(***************************************************************************)
(* llama_model_forward on the Vulkan backend.  Some of its operations are  *)
(* recorded for the device, others run on the CPU, and which is which      *)
(* depends on the model; between them the program says what the CPU reads  *)
(* (host_read) and wrote (host_write).  The buffers are made anew whenever *)
(* one must grow, while the entries of the old ones stay in the table.     *)
(*                                                                         *)
(* A function of the code is the sequence of the operations it calls.  The *)
(* memory is that of GpuBuffers; conv and ssm of the cache and the weights *)
(* other than the rope table have one copy that nobody confuses and are    *)
(* left out.                                                               *)
(***************************************************************************)
EXTENDS GpuBuffers

CONSTANTS
  Models,    \* [layers, qwen35, quant, bias, norms, neox, nCtx]
  Plans,     \* what is asked: [B, maxSeq, calls], a call [S, valid, reset]
  Policies   \* how malloc reuses what was freed: "fifo", "lifo", "fresh", "pack"

VARIABLES
  model, plan, policy, push,   \* what runs: push is g_push_desc
  g,        \* the runtime of GpuBuffers, and how many operations ran
  mem,      \* the heap: [bufs, free, top]
  fwd,      \* the program: [ph, call, layer, B, S, K, rope, nSeq]
  queue     \* operations of the function it is in, still to be done

gpuVars == <<model, plan, policy, push, g, mem, fwd, queue>>

-----------------------------------------------------------------------------
(* Memory.                                                                 *)

Scratch == <<"x", "h", "q", "k", "v", "attn", "y", "fg", "fu", "gb", "gs", "lg",
             "pos", "kl", "st", "vb", "ti">>
Interned == SelectSeq(Scratch, LAMBDA nm : nm \notin {"attn", "gs"})

\* Cells of a buffer of ensure_scratch; the linear layers are twice as wide
\* as the embedding.
Size(nm, b, s, k) ==
  CASE nm \in {"x", "h", "q", "k", "v", "gb"} -> b * s
    [] nm \in {"y", "fg", "fu"} -> 2 * b * s
    [] nm = "attn" -> b * s * k
    [] nm = "gs" -> IF model.qwen35 THEN 5 ELSE 0
    [] nm = "lg" -> b
    [] OTHER -> 1

\* free of the buffers nms: chunks of their own, or one with the top, which
\* then is new memory again.
FreeAll(m, nms) ==
  LET chunks == [k \in DOMAIN nms |-> m.bufs[nms[k]]]
      end == Last(chunks).p + Last(chunks).n
  IN CASE nms = <<>> -> m
       [] nms # <<>> /\ policy = "pack" -> IF end = m.top THEN [m EXCEPT !.top = chunks[1].p] ELSE m
       [] OTHER -> [m EXCEPT !.free = @ \o SelectSeq(chunks, LAMBDA c : c.n > 0)]

\* malloc: a free chunk of that size, or new memory.
Malloc(m, nm, n) ==
  LET fits == {i \in DOMAIN m.free : m.free[i].n = n}
      i == IF policy = "lifo" THEN Max(fits) ELSE Min(fits)
  IN IF n = 0 \/ fits = {} \/ policy \in {"fresh", "pack"}
     THEN [m EXCEPT !.bufs = (nm :> [p |-> m.top, n |-> n]) @@ @, !.top = @ + n]
     ELSE [m EXCEPT !.bufs = (nm :> m.free[i]) @@ @, !.free = RemoveAt(@, i)]

\* The memories when the buffers nms of m are new: their cells hold anything.
Renewed(s, m, nms) ==
  LET new == UNION {Span(m.bufs[nms[k]].p, m.bufs[nms[k]].n) : k \in DOMAIN nms}
  IN [s EXCEPT !.host = [a \in 0 .. m.top - 1 |-> IF a \in DOMAIN @ THEN @[a] ELSE Junk],
               !.right = [a \in 0 .. m.top - 1 |-> IF a \in new THEN Junk ELSE @[a]]]

-----------------------------------------------------------------------------
(* Operations, on the CPU: host_read of some pointers, a function of       *)
(* cells, host_write of some pointers; on the device: the buffers that are *)
(* interned, cells, and the buffers (by number) that are marked written.   *)

Cpu(hr, reads, writes, hw) ==
  [on |-> "cpu", hr |-> hr, reads |-> reads, writes |-> writes, hw |-> hw]
Gpu(bufs, reads, writes, wrote) ==
  [on |-> "gpu", bufs |-> bufs, reads |-> reads, writes |-> writes, wrote |-> wrote]
Ref(p, n, kind) == [p |-> p, n |-> n, kind |-> kind]

\* llm_backend_host_read for the program
HostReads(p) == Cpu(<<p>>, {}, {}, <<>>)

RunCpu(s, op) ==
  LET r == FoldLeft(HostRead, s, op.hr)
      ok == \A a \in op.reads : r.right[a] \in {Junk, r.host[a]}
      n == s.n + 1
      w == [r EXCEPT !.n = n, !.wrong = @ \/ ~ok,
                     !.host = [a \in DOMAIN @ |-> IF a \notin op.writes THEN @[a]
                                                  ELSE IF ok THEN <<n, a>> ELSE Bad],
                     !.right = [a \in DOMAIN @ |-> IF a \in op.writes THEN <<n, a>> ELSE @[a]]]
  IN FoldLeft(HostWrite, w, op.hw)

\* The entry of a buffer of an operation.  A "slice" may lie in an entry of a
\* larger one; what is in the rope table is never made there.
EntryOf(s, ref) == IF ref.kind = "slice" THEN FindContaining(s, ref.p, ref.n) ELSE Find(s, ref.p)

Enter(s, ref) ==
  IF ref.kind = "slice"
  THEN IF EntryOf(s, ref) # 0 THEN s ELSE Intern(HostRead(s, ref.p), ref.p, ref.n, "rw")
  ELSE IF ref.kind = "weight" /\ Find(s, ref.p) # 0 THEN s
  ELSE Intern(s, ref.p, ref.n, ref.kind)

RunGpu(s, op) ==
  LET e == FoldLeft(Enter, s, op.bufs)
      es == [k \in DOMAIN op.bufs |-> EntryOf(e, op.bufs[k])]
      of(a) == CHOOSE k \in DOMAIN op.bufs : a \in Span(op.bufs[k].p, op.bufs[k].n)
      place(a) == [at |-> es[of(a)], i |-> a - e.tab[es[of(a)]].host]
      n == s.n + 1
      cmd == [reads |-> {place(a) @@ [want |-> e.right[a]] : a \in op.reads},
              writes |-> {place(a) @@ [val |-> <<n, a>>] : a \in op.writes}]
      d == Dispatch(e, es, cmd, push)
  IN [FoldLeft(Wrote, d, [k \in DOMAIN op.wrote |-> es[op.wrote[k]]]) EXCEPT
        !.n = n, !.right = [a \in DOMAIN @ |-> IF a \in op.writes THEN <<n, a>> ELSE @[a]]]

Run(s, op) == IF op.on = "cpu" THEN RunCpu(s, op) ELSE RunGpu(s, op)

-----------------------------------------------------------------------------
(* The kernels.  Pointers, and rows or cells.                              *)

P(nm) == mem.bufs[nm].p
B == plan.B
S == plan.calls[fwd.call].S
BS == B * S
Valid(b) == plan.calls[fwd.call].valid[b]

\* linear_rows_wt, linear_rows_add_wt: a quantised weight is the CPU's.
Linear(w, x, nx, y, ny, acc) ==
  LET reads == Span(x, nx) \cup (IF acc THEN Span(y, ny) ELSE {})
  IN IF w \in model.quant
     THEN Cpu(<<x>> \o (IF acc THEN <<y>> ELSE <<>>), reads, Span(y, ny), <<y>>)
     ELSE Gpu(<<Ref(x, nx, "slice"), Ref(y, ny, "rw")>>, reads, Span(y, ny), <<2>>)

\* rmsnorm_rows, into another buffer and in place
Rmsnorm(x, y, n) ==
  Gpu(<<Ref(x, n, "rw"), Ref(y, n, "rw")>>, Span(x, n), Span(y, n), <<2>>)
RmsnormInPlace(x, n) == Cpu(<<x>>, Span(x, n), Span(x, n), <<x>>)

\* vec_add and silu_mul, as they are called: a is the result too.
InPlace(a, b, n) == Cpu(<<a, b>>, Span(a, n) \cup Span(b, n), Span(a, n), <<a>>)

\* add_bias_rows: vec_add of row after row and the bias, a weight.
AddBias(y, rows, width) ==
  IF ~model.bias THEN <<>>
  ELSE [t \in 1 .. rows |->
          LET row == y + (t - 1) * width
          IN Cpu(<<row>>, Span(row, width), Span(row, width), <<row>>)]

\* attn_pack_heads, attn_merge_heads
Pack(src, dst) ==
  Gpu(<<Ref(src, BS, "rw"), Ref(dst, BS, "rw")>>, Span(src, BS), Span(dst, BS), <<2>>)

\* apply_rope_any
Rope(x) ==
  IF model.neox THEN Cpu(<<x>>, Span(x, BS) \cup {P("pos"), P("cos")}, Span(x, BS), <<x>>)
  ELSE Gpu(<<Ref(x, BS, "rw"), Ref(P("cos"), 1, "weight"), Ref(P("pos"), 1, "rw")>>,
           Span(x, BS) \cup {P("pos"), P("cos")}, Span(x, BS), <<1>>)

\* The cells of K or V of a layer: row b begins at b * maxSeq.
CacheK(li) == mem.bufs["K"].p + (li - 1) * B * plan.maxSeq
CacheV(li) == mem.bufs["V"].p + (li - 1) * B * plan.maxSeq
CacheRow(base, b, from, n) == Span(base + (b - 1) * plan.maxSeq + from, n)
Device(p) == Ref(p, B * plan.maxSeq, "device")

\* attn_cache_store
CacheStore(li, k, v) ==
  LET new(base) == UNION {CacheRow(base, b, fwd.nSeq[b], Valid(b)) : b \in 1 .. B}
      rows(p) == UNION {Span(p + (b - 1) * S, Valid(b)) : b \in 1 .. B}
  IN Gpu(<<Device(CacheK(li)), Device(CacheV(li)), Ref(k, BS, "rw"), Ref(v, BS, "rw"),
           Ref(P("vb"), 1, "rw"), Ref(P("st"), 1, "rw")>>,
         rows(k) \cup rows(v) \cup {P("vb"), P("st")},
         new(CacheK(li)) \cup new(CacheV(li)), <<1, 2>>)

\* attn_gqa: rows that are not valid are set to zero.
Gqa(li, y, q) ==
  LET seen(base) == UNION {IF Valid(b) = 0 THEN {}
                           ELSE CacheRow(base, b, 0, fwd.nSeq[b] + Valid(b)) : b \in 1 .. B}
      rows == UNION {Span(q + (b - 1) * S, Valid(b)) : b \in 1 .. B}
  IN Gpu(<<Ref(y, BS, "rw"), Ref(q, BS, "rw"), Device(CacheK(li)), Device(CacheV(li)),
           Ref(P("pos"), 1, "rw"), Ref(P("vb"), 1, "rw"), Ref(P("kl"), 1, "rw")>>,
         rows \cup seen(CacheK(li)) \cup seen(CacheV(li)) \cup {P("pos"), P("vb"), P("kl")},
         Span(y, BS), <<1>>)

\* split_q_gate, sigmoid_mul, and the copy of the packed gate
SplitQGate ==
  Cpu(<<P("y")>>, Span(P("y"), 2 * BS), Span(P("h"), BS) \cup Span(P("gb"), BS),
      <<P("h"), P("gb")>>)
SigmoidMul(y) == InPlace(y, P("gb"), BS)
CopyGate == Cpu(<<P("y")>>, Span(P("y"), BS), Span(P("gb"), BS), <<P("gb")>>)

-----------------------------------------------------------------------------
(* The parts of llama_model_forward.                                       *)

If(c, ops) == IF c THEN ops ELSE <<>>

\* full_attn_layer
AttnLayer(li) ==
  LET qs == IF model.qwen35 THEN P("h") ELSE P("y")
      wide == IF model.qwen35 THEN 2 ELSE 1
      out == IF qs = P("y") THEN P("q") ELSE P("y")
      decode == If(model.norms, <<RmsnormInPlace(qs, BS), RmsnormInPlace(P("fg"), BS)>>)
                \o <<Rope(qs), Rope(P("fg")), CacheStore(li, P("fg"), P("fu")), Gqa(li, out, qs)>>
                \o If(model.qwen35, <<SigmoidMul(out)>>)
                \o <<Linear("o", out, BS, P("x"), BS, TRUE)>>
      prefill == <<Pack(qs, P("q"))>>
                 \o If(model.qwen35, <<Pack(P("gb"), P("y")), CopyGate>>)
                 \o <<Pack(P("fg"), P("k")), Pack(P("fu"), P("v"))>>
                 \o If(model.norms, <<RmsnormInPlace(P("q"), BS), RmsnormInPlace(P("k"), BS)>>)
                 \o <<Rope(P("q")), Rope(P("k")), CacheStore(li, P("k"), P("v")),
                      Gqa(li, P("y"), P("q"))>>
                 \o If(model.qwen35, <<SigmoidMul(P("y"))>>)
                 \o <<Pack(P("y"), P("h")), Linear("o", P("h"), BS, P("x"), BS, TRUE)>>
  IN <<Linear("q", P("h"), BS, P("y"), wide * BS, FALSE)>> \o AddBias(P("y"), BS, wide)
     \o <<Linear("k", P("h"), BS, P("fg"), BS, FALSE)>> \o AddBias(P("fg"), BS, 1)
     \o <<Linear("v", P("h"), BS, P("fu"), BS, FALSE)>> \o AddBias(P("fu"), BS, 1)
     \o If(model.qwen35, <<SplitQGate>>)
     \o (IF S = 1 THEN decode ELSE prefill)

\* gdn_layer_forward: token after token, on pieces of its scratch buffer.
GdnForward ==
  LET gs(j) == P("gs") + j
      project(w, xt, j) == <<Linear(w, xt, 1, gs(j), 1, FALSE), HostReads(gs(j))>>
      token(r) ==
        LET xt == P("h") + r
        IN project("qkv", xt, 0) \o project("z", xt, 1)
           \o project("beta", xt, 2) \o project("alpha", xt, 3)
           \o <<Cpu(<<>>, Span(gs(0), 4), Span(gs(2), 3), <<>>),
                Linear("ssm_out", gs(4), 1, P("y") + r, 1, FALSE)>>
      rows == FlattenSeq([b \in 1 .. B |-> [t \in 1 .. Valid(b) |-> (b - 1) * S + t - 1]])
  IN <<Cpu(<<>>, {}, Span(P("y"), BS), <<>>), HostReads(P("h"))>>
     \o FlattenSeq([k \in DOMAIN rows |-> token(rows[k])])
     \o <<Cpu(<<>>, {}, {}, <<P("y")>>)>>

\* The feed-forward half of a layer.
FfnOps ==
  <<Rmsnorm(P("x"), P("h"), BS),
    Linear("gate", P("h"), BS, P("fg"), 2 * BS, FALSE),
    Linear("up", P("h"), BS, P("fu"), 2 * BS, FALSE),
    InPlace(P("fg"), P("fu"), 2 * BS),
    Linear("down", P("fg"), 2 * BS, P("x"), BS, TRUE)>>

\* A turn of the loop over the layers.
LayerOps(li) ==
  <<Rmsnorm(P("x"), P("h"), BS)>>
  \o (IF model.layers[li] = "gdn" THEN Append(GdnForward, InPlace(P("x"), P("y"), BS))
      ELSE AttnLayer(li))
  \o FfnOps

\* The row of h that gives the logits of b.
LastRow(b) == P("h") + (b - 1) * S + Max({0, Min({Valid(b), S}) - 1})

\* The end of llama_model_forward.
LogitsOps ==
  <<Rmsnorm(P("x"), P("h"), BS)>>
  \o [b \in 1 .. B |-> Linear("output", LastRow(b), 1, P("lg") + b - 1, 1, FALSE)]
  \o <<HostReads(P("lg"))>>

\* embed_gather_wt
Embed ==
  IF "embd" \in model.quant THEN Cpu(<<>>, {P("ti")}, Span(P("x"), BS), <<P("x")>>)
  ELSE Gpu(<<Ref(P("ti"), 1, "rw"), Ref(P("x"), BS, "rw")>>, {P("ti")}, Span(P("x"), BS), <<2>>)

\* What the CPU sets up: valid_buf, starts, positions, key_len, the tokens.
SetUp ==
  <<Cpu(<<>>, {}, {P("st"), P("vb"), P("pos"), P("kl")}, <<P("pos"), P("st"), P("kl"), P("vb")>>),
    Cpu(<<>>, {}, {P("ti")}, <<P("ti")>>)>>

-----------------------------------------------------------------------------
(* The program.                                                            *)

GpuInit ==
  /\ model \in Models /\ plan \in Plans /\ policy \in Policies /\ push \in BOOLEAN
  /\ g = [tab |-> <<>>, cmds |-> <<>>, host |-> <<>>, right |-> <<>>, wrong |-> FALSE,
          full |-> FALSE, n |-> 0]
  /\ mem = [bufs |-> <<>>, free |-> <<>>, top |-> 0]
  /\ fwd = [ph |-> "cache", call |-> 1, layer |-> 1, B |-> 0, S |-> 0, K |-> 0, rope |-> 0,
            nSeq |-> [b \in 1 .. plan.B |-> 0]]
  /\ queue = <<>>

Same == UNCHANGED <<model, plan, policy, push>>

\* The program goes on when the operations it has called are done.
Reached(ph) == queue = <<>> /\ fwd.ph = ph
Calls(ops) == queue' = ops /\ UNCHANGED <<g, mem>>

Operation ==
  /\ queue # <<>>
  /\ g' = Run(g, Head(queue))
  /\ queue' = Tail(queue)
  /\ UNCHANGED <<mem, fwd>> /\ Same

\* llama_model_new_cache: zeros, one copy on the device.
NewCache ==
  /\ Reached("cache")
  /\ LET layers == Len(model.layers)
         m == Malloc(Malloc(mem, "K", layers * B * plan.maxSeq), "V", layers * B * plan.maxSeq)
         zero == [Renewed(g, m, <<"K", "V">>) EXCEPT !.host = [a \in DOMAIN @ |-> <<0, 1>>],
                                                    !.right = [a \in DOMAIN @ |-> <<0, 1>>]]
         add(s, p) == LET t == Intern(s, p, B * plan.maxSeq, "device") IN Upload(t, Find(t, p))
         at(nm, li) == m.bufs[nm].p + (li - 1) * B * plan.maxSeq
     IN /\ mem' = m
        /\ g' = FoldLeft(add, zero,
                         FlattenSeq([li \in 1 .. layers |-> <<at("K", li), at("V", li)>>]))
  /\ fwd' = [fwd EXCEPT !.ph = "tables"]
  /\ UNCHANGED queue /\ Same

\* rope_tables: the table of at least `need` positions.
RopeTables ==
  /\ Reached("tables")
  /\ LET call == plan.calls[fwd.call]
         nSeq == IF call.reset THEN [b \in 1 .. B |-> 0] ELSE fwd.nSeq
         need == Max({nSeq[b] + call.valid[b] : b \in 1 .. B})
         freed == FreeAll(mem, IF fwd.rope = 0 THEN <<>> ELSE <<"cos">>)
         m == Malloc(freed, "cos", 1)
         s == RunCpu(Renewed(g, m, <<"cos">>), Cpu(<<>>, {}, {m.bufs["cos"].p}, <<>>))
         t == Intern(s, m.bufs["cos"].p, 1, "weight")
     IN IF need <= fwd.rope
        THEN fwd' = [fwd EXCEPT !.ph = "scratch", !.nSeq = nSeq] /\ UNCHANGED <<g, mem>>
        ELSE /\ mem' = m
             /\ g' = Upload(t, Find(t, m.bufs["cos"].p))
             /\ fwd' = [fwd EXCEPT !.ph = "scratch", !.nSeq = nSeq,
                                   !.rope = Max({need, model.nCtx})]
  /\ UNCHANGED queue /\ Same

\* ensure_scratch: one buffer too small, and all are made anew.
EnsureScratch ==
  /\ Reached("scratch")
  /\ LET need == Max({1} \cup {fwd.nSeq[b] + Valid(b) : b \in 1 .. B})
         b == Max({B, fwd.B})  s == Max({S, fwd.S})  k == Max({need, fwd.K})
         freed == FreeAll(mem, IF fwd.B = 0 THEN <<>> ELSE Scratch)
         m == FoldLeft(LAMBDA h, nm : Malloc(h, nm, Size(nm, b, s, k)), freed, Scratch)
     IN IF B <= fwd.B /\ S <= fwd.S /\ need <= fwd.K
        THEN fwd' = [fwd EXCEPT !.ph = "embed"] /\ UNCHANGED <<g, mem>>
        ELSE /\ mem' = m
             /\ g' = FoldLeft(LAMBDA t, nm : Intern(t, m.bufs[nm].p, m.bufs[nm].n, "rw"),
                              Renewed(g, m, Scratch), Interned)
             /\ fwd' = [fwd EXCEPT !.ph = "embed", !.B = b, !.S = s, !.K = k]
  /\ UNCHANGED queue /\ Same

EmbedTokens ==
  /\ Reached("embed")
  /\ Calls(Append(SetUp, Embed))
  /\ fwd' = [fwd EXCEPT !.ph = "layer", !.layer = 1]
  /\ Same

Layer ==
  /\ Reached("layer") /\ fwd.layer <= Len(model.layers)
  /\ Calls(LayerOps(fwd.layer))
  /\ fwd' = [fwd EXCEPT !.layer = @ + 1]
  /\ Same

Logits ==
  /\ Reached("layer") /\ fwd.layer > Len(model.layers)
  /\ Calls(LogitsOps)
  /\ fwd' = [fwd EXCEPT !.ph = "sample", !.layer = 1, !.nSeq = [b \in 1 .. B |-> @[b] + Valid(b)]]
  /\ Same

\* Mutant: the logits of a row are looked at where they are.
SampleBlind ==
  /\ Reached("sample") /\ fwd.layer <= B
  /\ Calls(<<>>)
  /\ fwd' = [fwd EXCEPT !.layer = @ + 1]
  /\ Same

\* sample_token, or argmax: row after row.
Sample ==
  /\ Reached("sample") /\ fwd.layer <= B
  /\ Calls(<<HostReads(P("lg") + fwd.layer - 1)>>)
  /\ fwd' = [fwd EXCEPT !.layer = @ + 1]
  /\ Same

NextCall ==
  /\ Reached("sample") /\ fwd.layer > B
  /\ fwd' = IF fwd.call < Len(plan.calls) THEN [fwd EXCEPT !.ph = "tables", !.call = @ + 1]
            ELSE [fwd EXCEPT !.ph = "done"]
  /\ UNCHANGED <<g, mem, queue>> /\ Same

GpuDone == Reached("done") /\ UNCHANGED gpuVars

GpuNext == \/ Operation \/ NewCache \/ RopeTables \/ EnsureScratch \/ EmbedTokens \/ Layer \/ Logits
           \/ Sample \/ NextCall \/ GpuDone

-----------------------------------------------------------------------------
(* Properties.                                                             *)

\* Table and command buffer stay within their arrays, a host pointer has one
\* entry, and no entry is longer than the memory there is.
GpuTypeOK ==
  /\ ~g.full /\ Len(g.tab) <= Cap
  /\ push \/ Len(g.cmds) <= MaxSets
  /\ \A i, j \in DOMAIN g.tab : g.tab[i].host = g.tab[j].host => i = j
  /\ \A i \in DOMAIN g.tab :
       g.tab[i].host + g.tab[i].len <= mem.top /\ g.tab[i].live <= g.tab[i].len

\* Every operation, on the CPU and on the device, reads what the program
\* wrote last to these cells, whoever wrote it, whenever it was executed and
\* wherever the buffers are.
KernelsReadRight == ~g.wrong

\* The logits that are sampled are those the last layer gave.
LogitsRight ==
  Reached("sample") =>
    \A b \in 1 .. fwd.layer - 1 : g.host[P("lg") + b - 1] = g.right[P("lg") + b - 1]
=============================================================================
