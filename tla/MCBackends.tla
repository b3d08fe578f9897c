----------------------------- MODULE MCBackends -----------------------------
(***************************************************************************)
(* LinearOps and GpuForward on small instances.  Bursts have two lanes, a  *)
(* channel has two banks; the host device has one channel, the simulated   *)
(* one three, two of which compute.  The kernels of the host have their    *)
(* real block and strip sizes, and matrices wide enough to use each.       *)
(* The models of the Vulkan backend have layers of both kinds and weights  *)
(* of both sorts; what is asked is a chat of one row, with prompts that    *)
(* grow the buffers, with and without a reset, or a batch of two rows one  *)
(* of which ends early.                                                    *)
(***************************************************************************)
EXTENDS Backends

Kind(name, nOut, nIn, type, on) ==
  [name |-> name, nOut |-> nOut, nIn |-> nIn, type |-> type, on |-> on]
Simd == {"x86", "arm"}

\* tall: two waves and a half-filled group on two channels, a padded burst.
\* wide: more columns than the global buffer, which is larger where there is a
\* MAC worker, but then more than the worker takes.  odd: an unknown name.
MCInfo == [tall |-> Kind("ffn", 5, 3, "f32", {"pim"}),
           flat |-> Kind("", 2, 1, "f32", {"pim"}),
           wide |-> Kind("attn", 2, 7, "f32", {"pim"}),
           odd  |-> Kind("unknown", 3, 2, "f32", {"pim"}),
           f32  |-> Kind("", 9, 27, "f32", Simd \cup {"plain"}),
           q8   |-> Kind("", 5, 64, "q8", Simd \cup {"plain"}),
           q4   |-> Kind("", 5, 256, "q4", Simd \cup {"plain"})]
MCMats == DOMAIN MCInfo

MCW == [m \in MCMats |-> [o \in 0 .. MCInfo[m].nOut - 1 |->
         [i \in 0 .. MCInfo[m].nIn - 1 |-> ((o * 7 + i * 3 + MCInfo[m].nOut) % 11) + 1]]]
MCX == [n \in 1 .. 2 |-> [t \in 0 .. 4 |-> [i \in 0 .. 255 |-> ((i * 5 + t * 3 + n) % 7) + 1]]]

Chip(nCh, pim, gprs, gbCols) == [nCh |-> nCh, pim |-> pim, gprs |-> gprs, gbCols |-> gbCols]
MCHw == [host |-> Chip(1, <<0>>, 13, 3), shm |-> Chip(3, <<0, 1>>, 13, 4),
         mmio |-> Chip(3, <<0, 1>>, 13, 3)]

Conf(backend, issue, threads, fast, ops) ==
  [backend |-> backend, issue |-> issue, threads |-> threads, fast |-> fast, ops |-> ops]
AllOps == {"output", "ffn", "attn"}
MCConfs ==
  {Conf("pim", "host", n, f, AllOps) : n \in {1, 2}, f \in BOOLEAN}
  \cup {Conf("pim", "mmio", 1, TRUE, AllOps), Conf("pim", "shm", 2, TRUE, AllOps)}
  \cup {Conf("pim", "host", 1, TRUE, {"ffn"})}
  \cup {Conf(b, "host", 2, TRUE, {}) : b \in Simd} \cup {Conf("plain", "host", 1, TRUE, {})}

Network(layers, qwen35, quant, bias, norms, neox, nCtx) ==
  [layers |-> layers, qwen35 |-> qwen35, quant |-> quant, bias |-> bias, norms |-> norms,
   neox |-> neox, nCtx |-> nCtx]
AllWeights == {"embd", "q", "k", "v", "o", "gate", "up", "down", "output",
               "qkv", "z", "beta", "alpha", "ssm_out"}
Dense == <<"attn", "attn">>
Mixed == <<"gdn", "attn">>

\* Where q is quantised in a gated layer so are k and v, where the gate is so
\* is down, and so is ssm_out everywhere.
MCModels ==
  {Network(Dense, FALSE, {}, b, ~b, FALSE, 2) : b \in BOOLEAN}
  \cup {Network(Dense, FALSE, q, TRUE, TRUE, neox, 8) :
          q \in {{"embd"}, {"q", "v", "down"}, {"k", "o", "gate", "down"}, {"up", "output"}},
          neox \in BOOLEAN}
  \cup {Network(Dense, FALSE, AllWeights, TRUE, FALSE, FALSE, 8)}
  \cup {Network(Mixed, TRUE, q, FALSE, TRUE, TRUE, 8) :
          q \in {AllWeights, {"ssm_out"}, {"ssm_out", "qkv", "beta", "v", "o"},
                 {"ssm_out", "z", "alpha", "q", "k", "v", "gate", "down"}}}

\* q is quantised, k and v are not.
MCMixedModels == {Network(Mixed, TRUE, {"ssm_out", "q"}, FALSE, TRUE, TRUE, 8)}

Ask(s, valid, reset) == [S |-> s, valid |-> valid, reset |-> reset]
MCPlans ==
  {[B |-> 1, maxSeq |-> 6, calls |-> <<Ask(2, <<2>>, FALSE), Ask(1, <<1>>, FALSE),
                                       Ask(1, <<1>>, FALSE), Ask(2, <<2>>, FALSE)>>],
   [B |-> 1, maxSeq |-> 4, calls |-> <<Ask(2, <<2>>, FALSE), Ask(1, <<1>>, FALSE),
                                       Ask(3, <<3>>, TRUE), Ask(1, <<1>>, FALSE)>>],
   [B |-> 2, maxSeq |-> 4, calls |-> <<Ask(2, <<2, 1>>, FALSE), Ask(1, <<1, 1>>, FALSE),
                                       Ask(1, <<0, 1>>, FALSE)>>]}
=============================================================================
