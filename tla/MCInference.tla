----------------------------- MODULE MCInference -----------------------------
(***************************************************************************)
(* Inference with a vocabulary of a letter, a space, a stop, and the word  *)
(* of two letters that two letters are encoded to.                         *)
(***************************************************************************)
EXTENDS Inference

MCVocab   == {"x", " ", "END", "eos"}
MCStops   == {"eos"}
MCBlanks  == {" "}
\* ... and a token that the model lacks, which a line or a prompt may have.
MCUnknown == {"odd"}
MCRetok(s) == CASE s = <<"x", "x">> -> <<"xx">>
                [] s = <<"x", " ", "x">> -> <<"odd">>
                [] OTHER -> s
MCLines   == {<<"x">>, <<"x", " ", "x">>}
MCSystem  == <<"sys">>
\* One prompt leaves room for one token of the reply.
MCPrompts == {<<"x">>, <<"x", " ", "x">>, <<"x", "odd">>, [i \in 1 .. 16 |-> "x"]}

-----------------------------------------------------------------------------
(* Model files.  Names and strings have a few bytes, types blocks of as    *)
(* many: what matters is that they differ.                                 *)

MCNameLen(nm) == 1 + (Len(nm[2]) % 4)
MCStrLen(s) == 1 + (Len(s) % 5)
MCBlockOf(type) ==
  CASE type = "f32" -> <<1, 4>> [] type = "q8" -> <<2, 3>> [] type = "q4" -> <<4, 3>>
                     [] OTHER -> <<0, 0>>

Num(key, type, v) == [key |-> key, type |-> type, val |-> v]
Str(key, v) == Num(key, "str", v)
Arr(key, of, v) == [key |-> key, type |-> "arr", of |-> of, val |-> v]
Tokens == <<Str(<<"tokenizer", "model">>, "gpt2"),
            Arr(<<"tokenizer", "scores">>, "f32", <<5, 6, 7>>),
            Arr(<<"tokenizer", "tokens">>, "str", <<"a", "bcd", "ef">>),
            Arr(<<"tokenizer", "types">>, "i32", <<1, 3, 1>>),
            Arr(<<"tokenizer", "merges">>, "str", <<"a b">>)>>
Common(arch, d, layers) ==
  <<Str(<<"general", "architecture">>, arch),
    Num(<<arch, "embedding_length">>, "u32", d), Num(<<arch, "attention.head_count">>, "i32", 2),
    Num(<<arch, "attention.head_count_kv">>, "u16", 1), Num(<<arch, "block_count">>, "u32", layers),
    Num(<<arch, "feed_forward_length">>, "u64", 4), Num(<<arch, "context_length">>, "f32", 8),
    Num(<<arch, "attention.layer_norm_rms_epsilon">>, "f32", 1),
    Num(<<arch, "rope.freq_base">>, "f64", 9)>>

T(layer, role, dims, type) == [name |-> <<layer, role>>, dims |-> dims, type |-> type]
\* The writer puts the data of the tensors one after the other, aligned.
Offset(ts, a, i) == Starts([j \in DOMAIN ts |-> RoundUp(NBytes(ts[j].type, Elements(ts[j])), a)])[i]
Image(version, kv, ts, a) ==
  [version |-> version, kv |-> kv, align |-> a,
   tensors |-> [i \in DOMAIN ts |-> ts[i] @@ [offset |-> Offset(ts, a, i)]]]

Embeddings(d, type) == <<T(0, "token_embd", <<d, 3>>, type), T(0, "output_norm", <<d>>, "f32")>>
Ffn(i, norm, d, type) ==
  <<T(i, "attn_norm", <<d>>, "f32"), T(i, norm, <<d>>, "f32"), T(i, "ffn_gate", <<d, 4>>, type),
    T(i, "ffn_up", <<d, 4>>, type), T(i, "ffn_down", <<4, d>>, "q4")>>
Attn(i, d, q, kv, hd, type) ==
  <<T(i, "attn_q", <<d, q>>, type), T(i, "attn_k", <<d, kv>>, "f32"),
    T(i, "attn_v", <<d, kv>>, type), T(i, "attn_output", <<2 * hd, d>>, type)>>
Biases(i, q, kv) ==
  <<T(i, "attn_q.bias", <<q>>, "f32"), T(i, "attn_k.bias", <<kv>>, "q8"),
    T(i, "attn_v.bias", <<kv>>, "f32")>>
Gdn(i, d) ==
  <<T(i, "attn_qkv", <<d, 6>>, "q8"), T(i, "attn_gate", <<d, 2>>, "f32"),
    T(i, "ssm_a", <<2>>, "q8"),
    T(i, "ssm_alpha", <<d, 2>>, "f32"), T(i, "ssm_beta", <<d, 2>>, "q8"),
    T(i, "ssm_conv1d", <<3, 6>>, "f32"), T(i, "ssm_dt", <<2>>, "f32"),
    T(i, "ssm_norm", <<2>>, "f32"), T(i, "ssm_out", <<2, d>>, "q8")>>

\* Two heads of one float, tied embeddings, an odd matrix that is dequantised.
Llama == Embeddings(2, "q8") \o Ffn(1, "ffn_norm", 2, "q8") \o Attn(1, 2, 2, 1, 1, "q8")
\* Wider heads than n_embd / n_head, biases, an output of its own, own alignment.
Qwen2 == <<T(0, "output", <<3, 3>>, "f32")>> \o Biases(1, 4, 2) \o Attn(1, 3, 4, 2, 2, "f32")
         \o Ffn(1, "ffn_norm", 3, "f32") \o Embeddings(3, "f32")
\* A layer of each kind and one for the prediction of later tokens, which no forward uses.
Qwen35 == Embeddings(2, "f32") \o Gdn(1, 2) \o Ffn(1, "post_attention_norm", 2, "q8")
          \o Attn(2, 2, 4, 1, 1, "q8") \o <<T(2, "attn_q_norm", <<1>>, "f32")>>
          \o Ffn(2, "post_attention_norm", 2, "f32") \o <<T(3, "attn_norm", <<2>>, "q8")>>
Ssm == <<Num(<<"qwen35", "ssm.conv_kernel">>, "u8", 3),
         Num(<<"qwen35", "ssm.inner_size">>, "u32", 2),
         Num(<<"qwen35", "ssm.state_size">>, "i64", 2),
         Num(<<"qwen35", "ssm.time_step_rank">>, "i16", 2),
         Num(<<"qwen35", "ssm.group_count">>, "i8", 1),
         Num(<<"qwen35", "nextn_predict_layers">>, "u32", 1),
         Num(<<"qwen35", "full_attention_interval">>, "u32", 2),
         Num(<<"qwen35", "mrope">>, "bool", 1)>>
AlignKey == <<Num(<<"general", "alignment">>, "u32", 8)>>
LlamaKv == Tokens \o Common("llama", 2, 1)

MCFiles ==
  <<Image(3, LlamaKv, Llama, 32), Image(2, LlamaKv, <<>>, 32),
   Image(3, Common("llama", 2, 1) \o Tokens, Llama \o Llama, 32),
   Image(3, AlignKey \o Common("qwen2", 3, 1) \o <<Num(<<"qwen2", "attention.key_length">>, "u32", 2)>>
            \o Tokens, Qwen2, 8),
   Image(3, Common("qwen35", 2, 3) \o Ssm \o Tokens \o AlignKey, Qwen35, 8),
   \* what the program refuses: too many elements, no alignment of q8 and n, a quantised
   \* matrix as a vector, ...
   Image(3, LlamaKv, Llama \o <<T(2, "large", <<5, 4>>, "q8")>>, 32),
   Image(3, LlamaKv, <<T(0, "odd", <<3, 3>>, "q8")>>, 32),
   Image(3, LlamaKv, <<T(0, "even", <<3, 2>>, "q8")>> \o Llama, 32),
   Image(3, LlamaKv, Tail(Llama), 32),
   Image(3, LlamaKv, <<T(1, "attn_norm", <<2, 1>>, "q8")>> \o Llama, 32),
   Image(3, Tail(LlamaKv) \o <<Arr(<<"x", "arrays">>, "arr", <<>>)>>, Llama, 32),
   Image(3, Common("llama", 2, 1), Llama, 32), Image(3, Common("mamba", 2, 1), Llama, 32)>>
=============================================================================
