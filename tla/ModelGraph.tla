------------------------------ MODULE ModelGraph ------------------------------
(***************************************************************************)
(* The graph of one forward pass on the CPU, as LlamaModel::forward and    *)
(* Qwen2Model::forward build it with NormAttention and FFN.                *)
(*                                                                         *)
(* A graph is the sequence of its operators in the order of creation, the  *)
(* order in which the executor runs them.  An operator has the tensors it  *)
(* reads, `ins', and the one it makes, `out'.  The edges of the graph are  *)
(* these and no more: a COPY into the KV cache has no output, and a VIEW   *)
(* of the cache has no input.  Weights are there from the start and are    *)
(* left out of `ins'.                                                      *)
(***************************************************************************)
EXTENDS Integers, Sequences, SequencesExt

CONSTANTS Layers, Heads, KvHeads, HeadSize, Hidden, Vocab,
          NeedBias   \* qwen2 adds a bias to q, k and v

ASSUME ModelAssumption ==
  /\ {Layers, Heads, KvHeads, HeadSize, Hidden, Vocab} \subseteq Nat \ {0}
  /\ NeedBias \in BOOLEAN

Dim == HeadSize * Heads
KvDim == HeadSize * KvHeads

NoTensor == <<"none", 0>>

\* units: what the threads divide among them, columns for a MAT_MUL;
\* len: the first dimension of the output; depth: the length of a dot product;
\* convert: the weights are quantised, and the activations will have to be.
Operator(op, out, ins, units, len) ==
  [op |-> op, out |-> out, ins |-> ins, units |-> units, len |-> len,
   depth |-> 0, convert |-> FALSE]

MatMul(out, ins, depth, rows, columns, convert) ==
  [op |-> "MAT_MUL", out |-> out, ins |-> ins, units |-> columns, len |-> rows,
   depth |-> depth, convert |-> convert]

\* One of q, k and v: the product and, for qwen2, the bias
Projection(out, product, x, rows, batch) ==
  IF NeedBias
  THEN << MatMul(product, {x}, Dim, rows, batch, TRUE),
          Operator("ADD", out, {product}, batch, rows) >>
  ELSE << MatMul(out, {x}, Dim, rows, batch, TRUE) >>

\* What a layer is given
LayerInput(L) == IF L = 1 THEN <<"embedding", 0>> ELSE <<"ffn_out", L - 1>>

----------------------------------------------------------------------------
(* Attention. T names the tensors of the layer, x is its input. *)

AttentionHead(L, batch) ==
  LET T(name) == <<name, L>>
  IN  << Operator("RMS_NORM", T("att_norm"), {LayerInput(L)}, batch, Dim) >>
      \o Projection(T("q"), T("q_product"), T("att_norm"), Dim, batch)
      \o Projection(T("k"), T("k_product"), T("att_norm"), KvDim, batch)
      \o Projection(T("v"), T("v_product"), T("att_norm"), KvDim, batch)
      \o << Operator("ROPE", T("rope_q"), {T("q")}, batch * Heads, HeadSize),
            Operator("ROPE", T("rope_k"), {T("k")}, batch * KvHeads, HeadSize),
            Operator("TRANSPOSE", T("v_transposed"), {T("v")}, 1, batch) >>

\* (broken variant: the views get their offsets after the copies)
StoreKVUnplaced(L, batch) ==
  LET T(name) == <<name, L>>
  IN  << Operator("COPY", NoTensor, {T("k_cache_view"), T("rope_k")}, batch * KvDim, 0),
         Operator("COPY", NoTensor, {T("v_cache_view"), T("v_transposed")}, KvDim, 0),
         Operator("VIEW", T("k_cache_view"), {}, 1, batch * KvDim),
         Operator("VIEW", T("v_cache_view"), {}, 1, batch) >>

\* Keys are copied as one block, values by rows of one feature each.
StoreKV(L, batch) ==
  LET T(name) == <<name, L>>
  IN  << Operator("VIEW", T("k_cache_view"), {}, 1, batch * KvDim),
         Operator("COPY", NoTensor, {T("k_cache_view"), T("rope_k")}, batch * KvDim, 0),
         Operator("VIEW", T("v_cache_view"), {}, 1, batch),
         Operator("COPY", NoTensor, {T("v_cache_view"), T("v_transposed")}, KvDim, 0) >>

\* nKv: entries of the cache that attention looks at, those of the batch included.
\* The output of the heads is contiguous already when it is of one token.
Scores(L, nKv, batch) ==
  LET T(name) == <<name, L>>
  IN  << Operator("PERMUTE", T("q_heads"), {T("rope_q")}, 1, HeadSize),
         Operator("VIEW", T("k_cache"), {}, 1, HeadSize),
         MatMul(T("kq"), {T("k_cache"), T("q_heads")}, HeadSize, nKv, batch * Heads, FALSE),
         Operator("GET_MASK", T("mask"), {}, 1, nKv),
         Operator("SOFTMAX_EXT", T("kq_soft"), {T("kq"), T("mask")}, batch * Heads, nKv),
         Operator("VIEW", T("v_cache"), {}, 1, nKv),
         MatMul(T("kqv"), {T("v_cache"), T("kq_soft")}, nKv, HeadSize, batch * Heads, FALSE),
         Operator("PERMUTE", T("kqv_merged"), {T("kqv")}, 1, HeadSize),
         Operator("CONT", T("att_scores"), {T("kqv_merged")},
                  IF batch = 1 THEN Dim ELSE Heads, Dim),
         MatMul(T("att_o"), {T("att_scores")}, Dim, Dim, batch, TRUE),
         Operator("ADD", T("att_out"), {LayerInput(L), T("att_o")}, batch, Dim) >>

\* (broken variant: attention is built before the new entries are stored)
AttentionFirst(L, position, batch) ==
  AttentionHead(L, batch) \o Scores(L, position + batch, batch) \o StoreKV(L, batch)

Attention(L, position, batch) ==
  AttentionHead(L, batch) \o StoreKV(L, batch) \o Scores(L, position + batch, batch)

FeedForward(L, batch) ==
  LET T(name) == <<name, L>>
  IN  << Operator("RMS_NORM", T("ffn_norm"), {T("att_out")}, batch, Dim),
         MatMul(T("gate"), {T("ffn_norm")}, Dim, Hidden, batch, TRUE),
         MatMul(T("up"), {T("ffn_norm")}, Dim, Hidden, batch, TRUE),
         Operator("SILU_HADAMARD", T("silu"), {T("gate"), T("up")}, 1, Hidden),
         MatMul(T("down"), {T("silu")}, Hidden, Dim, batch, TRUE),
         Operator("ADD", T("ffn_out"), {T("att_out"), T("down")}, batch, Dim) >>

\* forward() for a batch at `position'
ForwardGraph(position, batch, lmHead) ==
  << Operator("GET_EMBEDDING", <<"embedding", 0>>, {}, 1, Dim) >>
  \o FlattenSeq([L \in 1..Layers |-> Attention(L, position, batch) \o FeedForward(L, batch)])
  \o (IF lmHead
      THEN << Operator("RMS_NORM", <<"final_norm", 0>>, {<<"ffn_out", Layers>>}, batch, Dim),
              MatMul(<<"logits", 0>>, {<<"final_norm", 0>>}, Dim, Vocab, batch, TRUE) >>
      ELSE <<>>)
=============================================================================
