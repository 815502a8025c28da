---------------------------- MODULE LlamaWeights ----------------------------
(***************************************************************************)
(* LlamaModel's weights (src/src/llama_model.cpp): what load_config        *)
(* accepts, the buffers it sizes by the metadata, and the kernels that a   *)
(* forward pass runs on matrices of the file and those buffers.            *)
(*                                                                         *)
(* A file is one the GGUF parser accepts: dimensions are not zero and rows *)
(* of quantized tensors fill their blocks.  What lies between the kernels  *)
(* of a pass (normalisation, attention, activation) is not modelled here.  *)
(***************************************************************************)
EXTENDS Kernels, SequencesExt

CONSTANTS
    Files,         \* the files a model is made from
    CtxOverride,   \* ctx_override, 0 for none
    BatchSizes     \* the batches of forward_batch_impl

VARIABLES
    file,      \* file_
    model,     \* c_, or NoModel
    pass       \* the pass in progress: its batch, and the kernel it is at

weightVars == <<file, model, pass, kernelVars>>

Missing == -1
NoModel == [embd |-> 0]
NoPass == [single |-> FALSE, batch |-> 0, compute |-> FALSE, li |-> 0, k |-> 0]

ASSUME WeightsAssumption ==
    /\ \A f \in Files : {f.ctx, f.embd, f.ff, f.layers, f.heads, f.headsKv}
                            \subseteq Nat \cup {Missing}
    /\ \A f \in Files : \A n \in DOMAIN f.tensors : f.tensors[n].dims \in Seq(Nat \ {0})
    /\ \A f \in Files : \A n \in DOMAIN f.tensors : f.tensors[n].dims # <<>> =>
          /\ f.tensors[n].dims[1] \in Columns
          /\ f.tensors[n].dims[1] % BlockOf(f.tensors[n].type) = 0
    /\ CtxOverride \in Nat
    /\ BatchSizes \subseteq Nat \ {0}

-----------------------------------------------------------------------------
(***************************************************************************)
(* load_config.                                                            *)
(***************************************************************************)
Has(f, name) == name \in DOMAIN f.tensors
Elements(dims) == FoldLeft(LAMBDA a, b : a * b, 1, dims)

HeadsKv(f) == IF f.headsKv = Missing THEN f.heads ELSE f.headsKv
NCtx(f) ==
    IF CtxOverride # 0 THEN Smaller(f.ctx, CtxOverride) ELSE f.ctx

\* An output of its own, or the embedding.
OutputOf(f) ==
    IF Has(f, <<"output", 0>>) THEN <<"output", 0>> ELSE <<"token_embd", 0>>

Config(f) ==
    LET hd == f.embd \div f.heads
    IN  [embd |-> f.embd, ff |-> f.ff, layers |-> f.layers, heads |-> f.heads,
         headsKv |-> HeadsKv(f), headDim |-> hd, kvDim |-> HeadsKv(f) * hd,
         vocab |-> f.tensors[<<"token_embd", 0>>].dims[2], ctx |-> NCtx(f)]

MetadataFits(f) ==
    /\ f.arch = "llama"
    /\ \A v \in {f.ctx, f.embd, f.ff, f.layers, f.heads, HeadsKv(f)} : v # Missing /\ v # 0
    /\ f.embd % f.heads = 0 /\ f.heads % HeadsKv(f) = 0
    /\ (f.embd \div f.heads) % 2 = 0
    /\ f.layers <= Cardinality(DOMAIN f.tensors) \div 9
    /\ f.finite

\* Mutant: keys and values are taken to have all heads.
ShapesOfAllHeads(c) ==
    [attn_q |-> <<c.embd, c.embd>>, attn_k |-> <<c.embd, c.embd>>,
     attn_v |-> <<c.embd, c.embd>>, attn_output |-> <<c.embd, c.embd>>,
     ffn_gate |-> <<c.embd, c.ff>>, ffn_up |-> <<c.embd, c.ff>>,
     ffn_down |-> <<c.ff, c.embd>>]

\* expect_matrix, for the matrices of a layer: columns and rows.
Shapes(c) ==
    [attn_q |-> <<c.embd, c.embd>>, attn_k |-> <<c.embd, c.kvDim>>,
     attn_v |-> <<c.embd, c.kvDim>>, attn_output |-> <<c.embd, c.embd>>,
     ffn_gate |-> <<c.embd, c.ff>>, ffn_up |-> <<c.embd, c.ff>>,
     ffn_down |-> <<c.ff, c.embd>>]

\* tensor_vector_to_f32.
IsVector(f, name, n) ==
    /\ Has(f, name)
    /\ Elements(f.tensors[name].dims) = n
    /\ f.tensors[name].type \in {"F32", "F16"}

EmbeddingFits(f) ==
    /\ Has(f, <<"token_embd", 0>>)
    /\ Len(f.tensors[<<"token_embd", 0>>].dims) = 2
    /\ f.tensors[<<"token_embd", 0>>].dims[1] = f.embd

LayerFits(f, c, li) ==
    /\ \A name \in DOMAIN Shapes(c) :
          Has(f, <<name, li>>) /\ f.tensors[<<name, li>>].dims = Shapes(c)[name]
    /\ IsVector(f, <<"attn_norm", li>>, c.embd) /\ IsVector(f, <<"ffn_norm", li>>, c.embd)

Accepts(f) ==
    /\ MetadataFits(f) /\ EmbeddingFits(f)
    /\ NCtx(f) # 0
    /\ f.tensors[OutputOf(f)].dims = <<f.embd, Config(f).vocab>>
    /\ IsVector(f, <<"output_norm", 0>>, f.embd)
    /\ \A li \in Below(f.layers) : LayerFits(f, Config(f), li)

-----------------------------------------------------------------------------
(***************************************************************************)
(* The buffers, and which kernels use them.                                *)
(***************************************************************************)
\* Of forward(), or of forward_batch_impl for B tokens; n_ and logits_ are
\* those of forward() also when a batch computes its logits.
BufferSize(c, B) ==
    [n |-> B * c.embd, q |-> B * c.embd, k |-> B * c.kvDim, v |-> B * c.kvDim,
     att |-> B * c.embd, proj |-> B * c.embd, gate |-> B * c.ff, up |-> B * c.ff,
     ff |-> B * c.ff, out |-> B * c.embd, n1 |-> c.embd, logits |-> c.vocab]

Use(names, in, outs) == [names |-> names, in |-> in, outs |-> outs]

\* tensor_matvec_group and tensor_matvec, in the order of forward().
ForwardUses ==
    <<Use(<<"attn_q", "attn_k", "attn_v">>, "n", <<"q", "k", "v">>),
      Use(<<"attn_output">>, "att", <<"proj">>),
      Use(<<"ffn_gate", "ffn_up">>, "n", <<"gate", "up">>),
      Use(<<"ffn_down">>, "ff", <<"out">>)>>

\* tensor_matmul_batch_v06, in the order of forward_batch_impl.
BatchUses ==
    <<Use(<<"attn_q">>, "n", <<"q">>), Use(<<"attn_k">>, "n", <<"k">>),
      Use(<<"attn_v">>, "n", <<"v">>), Use(<<"attn_output">>, "att", <<"proj">>),
      Use(<<"ffn_gate">>, "n", <<"gate">>), Use(<<"ffn_up">>, "n", <<"up">>),
      Use(<<"ffn_down">>, "ff", <<"out">>)>>

\* After the last layer; always tensor_matvec.
OutputUse == Use(<<"output">>, "n1", <<"logits">>)

LayerUses(p) == IF p.single THEN ForwardUses ELSE BatchUses
AtOutput(p) == p.li = model.layers
UseAt(p) == IF AtOutput(p) THEN OutputUse ELSE LayerUses(p)[p.k]

IsFfn(name) == name \in {"ffn_gate", "ffn_up", "ffn_down"}

Matrix(name, p) ==
    LET t == file.tensors[IF name = "output" THEN OutputOf(file) ELSE <<name, p.li>>]
    IN  [type |-> t.type, cols |-> t.dims[1], rows |-> t.dims[2], ffn |-> IsFfn(name),
         batch |-> IF AtOutput(p) THEN 1 ELSE p.batch]

Matrices(p) == [i \in 1 .. Len(UseAt(p).names) |-> Matrix(UseAt(p).names[i], p)]

-----------------------------------------------------------------------------
WeightsInit ==
    /\ KernelInit
    /\ file \in Files
    /\ model = NoModel
    /\ pass = NoPass

Idle == pass = NoPass /\ ended # "terminated"

\* The constructor; a file it throws on leaves no model.
Loads ==
    /\ Idle /\ model = NoModel
    /\ Accepts(file)
    /\ model' = Config(file)
    /\ UNCHANGED <<file, pass, kernelVars>>

\* tensor_read_row_f32 for each token, on the calling thread: a pass over
\* an embedding it has no decoder for throws before it runs a kernel.
PassBegins(single, B, compute) ==
    /\ Idle /\ model # NoModel
    /\ B <= model.ctx
    /\ file.tensors[<<"token_embd", 0>>].type \in KnownTypes
    /\ pass' = [single |-> single, batch |-> B, compute |-> compute, li |-> 0, k |-> 1]
    /\ UNCHANGED <<file, model, kernelVars>>

KernelBegins ==
    /\ pass # NoPass
    /\ Begins(Matrices(pass), [batched |-> ~pass.single /\ ~AtOutput(pass),
                              pool |-> ~pass.single])
    /\ UNCHANGED <<file, model, pass>>

\* The kernel after this one, in this layer, the next, or after the last.
Following ==
    CASE ~AtOutput(pass) /\ pass.k < Len(LayerUses(pass)) -> [pass EXCEPT !.k = @ + 1]
      [] ~AtOutput(pass) /\ pass.k = Len(LayerUses(pass))
             /\ (pass.li + 1 < model.layers \/ pass.compute) ->
             [pass EXCEPT !.li = @ + 1, !.k = 1]
      [] OTHER -> NoPass

\* The kernels of a pass run one after the other; an error ends the pass.
KernelRuns ==
    /\ KernelStep
    /\ pass' = CASE ended' = "ok" -> Following
                 [] ended' = "running" -> pass
                 [] OTHER -> NoPass
    /\ UNCHANGED <<file, model>>

WeightsNext ==
    \/ Loads
    \/ \E compute \in BOOLEAN :
          \/ PassBegins(TRUE, 1, compute)
          \/ \E B \in BatchSizes : PassBegins(FALSE, B, compute)
    \/ KernelBegins \/ KernelRuns

WeightsSpec == WeightsInit /\ [][WeightsNext]_weightVars

-----------------------------------------------------------------------------
(***************************************************************************)
(* load_config checks shapes, and the kernels trust them.  For every file  *)
(* it accepts, each kernel of each pass, whatever its batch, reads exactly *)
(* the activations its buffer holds and sets exactly the elements of its   *)
(* result's buffer, none beyond it and none left from an earlier pass; and *)
(* rotation and attention of every head stay within the rows of queries    *)
(* and of keys.                                                            *)
(***************************************************************************)
KernelsFillBuffers ==
    ended = "running" =>
        LET size == BufferSize(model, pass.batch)
            use == UseAt(pass)
        IN  \A i \in 1 .. Len(jobs) :
              /\ jobs[i].batch * jobs[i].cols = size[use.in]
              /\ jobs[i].batch * jobs[i].rows = size[use.outs[i]]

HeadsFillRows ==
    model # NoModel =>
        LET group == model.heads \div model.headsKv
        IN  /\ model.heads * model.headDim = model.embd
            /\ \A h \in Below(model.heads) :
                  (h \div group) * model.headDim + model.headDim <= model.kvDim

WeightsFit == KernelsFillBuffers /\ HeadsFillRows
=============================================================================
