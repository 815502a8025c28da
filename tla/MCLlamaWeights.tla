--------------------------- MODULE MCLlamaWeights ---------------------------
(***************************************************************************)
(* Small models of every type, with multi-head and grouped attention, with *)
(* and without an output matrix, and each of them with one thing wrong.    *)
(***************************************************************************)
EXTENDS LlamaWeights, TLC

Tensor(type, dims) == [type |-> type, dims |-> dims]

\* A model of one layer whose matrices are all of a type.
Sound(type, embd, ff, heads, headsKv, vocab, tied) ==
    LET c == [embd |-> embd, ff |-> ff,
              kvDim |-> (IF headsKv = Missing THEN heads ELSE headsKv) * (embd \div heads)]
        matrices == [n \in (DOMAIN Shapes(c)) \X {0} |-> Tensor(type, Shapes(c)[n[1]])]
        vectors == [n \in {"attn_norm", "ffn_norm", "output_norm"} \X {0} |->
                       Tensor("F32", <<embd>>)]
        ends == [n \in (IF tied THEN {"token_embd"} ELSE {"token_embd", "output"}) \X {0} |->
                    Tensor(type, <<embd, vocab>>)]
    IN  [arch |-> "llama", ctx |-> 9, embd |-> embd, ff |-> ff, layers |-> 1,
         heads |-> heads, headsKv |-> headsKv, finite |-> TRUE,
         tensors |-> matrices @@ vectors @@ ends]

Base == Sound("Q4_0", 8, 16, 4, 1, 2, FALSE)
AllHeads == [Base EXCEPT !.tensors = Sound("Q4_0", 8, 16, 4, 4, 2, FALSE).tensors]
Others ==
    {Sound("F32", 6, 5, 3, 1, 2, TRUE), Sound("F16", 6, 5, 3, 3, 2, FALSE),
     Sound("Q8_0", 16, 8, 4, 2, 2, TRUE), Sound("Q6_K", 16, 32, 2, Missing, 3, FALSE),
     Sound("BF16", 6, 4, 1, 1, 3, FALSE)}

\* One metadata value, or one tensor, that is not what it should be.
WrongMetadata(f) ==
    {[f EXCEPT !.arch = "falcon"], [f EXCEPT !.ctx = Missing], [f EXCEPT !.finite = FALSE],
     [f EXCEPT !.layers = 2], [f EXCEPT !.heads = 3], [f EXCEPT !.heads = 8],
     [f EXCEPT !.headsKv = 2], [f EXCEPT !.headsKv = Missing],
     [f EXCEPT !.headsKv = 0], [f EXCEPT !.embd = 16], [f EXCEPT !.ff = 8]}

WrongTensor(f) ==
    {[f EXCEPT !.tensors[n] = t] :
        n \in DOMAIN f.tensors,
        t \in {Tensor("BF16", <<8, 8>>), Tensor("Q4_0", <<8, 8>>), Tensor("Q8_0", <<8, 16>>),
               Tensor("Q6_K", <<16, 8>>), Tensor("F16", <<2, 4>>), Tensor("F32", <<8, 4>>),
               Tensor("F16", <<8>>), Tensor("Q4_0", <<8, 2, 1>>), Tensor("BF16", <<8, 2>>)}}
    \cup {[f EXCEPT !.tensors = [m \in DOMAIN @ \ {n} |-> @[m]]] : n \in DOMAIN f.tensors}

\* What the parser lets through.
Parses(f) == \A n \in DOMAIN f.tensors : f.tensors[n].dims[1] % BlockOf(f.tensors[n].type) = 0

MCFiles ==
    {f \in {Base} \cup Others \cup WrongMetadata(Base) \cup WrongMetadata(AllHeads)
             \cup WrongTensor(Base) : Parses(f)}
MCBatchSizes == {1, 2, 5, 9}

\* Three threads are more than the rows of some matrices.
Build(openmp, threads, forceQ8) ==
    [openmp |-> openmp, threads |-> threads, forceQ8 |-> forceQ8]
MCBuilds ==
    {Build(TRUE, 1, FALSE), Build(TRUE, 3, FALSE), Build(FALSE, 1, FALSE),
     Build(FALSE, 3, FALSE), Build(TRUE, 3, TRUE)}
=============================================================================
