---------------------------- MODULE LlamaSession ----------------------------
(***************************************************************************)
(* LlamaModel (src/src/llama_model.cpp): one caller feeds tokens through   *)
(* forward, prefill and generate.  What is computed is abstracted to what  *)
(* it was computed from: a row of the KV cache, and the logits, are the    *)
(* sequence of tokens they stand for.  Any allocation, and any function    *)
(* run on the worker pool, may throw; the pool itself keeps the promise of *)
(* ParallelFor, so that a parallel loop is one step.                       *)
(*                                                                         *)
(* `seq' is history: the tokens the position counts.                       *)
(***************************************************************************)
EXTENDS Integers, Sequences

CONSTANTS
    TrainCtx,        \* llama.context_length
    CtxOverride,     \* ctx_override, 0 for none
    CfgPageTokens,   \* kv_page_tokens
    NLayer,          \* llama.block_count
    Vocab,           \* number of tokens
    Eos,             \* tok_.eos_id()
    MaxBatch,        \* the largest batch within MEMVANTA_MAX_WORKSPACE_BYTES
    Prompts,         \* the token sequences the caller passes
    BatchSizes,      \* the batch sizes it asks for
    GenCounts        \* the n it passes to generate

Tokens == 0 .. (Vocab - 1)
NCtx == IF CtxOverride # 0 /\ CtxOverride < TrainCtx THEN CtxOverride ELSE TrainCtx
Layers == 0 .. (NLayer - 1)
Positions == 0 .. (NCtx - 1)
Unwritten == <<>>
None == <<-1>>

ASSUME SessionAssumption ==
    /\ TrainCtx \in Nat \ {0} /\ CtxOverride \in Nat
    /\ CfgPageTokens \in Nat
    /\ NLayer \in Nat \ {0} /\ Vocab \in Nat \ {0}
    /\ MaxBatch \in Nat
    /\ \A p \in Prompts : p \in Seq(Int)
    /\ BatchSizes \subseteq Nat /\ GenCounts \subseteq Nat

INSTANCE PagedKVCache

VARIABLES
    pos,       \* pos_
    kv,        \* kv_, by layer
    rope,      \* rope_cached_positions_
    logits,    \* logits_: the tokens they were computed from
    pc,        \* where the call is
    layer,     \* li
    batch,     \* the tokens of the forward pass in progress
    pass,      \* is it forward() or forward_batch_impl(), does it compute logits
    todo,      \* prefill: tokens not handed to a forward pass yet
    call,      \* the call in progress and its arguments
    out,       \* generate: the tokens sampled
    ret,       \* how the last call ended
    seq        \* history

model == <<pos, kv, rope, logits, seq>>
passVars == <<layer, batch, pass, todo>>
callVars == <<call, out, ret>>
sessionVars == <<model, pc, passVars, callVars>>

NoCall == [op |-> "none", from |-> <<>>, tokens |-> <<>>, size |-> 1,
           compute |-> FALSE, n |-> 0]
NoPass == [single |-> FALSE, compute |-> FALSE]
Prefix(s, n) == SubSeq(s, 1, n)

SessionInit ==
    /\ pos = 0 /\ rope = 0
    /\ kv = [l \in Layers |-> EmptyKV]
    /\ logits = None
    /\ seq = <<>>
    /\ pc = "idle"
    /\ layer = 0 /\ batch = <<>> /\ pass = NoPass /\ todo = <<>>
    /\ call = NoCall /\ out = <<>> /\ ret = "none"

Clears ==
    /\ pos' = 0 /\ seq' = <<>>
    /\ kv' = [l \in Layers |-> EmptyKV]

\* The call ends; its scratch is of no further interest.
Ends(how) ==
    /\ pc' = "idle" /\ ret' = how
    /\ layer' = 0 /\ batch' = <<>> /\ pass' = NoPass /\ todo' = <<>>
    /\ UNCHANGED <<call, out>>

Throws == Ends("threw")

-----------------------------------------------------------------------------
(***************************************************************************)
(* The calls.                                                              *)
(***************************************************************************)
Reset ==
    /\ pc = "idle"
    /\ Clears
    /\ call' = NoCall /\ ret' = "none" /\ out' = <<>>
    /\ UNCHANGED <<rope, logits, pc, passVars>>

Smaller(a, b) == IF a <= b THEN a ELSE b

\* Mutant: the batch size is taken as it comes.
BatchSizeAsGiven(size) == size

BatchSize(size) == IF size < 1 THEN 1 ELSE size

\* Mutant: the first batch computes the logits.
ComputesAtFirst(compute, rest) == compute /\ pos = 0

Computes(compute, rest) == compute /\ rest = <<>>

\* The next min(batch_size, rest) tokens go to forward_batch_impl.
Hands(tokens, size, compute) ==
    LET n == Smaller(BatchSize(size), Len(tokens))
        rest == SubSeq(tokens, n + 1, Len(tokens))
    IN  /\ batch' = Prefix(tokens, n)
        /\ todo' = rest
        /\ pass' = [single |-> FALSE, compute |-> Computes(compute, rest)]
        /\ pc' = "begin"

HandsOne(token, compute) ==
    /\ batch' = <<token>>
    /\ pass' = [single |-> TRUE, compute |-> compute]
    /\ pc' = "begin"
    /\ UNCHANGED todo

CallForward(token, compute) ==
    /\ pc = "idle"
    /\ call' = [NoCall EXCEPT !.op = "forward", !.from = seq, !.tokens = <<token>>,
                              !.compute = compute]
    /\ HandsOne(token, compute)
    /\ ret' = "none" /\ out' = <<>>
    /\ UNCHANGED <<model, layer>>

\* (Without tokens prefill returns the logits of the last call.)
CallPrefill(tokens, size, compute) ==
    /\ pc = "idle"
    /\ tokens # <<>>
    /\ call' = [NoCall EXCEPT !.op = "prefill", !.from = seq, !.tokens = tokens,
                              !.size = size, !.compute = compute]
    /\ Hands(tokens, size, compute)
    /\ ret' = "none" /\ out' = <<>>
    /\ UNCHANGED <<model, layer>>

\* generate resets the session, then prefills all but the last token.
PrefillBatch == 64

CallGenerate(prompt, n) ==
    /\ pc = "idle"
    /\ Clears
    /\ out' = <<>>
    /\ call' = [NoCall EXCEPT !.op = "generate", !.tokens = prompt, !.n = n,
                              !.size = PrefillBatch, !.compute = n > 0]
    /\ ret' = IF prompt = <<>> THEN "threw" ELSE "none"
    /\ IF Len(prompt) > 1
       THEN Hands(Prefix(prompt, Len(prompt) - 1), PrefillBatch, FALSE)
       ELSE /\ pc' = IF prompt = <<>> THEN "idle" ELSE "step"
            /\ UNCHANGED <<batch, pass, todo>>
    /\ UNCHANGED <<rope, logits, layer>>

-----------------------------------------------------------------------------
(***************************************************************************)
(* One forward pass over `batch', from position pos on.                    *)
(***************************************************************************)
FitsContext == Len(batch) <= NCtx - pos

\* Only forward_batch_impl has a workspace to limit.
Admitted ==
    /\ FitsContext
    /\ \A b \in 1 .. Len(batch) : batch[b] \in Tokens
    /\ pass.single \/ Len(batch) <= MaxBatch

\* ensure_rope(pos + B - 1): the table only grows.
PreparesRope == rope' = IF pos + Len(batch) <= rope THEN rope ELSE pos + Len(batch)

Begins ==
    /\ pc = "begin"
    /\ Admitted
    /\ IF batch = <<>>
       THEN UNCHANGED rope /\ pc' = "next"
       ELSE PreparesRope /\ pc' = "write"
    /\ UNCHANGED <<pos, kv, logits, seq, passVars, callVars>>

Refused ==
    /\ pc = "begin"
    /\ ~Admitted
    /\ Throws
    /\ UNCHANGED model

\* An allocation fails, of the workspace or after the table has grown.
BeginFails ==
    /\ pc = "begin"
    /\ Admitted
    /\ UNCHANGED rope \/ PreparesRope
    /\ Throws
    /\ UNCHANGED <<pos, kv, logits, seq>>

\* Row b of the batch stands for all tokens up to it.
Rows == [b \in 1 .. Len(batch) |-> seq \o Prefix(batch, b)]

Writes ==
    /\ pc = "write"
    /\ kv' = [kv EXCEPT ![layer] = Written(@, pos, Rows)]
    /\ pc' = "attend"
    /\ UNCHANGED <<pos, rope, logits, seq, passVars, callVars>>

WriteFails ==
    /\ pc = "write"
    /\ \E part \in WrittenInPart(kv[layer], pos, Rows) :
          kv' = [kv EXCEPT ![layer] = part]
    /\ Throws
    /\ UNCHANGED <<pos, rope, logits, seq>>

\* Attention over the positions up to each row, and the feed-forward part.
Attends ==
    /\ pc = "attend"
    /\ layer' = IF layer + 1 < NLayer THEN layer + 1 ELSE 0
    /\ pc' = IF layer + 1 < NLayer THEN "write" ELSE "finish"
    /\ UNCHANGED <<model, batch, pass, todo, callVars>>

AttendFails ==
    /\ pc = "attend"
    /\ Throws
    /\ UNCHANGED model

\* Mutant: the position moves by one, as it does in forward().
AdvancesByOne == pos' = pos + 1 /\ seq' = seq \o batch

Advances == pos' = pos + Len(batch) /\ seq' = seq \o batch

Finishes ==
    /\ pc = "finish"
    /\ Advances
    /\ logits' = IF pass.compute THEN seq' ELSE logits
    /\ pc' = "next"
    /\ UNCHANGED <<kv, rope, passVars, callVars>>

\* The output projection throws, after the position has moved.
OutputFails ==
    /\ pc = "finish"
    /\ pass.compute
    /\ Advances
    /\ Throws
    /\ UNCHANGED <<kv, rope, logits>>

-----------------------------------------------------------------------------
(***************************************************************************)
(* What the call does after a forward pass.                                *)
(***************************************************************************)
NextBatch ==
    /\ pc = "next" /\ ~pass.single
    /\ todo # <<>>
    /\ Hands(todo, call.size, call.op = "prefill" /\ call.compute)
    /\ UNCHANGED <<model, layer, callVars>>

Done ==
    /\ pc = "next"
    /\ call.op # "generate"
    /\ todo = <<>>
    /\ Ends("ok")
    /\ UNCHANGED model

PromptDone ==
    /\ pc = "next" /\ ~pass.single
    /\ call.op = "generate"
    /\ todo = <<>>
    /\ pc' = "step"
    /\ UNCHANGED <<model, passVars, callVars>>

\* Mutant: the last token of the prompt is fed again and again.
CurStuck == call.tokens[Len(call.tokens)]

Cur == IF out = <<>> THEN call.tokens[Len(call.tokens)] ELSE out[Len(out)]

Steps ==
    /\ pc = "step"
    /\ Len(out) < call.n
    /\ HandsOne(Cur, TRUE)
    /\ UNCHANGED <<model, layer, callVars>>

Generated ==
    /\ pc = "step"
    /\ Len(out) >= call.n
    /\ Ends("ok")
    /\ UNCHANGED model

\* The sampler returns any token of the vocabulary.
Samples ==
    /\ pc = "next" /\ pass.single
    /\ call.op = "generate"
    /\ \E token \in Tokens :
          /\ out' = Append(out, token)
          /\ IF token = Eos
             THEN /\ pc' = "idle" /\ ret' = "ok"
                  /\ layer' = 0 /\ batch' = <<>> /\ pass' = NoPass /\ todo' = <<>>
             ELSE pc' = "step" /\ UNCHANGED <<passVars, ret>>
    /\ UNCHANGED <<model, call>>

-----------------------------------------------------------------------------
Caller ==
    \/ Reset
    \/ \E tokens \in Prompts :
          \/ \E compute \in BOOLEAN :
                \/ Len(tokens) = 1 /\ CallForward(tokens[1], compute)
                \/ \E size \in BatchSizes : CallPrefill(tokens, size, compute)
          \/ \E n \in GenCounts : CallGenerate(tokens, n)

Inside ==
    \/ Begins \/ Refused \/ BeginFails \/ Writes \/ WriteFails
    \/ Attends \/ AttendFails \/ Finishes \/ OutputFails
    \/ NextBatch \/ Done \/ PromptDone \/ Steps \/ Generated \/ Samples

SessionNext == Caller \/ Inside

\* A call that was begun goes on; nobody has to call.
SessionSpec == SessionInit /\ [][SessionNext]_sessionVars
SessionFairSpec == SessionSpec /\ WF_sessionVars(Inside)

-----------------------------------------------------------------------------
(***************************************************************************)
(* Properties.                                                             *)
(***************************************************************************)
(***************************************************************************)
(* Whatever calls failed half-way before, each layer holds, for every      *)
(* position that counts, a row computed from exactly the tokens fed since  *)
(* the last reset: rows that a failed pass left behind, in some layers and *)
(* not in others, are never taken for rows of the sequence.                *)
(***************************************************************************)
CacheHoldsSequence ==
    /\ pos = Len(seq) /\ pos <= NCtx
    /\ \A l \in Layers, t \in 0 .. (pos - 1) :
          Readable(kv[l], t) /\ kv[l].slot[t] = Prefix(seq, t + 1)

(***************************************************************************)
(* Attention of a layer reads, for each row of the batch, rows of this     *)
(* sequence only, in pages that exist ("KV key page missing" is never      *)
(* thrown), with the rotary table prepared for each of them: the table     *)
(* grows on demand, survives reset() and may have grown for a pass that    *)
(* failed.                                                                 *)
(***************************************************************************)
AttentionReadsItsContext ==
    pc = "attend" =>
        /\ pos + Len(batch) <= rope /\ rope <= NCtx
        /\ \A t \in 0 .. (pos + Len(batch) - 1) :
              /\ Readable(kv[layer], t)
              /\ kv[layer].slot[t] = Prefix(seq \o batch, t + 1)

(***************************************************************************)
(* A call feeds its tokens in order, each once: all of them when it        *)
(* returns (generate keeps its last sample to itself), the first so many   *)
(* when it throws, however prefill cuts them into batches.                 *)
(***************************************************************************)
Fed == call.from \o call.tokens \o out

CallFeedsItsTokens ==
    /\ Len(seq) <= Len(Fed) /\ seq = Prefix(Fed, Len(seq))
    /\ ret = "ok" =>
          IF call.op = "generate"
          THEN /\ Len(seq) = Len(Fed) - 1
               /\ Len(out) = call.n \/ (out # <<>> /\ out[Len(out)] = Eos)
          ELSE Len(seq) = Len(Fed)

(***************************************************************************)
(* The logits a call returns, or samples from, are those of the last token *)
(* it fed, not what an earlier batch or an earlier session left in         *)
(* logits_.                                                                *)
(***************************************************************************)
LogitsAreCurrent ==
    \/ ret = "ok" /\ call.compute
    \/ pc = "next" /\ call.op = "generate" /\ pass.single
    => logits = seq

(***************************************************************************)
(* Every call returns or throws: the loops over batches and over sampled   *)
(* tokens end, whatever batch size the caller gives.                       *)
(***************************************************************************)
CallsEnd == pc # "idle" ~> pc = "idle"
=============================================================================
