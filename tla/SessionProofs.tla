---------------------------- MODULE SessionProofs ----------------------------
(***************************************************************************)
(* Proofs about LlamaSession, for every length of the context and of its   *)
(* pages, every number of layers, and every sequence of calls with any     *)
(* arguments, failures at any point included.                              *)
(*                                                                         *)
(* None of the four properties is inductive alone.  Rows beyond pos may    *)
(* hold anything, so that the cache is right after a pass only because     *)
(* the pass has gone through all layers by then: Layered follows it from   *)
(* layer to layer.  That a call feeds its tokens, each once, is about what *)
(* is still in batch and todo (Feeds); whose logits are returned, about    *)
(* which of the batches computes them (Current).                           *)
(***************************************************************************)
EXTENDS LlamaSession, SequenceTheorems, TLAPS

TokenSeq == Seq(Int)
KV == [pages : SUBSET Int, slot : [Positions -> TokenSeq]]
Passing == {"begin", "write", "attend", "finish"}
Places == Passing \cup {"idle", "next", "step"}
Calls == {"none", "forward", "prefill", "generate"}

SessionTypeOK ==
    /\ pos \in Nat /\ rope \in Nat
    /\ kv \in [Layers -> KV]
    /\ logits \in TokenSeq /\ seq \in TokenSeq
    /\ pc \in Places
    /\ layer \in Layers
    /\ batch \in TokenSeq /\ todo \in TokenSeq
    /\ pass \in [single : BOOLEAN, compute : BOOLEAN]
    /\ call \in [op : Calls, from : TokenSeq, tokens : TokenSeq, size : Nat,
                 compute : BOOLEAN, n : Nat]
    /\ out \in TokenSeq
    /\ ret \in {"none", "ok", "threw"}

\* What a call is about to do, by its place.
Phases ==
    /\ pc \in Passing => batch # <<>>
    /\ pc \notin {"write", "attend"} => layer = 0
    /\ pc \in {"idle", "step"} => todo = <<>>
    /\ pc # "idle" => ret = "none" /\ call.op # "none"
    /\ pc = "step" => call.op = "generate"
    /\ pc \in Passing \cup {"next"} =>
          /\ call.op = "forward" => pass.single /\ todo = <<>>
          /\ call.op = "prefill" => ~pass.single
          /\ call.op = "generate" /\ pass.single => todo = <<>>

\* A cache holds rows for the tokens s, from position 0 on.
Holds(cache, s) ==
    \A t \in 0 .. (Len(s) - 1) : Readable(cache, t) /\ cache.slot[t] = Prefix(s, t + 1)

Layered ==
    /\ rope <= NCtx
    /\ pc \in {"write", "attend", "finish"} =>
          /\ pos + Len(batch) <= rope
          /\ \A l \in Layers :
                pc = "finish" \/ l < layer \/ (pc = "attend" /\ l = layer)
                    => Holds(kv[l], seq \o batch)

\* The tokens the pass in progress, and those after it, have to feed.
Due ==
    IF call.op = "generate" /\ ~pass.single
    THEN Prefix(call.tokens, Len(call.tokens) - 1)
    ELSE Fed

Feeds ==
    /\ call.op = "generate" => call.from = <<>>
    /\ call.op = "generate" /\ pc # "idle" => call.tokens # <<>>
    /\ call.op \in {"forward", "prefill"} => out = <<>>
    /\ pc \in Passing => seq \o (batch \o todo) = Due
    /\ pc = "next" => seq \o todo = Due
    /\ pc = "step" => seq \o <<Cur>> = Fed /\ Len(out) <= call.n
    /\ pc \in Passing \cup {"next"} /\ call.op = "generate" =>
          IF pass.single THEN Len(out) < call.n ELSE out = <<>>

Current ==
    /\ pc = "next" /\ pass.compute => logits = seq
    /\ pc = "step" /\ out # <<>> => logits = seq
    /\ call.op = "generate" /\ call.compute => call.n > 0
    /\ pc \in Passing \cup {"next"} =>
          /\ call.op # "generate" /\ call.compute /\ todo = <<>> => pass.compute
          /\ call.op = "generate" /\ pass.single => pass.compute

SessionInv ==
    /\ SessionTypeOK /\ Phases
    /\ CacheHoldsSequence /\ Layered
    /\ CallFeedsItsTokens /\ Feeds
    /\ LogitsAreCurrent /\ Current

-----------------------------------------------------------------------------
(***************************************************************************)
(* Prefixes of sequences of tokens.                                        *)
(***************************************************************************)
LEMMA SingleToken ==
    ASSUME NEW x \in Int
    PROVE  /\ <<x>> \in TokenSeq /\ Len(<<x>>) = 1 /\ <<x>> # <<>> /\ <<x>>[1] = x
           /\ <<>> \in TokenSeq
BY DEF TokenSeq

LEMMA LastToken ==
    ASSUME NEW s \in TokenSeq, s # <<>>
    PROVE  Len(s) \in Nat \ {0} /\ s[Len(s)] \in Int
<1>1. Len(s) \in Nat \ {0}
  BY EmptySeq DEF TokenSeq
<1> QED  BY <1>1, ElementOfSeq DEF TokenSeq

LEMMA PrefixFacts ==
    ASSUME NEW s \in TokenSeq, NEW n \in 0 .. Len(s)
    PROVE  /\ Prefix(s, n) \in TokenSeq /\ Len(Prefix(s, n)) = n
           /\ \A i \in 1 .. n : Prefix(s, n)[i] = s[i]
           /\ SubSeq(s, n + 1, Len(s)) \in TokenSeq
           /\ Len(SubSeq(s, n + 1, Len(s))) = Len(s) - n
<1>1. Len(s) \in Nat /\ n \in Nat
  BY DEF TokenSeq
<1>2. \A i \in 1 .. Len(s) : s[i] \in Int
  BY ElementOfSeq DEF TokenSeq
<1>3. /\ SubSeq(s, 1, n) \in Seq(Int)
      /\ Len(SubSeq(s, 1, n)) = IF 1 <= n THEN n - 1 + 1 ELSE 0
      /\ \A i \in 1 .. n - 1 + 1 : SubSeq(s, 1, n)[i] = s[1 + i - 1]
  BY <1>1, <1>2, SubSeqProperties
<1>4. /\ SubSeq(s, n + 1, Len(s)) \in Seq(Int)
      /\ Len(SubSeq(s, n + 1, Len(s))) =
            IF n + 1 <= Len(s) THEN Len(s) - (n + 1) + 1 ELSE 0
  BY <1>1, <1>2, SubSeqProperties
<1> QED  BY <1>1, <1>3, <1>4 DEF Prefix, TokenSeq

LEMMA ConcatFacts ==
    ASSUME NEW s \in TokenSeq, NEW t \in TokenSeq
    PROVE  /\ s \o t \in TokenSeq /\ Len(s \o t) = Len(s) + Len(t)
           /\ \A i \in 1 .. Len(s) + Len(t) :
                 (s \o t)[i] = IF i <= Len(s) THEN s[i] ELSE t[i - Len(s)]
           /\ s \o <<>> = s /\ <<>> \o s = s
           /\ Len(s) \in Nat /\ Len(t) \in Nat
BY ConcatProperties, ConcatEmptySeq DEF TokenSeq

LEMMA PrefixOfConcat ==
    ASSUME NEW s \in TokenSeq, NEW t \in TokenSeq, NEW n \in 0 .. Len(s)
    PROVE  Prefix(s \o t, n) = Prefix(s, n)
<1>1. n \in 0 .. Len(s \o t)
  BY ConcatFacts
<1>2. /\ Prefix(s \o t, n) \in TokenSeq /\ Len(Prefix(s \o t, n)) = n
      /\ \A i \in 1 .. n : Prefix(s \o t, n)[i] = (s \o t)[i]
  BY <1>1, ConcatFacts, PrefixFacts
<1>3. /\ Prefix(s, n) \in TokenSeq /\ Len(Prefix(s, n)) = n
      /\ \A i \in 1 .. n : Prefix(s, n)[i] = s[i]
  BY PrefixFacts
<1>4. \A i \in 1 .. n : (s \o t)[i] = s[i]
  BY ConcatFacts
<1> QED  BY <1>2, <1>3, <1>4, SeqEqual DEF TokenSeq

LEMMA PrefixBeyond ==
    ASSUME NEW s \in TokenSeq, NEW t \in TokenSeq, NEW b \in 0 .. Len(t)
    PROVE  Prefix(s \o t, Len(s) + b) = s \o Prefix(t, b)
<1> DEFINE n == Len(s) + b
<1>1. n \in 0 .. Len(s \o t) /\ Len(s) \in Nat /\ b \in Nat
  BY ConcatFacts
<1>2. /\ Prefix(s \o t, n) \in TokenSeq /\ Len(Prefix(s \o t, n)) = n
      /\ \A i \in 1 .. n : Prefix(s \o t, n)[i] = (s \o t)[i]
  BY <1>1, ConcatFacts, PrefixFacts
<1>3. /\ Prefix(t, b) \in TokenSeq /\ Len(Prefix(t, b)) = b
      /\ \A i \in 1 .. b : Prefix(t, b)[i] = t[i]
  BY PrefixFacts
<1>4. /\ s \o Prefix(t, b) \in TokenSeq /\ Len(s \o Prefix(t, b)) = n
      /\ \A i \in 1 .. n : (s \o Prefix(t, b))[i] =
            IF i <= Len(s) THEN s[i] ELSE Prefix(t, b)[i - Len(s)]
  <2> DEFINE u == Prefix(t, b)
  <2>1. u \in TokenSeq /\ Len(u) = b
    BY <1>3
  <2>2. Len(s) + Len(u) = n
    BY <2>1
  <2> HIDE DEF u, n
  <2>3. /\ s \o u \in TokenSeq /\ Len(s \o u) = n
        /\ \A i \in 1 .. n : (s \o u)[i] = IF i <= Len(s) THEN s[i] ELSE u[i - Len(s)]
    BY <2>1, <2>2, ConcatFacts
  <2> QED  BY <2>3 DEF u
<1>5. \A i \in 1 .. n : (s \o t)[i] = IF i <= Len(s) THEN s[i] ELSE t[i - Len(s)]
  <2>1. \A i \in 1 .. Len(s) + Len(t) :
           (s \o t)[i] = IF i <= Len(s) THEN s[i] ELSE t[i - Len(s)]
    BY ConcatFacts
  <2>2. \A i \in 1 .. n : i \in 1 .. Len(s) + Len(t)
    BY <1>1, ConcatFacts
  <2> QED  BY <2>1, <2>2
<1>6. \A i \in 1 .. n : Prefix(s \o t, n)[i] = (s \o Prefix(t, b))[i]
  <2> TAKE i \in 1 .. n
  <2>1. CASE i <= Len(s)
    BY <2>1, <1>2, <1>4, <1>5
  <2>2. CASE i > Len(s)
    <3>1. i - Len(s) \in 1 .. b
      BY <2>2, <1>1
    <3>2. Prefix(t, b)[i - Len(s)] = t[i - Len(s)]
      BY <3>1, <1>3
    <3>3. (s \o t)[i] = t[i - Len(s)]
      BY <2>2, <1>1, <1>5
    <3>4. (s \o Prefix(t, b))[i] = Prefix(t, b)[i - Len(s)]
      BY <2>2, <1>1, <1>4
    <3>5. Prefix(s \o t, n)[i] = (s \o t)[i]
      BY <1>2
    <3> QED  BY <3>2, <3>3, <3>4, <3>5
  <2>3. i <= Len(s) \/ i > Len(s)
    BY DEF TokenSeq
  <2> QED  BY <2>1, <2>2, <2>3, Zenon
<1> HIDE DEF n
<1>7. Prefix(s \o t, n) = s \o Prefix(t, b)
  BY <1>2, <1>4, <1>6, SeqEqual DEF TokenSeq
<1> QED  BY <1>7 DEF n

LEMMA WholePrefix ==
    ASSUME NEW s \in TokenSeq
    PROVE  Prefix(s, Len(s)) = s
BY SubSeqFull DEF Prefix, TokenSeq

LEMMA PrefixAndRest ==
    ASSUME NEW s \in TokenSeq, NEW n \in 0 .. Len(s)
    PROVE  Prefix(s, n) \o SubSeq(s, n + 1, Len(s)) = s
<1>1. Len(s) \in Nat /\ n \in Nat
  BY DEF TokenSeq
<1>2. SubSeq(s, 1, n) \o SubSeq(s, n + 1, Len(s)) = SubSeq(s, 1, Len(s))
  <2>1. 1 \in 1 .. Len(s) + 1 /\ n \in 1 - 1 .. Len(s) /\ Len(s) \in n .. Len(s)
    BY <1>1
  <2>2. s \in Seq(Int)
    BY DEF TokenSeq
  <2> QED  BY <2>1, <2>2, ConcatAdjacentSubSeq
<1> QED  BY <1>2, WholePrefix DEF Prefix

LEMMA AllButLast ==
    ASSUME NEW s \in TokenSeq, s # <<>>
    PROVE  /\ Prefix(s, Len(s) - 1) \in TokenSeq
           /\ Prefix(s, Len(s) - 1) \o <<s[Len(s)]>> = s
<1>1. Len(s) \in Nat \ {0}
  BY LastToken
<1>2. SubSeq(s, 1, Len(s)) = SubSeq(s, 1, Len(s) - 1) \o <<s[Len(s)]>>
  BY <1>1, SubSeqRecursiveSecond DEF TokenSeq
<1>3. Prefix(s, Len(s) - 1) \in TokenSeq
  BY <1>1, PrefixFacts
<1> QED  BY <1>2, <1>3, WholePrefix DEF Prefix

LEMMA JoinsThree ==
    ASSUME NEW s \in TokenSeq, NEW t \in TokenSeq, NEW u \in TokenSeq
    PROVE  (s \o t) \o u = s \o (t \o u)
BY ConcatAssociative DEF TokenSeq

(***************************************************************************)
(* The tokens handed to a pass, and those left, are the tokens there were. *)
(***************************************************************************)
LEMMA HandsFacts ==
    ASSUME NEW tokens \in TokenSeq, tokens # <<>>, NEW size \in Nat,
           NEW compute \in BOOLEAN, Hands(tokens, size, compute)
    PROVE  /\ batch' \in TokenSeq /\ batch' # <<>> /\ todo' \in TokenSeq
           /\ batch' \o todo' = tokens
           /\ pass' = [single |-> FALSE, compute |-> (compute /\ todo' = <<>>)]
           /\ pc' = "begin"
<1> DEFINE n == Smaller(BatchSize(size), Len(tokens))
<1>1. Len(tokens) \in Nat \ {0}
  BY LastToken
<1>2. n \in 1 .. Len(tokens)
  BY <1>1 DEF Smaller, BatchSize
<1>3. batch' = Prefix(tokens, n) /\ todo' = SubSeq(tokens, n + 1, Len(tokens))
  BY DEF Hands
<1>4. pass' = [single |-> FALSE, compute |-> (compute /\ todo' = <<>>)] /\ pc' = "begin"
  BY DEF Hands, Computes
<1> HIDE DEF n
<1>5. n \in 0 .. Len(tokens)
  BY <1>1, <1>2
<1>6. batch' \in TokenSeq /\ Len(batch') = n /\ todo' \in TokenSeq
  BY <1>3, <1>5, PrefixFacts
<1>7. batch' # <<>>
  BY <1>2, <1>6, SingleToken
<1>8. batch' \o todo' = tokens
  BY <1>3, <1>5, PrefixAndRest
<1> QED  BY <1>4, <1>6, <1>7, <1>8

-----------------------------------------------------------------------------
(***************************************************************************)
(* The rows a pass writes.                                                 *)
(***************************************************************************)
LEMMA RowsFacts ==
    ASSUME seq \in TokenSeq, batch \in TokenSeq
    PROVE  /\ Rows \in Seq(TokenSeq) /\ Len(Rows) = Len(batch)
           /\ \A b \in 1 .. Len(batch) : Rows[b] = Prefix(seq \o batch, Len(seq) + b)
<1>1. Len(batch) \in Nat
  BY DEF TokenSeq
<1>2. \A b \in 1 .. Len(batch) : /\ seq \o Prefix(batch, b) \in TokenSeq
                                 /\ seq \o Prefix(batch, b) = Prefix(seq \o batch, Len(seq) + b)
  <2> TAKE b \in 1 .. Len(batch)
  <2>1. b \in 0 .. Len(batch)
    BY <1>1
  <2>2. Prefix(batch, b) \in TokenSeq
    BY <2>1, PrefixFacts
  <2>3. seq \o Prefix(batch, b) \in TokenSeq
    BY <2>2, ConcatFacts
  <2>4. Prefix(seq \o batch, Len(seq) + b) = seq \o Prefix(batch, b)
    BY <2>1, PrefixBeyond
  <2> QED  BY <2>3, <2>4
<1>3. Rows \in [1 .. Len(batch) -> TokenSeq]
  BY <1>2 DEF Rows
<1>4. Rows \in Seq(TokenSeq)
  BY <1>1, <1>3, SeqDef
<1>5. Len(Rows) = Len(batch)
  <2>1. Len(Rows) \in Nat /\ DOMAIN Rows = 1 .. Len(Rows)
    BY <1>4, LenProperties
  <2> QED  BY <1>1, <1>3, <2>1
<1>6. \A b \in 1 .. Len(batch) : Rows[b] = Prefix(seq \o batch, Len(seq) + b)
  BY <1>2 DEF Rows
<1> QED  BY <1>4, <1>5, <1>6

LEMMA PageFacts == \A t \in Int : PageOf(t) \in Int
BY SessionAssumption DEF PageOf, PageTokens

LEMMA WrittenFacts ==
    ASSUME NEW cache \in KV, NEW first \in Nat, NEW rows \in Seq(TokenSeq)
    PROVE  LET w == Written(cache, first, rows)
           IN  /\ w \in KV /\ cache.pages \subseteq w.pages
               /\ \A t \in Positions : t < first => w.slot[t] = cache.slot[t]
               /\ \A t \in Positions : t \in first .. (first + Len(rows) - 1) =>
                     PageOf(t) \in w.pages /\ w.slot[t] = rows[t - first + 1]
<1> DEFINE touched == first .. (first + Len(rows) - 1)
           w == Written(cache, first, rows)
<1>1. Len(rows) \in Nat /\ \A i \in 1 .. Len(rows) : rows[i] \in TokenSeq
  BY ElementOfSeq, LenProperties
<1>2. cache.pages \subseteq Int /\ cache.slot \in [Positions -> TokenSeq]
  BY DEF KV
<1>3. /\ w.pages = cache.pages \cup {PageOf(t) : t \in touched}
      /\ w.slot = [t \in Positions |-> IF t \in touched THEN rows[t - first + 1]
                                       ELSE cache.slot[t]]
      /\ w = [pages |-> w.pages, slot |-> w.slot]
  BY DEF Written
<1>4. \A t \in Positions : t \in Int
  BY DEF Positions
<1> HIDE DEF w
<1>5. w.pages \in SUBSET Int
  BY <1>2, <1>3, PageFacts
<1>6. w.slot \in [Positions -> TokenSeq]
  <2>1. \A t \in touched : t - first + 1 \in 1 .. Len(rows)
    BY <1>1
  <2> QED  BY <1>1, <1>2, <1>3, <2>1
<1>7. w \in KV
  BY <1>3, <1>5, <1>6 DEF KV
<1>8. \A t \in Positions : t < first => w.slot[t] = cache.slot[t]
  BY <1>1, <1>3, <1>4
<1>9. \A t \in Positions : t \in touched =>
         PageOf(t) \in w.pages /\ w.slot[t] = rows[t - first + 1]
  BY <1>3
<1>10. cache.pages \subseteq w.pages
  BY <1>3
<1> QED  BY <1>7, <1>8, <1>9, <1>10 DEF w

LEMMA PartFacts ==
    ASSUME NEW cache \in KV, NEW first \in Nat, NEW rows \in Seq(TokenSeq),
           NEW part \in WrittenInPart(cache, first, rows)
    PROVE  /\ part \in KV /\ cache.pages \subseteq part.pages
           /\ \A t \in Positions : t < first => part.slot[t] = cache.slot[t]
<1>1. PICK b \in 0 .. (Len(rows) - 1) : part = Written(cache, first, SubSeq(rows, 1, b))
  BY DEF WrittenInPart
<1>2. SubSeq(rows, 1, b) \in Seq(TokenSeq)
  <2>1. Len(rows) \in Nat /\ \A i \in 1 .. Len(rows) : rows[i] \in TokenSeq
    BY ElementOfSeq, LenProperties
  <2>2. \A i \in 1 .. b : rows[i] \in TokenSeq
    BY <2>1
  <2> QED  BY <2>1, <2>2, SubSeqProperties
<1> QED  BY <1>1, <1>2, WrittenFacts

-----------------------------------------------------------------------------
(***************************************************************************)
(* Each part of the invariant is kept by every step.  First the types.     *)
(***************************************************************************)
LEMMA EmptyFacts ==
    /\ EmptyKV \in KV
    /\ [l \in Layers |-> EmptyKV] \in [Layers -> KV]
    /\ NLayer \in Nat \ {0} /\ NCtx \in Nat \ {0} /\ 0 \in Layers
    /\ NoPass \in [single : BOOLEAN, compute : BOOLEAN]
    /\ None \in TokenSeq /\ <<>> \in TokenSeq
<1>1. <<>> \in TokenSeq /\ None \in TokenSeq
  BY SingleToken DEF None
<1>2. EmptyKV \in KV
  BY <1>1 DEF EmptyKV, KV, Unwritten
<1> QED  BY <1>1, <1>2, SessionAssumption DEF NCtx, Layers, NoPass

LEMMA EndsTypes ==
    ASSUME SessionTypeOK, NEW how \in {"ok", "threw"}, Ends(how)
    PROVE  /\ pc' \in Places /\ layer' \in Layers
           /\ batch' \in TokenSeq /\ todo' \in TokenSeq
           /\ pass' \in [single : BOOLEAN, compute : BOOLEAN]
           /\ call' = call /\ out' = out
           /\ ret' \in {"none", "ok", "threw"}
BY EmptyFacts DEF Ends, Places

LEMMA HandsTypes ==
    ASSUME NEW tokens \in TokenSeq, tokens # <<>>, NEW size \in Nat,
           NEW compute \in BOOLEAN, Hands(tokens, size, compute)
    PROVE  /\ pc' \in Places /\ batch' \in TokenSeq /\ todo' \in TokenSeq
           /\ pass' \in [single : BOOLEAN, compute : BOOLEAN]
<1>1. /\ batch' \in TokenSeq /\ todo' \in TokenSeq
      /\ pass' = [single |-> FALSE, compute |-> (compute /\ todo' = <<>>)]
      /\ pc' = "begin"
  BY HandsFacts, Zenon
<1>2. (compute /\ todo' = <<>>) \in BOOLEAN
  OBVIOUS
<1> QED  BY <1>1, <1>2 DEF Places, Passing

LEMMA CallTypes ==
    ASSUME SessionTypeOK, Caller
    PROVE  SessionTypeOK'
<1>1. CASE Reset
  BY <1>1, EmptyFacts DEF SessionTypeOK, Reset, Clears, NoCall, Calls, Places, passVars
<1>2. ASSUME NEW token \in Int, NEW compute \in BOOLEAN, CallForward(token, compute)
      PROVE  SessionTypeOK'
  <2>1. call' = [op |-> "forward", from |-> seq, tokens |-> <<token>>, size |-> 1,
                 compute |-> compute, n |-> 0]
    BY <1>2 DEF CallForward, NoCall
  <2>2. call' \in [op : Calls, from : TokenSeq, tokens : TokenSeq, size : Nat,
                   compute : BOOLEAN, n : Nat]
    BY <2>1, SingleToken DEF SessionTypeOK, Calls
  <2> QED  BY <1>2, <2>2, SingleToken
           DEF SessionTypeOK, CallForward, HandsOne, model, Places, Passing
<1>3. ASSUME NEW tokens \in TokenSeq, NEW size \in Nat, NEW compute \in BOOLEAN,
             CallPrefill(tokens, size, compute)
      PROVE  SessionTypeOK'
  <2>1. call' = [op |-> "prefill", from |-> seq, tokens |-> tokens, size |-> size,
                 compute |-> compute, n |-> 0]
    BY <1>3 DEF CallPrefill, NoCall
  <2>2. call' \in [op : Calls, from : TokenSeq, tokens : TokenSeq, size : Nat,
                   compute : BOOLEAN, n : Nat]
    BY <2>1 DEF SessionTypeOK, Calls
  <2>3. tokens # <<>> /\ Hands(tokens, size, compute)
    BY <1>3 DEF CallPrefill
  <2>4. /\ pc' \in Places /\ batch' \in TokenSeq /\ todo' \in TokenSeq
        /\ pass' \in [single : BOOLEAN, compute : BOOLEAN]
    BY <2>3, HandsTypes
  <2> QED  BY <1>3, <2>2, <2>4, EmptyFacts DEF SessionTypeOK, CallPrefill, model
<1>4. ASSUME NEW prompt \in TokenSeq, NEW n \in Nat, CallGenerate(prompt, n)
      PROVE  SessionTypeOK'
  <2>1. call' = [op |-> "generate", from |-> <<>>, tokens |-> prompt, size |-> PrefillBatch,
                 compute |-> n > 0, n |-> n]
    BY <1>4 DEF CallGenerate, NoCall
  <2>2. call' \in [op : Calls, from : TokenSeq, tokens : TokenSeq, size : Nat,
                   compute : BOOLEAN, n : Nat]
    BY <2>1, EmptyFacts DEF Calls, PrefillBatch
  <2>3. /\ pc' \in Places /\ batch' \in TokenSeq /\ todo' \in TokenSeq
        /\ pass' \in [single : BOOLEAN, compute : BOOLEAN]
    <3>1. CASE Len(prompt) > 1
      <4>1. prompt # <<>> /\ Len(prompt) \in Nat
        BY <3>1 DEF TokenSeq
      <4>2. Prefix(prompt, Len(prompt) - 1) \in TokenSeq
            /\ Len(Prefix(prompt, Len(prompt) - 1)) = Len(prompt) - 1
        BY <3>1, <4>1, PrefixFacts
      <4>3. Prefix(prompt, Len(prompt) - 1) # <<>>
        BY <3>1, <4>1, <4>2, EmptySeq
      <4>4. Hands(Prefix(prompt, Len(prompt) - 1), PrefillBatch, FALSE)
        BY <1>4, <3>1 DEF CallGenerate
      <4>5. PrefillBatch \in Nat /\ FALSE \in BOOLEAN
        BY DEF PrefillBatch
      <4> QED  BY <4>2, <4>3, <4>4, <4>5, HandsTypes
    <3>2. CASE ~(Len(prompt) > 1)
      BY <1>4, <3>2 DEF CallGenerate, SessionTypeOK, Places
    <3> QED  BY <3>1, <3>2
  <2> QED  BY <1>4, <2>2, <2>3, EmptyFacts
           DEF SessionTypeOK, CallGenerate, Clears
<1> QED
  <2>1. \A tokens \in Prompts : tokens \in TokenSeq /\ (Len(tokens) = 1 => tokens[1] \in Int)
    BY SessionAssumption, ElementOfSeq DEF TokenSeq
  <2> QED  BY <1>1, <1>2, <1>3, <1>4, <2>1, SessionAssumption DEF Caller

LEMMA TypesKept ==
    ASSUME SessionTypeOK, Phases, Feeds, [SessionNext]_sessionVars
    PROVE  SessionTypeOK'
<1>1. CASE Caller
  BY <1>1, CallTypes
<1>2. CASE Begins
  BY <1>2 DEF Begins, PreparesRope, SessionTypeOK, passVars, callVars, Places, Passing, TokenSeq
<1>3. CASE Refused
  BY <1>3, EndsTypes DEF Refused, Throws, SessionTypeOK, model
<1>4. CASE BeginFails
  <2>1. rope' \in Nat
    BY <1>4 DEF BeginFails, PreparesRope, SessionTypeOK, TokenSeq
  <2> QED  BY <1>4, <2>1, EndsTypes DEF BeginFails, Throws, SessionTypeOK
<1>5. CASE Writes
  <2>1. Written(kv[layer], pos, Rows) \in KV
    BY WrittenFacts, RowsFacts DEF SessionTypeOK
  <2>2. kv' \in [Layers -> KV]
    BY <1>5, <2>1 DEF Writes, SessionTypeOK
  <2> QED  BY <1>5, <2>2 DEF Writes, SessionTypeOK, passVars, callVars, Places, Passing
<1>6. CASE WriteFails
  <2>1. PICK part \in WrittenInPart(kv[layer], pos, Rows) : kv' = [kv EXCEPT ![layer] = part]
    BY <1>6 DEF WriteFails
  <2>2. part \in KV
    BY PartFacts, RowsFacts DEF SessionTypeOK
  <2>3. kv' \in [Layers -> KV]
    BY <2>1, <2>2 DEF SessionTypeOK
  <2> QED  BY <1>6, <2>3, EndsTypes DEF WriteFails, Throws, SessionTypeOK
<1>7. CASE Attends
  BY <1>7, EmptyFacts
  DEF Attends, SessionTypeOK, Layers, model, callVars, Places, Passing
<1>8. CASE AttendFails
  BY <1>8, EndsTypes DEF AttendFails, Throws, SessionTypeOK, model
<1>9. CASE Finishes \/ OutputFails
  <2>1. pos' \in Nat /\ seq' \in TokenSeq
    <3>1. pos \in Nat /\ seq \in TokenSeq /\ batch \in TokenSeq
      BY DEF SessionTypeOK
    <3>2. pos' = pos + Len(batch) /\ seq' = seq \o batch
      BY <1>9 DEF Finishes, OutputFails, Advances
    <3>3. Len(batch) \in Nat /\ seq \o batch \in TokenSeq
      BY <3>1, ConcatFacts
    <3> QED  BY <3>1, <3>2, <3>3
  <2>2. CASE Finishes
    BY <2>1, <2>2 DEF Finishes, SessionTypeOK, passVars, callVars, Places
  <2>3. CASE OutputFails
    BY <2>1, <2>3, EndsTypes DEF OutputFails, Throws, SessionTypeOK
  <2> QED  BY <1>9, <2>2, <2>3
<1>10. CASE NextBatch
  <2>1. todo \in TokenSeq /\ todo # <<>> /\ call.size \in Nat
        /\ (call.op = "prefill" /\ call.compute) \in BOOLEAN
        /\ Hands(todo, call.size, call.op = "prefill" /\ call.compute)
    BY <1>10 DEF NextBatch, SessionTypeOK
  <2>2. /\ pc' \in Places /\ batch' \in TokenSeq /\ todo' \in TokenSeq
        /\ pass' \in [single : BOOLEAN, compute : BOOLEAN]
    BY <2>1, HandsTypes
  <2> QED  BY <1>10, <2>2 DEF NextBatch, SessionTypeOK, model, callVars
<1>11. CASE Done \/ Generated
  BY <1>11, EndsTypes DEF Done, Generated, SessionTypeOK, model
<1>12. CASE PromptDone
  BY <1>12 DEF PromptDone, SessionTypeOK, model, passVars, callVars, Places
<1>13. CASE Steps
  <2>1. Cur \in Int
    <3>1. out \in TokenSeq /\ call.tokens \in TokenSeq /\ call.tokens # <<>>
      BY <1>13 DEF Steps, SessionTypeOK, Phases, Feeds
    <3> QED  BY <3>1, LastToken DEF Cur
  <2> QED  BY <1>13, <2>1, SingleToken
           DEF Steps, HandsOne, SessionTypeOK, model, callVars, Places, Passing
<1>14. CASE Samples
  <2>1. PICK token \in Tokens :
           /\ out' = Append(out, token)
           /\ IF token = Eos
              THEN /\ pc' = "idle" /\ ret' = "ok"
                   /\ layer' = 0 /\ batch' = <<>> /\ pass' = NoPass /\ todo' = <<>>
              ELSE pc' = "step" /\ UNCHANGED <<passVars, ret>>
    BY <1>14 DEF Samples
  <2>2. out' \in TokenSeq
    BY <2>1, AppendProperties, SessionAssumption DEF SessionTypeOK, TokenSeq, Tokens
  <2>3. UNCHANGED <<model, call>>
    BY <1>14 DEF Samples
  <2> QED  BY <2>1, <2>2, <2>3, EmptyFacts DEF SessionTypeOK, model, passVars, Places
<1>15. CASE UNCHANGED sessionVars
  BY <1>15 DEF SessionTypeOK, sessionVars, model, passVars, callVars
<1> QED  BY <1>1, <1>2, <1>3, <1>4, <1>5, <1>6, <1>7, <1>8, <1>9, <1>10, <1>11, <1>12,
            <1>13, <1>14, <1>15 DEF SessionNext, Inside

-----------------------------------------------------------------------------
(***************************************************************************)
(* What the calls begin with.                                              *)
(***************************************************************************)
LEMMA ForwardFacts ==
    ASSUME NEW token \in Int, NEW compute \in BOOLEAN, CallForward(token, compute)
    PROVE  /\ pc = "idle" /\ pc' = "begin" /\ ret' = "none" /\ out' = <<>>
           /\ call' = [op |-> "forward", from |-> seq, tokens |-> <<token>>, size |-> 1,
                       compute |-> compute, n |-> 0]
           /\ batch' = <<token>> /\ batch' # <<>> /\ todo' = todo
           /\ pass' = [single |-> TRUE, compute |-> compute]
           /\ pos' = pos /\ kv' = kv /\ rope' = rope /\ logits' = logits /\ seq' = seq
           /\ layer' = layer
BY SingleToken DEF CallForward, HandsOne, NoCall, model

LEMMA PrefillFacts ==
    ASSUME NEW tokens \in TokenSeq, NEW size \in Nat, NEW compute \in BOOLEAN,
           CallPrefill(tokens, size, compute)
    PROVE  /\ pc = "idle" /\ pc' = "begin" /\ ret' = "none" /\ out' = <<>>
           /\ call' = [op |-> "prefill", from |-> seq, tokens |-> tokens, size |-> size,
                       compute |-> compute, n |-> 0]
           /\ batch' \in TokenSeq /\ batch' # <<>> /\ todo' \in TokenSeq
           /\ batch' \o todo' = tokens
           /\ pass' = [single |-> FALSE, compute |-> (compute /\ todo' = <<>>)]
           /\ pos' = pos /\ kv' = kv /\ rope' = rope /\ logits' = logits /\ seq' = seq
           /\ layer' = layer
<1>1. tokens # <<>> /\ Hands(tokens, size, compute)
  BY DEF CallPrefill
<1>2. /\ batch' \in TokenSeq /\ batch' # <<>> /\ todo' \in TokenSeq
      /\ batch' \o todo' = tokens
      /\ pass' = [single |-> FALSE, compute |-> (compute /\ todo' = <<>>)]
      /\ pc' = "begin"
  BY <1>1, HandsFacts, Zenon
<1> QED  BY <1>2 DEF CallPrefill, NoCall, model

LEMMA GenerateFacts ==
    ASSUME NEW prompt \in TokenSeq, NEW n \in Nat, CallGenerate(prompt, n)
    PROVE  /\ pc = "idle" /\ out' = <<>>
           /\ call' = [op |-> "generate", from |-> <<>>, tokens |-> prompt,
                       size |-> PrefillBatch, compute |-> n > 0, n |-> n]
           /\ ret' = IF prompt = <<>> THEN "threw" ELSE "none"
           /\ pos' = 0 /\ seq' = <<>> /\ kv' = [l \in Layers |-> EmptyKV]
           /\ rope' = rope /\ logits' = logits /\ layer' = layer
           /\ \/ /\ prompt # <<>> /\ pc' = "begin"
                 /\ batch' \in TokenSeq /\ batch' # <<>> /\ todo' \in TokenSeq
                 /\ batch' \o todo' = Prefix(prompt, Len(prompt) - 1)
                 /\ pass' = [single |-> FALSE, compute |-> FALSE]
              \/ /\ Len(prompt) <= 1
                 /\ pc' = IF prompt = <<>> THEN "idle" ELSE "step"
                 /\ batch' = batch /\ pass' = pass /\ todo' = todo
<1>1. CASE Len(prompt) > 1
  <2> DEFINE p == Prefix(prompt, Len(prompt) - 1)
  <2>1. Len(prompt) \in Nat
    BY DEF TokenSeq
  <2>2. p \in TokenSeq /\ Len(p) = Len(prompt) - 1
    BY <1>1, <2>1, PrefixFacts
  <2>3. p # <<>> /\ prompt # <<>>
    BY <1>1, <2>1, <2>2, SingleToken, EmptySeq
  <2>4. Hands(p, PrefillBatch, FALSE)
    BY <1>1 DEF CallGenerate
  <2>5. PrefillBatch \in Nat /\ FALSE \in BOOLEAN
    BY DEF PrefillBatch
  <2> HIDE DEF p
  <2>6. /\ batch' \in TokenSeq /\ batch' # <<>> /\ todo' \in TokenSeq
        /\ batch' \o todo' = p
        /\ pass' = [single |-> FALSE, compute |-> (FALSE /\ todo' = <<>>)]
        /\ pc' = "begin"
    BY <2>2, <2>3, <2>4, <2>5, HandsFacts, Zenon
  <2> QED  BY <2>3, <2>6 DEF CallGenerate, NoCall, Clears, p
<1>2. CASE ~(Len(prompt) > 1)
  <2>1. Len(prompt) <= 1
    BY <1>2 DEF TokenSeq
  <2> QED  BY <1>2, <2>1 DEF CallGenerate, NoCall, Clears
<1> QED  BY <1>1, <1>2

LEMMA NextBatchFacts ==
    ASSUME SessionTypeOK, NextBatch
    PROVE  /\ pc = "next" /\ ~pass.single /\ pc' = "begin"
           /\ batch' \in TokenSeq /\ batch' # <<>> /\ todo' \in TokenSeq
           /\ batch' \o todo' = todo
           /\ pass' = [single |-> FALSE,
                       compute |-> (call.op = "prefill" /\ call.compute /\ todo' = <<>>)]
           /\ pos' = pos /\ kv' = kv /\ rope' = rope /\ logits' = logits /\ seq' = seq
           /\ layer' = layer /\ call' = call /\ out' = out /\ ret' = ret
<1> DEFINE c == call.op = "prefill" /\ call.compute
<1>1. /\ todo \in TokenSeq /\ todo # <<>> /\ call.size \in Nat /\ c \in BOOLEAN
      /\ Hands(todo, call.size, c)
  BY DEF NextBatch, SessionTypeOK
<1> HIDE DEF c
<1>2. /\ batch' \in TokenSeq /\ batch' # <<>> /\ todo' \in TokenSeq
      /\ batch' \o todo' = todo
      /\ pass' = [single |-> FALSE, compute |-> (c /\ todo' = <<>>)]
      /\ pc' = "begin"
  BY <1>1, HandsFacts, Zenon
<1>3. (c /\ todo' = <<>>) = (call.op = "prefill" /\ call.compute /\ todo' = <<>>)
  BY DEF c
<1> QED  BY <1>2, <1>3 DEF NextBatch, model, callVars

LEMMA CallsAre ==
    ASSUME Caller
    PROVE  \/ Reset
           \/ \E token \in Int, compute \in BOOLEAN : CallForward(token, compute)
           \/ \E tokens \in TokenSeq, size \in Nat, compute \in BOOLEAN :
                 CallPrefill(tokens, size, compute)
           \/ \E prompt \in TokenSeq, n \in Nat : CallGenerate(prompt, n)
<1>1. \A tokens \in Prompts : tokens \in TokenSeq /\ (Len(tokens) = 1 => tokens[1] \in Int)
  BY SessionAssumption, ElementOfSeq DEF TokenSeq
<1> QED  BY <1>1, SessionAssumption DEF Caller

-----------------------------------------------------------------------------
LEMMA PhasesKept ==
    ASSUME SessionInv, [SessionNext]_sessionVars
    PROVE  Phases'
<1>0. SessionTypeOK /\ Phases /\ Feeds
  BY DEF SessionInv
<1>1. CASE Caller
  <2>1. CASE Reset
    BY <2>1, <1>0 DEF Reset, Phases, passVars, Passing
  <2>2. ASSUME NEW token \in Int, NEW compute \in BOOLEAN, CallForward(token, compute)
        PROVE  Phases'
    BY <2>2, <1>0, ForwardFacts DEF Phases, Passing
  <2>3. ASSUME NEW tokens \in TokenSeq, NEW size \in Nat, NEW compute \in BOOLEAN,
               CallPrefill(tokens, size, compute)
        PROVE  Phases'
    BY <2>3, <1>0, PrefillFacts DEF Phases, Passing
  <2>4. ASSUME NEW prompt \in TokenSeq, NEW n \in Nat, CallGenerate(prompt, n)
        PROVE  Phases'
    BY <2>4, <1>0, GenerateFacts DEF Phases, Passing
  <2> QED  BY <1>1, <2>1, <2>2, <2>3, <2>4, CallsAre
<1>2. CASE Begins
  BY <1>2, <1>0 DEF Begins, Phases, passVars, callVars, Passing
<1>3. CASE \E how \in {"ok", "threw"} : Ends(how)
  BY <1>3 DEF Ends, Phases, Passing
<1>4. CASE Writes \/ Attends
  BY <1>4, <1>0 DEF Writes, Attends, Phases, passVars, callVars, Passing
<1>5. CASE Finishes
  BY <1>5, <1>0 DEF Finishes, Phases, passVars, callVars, Passing
<1>6. CASE NextBatch
  BY <1>6, <1>0, NextBatchFacts DEF Phases, Passing
<1>7. CASE PromptDone
  BY <1>7, <1>0 DEF PromptDone, Phases, passVars, callVars, Passing
<1>8. CASE Steps
  <2>1. batch' = <<Cur>> /\ batch' # <<>>
    BY <1>8 DEF Steps, HandsOne
  <2> QED  BY <1>8, <2>1, <1>0 DEF Steps, HandsOne, Phases, callVars, Passing
<1>9. CASE Samples
  BY <1>9, <1>0 DEF Samples, Phases, passVars, Passing
<1>10. CASE UNCHANGED sessionVars
  BY <1>10, <1>0 DEF Phases, sessionVars, model, passVars, callVars
<1> QED  BY <1>1, <1>2, <1>3, <1>4, <1>5, <1>6, <1>7, <1>8, <1>9, <1>10
         DEF SessionNext, Inside, Refused, BeginFails, WriteFails, AttendFails,
             OutputFails, Done, Generated, Throws

-----------------------------------------------------------------------------
(***************************************************************************)
(* The cache.  A write, whole or in part, leaves the rows below pos alone. *)
(***************************************************************************)
LEMMA HoldsKept ==
    ASSUME NEW cache, NEW w, NEW s \in TokenSeq, Len(s) <= NCtx,
           cache.pages \subseteq w.pages,
           \A t \in Positions : t < Len(s) => w.slot[t] = cache.slot[t],
           Holds(cache, s)
    PROVE  Holds(w, s)
<1>1. Len(s) \in Nat /\ NCtx \in Nat
  BY EmptyFacts DEF TokenSeq
<1>2. \A t \in 0 .. (Len(s) - 1) : t \in Positions /\ t < Len(s)
  BY <1>1 DEF Positions
<1> QED  BY <1>2 DEF Holds, Readable

LEMMA HoldsWritten ==
    ASSUME SessionTypeOK, pos = Len(seq), pos + Len(batch) <= NCtx,
           NEW cache \in KV, Holds(cache, seq)
    PROVE  /\ Holds(Written(cache, pos, Rows), seq)
           /\ Holds(Written(cache, pos, Rows), seq \o batch)
<1> DEFINE w == Written(cache, pos, Rows)
<1>1. seq \in TokenSeq /\ batch \in TokenSeq /\ pos \in Nat
  BY DEF SessionTypeOK
<1>2. Len(seq) \in Nat /\ Len(batch) \in Nat /\ Len(seq \o batch) = pos + Len(batch)
  BY <1>1, ConcatFacts
<1>3. /\ cache.pages \subseteq w.pages
      /\ \A t \in Positions : t < pos => w.slot[t] = cache.slot[t]
      /\ \A t \in Positions : t \in pos .. (pos + Len(batch) - 1) =>
            PageOf(t) \in w.pages /\ w.slot[t] = Rows[t - pos + 1]
  BY <1>1, RowsFacts, WrittenFacts
<1> HIDE DEF w
<1>4. NCtx \in Nat
  BY EmptyFacts
<1>5. Holds(w, seq)
  BY <1>1, <1>2, <1>3, <1>4, HoldsKept
<1>6. ASSUME NEW t \in 0 .. (Len(seq \o batch) - 1)
      PROVE  Readable(w, t) /\ w.slot[t] = Prefix(seq \o batch, t + 1)
  <2>1. t \in Nat /\ t < pos + Len(batch) /\ t \in Positions
    BY <1>1, <1>2, <1>4 DEF Positions
  <2>2. CASE t < pos
    <3>1. Readable(w, t) /\ w.slot[t] = Prefix(seq, t + 1)
      BY <1>1, <1>2, <1>5, <2>1, <2>2 DEF Holds
    <3>2. t + 1 \in 0 .. Len(seq)
      BY <1>1, <2>1, <2>2
    <3> QED  BY <1>1, <3>1, <3>2, PrefixOfConcat
  <2>3. CASE ~(t < pos)
    <3>1. t \in pos .. (pos + Len(batch) - 1)
      BY <1>1, <1>2, <2>1, <2>3
    <3>2. Readable(w, t) /\ w.slot[t] = Rows[t - pos + 1]
      BY <1>3, <2>1, <3>1 DEF Readable
    <3>3. t - pos + 1 \in 1 .. Len(batch) /\ Len(seq) + (t - pos + 1) = t + 1
      BY <1>1, <1>2, <3>1
    <3>4. Rows[t - pos + 1] = Prefix(seq \o batch, Len(seq) + (t - pos + 1))
      BY <1>1, <3>3, RowsFacts
    <3> QED  BY <3>2, <3>3, <3>4
  <2> QED  BY <2>2, <2>3
<1> QED  BY <1>5, <1>6 DEF Holds, w

LEMMA CacheKept ==
    ASSUME SessionInv, [SessionNext]_sessionVars
    PROVE  CacheHoldsSequence' /\ Layered'
<1>0. SessionTypeOK /\ Phases /\ Layered
  BY DEF SessionInv
<1>1. /\ pos \in Nat /\ rope \in Nat /\ seq \in TokenSeq /\ batch \in TokenSeq
      /\ Len(seq) \in Nat /\ Len(batch) \in Nat /\ Len(seq \o batch) = Len(seq) + Len(batch)
      /\ NCtx \in Nat
  BY <1>0, ConcatFacts, EmptyFacts DEF SessionTypeOK
<1>2. /\ pos = Len(seq) /\ pos <= NCtx /\ \A l \in Layers : Holds(kv[l], seq)
  BY DEF SessionInv, CacheHoldsSequence, Holds
<1>3. SUFFICES /\ pos' = Len(seq') /\ pos' <= NCtx /\ \A l \in Layers : Holds(kv'[l], seq')
               /\ Layered'
  BY DEF CacheHoldsSequence, Holds
<1>4. CASE UNCHANGED model /\ pc' \notin {"write", "attend", "finish"}
  BY <1>4, <1>0, <1>2 DEF model, Layered
<1>5. CASE pos' = 0 /\ seq' = <<>> /\ rope' = rope /\ pc' \notin {"write", "attend", "finish"}
  BY <1>5, <1>0, <1>1 DEF Layered, Holds
<1>6. CASE Begins \/ BeginFails
  <2>1. UNCHANGED <<pos, kv, seq>> /\ FitsContext
    BY <1>6 DEF Begins, BeginFails, Admitted
  <2>2. rope' <= NCtx
    BY <1>6, <2>1, <1>0, <1>1, <1>2
    DEF Begins, BeginFails, PreparesRope, FitsContext, Layered
  <2>3. CASE Begins
    <3>1. batch # <<>> /\ layer = 0
      BY <2>3, <1>0 DEF Begins, Phases, Passing
    <3>2. pos + Len(batch) <= rope'
      BY <2>3, <3>1, <1>1 DEF Begins, PreparesRope
    <3>3. pc' = "write" /\ batch' = batch /\ layer' = 0
      BY <2>3, <3>1 DEF Begins, passVars
    <3>4. \A l \in Layers : ~(l < 0)
      BY DEF Layers
    <3>5. Layered'
      BY <2>1, <2>2, <3>2, <3>3, <3>4 DEF Layered
    <3> QED  BY <1>2, <2>1, <3>5
  <2>4. CASE BeginFails
    <3>1. pc' = "idle"
      BY <2>4 DEF BeginFails, Throws, Ends
    <3> QED  BY <1>2, <2>1, <2>2, <3>1 DEF Layered
  <2> QED  BY <1>6, <2>3, <2>4
<1>7. CASE Writes
  <2>1. /\ pos + Len(batch) <= NCtx /\ layer \in Layers /\ kv \in [Layers -> KV]
    BY <1>7, <1>0, <1>1 DEF Writes, Layered, SessionTypeOK
  <2>2. /\ Holds(Written(kv[layer], pos, Rows), seq)
        /\ Holds(Written(kv[layer], pos, Rows), seq \o batch)
    BY <1>0, <1>2, <2>1, HoldsWritten
  <2>3. /\ UNCHANGED <<pos, rope, seq, batch, layer>> /\ pc' = "attend"
        /\ \A l \in Layers : kv'[l] = IF l = layer THEN Written(kv[layer], pos, Rows) ELSE kv[l]
    BY <1>7, <2>1 DEF Writes, passVars
  <2>4. \A l \in Layers : Holds(kv'[l], seq')
    BY <1>2, <2>2, <2>3
  <2>5. Layered'
    BY <1>0, <1>7, <2>2, <2>3 DEF Layered, Writes
  <2> QED  BY <1>2, <2>3, <2>4, <2>5
<1>8. CASE WriteFails
  <2>1. PICK part \in WrittenInPart(kv[layer], pos, Rows) : kv' = [kv EXCEPT ![layer] = part]
    BY <1>8 DEF WriteFails
  <2>2. layer \in Layers /\ kv \in [Layers -> KV]
    BY <1>0 DEF SessionTypeOK
  <2>3. /\ kv[layer].pages \subseteq part.pages
        /\ \A t \in Positions : t < pos => part.slot[t] = kv[layer].slot[t]
    BY <1>1, <2>2, RowsFacts, PartFacts
  <2>4. Holds(part, seq)
    BY <1>1, <1>2, <2>2, <2>3, HoldsKept
  <2>5. UNCHANGED <<pos, rope, seq>> /\ pc' = "idle"
    BY <1>8 DEF WriteFails, Throws, Ends
  <2>6. \A l \in Layers : Holds(kv'[l], seq')
    BY <1>2, <2>1, <2>2, <2>4, <2>5
  <2> QED  BY <1>0, <1>2, <2>5, <2>6 DEF Layered
<1>9. CASE Attends
  <2>1. UNCHANGED <<pos, kv, rope, seq, batch>> /\ pc = "attend" /\ layer \in Layers
    BY <1>9, <1>0 DEF Attends, model, SessionTypeOK
  <2>2. /\ pos + Len(batch) <= rope /\ rope <= NCtx
        /\ \A l \in Layers : l < layer \/ l = layer => Holds(kv[l], seq \o batch)
    BY <1>0, <2>1 DEF Layered
  <2>3. CASE layer + 1 < NLayer
    <3>1. layer' = layer + 1 /\ pc' = "write"
      BY <1>9, <2>3 DEF Attends
    <3>2. \A l \in Layers : l < layer + 1 => l < layer \/ l = layer
      BY <2>1 DEF Layers
    <3>3. Layered'
      BY <2>1, <2>2, <3>1, <3>2 DEF Layered
    <3> QED  BY <1>2, <2>1, <3>3
  <2>4. CASE ~(layer + 1 < NLayer)
    <3>1. pc' = "finish"
      BY <1>9, <2>4 DEF Attends
    <3>2. \A l \in Layers : l < layer \/ l = layer
      BY <2>1, <2>4, EmptyFacts DEF Layers
    <3>3. Layered'
      BY <2>1, <2>2, <3>1, <3>2 DEF Layered
    <3> QED  BY <1>2, <2>1, <3>3
  <2> QED  BY <2>3, <2>4
<1>10. CASE Finishes \/ OutputFails
  <2>1. pos' = pos + Len(batch) /\ seq' = seq \o batch /\ kv' = kv /\ rope' = rope
    BY <1>10 DEF Finishes, OutputFails, Advances
  <2>2. pc = "finish" /\ pc' \in {"next", "idle"}
    BY <1>10 DEF Finishes, OutputFails, Throws, Ends
  <2>3. /\ pos + Len(batch) <= rope /\ rope <= NCtx
        /\ \A l \in Layers : Holds(kv[l], seq \o batch)
    BY <1>0, <2>2 DEF Layered
  <2>4. Layered'
    BY <2>1, <2>2, <2>3 DEF Layered
  <2> QED  BY <1>1, <1>2, <2>1, <2>3, <2>4
<1>11. CASE UNCHANGED sessionVars
  BY <1>11, <1>0, <1>2 DEF sessionVars, model, passVars, Layered
<1>12. CASE Caller
  <2>1. CASE Reset
    <3>1. pos' = 0 /\ seq' = <<>> /\ rope' = rope /\ pc' = "idle"
      BY <2>1 DEF Reset, Clears
    <3> QED  BY <1>5, <3>1
  <2>2. ASSUME NEW token \in Int, NEW compute \in BOOLEAN, CallForward(token, compute)
        PROVE  UNCHANGED model /\ pc' = "begin"
    BY <2>2, ForwardFacts DEF model
  <2>3. ASSUME NEW tokens \in TokenSeq, NEW size \in Nat, NEW compute \in BOOLEAN,
               CallPrefill(tokens, size, compute)
        PROVE  UNCHANGED model /\ pc' = "begin"
    BY <2>3, PrefillFacts DEF model
  <2>4. ASSUME NEW prompt \in TokenSeq, NEW n \in Nat, CallGenerate(prompt, n)
        PROVE  pos' = 0 /\ seq' = <<>> /\ rope' = rope /\ pc' \in {"begin", "idle", "step"}
    BY <2>4, GenerateFacts
  <2> QED  BY <1>4, <1>5, <1>12, <2>1, <2>2, <2>3, <2>4, CallsAre
<1>13. CASE Refused \/ AttendFails \/ NextBatch \/ Done \/ PromptDone \/ Steps \/ Generated
            \/ Samples
  <2>1. UNCHANGED model
    BY <1>13 DEF Refused, AttendFails, NextBatch, Done, PromptDone, Steps, Generated, Samples
  <2>2. pc' \notin {"write", "attend", "finish"}
    BY <1>13 DEF Refused, AttendFails, NextBatch, Hands, Done, PromptDone, Steps, HandsOne,
                 Generated, Samples, Throws, Ends
  <2> QED  BY <1>4, <2>1, <2>2
<1> QED  BY <1>6, <1>7, <1>8, <1>9, <1>10, <1>11, <1>12, <1>13 DEF SessionNext, Inside

-----------------------------------------------------------------------------
(***************************************************************************)
(* What a call has fed, and has still to feed.                             *)
(***************************************************************************)
Begun(s, t) == Len(s) <= Len(t) /\ s = Prefix(t, Len(s))

LEMMA BegunByConcat ==
    ASSUME NEW s \in TokenSeq, NEW u \in TokenSeq
    PROVE  Begun(s, s \o u)
<1>1. Len(s) \in Nat /\ Len(u) \in Nat /\ Len(s \o u) = Len(s) + Len(u)
  BY ConcatFacts
<1>2. Prefix(s \o u, Len(s)) = Prefix(s, Len(s))
  BY <1>1, PrefixOfConcat
<1> QED  BY <1>1, <1>2, WholePrefix DEF Begun

LEMMA BegunFurther ==
    ASSUME NEW s \in TokenSeq, NEW t \in TokenSeq, NEW u \in TokenSeq, Begun(s, t)
    PROVE  Begun(s, t \o u)
<1>1. Len(s) \in 0 .. Len(t) /\ Len(t) \in Nat /\ Len(u) \in Nat
      /\ Len(t \o u) = Len(t) + Len(u)
  BY ConcatFacts DEF Begun
<1>2. Prefix(t \o u, Len(s)) = Prefix(t, Len(s))
  BY <1>1, PrefixOfConcat
<1> QED  BY <1>1, <1>2 DEF Begun

LEMMA FedFacts ==
    ASSUME SessionTypeOK, Feeds, pc # "idle"
    PROVE  /\ Fed \in TokenSeq /\ Due \in TokenSeq
           /\ \A s, r \in TokenSeq : s \o r = Due => Begun(s, Fed)
<1>1. call.from \in TokenSeq /\ call.tokens \in TokenSeq /\ out \in TokenSeq
  BY DEF SessionTypeOK
<1>2. Fed \in TokenSeq
  BY <1>1, ConcatFacts DEF Fed
<1>3. CASE call.op = "generate" /\ ~pass.single
  <2> DEFINE last == <<call.tokens[Len(call.tokens)]>>
  <2>1. Due = Prefix(call.tokens, Len(call.tokens) - 1)
    BY <1>3 DEF Due
  <2>2. call.tokens # <<>> /\ call.from = <<>>
    BY <1>3 DEF Feeds
  <2>3. Due \in TokenSeq /\ Due \o last = call.tokens /\ last \in TokenSeq
    BY <1>1, <2>1, <2>2, AllButLast, LastToken, SingleToken
  <2>4. Fed = call.tokens \o out
    BY <1>1, <2>2, ConcatFacts DEF Fed
  <2> HIDE DEF last
  <2>5. ASSUME NEW s \in TokenSeq, NEW r \in TokenSeq, s \o r = Due
        PROVE  Begun(s, Fed)
    <3>1. Begun(s, Due)
      BY <2>5, BegunByConcat
    <3>2. Begun(s, call.tokens)
      BY <2>3, <3>1, BegunFurther
    <3> QED  BY <1>1, <2>4, <3>2, BegunFurther
  <2> QED  BY <1>2, <2>3, <2>5
<1>4. CASE ~(call.op = "generate" /\ ~pass.single)
  <2>1. Due = Fed
    BY <1>4 DEF Due
  <2> QED  BY <1>2, <2>1, BegunByConcat
<1> QED  BY <1>3, <1>4

LEMMA NewCallFeeds ==
    ASSUME SessionInv, Caller
    PROVE  Feeds' /\ CallFeedsItsTokens'
<1>0. SessionTypeOK /\ Phases /\ seq \in TokenSeq
  BY DEF SessionInv, SessionTypeOK
<1>1. CASE Reset
  <2>1. /\ call' = NoCall /\ out' = <<>> /\ seq' = <<>> /\ pc' = "idle" /\ ret' = "none"
    BY <1>1 DEF Reset, Clears
  <2>2. Begun(<<>>, (<<>> \o <<>>) \o <<>>)
    <3>1. <<>> \in TokenSeq
      BY EmptyFacts, Zenon
    <3>2. <<>> \o <<>> = <<>>
      BY <3>1, ConcatFacts, Zenon
    <3>3. Begun(<<>>, <<>> \o <<>>)
      BY <3>1, BegunByConcat, Zenon
    <3> QED  BY <3>2, <3>3, Zenon
  <2> QED  BY <2>1, <2>2 DEF Feeds, CallFeedsItsTokens, Fed, NoCall, Begun, Passing
<1>2. ASSUME NEW token \in Int, NEW compute \in BOOLEAN, CallForward(token, compute)
      PROVE  Feeds' /\ CallFeedsItsTokens'
  <2>1. todo = <<>>
    BY <1>0, <1>2, ForwardFacts DEF Phases
  <2>2. /\ call'.op = "forward" /\ call'.from = seq /\ call'.tokens = <<token>>
        /\ batch' = <<token>> /\ todo' = <<>> /\ out' = <<>> /\ seq' = seq
        /\ pc' = "begin" /\ ret' = "none"
    BY <1>2, <2>1, ForwardFacts
  <2>3. <<token>> \in TokenSeq /\ <<token>> \o <<>> = <<token>>
        /\ (seq \o <<token>>) \o <<>> = seq \o <<token>>
    BY <1>0, SingleToken, ConcatFacts
  <2>4. Begun(seq, seq \o <<token>>)
    BY <1>0, <2>3, BegunByConcat
  <2> QED  BY <2>2, <2>3, <2>4 DEF Feeds, CallFeedsItsTokens, Fed, Due, Begun, Passing
<1>3. ASSUME NEW tokens \in TokenSeq, NEW size \in Nat, NEW compute \in BOOLEAN,
             CallPrefill(tokens, size, compute)
      PROVE  Feeds' /\ CallFeedsItsTokens'
  <2>1. /\ call'.op = "prefill" /\ call'.from = seq /\ call'.tokens = tokens
        /\ batch' \o todo' = tokens /\ out' = <<>> /\ seq' = seq
        /\ pc' = "begin" /\ ret' = "none"
    BY <1>3, PrefillFacts
  <2>2. (seq \o tokens) \o <<>> = seq \o tokens
    BY <1>0, ConcatFacts
  <2>3. Begun(seq, seq \o tokens)
    BY <1>0, BegunByConcat
  <2> QED  BY <2>1, <2>2, <2>3 DEF Feeds, CallFeedsItsTokens, Fed, Due, Begun, Passing
<1>4. ASSUME NEW prompt \in TokenSeq, NEW n \in Nat, CallGenerate(prompt, n)
      PROVE  Feeds' /\ CallFeedsItsTokens'
  <2>1. /\ call'.op = "generate" /\ call'.from = <<>> /\ call'.tokens = prompt
        /\ call'.n = n /\ out' = <<>> /\ seq' = <<>> /\ ret' # "ok"
    BY <1>4, GenerateFacts
  <2>2. (<<>> \o prompt) \o <<>> = prompt /\ Begun(<<>>, prompt)
    <3>1. <<>> \in TokenSeq
      BY EmptyFacts, Zenon
    <3>2. <<>> \o prompt = prompt /\ prompt \o <<>> = prompt
      BY <3>1, ConcatFacts, Zenon
    <3>3. Begun(<<>>, <<>> \o prompt)
      BY <3>1, BegunByConcat, Zenon
    <3> QED  BY <3>2, <3>3, Zenon
  <2>3. CallFeedsItsTokens'
    BY <2>1, <2>2 DEF CallFeedsItsTokens, Fed, Begun
  <2>4. CASE /\ prompt # <<>> /\ pc' = "begin"
             /\ batch' \in TokenSeq /\ todo' \in TokenSeq
             /\ batch' \o todo' = Prefix(prompt, Len(prompt) - 1)
             /\ pass' = [single |-> FALSE, compute |-> FALSE]
    <3>1. <<>> \o (batch' \o todo') = Prefix(prompt, Len(prompt) - 1)
      BY <2>4, ConcatFacts
    <3> QED  BY <2>1, <2>3, <2>4, <3>1 DEF Feeds, Due, Passing
  <2>5. CASE Len(prompt) <= 1 /\ prompt # <<>> /\ pc' = "step"
    <3>1. Len(prompt) - 1 = 0
      <4>1. Len(prompt) \in Nat \ {0}
        BY <2>5, LastToken, Zenon
      <4>2. Len(prompt) <= 1
        BY <2>5, Zenon
      <4>3. \A k \in Nat \ {0} : k <= 1 => k - 1 = 0
        OBVIOUS
      <4> QED  BY <4>1, <4>2, <4>3, Zenon
    <3>2. Prefix(prompt, 0) \o <<prompt[Len(prompt)]>> = prompt
      BY <2>5, <3>1, AllButLast
    <3>3. Prefix(prompt, 0) = <<>>
      BY SubSeqEmpty DEF Prefix
    <3>4. Len(<<>>) = 0 /\ n \in Nat
      BY SingleToken
    <3> QED  BY <2>1, <2>2, <2>3, <2>5, <3>2, <3>3, <3>4 DEF Feeds, Fed, Cur, Passing
  <2>6. CASE pc' = "idle"
    BY <2>1, <2>3, <2>6 DEF Feeds, Passing
  <2> QED  BY <1>4, <2>4, <2>5, <2>6, GenerateFacts
<1> QED  BY <1>1, <1>2, <1>3, <1>4, CallsAre

\* A call that throws, or ends without a word, leaves what it has fed.
LEMMA EndFeeds ==
    ASSUME Feeds, NEW how \in {"ok", "threw"}, Ends(how)
    PROVE  Feeds' /\ call' = call /\ out' = out /\ Fed' = Fed
BY DEF Feeds, Ends, Fed, Passing

LEMMA PassFeeds ==
    ASSUME SessionInv, Begins \/ Writes \/ Attends \/ Finishes
    PROVE  Feeds' /\ CallFeedsItsTokens'
<1>0. SessionTypeOK /\ Phases /\ Feeds /\ CallFeedsItsTokens
  BY DEF SessionInv
<1>1. /\ call' = call /\ out' = out /\ ret' = ret /\ batch' = batch /\ todo' = todo
      /\ pass' = pass /\ pc \in Passing
  BY DEF Begins, Writes, Attends, Finishes, passVars, callVars, Passing
<1>2. Fed' = Fed /\ Due' = Due
  BY <1>1 DEF Fed, Due
<1>3. CASE Finishes
  <2>1. seq' = seq \o batch /\ pc' = "next" /\ ret = "none"
    BY <1>3, <1>0 DEF Finishes, Advances, Phases, Passing
  <2>2. seq \in TokenSeq /\ batch \in TokenSeq /\ todo \in TokenSeq
    BY <1>0 DEF SessionTypeOK
  <2>3. (seq \o batch) \o todo = Due
    BY <1>0, <1>1, <2>2, JoinsThree DEF Feeds
  <2>4. seq \o batch \in TokenSeq
    BY <2>2, ConcatFacts
  <2>5. pc # "idle"
    BY <1>1 DEF Passing
  <2>6. Begun(seq \o batch, Fed)
    BY <1>0, <2>2, <2>3, <2>4, <2>5, FedFacts
  <2>7. CallFeedsItsTokens'
    BY <1>1, <1>2, <2>1, <2>6 DEF CallFeedsItsTokens, Begun
  <2>8. Feeds'
    BY <1>0, <1>1, <1>2, <2>1, <2>3, <2>5 DEF Feeds, Passing
  <2> QED  BY <2>7, <2>8
<1>4. CASE Begins \/ Writes \/ Attends
  <2>1. seq' = seq /\ pc' \in Passing
    BY <1>4, <1>0 DEF Begins, Writes, Attends, model, Phases, Passing
  <2>2. CallFeedsItsTokens'
    BY <1>0, <1>1, <1>2, <2>1 DEF CallFeedsItsTokens
  <2>3. Feeds'
    BY <1>0, <1>1, <1>2, <2>1 DEF Feeds, Passing
  <2> QED  BY <2>2, <2>3
<1> QED  BY <1>3, <1>4

LEMMA NextFeeds ==
    ASSUME SessionInv, NextBatch \/ Done \/ PromptDone \/ Steps \/ Generated
    PROVE  Feeds' /\ CallFeedsItsTokens'
<1>0. SessionTypeOK /\ Phases /\ Feeds /\ CallFeedsItsTokens
  BY DEF SessionInv
<1>1. seq \in TokenSeq /\ todo \in TokenSeq /\ out \in TokenSeq /\ call.tokens \in TokenSeq
      /\ call.from \in TokenSeq
  BY <1>0 DEF SessionTypeOK
<1>2. call' = call /\ out' = out /\ seq' = seq /\ Fed' = Fed
  BY DEF NextBatch, Done, PromptDone, Steps, Generated, Ends, model, callVars, Fed
<1>3. CASE NextBatch
  <2>1. /\ pc = "next" /\ pc' = "begin" /\ ~pass.single /\ ~pass'.single /\ ret' = ret
        /\ batch' \o todo' = todo
    BY <1>0, <1>3, NextBatchFacts
  <2>2. Due' = Due
    BY <1>2, <2>1 DEF Due
  <2>3. CallFeedsItsTokens'
    BY <1>0, <1>2, <2>1 DEF CallFeedsItsTokens
  <2>4. Feeds'
    BY <1>0, <1>2, <2>1, <2>2 DEF Feeds, Passing
  <2> QED  BY <2>3, <2>4
<1>4. CASE Done
  <2>1. /\ pc = "next" /\ todo = <<>> /\ call.op # "generate" /\ Ends("ok") /\ ret' = "ok"
    BY <1>4 DEF Done, Ends
  <2>2. seq = Fed
    <3>1. Due = Fed
      BY <2>1 DEF Due
    <3>2. seq \o <<>> = seq
      BY <1>1, ConcatFacts
    <3> QED  BY <1>0, <2>1, <3>1, <3>2 DEF Feeds
  <2>3. CallFeedsItsTokens'
    BY <1>0, <1>2, <2>1, <2>2 DEF CallFeedsItsTokens
  <2> QED  BY <1>0, <2>1, <2>3, EndFeeds
<1>5. CASE PromptDone
  <2>1. /\ pc = "next" /\ pc' = "step" /\ todo = <<>> /\ call.op = "generate" /\ ~pass.single
        /\ ret' = ret
    BY <1>5 DEF PromptDone, callVars
  <2>2. out = <<>> /\ call.tokens # <<>> /\ call.from = <<>>
    BY <1>0, <2>1 DEF Feeds
  <2>3. seq = Prefix(call.tokens, Len(call.tokens) - 1)
    <3>1. seq \o <<>> = Prefix(call.tokens, Len(call.tokens) - 1)
      BY <1>0, <2>1 DEF Feeds, Due
    <3> QED  BY <1>1, <3>1, ConcatFacts
  <2>4. seq \o <<Cur>> = call.tokens
    BY <1>1, <2>2, <2>3, AllButLast DEF Cur
  <2>5. Fed = call.tokens
    BY <1>1, <2>2, ConcatFacts DEF Fed
  <2>6. Cur' = Cur
    BY <1>2 DEF Cur
  <2>7. Len(out) <= call.n
    BY <1>0, <2>2, SingleToken DEF SessionTypeOK
  <2>8. CallFeedsItsTokens'
    BY <1>0, <1>2, <2>1 DEF CallFeedsItsTokens
  <2>9. Feeds'
    BY <1>0, <1>2, <2>1, <2>2, <2>4, <2>5, <2>6, <2>7 DEF Feeds, Passing
  <2> QED  BY <2>8, <2>9
<1>6. CASE Steps
  <2>1. /\ pc = "step" /\ pc' = "begin" /\ call.op = "generate" /\ todo' = <<>>
        /\ batch' = <<Cur>> /\ pass'.single /\ Len(out) < call.n /\ ret' = ret
    BY <1>6, <1>0 DEF Steps, HandsOne, callVars, Phases
  <2>2. Cur \in Int
    BY <1>0, <1>1, <2>1, LastToken DEF Cur, Feeds
  <2>3. <<Cur>> \o <<>> = <<Cur>>
    BY <2>2, SingleToken, ConcatFacts
  <2>4. Due' = Fed
    BY <1>2, <2>1 DEF Due
  <2>5. CallFeedsItsTokens'
    BY <1>0, <1>2, <2>1 DEF CallFeedsItsTokens
  <2>6. Feeds'
    BY <1>0, <1>2, <2>1, <2>3, <2>4 DEF Feeds, Passing
  <2> QED  BY <2>5, <2>6
<1>7. CASE Generated
  <2>1. /\ pc = "step" /\ call.op = "generate" /\ Len(out) >= call.n /\ Ends("ok")
        /\ ret' = "ok"
    BY <1>7, <1>0 DEF Generated, Ends, Phases
  <2>2. seq \o <<Cur>> = Fed /\ Len(out) <= call.n
    BY <1>0, <2>1 DEF Feeds
  <2>3. Cur \in Int
    BY <1>0, <1>1, <2>1, LastToken DEF Cur, Feeds
  <2>4. Len(Fed) = Len(seq) + 1 /\ Len(seq) \in Nat
    BY <1>1, <2>2, <2>3, SingleToken, ConcatFacts
  <2>5. Len(seq) = Len(Fed) - 1
    BY <2>4
  <2>6. Len(out) = call.n
    BY <1>0, <1>1, <2>1, <2>2, ConcatFacts DEF SessionTypeOK
  <2>7. CallFeedsItsTokens'
    BY <1>0, <1>2, <2>1, <2>5, <2>6 DEF CallFeedsItsTokens
  <2> QED  BY <1>0, <2>1, <2>7, EndFeeds
<1> QED  BY <1>3, <1>4, <1>5, <1>6, <1>7

LEMMA SamplesFeeds ==
    ASSUME SessionInv, Samples
    PROVE  Feeds' /\ CallFeedsItsTokens'
<1>0. SessionTypeOK /\ Phases /\ Feeds
  BY DEF SessionInv
<1>1. PICK token \in Tokens :
         /\ out' = Append(out, token)
         /\ IF token = Eos
            THEN /\ pc' = "idle" /\ ret' = "ok"
                 /\ layer' = 0 /\ batch' = <<>> /\ pass' = NoPass /\ todo' = <<>>
            ELSE pc' = "step" /\ UNCHANGED <<passVars, ret>>
  BY DEF Samples
<1>2. /\ pc = "next" /\ pass.single /\ call.op = "generate" /\ call' = call /\ seq' = seq
      /\ todo = <<>> /\ ret = "none"
  BY <1>0 DEF Samples, model, Phases, Passing
<1>3. /\ call.tokens # <<>> /\ call.from = <<>> /\ Len(out) < call.n
  BY <1>0, <1>2 DEF Feeds
<1>4. /\ seq \in TokenSeq /\ call.tokens \in TokenSeq /\ call.from \in TokenSeq
      /\ out \in TokenSeq /\ call.n \in Nat /\ token \in Int
  BY <1>0, SessionAssumption DEF SessionTypeOK, Tokens
<1>5. seq = Fed
  <2>1. Due = Fed /\ seq \o <<>> = seq
    BY <1>2, <1>4, ConcatFacts DEF Due
  <2> QED  BY <1>0, <1>2, <2>1 DEF Feeds
<1>6. /\ out' = out \o <<token>> /\ Len(out') = Len(out) + 1 /\ Len(out) \in Nat
      /\ out'[Len(out')] = token /\ out' # <<>>
  BY <1>1, <1>4, AppendProperties, AppendIsConcat DEF TokenSeq
<1>7. Fed' = seq \o <<token>>
  <2>1. Fed' = (call.from \o call.tokens) \o (out \o <<token>>)
    BY <1>2, <1>6 DEF Fed
  <2>2. call.from \o call.tokens \in TokenSeq /\ <<token>> \in TokenSeq
    BY <1>4, ConcatFacts, SingleToken
  <2>3. (call.from \o call.tokens) \o (out \o <<token>>) = Fed \o <<token>>
    <3> DEFINE first == call.from \o call.tokens
    <3>1. first \in TokenSeq /\ Fed = first \o out
      BY <2>2 DEF Fed
    <3> HIDE DEF first
    <3>2. (first \o out) \o <<token>> = first \o (out \o <<token>>)
      <4> DEFINE last == <<token>>
      <4>1. first \in TokenSeq /\ out \in TokenSeq /\ last \in TokenSeq
        BY <1>4, <2>2, <3>1
      <4> HIDE DEF last
      <4> QED  BY <4>1, JoinsThree, Zenon DEF last
    <3> QED  BY <3>1, <3>2, Zenon DEF first
  <2> QED  BY <1>5, <2>1, <2>3
<1>8. Begun(seq, Fed') /\ Len(Fed') = Len(seq) + 1 /\ Len(seq) \in Nat
  BY <1>4, <1>7, SingleToken, ConcatFacts, BegunByConcat
<1>9. CASE token = Eos
  <2>1. pc' = "idle"
    BY <1>1, <1>9
  <2>2. Feeds'
    BY <1>2, <1>3, <2>1 DEF Feeds, Passing
  <2>3. Len(seq) = Len(Fed') - 1
    BY <1>8
  <2>4. CallFeedsItsTokens'
    BY <1>2, <1>6, <1>8, <1>9, <2>3 DEF CallFeedsItsTokens, Begun
  <2> QED  BY <2>2, <2>4
<1>10. CASE token # Eos
  <2>1. pc' = "step" /\ ret' = "none"
    BY <1>1, <1>2, <1>10
  <2>2. Cur' = token
    BY <1>6 DEF Cur
  <2>3. Len(out') <= call.n
    BY <1>3, <1>4, <1>6
  <2>4. Feeds'
    BY <1>2, <1>3, <1>7, <2>1, <2>2, <2>3 DEF Feeds, Passing
  <2>5. CallFeedsItsTokens'
    BY <1>2, <1>8, <2>1 DEF CallFeedsItsTokens, Begun
  <2> QED  BY <2>4, <2>5
<1> QED  BY <1>9, <1>10

LEMMA FeedsKept ==
    ASSUME SessionInv, [SessionNext]_sessionVars
    PROVE  Feeds' /\ CallFeedsItsTokens'
<1>0. SessionTypeOK /\ Phases /\ Feeds /\ CallFeedsItsTokens
  BY DEF SessionInv
<1>1. CASE Refused \/ BeginFails \/ WriteFails \/ AttendFails
  <2>1. Ends("threw") /\ seq' = seq /\ ret' = "threw"
    BY <1>1 DEF Refused, BeginFails, WriteFails, AttendFails, Throws, Ends, model
  <2>2. Feeds' /\ call' = call /\ out' = out /\ Fed' = Fed
    BY <1>0, <2>1, EndFeeds
  <2> QED  BY <1>0, <2>1, <2>2 DEF CallFeedsItsTokens
<1>2. CASE OutputFails
  <2>1. Ends("threw") /\ seq' = seq \o batch /\ ret' = "threw" /\ pc = "finish"
    BY <1>2 DEF OutputFails, Advances, Throws, Ends
  <2>2. Feeds' /\ Fed' = Fed
    BY <1>0, <2>1, EndFeeds
  <2>3. seq \in TokenSeq /\ batch \in TokenSeq /\ todo \in TokenSeq
    BY <1>0 DEF SessionTypeOK
  <2>4. (seq \o batch) \o todo = Due /\ seq \o batch \in TokenSeq
    <3>1. seq \o (batch \o todo) = Due
      BY <1>0, <2>1 DEF Feeds, Passing
    <3>2. seq \o batch \in TokenSeq
      BY <2>3, ConcatFacts
    <3>3. (seq \o batch) \o todo = seq \o (batch \o todo)
      BY <2>3, JoinsThree, Zenon
    <3> QED  BY <3>1, <3>2, <3>3, Zenon
  <2>5. Begun(seq \o batch, Fed)
    BY <1>0, <2>1, <2>3, <2>4, FedFacts
  <2> QED  BY <2>1, <2>2, <2>5 DEF CallFeedsItsTokens, Begun
<1>3. CASE UNCHANGED sessionVars
  BY <1>3, <1>0 DEF sessionVars, model, passVars, callVars, Feeds, CallFeedsItsTokens, Fed, Due,
                    Cur
<1> QED  BY <1>1, <1>2, <1>3, NewCallFeeds, PassFeeds, NextFeeds, SamplesFeeds
         DEF SessionNext, Inside

-----------------------------------------------------------------------------
(***************************************************************************)
(* Whose logits they are.                                                  *)
(***************************************************************************)
LEMMA CurrentKept ==
    ASSUME SessionInv, [SessionNext]_sessionVars
    PROVE  Current' /\ LogitsAreCurrent'
<1>0. SessionTypeOK /\ Phases /\ Feeds /\ Current /\ LogitsAreCurrent
  BY DEF SessionInv
<1>1. CASE Caller
  <2>1. CASE Reset
    BY <2>1 DEF Reset, NoCall, Current, LogitsAreCurrent, Passing
  <2>2. ASSUME NEW token \in Int, NEW compute \in BOOLEAN, CallForward(token, compute)
        PROVE  Current' /\ LogitsAreCurrent'
    BY <2>2, ForwardFacts DEF Current, LogitsAreCurrent, Passing
  <2>3. ASSUME NEW tokens \in TokenSeq, NEW size \in Nat, NEW compute \in BOOLEAN,
               CallPrefill(tokens, size, compute)
        PROVE  Current' /\ LogitsAreCurrent'
    BY <2>3, PrefillFacts DEF Current, LogitsAreCurrent, Passing
  <2>4. ASSUME NEW prompt \in TokenSeq, NEW n \in Nat, CallGenerate(prompt, n)
        PROVE  Current' /\ LogitsAreCurrent'
    <3>1. /\ call'.op = "generate" /\ call'.n = n /\ (call'.compute <=> n > 0)
          /\ out' = <<>> /\ ret' # "ok"
          /\ pc' \in {"begin", "idle", "step"}
          /\ pc' = "begin" => ~pass'.single
      <4>1. call' = [op |-> "generate", from |-> <<>>, tokens |-> prompt,
                     size |-> PrefillBatch, compute |-> n > 0, n |-> n]
        BY <2>4, GenerateFacts, Zenon
      <4>2. call'.compute <=> n > 0
        BY <4>1, Zenon
      <4>3. call'.op = "generate" /\ call'.n = n
        BY <4>1
      <4>4. /\ out' = <<>> /\ ret' # "ok" /\ pc' \in {"begin", "idle", "step"}
            /\ pc' = "begin" => ~pass'.single
        BY <2>4, GenerateFacts
      <4> QED  BY <4>2, <4>3, <4>4
    <3> QED  BY <3>1 DEF Current, LogitsAreCurrent, Passing
  <2> QED  BY <1>1, <2>1, <2>2, <2>3, <2>4, CallsAre
<1>2. CASE Begins \/ Writes \/ Attends
  <2>1. /\ call' = call /\ ret' = ret /\ todo' = todo /\ pass' = pass
        /\ pc \in Passing /\ pc' \in Passing /\ ret = "none"
    BY <1>2, <1>0 DEF Begins, Writes, Attends, passVars, callVars, Phases, Passing
  <2> QED  BY <2>1, <1>0 DEF Current, LogitsAreCurrent, Passing
<1>3. CASE Finishes
  <2>1. /\ call' = call /\ ret' = ret /\ todo' = todo /\ pass' = pass
        /\ pc \in Passing /\ pc' = "next" /\ ret = "none"
        /\ pass.compute => logits' = seq'
    BY <1>3, <1>0 DEF Finishes, passVars, callVars, Phases, Passing
  <2> QED  BY <2>1, <1>0 DEF Current, LogitsAreCurrent, Passing
<1>4. CASE Ends("threw")
  BY <1>4, <1>0 DEF Ends, Current, LogitsAreCurrent, Passing
<1>5. CASE Done
  BY <1>5, <1>0 DEF Done, Ends, model, Current, LogitsAreCurrent, Passing
<1>6. CASE Generated
  <2>1. call.compute => out # <<>>
    <3>1. pc = "step" /\ call.op = "generate" /\ Len(out) >= call.n /\ call.n \in Nat
      BY <1>6, <1>0 DEF Generated, Phases, SessionTypeOK
    <3>2. call.compute => Len(out) # 0
      BY <1>0, <3>1 DEF Current, SessionTypeOK, TokenSeq
    <3> QED  BY <3>2, SingleToken, EmptySeq
  <2> QED  BY <1>6, <2>1, <1>0 DEF Generated, Ends, model, Current, LogitsAreCurrent, Passing
<1>7. CASE NextBatch
  <2>1. call.op = "generate" \/ call.op = "prefill"
    BY <1>7, <1>0 DEF NextBatch, Phases, SessionTypeOK, Calls, Passing
  <2>2. /\ pc' = "begin" /\ ~pass'.single /\ call' = call /\ ret' = "none"
        /\ pass'.compute <=> (call.op = "prefill" /\ call.compute /\ todo' = <<>>)
    <3>1. pass' = [single |-> FALSE,
                   compute |-> (call.op = "prefill" /\ call.compute /\ todo' = <<>>)]
      BY <1>7, <1>0, NextBatchFacts, Zenon
    <3>2. pass'.compute <=> (call.op = "prefill" /\ call.compute /\ todo' = <<>>)
      BY <3>1, Zenon
    <3>3. pc' = "begin" /\ ~pass'.single /\ call' = call /\ ret' = "none"
      BY <1>7, <1>0, NextBatchFacts DEF Phases
    <3> QED  BY <3>2, <3>3
  <2> QED  BY <2>1, <2>2, <1>0 DEF Current, LogitsAreCurrent, Passing
<1>8. CASE PromptDone
  BY <1>8, <1>0
  DEF PromptDone, model, passVars, callVars, Current, LogitsAreCurrent, Feeds, Phases, Passing
<1>9. CASE Steps
  BY <1>9, <1>0
  DEF Steps, HandsOne, model, callVars, Current, LogitsAreCurrent, Phases, Passing
<1>10. CASE Samples
  BY <1>10, <1>0
  DEF Samples, model, passVars, Current, LogitsAreCurrent, Phases, Passing
<1>11. CASE UNCHANGED sessionVars
  BY <1>11, <1>0 DEF sessionVars, model, passVars, callVars, Current, LogitsAreCurrent
<1> QED  BY <1>1, <1>2, <1>3, <1>4, <1>5, <1>6, <1>7, <1>8, <1>9, <1>10, <1>11
         DEF SessionNext, Inside, Refused, BeginFails, WriteFails, AttendFails, OutputFails,
             Throws

-----------------------------------------------------------------------------
LEMMA SessionStarts == SessionInit => SessionInv
<1> SUFFICES ASSUME SessionInit PROVE SessionInv
  OBVIOUS
<1>1. /\ pos = 0 /\ rope = 0 /\ kv = [l \in Layers |-> EmptyKV] /\ logits = None
      /\ seq = <<>> /\ pc = "idle" /\ layer = 0 /\ batch = <<>> /\ pass = NoPass
      /\ todo = <<>> /\ call = NoCall /\ out = <<>> /\ ret = "none"
  BY DEF SessionInit
<1>2. NoCall \in [op : Calls, from : TokenSeq, tokens : TokenSeq, size : Nat,
                  compute : BOOLEAN, n : Nat]
  BY EmptyFacts DEF NoCall, Calls
<1>3. SessionTypeOK
  BY <1>1, <1>2, EmptyFacts DEF SessionTypeOK, Places
<1>4. Phases
  BY <1>1 DEF Phases, Passing
<1>5. CacheHoldsSequence /\ Layered
  BY <1>1, EmptyFacts DEF CacheHoldsSequence, Layered
<1>6. Feeds /\ CallFeedsItsTokens
  <2>1. <<>> \in TokenSeq
    BY EmptyFacts, Zenon
  <2>2. <<>> \o <<>> = <<>> /\ Begun(<<>>, <<>> \o <<>>)
    BY <2>1, ConcatFacts, BegunByConcat, Zenon
  <2>3. Fed = <<>> /\ Begun(<<>>, <<>>)
    BY <1>1, <2>2 DEF Fed, NoCall
  <2> QED  BY <1>1, <2>3 DEF Feeds, CallFeedsItsTokens, Begun, NoCall, Passing
<1>7. Current /\ LogitsAreCurrent
  BY <1>1 DEF Current, LogitsAreCurrent, NoCall, Passing
<1> QED  BY <1>3, <1>4, <1>5, <1>6, <1>7 DEF SessionInv

(***************************************************************************)
(* The invariant is inductive.                                             *)
(***************************************************************************)
LEMMA SessionInvariant == SessionSpec => []SessionInv
<1>1. SessionInit => SessionInv
  BY SessionStarts
<1>2. ASSUME SessionInv, [SessionNext]_sessionVars PROVE SessionInv'
  <2>1. SessionTypeOK'
    BY <1>2, TypesKept DEF SessionInv
  <2> QED  BY <1>2, <2>1, PhasesKept, CacheKept, FeedsKept, CurrentKept DEF SessionInv
<1> QED  BY <1>1, <1>2, PTL DEF SessionSpec

(***************************************************************************)
(* For every context, page size and number of layers, after any sequence   *)
(* of calls of which any may have thrown anywhere: each layer of the KV    *)
(* cache holds, for every position that counts, a row computed from        *)
(* exactly the tokens fed since the last reset.                            *)
(***************************************************************************)
THEOREM CacheCorrect == SessionSpec => []CacheHoldsSequence
<1>1. SessionInv => CacheHoldsSequence
  BY DEF SessionInv
<1> QED  BY <1>1, SessionInvariant, PTL

(***************************************************************************)
(* Attention never meets a missing page, a row of another sequence or a    *)
(* position the rotary table is not prepared for.                          *)
(***************************************************************************)
THEOREM AttentionCorrect == SessionSpec => []AttentionReadsItsContext
<1>1. SessionInv => AttentionReadsItsContext
  <2> SUFFICES ASSUME SessionInv, pc = "attend" PROVE AttentionReadsItsContext
    BY DEF AttentionReadsItsContext
  <2>1. SessionTypeOK /\ Layered /\ pos = Len(seq)
    BY DEF SessionInv, CacheHoldsSequence
  <2>2. Len(seq \o batch) = pos + Len(batch) /\ layer \in Layers
    BY <2>1, ConcatFacts DEF SessionTypeOK
  <2>3. Holds(kv[layer], seq \o batch)
    BY <2>1, <2>2 DEF Layered
  <2> QED  BY <2>1, <2>2, <2>3 DEF Layered, Holds, AttentionReadsItsContext
<1> QED  BY <1>1, SessionInvariant, PTL

(***************************************************************************)
(* A call feeds its tokens in order, each once, for any batch size: all of *)
(* them when it returns, the first so many when it throws.                 *)
(***************************************************************************)
THEOREM FeedsCorrect == SessionSpec => []CallFeedsItsTokens
<1>1. SessionInv => CallFeedsItsTokens
  BY DEF SessionInv
<1> QED  BY <1>1, SessionInvariant, PTL

(***************************************************************************)
(* The logits a call returns, or samples from, are those of the last token *)
(* it fed.                                                                 *)
(***************************************************************************)
THEOREM LogitsCorrect == SessionSpec => []LogitsAreCurrent
<1>1. SessionInv => LogitsAreCurrent
  BY DEF SessionInv
<1> QED  BY <1>1, SessionInvariant, PTL
=============================================================================
