---------------------------- MODULE WeightsProofs ---------------------------
(***************************************************************************)
(* Proofs about LlamaWeights: for every file that load_config accepts,     *)
(* every batch and every build, the kernels of a pass fill their buffers,  *)
(* and what they fill them with is the product they promise.               *)
(*                                                                         *)
(* The second follows the code from the inside out: a loop of a dot        *)
(* product meets every column once, a chunk computes the elements it is    *)
(* given, the chunks of a matrix are given all of them.                    *)
(***************************************************************************)
EXTENDS LlamaWeights, FiniteSetTheorems, TLAPS

(***************************************************************************)
(* The model is what load_config makes of the file, and a kernel that runs *)
(* was begun for the place the pass is at.                                 *)
(***************************************************************************)
ModelInv ==
    /\ file \in Files
    /\ model # NoModel => Accepts(file) /\ model = Config(file)

PassInv ==
    pass # NoPass =>
        /\ model # NoModel
        /\ pass \in [single : BOOLEAN, batch : Nat \ {0}, compute : BOOLEAN, li : Nat, k : Nat]
        /\ pass.single => pass.batch = 1

LayerInv ==
    pass # NoPass =>
        /\ pass.li \in 0 .. model.layers
        /\ pass.k \in 1 .. Len(LayerUses(pass))

OpOf(p) == [batched |-> ~p.single /\ ~AtOutput(p), pool |-> ~p.single]

RunInv ==
    ended = "running" => pass # NoPass /\ jobs = Matrices(pass) /\ op = OpOf(pass)

WeightsInv == ModelInv /\ PassInv /\ LayerInv /\ RunInv

-----------------------------------------------------------------------------
LEMMA WeightsTypes ==
    ASSUME NEW f \in Files, Accepts(f)
    PROVE  /\ f.embd \in Nat \ {0} /\ f.heads \in Nat \ {0} /\ HeadsKv(f) \in Nat \ {0}
           /\ f.ff \in Nat /\ f.layers \in Nat \ {0}
           /\ f.embd % f.heads = 0 /\ f.heads % HeadsKv(f) = 0
BY WeightsAssumption DEF Accepts, MetadataFits, Missing, HeadsKv

-----------------------------------------------------------------------------
(***************************************************************************)
(* Arithmetic.                                                             *)
(***************************************************************************)
LEMMA ExactDivision ==
    ASSUME NEW a \in Nat, NEW b \in Nat \ {0}, a % b = 0
    PROVE  a \div b \in Nat /\ b * (a \div b) = a
BY SMT

LEMMA QuotientBelow ==
    ASSUME NEW h \in Nat, NEW g \in Nat \ {0}, NEW n \in Nat, h < n * g
    PROVE  h \div g \in Nat /\ h \div g + 1 <= n
<1> DEFINE q == h \div g
<1>1. q \in Nat /\ q * g <= h
  BY SMT
<1>2. SUFFICES ASSUME q >= n PROVE FALSE
  BY <1>1
<1>3. PICK d \in Nat : q = n + d
  <2>1. q - n \in Nat /\ q = n + (q - n)
    BY <1>1, <1>2
  <2> QED  BY <2>1
<1>4. q * g = n * g + d * g /\ d * g \in Nat /\ n * g \in Nat
  <2> HIDE DEF q
  <2>1. (n + d) * g = n * g + d * g
    BY SMT
  <2>2. d * g \in Nat /\ n * g \in Nat
    BY SMT
  <2> QED  BY <1>3, <2>1, <2>2
<1> HIDE DEF q
<1> QED  BY <1>1, <1>4

(***************************************************************************)
(* Each head of the queries has its head of keys within the row.           *)
(***************************************************************************)
LEMMA HeadsOfConfig ==
    ASSUME NEW f \in Files, Accepts(f), NEW c, c = Config(f)
    PROVE  /\ c.heads * c.headDim = c.embd
           /\ \A h \in Below(c.heads) :
                 (h \div (c.heads \div c.headsKv)) * c.headDim + c.headDim <= c.kvDim
<1> DEFINE H == f.heads
           G == HeadsKv(f)
           d == f.embd \div f.heads
           g == H \div G
<1>1. f.embd \in Nat \ {0} /\ H \in Nat \ {0} /\ G \in Nat \ {0}
      /\ f.embd % H = 0 /\ H % G = 0
  BY WeightsTypes
<1>2. c.heads = H /\ c.headsKv = G /\ c.headDim = d /\ c.embd = f.embd /\ c.kvDim = G * d
  BY DEF Config
<1>3. d \in Nat /\ H * d = f.embd
  BY <1>1, ExactDivision
<1>4. g \in Nat /\ G * g = H
  BY <1>1, ExactDivision
<1> HIDE DEF H, G, d, g
<1>5. g # 0
  <2>1. CASE g = 0
    <3>1. G * 0 = 0
      BY <1>1
    <3> QED  BY <1>1, <1>4, <2>1, <3>1
  <2> QED  BY <2>1
<1>6. ASSUME NEW h \in Below(H)  PROVE (h \div g) * d + d <= G * d
  <2>1. h \in Nat /\ h < G * g
    BY <1>1, <1>4 DEF Below
  <2>2. h \div g \in Nat /\ h \div g + 1 <= G
    BY <1>1, <1>4, <1>5, <2>1, QuotientBelow
  <2> DEFINE q == h \div g
  <2>3. q \in Nat /\ q + 1 <= G
    BY <2>2
  <2> HIDE DEF q
  <2>4. (q + 1) * d <= G * d
    <3>1. PICK r \in Nat : G = (q + 1) + r
      <4>1. G - (q + 1) \in Nat /\ G = (q + 1) + (G - (q + 1))
        BY <1>1, <2>3
      <4> QED  BY <4>1
    <3>2. ((q + 1) + r) * d = (q + 1) * d + r * d /\ r * d \in Nat /\ (q + 1) * d \in Nat
      BY <1>3, <2>3, SMT
    <3> QED  BY <3>1, <3>2
  <2>5. (q + 1) * d = q * d + d
    BY <1>3, <2>3, SMT
  <2>6. q * d + d <= G * d
    BY <2>4, <2>5
  <2> QED  BY <2>6 DEF q
<1> QED  BY <1>2, <1>3, <1>6 DEF g

(***************************************************************************)
(* The matrices of a place in a pass, and the buffers they are used with.  *)
(***************************************************************************)
LEMMA LayerShapes ==
    ASSUME Accepts(file), NEW c, c = Config(file), NEW li \in Below(file.layers),
           NEW name \in DOMAIN Shapes(c)
    PROVE  file.tensors[<<name, li>>].dims = Shapes(c)[name]
BY DEF Accepts, LayerFits

LEMMA MatricesFill ==
    ASSUME ModelInv, PassInv, LayerInv, pass # NoPass,
           NEW i \in 1 .. Len(Matrices(pass))
    PROVE  LET size == BufferSize(model, pass.batch)
               m == Matrices(pass)[i]
           IN  /\ m.batch * m.cols = size[UseAt(pass).in]
               /\ m.batch * m.rows = size[UseAt(pass).outs[i]]
<1> DEFINE c == Config(file)
           size == BufferSize(c, pass.batch)
           m == Matrices(pass)[i]
<1>1. model = c /\ Accepts(file) /\ file \in Files /\ pass.batch \in Nat
  BY DEF ModelInv, PassInv
<1>2. CASE AtOutput(pass)
  <2>1. UseAt(pass) = OutputUse
    BY <1>2 DEF UseAt
  <2>2. i = 1 /\ m = Matrix("output", pass)
    BY <2>1 DEF Matrices, OutputUse, Use
  <2>3. file.tensors[OutputOf(file)].dims = <<c.embd, c.vocab>>
    BY <1>1 DEF Accepts, Config
  <2>4. m.cols = c.embd /\ m.rows = c.vocab /\ m.batch = 1
    BY <1>2, <2>2, <2>3 DEF Matrix
  <2>5. size["n1"] = c.embd /\ size["logits"] = c.vocab
    BY DEF BufferSize
  <2>6. c.embd \in Nat /\ c.vocab \in Nat
    <3>1. c.embd \in Nat /\ c.embd = file.embd
      BY <1>1, WeightsTypes DEF Config
    <3>2. file.tensors[<<"token_embd", 0>>].dims \in Seq(Nat \ {0})
          /\ Len(file.tensors[<<"token_embd", 0>>].dims) = 2
      BY <1>1, WeightsAssumption DEF Accepts, EmbeddingFits, Has
    <3>3. file.tensors[<<"token_embd", 0>>].dims[2] \in Nat
      BY <3>2
    <3> QED  BY <3>1, <3>3 DEF Config
  <2>7. m.batch * m.cols = c.embd /\ m.batch * m.rows = c.vocab
    BY <2>4, <2>6
  <2>8. UseAt(pass).in = "n1" /\ UseAt(pass).outs[i] = "logits"
    BY <2>1, <2>2 DEF OutputUse, Use
  <2> QED  BY <1>1, <2>5, <2>7, <2>8
<1>3. CASE ~AtOutput(pass)
  <2> DEFINE use == UseAt(pass)
             name == use.names[i]
  <2>1. use = LayerUses(pass)[pass.k] /\ i \in 1 .. Len(use.names)
    BY <1>3 DEF UseAt, Matrices
  <2>2. pass.li \in Below(file.layers)
    <3>1. model.layers = file.layers /\ file.layers \in Nat
      BY <1>1, WeightsTypes DEF Config
    <3> QED  BY <1>3, <3>1 DEF LayerInv, AtOutput, Below
  <2>3. name \in DOMAIN Shapes(c) /\ name # "output"
        /\ size[use.in] = pass.batch * Shapes(c)[name][1]
        /\ size[use.outs[i]] = pass.batch * Shapes(c)[name][2]
    <3>1. CASE pass.single
      <4>1. pass.k \in 1 .. 4 /\ use = ForwardUses[pass.k]
        BY <2>1, <3>1 DEF LayerInv, LayerUses, ForwardUses
      <4>2. CASE pass.k = 1
        <5>1. use = ForwardUses[1]
          BY <4>1, <4>2
        <5>2. Len(ForwardUses[1].names) = 3
          BY DEF ForwardUses, Use
        <5>3. i \in {1, 2, 3}
          BY <2>1, <5>1, <5>2
        <5> QED  BY <5>1, <5>3 DEF ForwardUses, Use, Shapes, BufferSize
      <4>3. CASE pass.k = 2
        BY <2>1, <4>1, <4>3 DEF ForwardUses, Use, Shapes, BufferSize
      <4>4. CASE pass.k = 3
        <5>1. use = ForwardUses[3]
          BY <4>1, <4>4
        <5>2. Len(ForwardUses[3].names) = 2
          BY DEF ForwardUses, Use
        <5>3. i \in {1, 2}
          BY <2>1, <5>1, <5>2
        <5> QED  BY <5>1, <5>3 DEF ForwardUses, Use, Shapes, BufferSize
      <4>5. CASE pass.k = 4
        <5>1. use = Use(<<"ffn_down">>, "ff", <<"out">>)
          BY <4>1, <4>5 DEF ForwardUses
        <5> QED  BY <2>1, <5>1 DEF Use, Shapes, BufferSize
      <4> HIDE DEF c, size, use, name
      <4> QED  BY <4>1, <4>2, <4>3, <4>4, <4>5
    <3>2. CASE ~pass.single
      <4>1. pass.k \in 1 .. 7 /\ use = BatchUses[pass.k]
        BY <2>1, <3>2 DEF LayerInv, LayerUses, BatchUses
      <4>2. Len(use.names) = 1
        BY <4>1 DEF BatchUses, Use
      <4>3. i = 1
        BY <2>1, <4>2
      <4>4. CASE pass.k = 1
        <5>1. use = Use(<<"attn_q">>, "n", <<"q">>)
          BY <4>1, <4>4 DEF BatchUses
        <5> QED  BY <4>3, <5>1 DEF Use, Shapes, BufferSize
      <4>5. CASE pass.k = 2
        <5>1. use = Use(<<"attn_k">>, "n", <<"k">>)
          BY <4>1, <4>5 DEF BatchUses
        <5> QED  BY <4>3, <5>1 DEF Use, Shapes, BufferSize
      <4>6. CASE pass.k = 3
        <5>1. use = Use(<<"attn_v">>, "n", <<"v">>)
          BY <4>1, <4>6 DEF BatchUses
        <5> QED  BY <4>3, <5>1 DEF Use, Shapes, BufferSize
      <4>7. CASE pass.k = 4
        <5>1. use = Use(<<"attn_output">>, "att", <<"proj">>)
          BY <4>1, <4>7 DEF BatchUses
        <5> QED  BY <4>3, <5>1 DEF Use, Shapes, BufferSize
      <4>8. CASE pass.k = 5
        <5>1. use = Use(<<"ffn_gate">>, "n", <<"gate">>)
          BY <4>1, <4>8 DEF BatchUses
        <5> QED  BY <4>3, <5>1 DEF Use, Shapes, BufferSize
      <4>9. CASE pass.k = 6
        <5>1. use = Use(<<"ffn_up">>, "n", <<"up">>)
          BY <4>1, <4>9 DEF BatchUses
        <5> QED  BY <4>3, <5>1 DEF Use, Shapes, BufferSize
      <4>10. CASE pass.k = 7
        <5>1. use = Use(<<"ffn_down">>, "ff", <<"out">>)
          BY <4>1, <4>10 DEF BatchUses
        <5> QED  BY <4>3, <5>1 DEF Use, Shapes, BufferSize
      <4> HIDE DEF c, size, use, name
      <4> QED  BY <4>1, <4>4, <4>5, <4>6, <4>7, <4>8, <4>9, <4>10
    <3> QED  BY <3>1, <3>2
  <2>4. file.tensors[<<name, pass.li>>].dims = Shapes(c)[name]
    BY <1>1, <2>2, <2>3, LayerShapes
  <2>5. m = Matrix(name, pass)
    BY DEF Matrices
  <2>6. m.cols = Shapes(c)[name][1] /\ m.rows = Shapes(c)[name][2]
        /\ m.batch = pass.batch
    BY <1>3, <2>3, <2>4, <2>5 DEF Matrix
  <2> QED  BY <1>1, <2>3, <2>6
<1> QED  BY <1>2, <1>3

-----------------------------------------------------------------------------
(***************************************************************************)
(* The invariant.                                                          *)
(***************************************************************************)
LEMMA WeightsInvInit == WeightsInit => WeightsInv
BY DEF WeightsInit, KernelInit, WeightsInv, ModelInv, PassInv, LayerInv, RunInv

LEMMA MatricesStay ==
    ASSUME UNCHANGED <<file, model, pass>>
    PROVE  Matrices(pass)' = Matrices(pass) /\ OpOf(pass)' = OpOf(pass)
<1>1. UseAt(pass)' = UseAt(pass)
  BY DEF UseAt, AtOutput, LayerUses
<1>2. \A i : Matrix(UseAt(pass).names[i], pass)' = Matrix(UseAt(pass).names[i], pass)
  BY <1>1 DEF Matrix, AtOutput
<1>3. OpOf(pass)' = OpOf(pass)
  BY DEF OpOf, AtOutput
<1> QED  BY <1>1, <1>2, <1>3 DEF Matrices

LEMMA WeightsInvNext == WeightsInv /\ [WeightsNext]_weightVars => WeightsInv'
<1> SUFFICES ASSUME WeightsInv, [WeightsNext]_weightVars  PROVE WeightsInv'
  OBVIOUS
<1> USE DEF WeightsInv
<1>1. CASE Loads
  BY <1>1 DEF Loads, Idle, kernelVars, ModelInv, PassInv, LayerInv, RunInv, NoModel
<1>2. ASSUME NEW single \in BOOLEAN, NEW B \in Nat \ {0}, NEW compute \in BOOLEAN,
             single => B = 1, PassBegins(single, B, compute)
      PROVE  WeightsInv'
  <2>1. pass' = [single |-> single, batch |-> B, compute |-> compute, li |-> 0, k |-> 1]
        /\ UNCHANGED <<file, model, jobs, ended>> /\ model # NoModel /\ pass = NoPass
    BY <1>2 DEF PassBegins, Idle, kernelVars
  <2>2. ModelInv' /\ PassInv' /\ RunInv'
    BY <1>2, <2>1 DEF ModelInv, PassInv, RunInv
  <2>3. model.layers \in Nat
    BY <2>1, WeightsTypes DEF ModelInv, Config
  <2>4. LayerInv'
    BY <1>2, <2>1, <2>3 DEF LayerInv, LayerUses, ForwardUses, BatchUses
  <2> QED  BY <2>2, <2>4
<1>3. CASE KernelBegins
  <2>1. jobs' = Matrices(pass) /\ pass # NoPass /\ UNCHANGED <<file, model, pass>>
    BY <1>3 DEF KernelBegins, Begins
  <2>2. jobs' = Matrices(pass)' /\ op' = OpOf(pass)'
    <3>1. op' = OpOf(pass)
      BY <1>3, Zenon DEF KernelBegins, Begins, OpOf
    <3> QED  BY <2>1, <3>1, MatricesStay
  <2> QED  BY <2>1, <2>2 DEF ModelInv, PassInv, LayerInv, RunInv, AtOutput
<1>4. CASE KernelRuns
  <2>1. UNCHANGED <<file, model, jobs, op>> /\ ended = "running"
    BY <1>4 DEF KernelRuns, KernelStep, RefusesType, Dispatches, RunsChunk,
                ChunkThrows, Joins
  <2>2. \/ pass' = NoPass /\ ended' # "running"
        \/ pass' = pass
        \/ pass' = Following /\ ended' = "ok"
    BY <1>4 DEF KernelRuns
  <2>3. CASE pass' = NoPass /\ ended' # "running"
    BY <2>1, <2>3 DEF ModelInv, PassInv, LayerInv, RunInv
  <2>4. CASE pass' = pass
    <3>1. Matrices(pass)' = Matrices(pass) /\ OpOf(pass)' = OpOf(pass)
      BY <2>1, <2>4, MatricesStay
    <3> QED  BY <2>1, <2>4, <3>1 DEF ModelInv, PassInv, LayerInv, RunInv
  <2>5. CASE pass' = Following /\ ended' = "ok"
    <3>1. model # NoModel /\ model.layers \in Nat /\ pass # NoPass
      BY <2>1, WeightsTypes DEF ModelInv, PassInv, RunInv, Config
    <3>2. CASE Following = NoPass
      BY <2>1, <2>5, <3>2 DEF ModelInv, PassInv, LayerInv, RunInv
    <3>3. CASE ~AtOutput(pass) /\ pass.k < Len(LayerUses(pass))
               /\ Following = [pass EXCEPT !.k = @ + 1]
      <4>1. PassInv' /\ pass'.k = pass.k + 1 /\ pass'.li = pass.li /\ pass'.single = pass.single
        BY <2>1, <2>5, <3>1, <3>3 DEF PassInv
      <4>2. Len(LayerUses(pass)) \in Nat /\ LayerUses(pass)' = LayerUses(pass)
        BY <4>1 DEF LayerUses, ForwardUses, BatchUses
      <4>3. LayerInv'
        BY <2>1, <3>1, <3>3, <4>1, <4>2 DEF LayerInv, LayerUses
      <4> QED  BY <2>1, <2>5, <4>1, <4>3 DEF ModelInv, RunInv
    <3>4. CASE ~AtOutput(pass) /\ Following = [pass EXCEPT !.li = @ + 1, !.k = 1]
      <4>0. pass \in [single : BOOLEAN, batch : Nat \ {0}, compute : BOOLEAN, li : Nat, k : Nat]
            /\ pass' = [pass EXCEPT !.li = @ + 1, !.k = 1]
        BY <2>5, <3>1, <3>4 DEF PassInv
      <4>1. PassInv' /\ pass'.k = 1 /\ pass'.li = pass.li + 1 /\ pass'.single = pass.single
        <5>1. pass.li \in Nat /\ pass.li + 1 \in Nat /\ 1 \in Nat
          BY <4>0
        <5>2. \A n, m \in Nat : [pass EXCEPT !.li = n, !.k = m] \in
                 [single : BOOLEAN, batch : Nat \ {0}, compute : BOOLEAN, li : Nat, k : Nat]
          BY <4>0, Zenon
        <5>3. pass' \in [single : BOOLEAN, batch : Nat \ {0}, compute : BOOLEAN, li : Nat, k : Nat]
          BY <4>0, <5>1, <5>2
        <5>4. /\ pass'.k = 1 /\ pass'.li = pass.li + 1 /\ pass'.single = pass.single
              /\ pass'.batch = pass.batch
          BY <4>0
        <5> QED  BY <2>1, <3>1, <5>3, <5>4 DEF PassInv
      <4>2. LayerInv'
        BY <2>1, <3>1, <3>4, <4>1
        DEF LayerInv, LayerUses, AtOutput, ForwardUses, BatchUses
      <4> QED  BY <2>1, <2>5, <4>1, <4>2 DEF ModelInv, RunInv
    <3> QED  BY <3>2, <3>3, <3>4 DEF Following
  <2> QED  BY <2>2, <2>3, <2>4, <2>5
<1>5. CASE UNCHANGED weightVars
  <2>1. UNCHANGED <<file, model, pass, jobs, op, ended>>
    BY <1>5 DEF weightVars, kernelVars
  <2>2. Matrices(pass)' = Matrices(pass) /\ OpOf(pass)' = OpOf(pass)
    BY <2>1, MatricesStay
  <2> QED  BY <2>1, <2>2 DEF ModelInv, PassInv, LayerInv, RunInv
<1>6. ASSUME NEW compute \in BOOLEAN, PassBegins(TRUE, 1, compute)
      PROVE  WeightsInv'
  <2>1. TRUE \in BOOLEAN /\ 1 \in Nat \ {0}
    OBVIOUS
  <2> QED  BY <1>2, <1>6, <2>1
<1>7. ASSUME NEW compute \in BOOLEAN, NEW B \in BatchSizes, PassBegins(FALSE, B, compute)
      PROVE  WeightsInv'
  <2>1. FALSE \in BOOLEAN /\ B \in Nat \ {0}
    BY WeightsAssumption
  <2> QED  BY <1>2, <1>7, <2>1
<1> HIDE DEF WeightsInv
<1> QED  BY <1>1, <1>3, <1>4, <1>5, <1>6, <1>7 DEF WeightsNext

(***************************************************************************)
(* WeightsFit for every file, batch size and build: no kernel reads or     *)
(* writes beyond a buffer, or leaves part of one as it was, for a file     *)
(* that load_config accepts.                                               *)
(***************************************************************************)
THEOREM AcceptedModelsFit == WeightsSpec => []WeightsFit
<1>1. WeightsInv => WeightsFit
  <2> SUFFICES ASSUME WeightsInv  PROVE WeightsFit
    OBVIOUS
  <2>1. KernelsFillBuffers
    BY MatricesFill DEF KernelsFillBuffers, WeightsInv, RunInv
  <2>2. HeadsFillRows
    BY HeadsOfConfig DEF HeadsFillRows, WeightsInv, ModelInv
  <2> QED  BY <2>1, <2>2 DEF WeightsFit
<1> QED  BY <1>1, WeightsInvInit, WeightsInvNext, PTL DEF WeightsSpec

-----------------------------------------------------------------------------
(***************************************************************************)
(* Quotients and remainders.                                               *)
(***************************************************************************)
LEMMA DivisionFacts ==
    ASSUME NEW a \in Nat, NEW b \in Nat \ {0}
    PROVE  /\ a \div b \in Nat /\ a % b \in Nat /\ a % b < b
           /\ a = (a \div b) * b + (a % b)
BY SMT

LEMMA MoreTimes ==
    ASSUME NEW q \in Nat, NEW p \in Nat, NEW b \in Nat, q < p
    PROVE  q * b + b <= p * b /\ q * b \in Nat /\ p * b \in Nat
<1>1. PICK d \in Nat : p = (q + 1) + d
  <2>1. p - (q + 1) \in Nat /\ p = (q + 1) + (p - (q + 1))
    OBVIOUS
  <2> QED  BY <2>1
<1>2. ((q + 1) + d) * b = q * b + b + d * b
  BY SMT
<1>3. d * b \in Nat /\ q * b \in Nat /\ p * b \in Nat
  BY SMT
<1> QED  BY <1>1, <1>2, <1>3

LEMMA DivisionUnique ==
    ASSUME NEW q \in Nat, NEW b \in Nat \ {0}, NEW r \in Nat, r < b
    PROVE  /\ q * b + r \in Nat
           /\ (q * b + r) \div b = q /\ (q * b + r) % b = r
<1> DEFINE x == q * b + r
           p == x \div b
           s == x % b
<1>1. x \in Nat /\ q * b \in Nat
  BY SMT
<1>2. p \in Nat /\ s \in Nat /\ s < b /\ x = p * b + s
  BY <1>1, DivisionFacts
<1>3. x = q * b + r
  OBVIOUS
<1> HIDE DEF x, p, s
<1>4. p * b \in Nat
  BY <1>2, SMT
<1>5. ~(q < p)
  <2> SUFFICES ASSUME q < p PROVE FALSE
    OBVIOUS
  <2>1. q * b + b <= p * b
    BY <1>2, MoreTimes
  <2> QED  BY <1>1, <1>2, <1>3, <1>4, <2>1
<1>6. ~(p < q)
  <2> SUFFICES ASSUME p < q PROVE FALSE
    OBVIOUS
  <2>1. p * b + b <= q * b
    BY <1>2, MoreTimes
  <2> QED  BY <1>1, <1>2, <1>3, <1>4, <2>1
<1>7. p = q
  BY <1>2, <1>5, <1>6
<1>8. s = r
  BY <1>1, <1>2, <1>3, <1>4, <1>7
<1> QED  BY <1>1, <1>3, <1>7, <1>8 DEF x, p, s

LEMMA QuotientLess ==
    ASSUME NEW a \in Nat, NEW b \in Nat \ {0}, NEW n \in Nat, a < n * b
    PROVE  a \div b < n
<1>1. a \div b \in Nat /\ (a \div b) * b <= a
  BY DivisionFacts
<1>2. ASSUME n <= a \div b PROVE FALSE
  <2>1. CASE n = a \div b
    BY <1>1, <2>1
  <2>2. CASE n < a \div b
    <3>1. n * b + b <= (a \div b) * b /\ n * b \in Nat /\ (a \div b) * b \in Nat
      BY <1>1, <2>2, MoreTimes
    <3> QED  BY <1>1, <3>1
  <2> QED  BY <1>1, <1>2, <2>1, <2>2
<1> QED  BY <1>1, <1>2

LEMMA BlockPlace ==
    ASSUME NEW n \in Nat, NEW b \in Nat \ {0}, n % b = 0
    PROVE  /\ \A q \in Below(n \div b), r \in Below(b) :
                 /\ q * b + r \in Below(n)
                 /\ (q * b + r) \div b = q /\ (q * b + r) % b = r
           /\ \A c \in Below(n) :
                 /\ c \div b \in Below(n \div b) /\ c % b \in Below(b)
                 /\ (c \div b) * b + (c % b) = c
<1> DEFINE m == n \div b
<1>1. m \in Nat /\ n = m * b
  BY DivisionFacts
<1> HIDE DEF m
<1>2. ASSUME NEW q \in Below(m), NEW r \in Below(b)
      PROVE  /\ q * b + r \in Below(n)
             /\ (q * b + r) \div b = q /\ (q * b + r) % b = r
  <2>1. q \in Nat /\ q < m /\ r \in Nat /\ r < b
    BY <1>1, <1>2 DEF Below
  <2>2. q * b + b <= n /\ q * b \in Nat
    BY <1>1, <2>1, MoreTimes
  <2> QED  BY <2>1, <2>2, DivisionUnique DEF Below
<1>3. ASSUME NEW c \in Below(n)
      PROVE  /\ c \div b \in Below(m) /\ c % b \in Below(b)
             /\ (c \div b) * b + (c % b) = c
  <2>1. c \in Nat /\ c < m * b
    BY <1>1, <1>3 DEF Below
  <2>2. /\ c \div b \in Nat /\ c % b \in Nat /\ c % b < b
        /\ c = (c \div b) * b + (c % b) /\ c \div b < m
    BY <1>1, <2>1, DivisionFacts, QuotientLess
  <2> QED  BY <1>1, <2>2 DEF Below
<1> QED  BY <1>2, <1>3 DEF m

(***************************************************************************)
(* A loop in strides with a loop over each stride meets every number below *)
(* the place it stops at.                                                  *)
(***************************************************************************)
LEMMA StridePlace ==
    ASSUME NEW n \in Nat, NEW b \in Nat \ {0}
    PROVE  /\ Stop(n, b) \in Nat /\ Stop(n, b) <= n
           /\ n % b = 0 => Stop(n, b) = n
           /\ \A k \in Strides(n, b), j \in Below(b) :
                 k + j \in Below(Stop(n, b)) /\ (k + j) % b = j
           /\ \A c \in Below(Stop(n, b)) :
                 c - (c % b) \in Strides(n, b) /\ c % b \in Below(b)
                 /\ (c - (c % b)) + (c % b) = c
<1> DEFINE m == n \div b
           rest == n % b
<1>1. m \in Nat /\ rest \in Nat /\ rest < b /\ n = m * b + rest
  BY DivisionFacts
<1>2. Stop(n, b) = n - rest
  BY DEF Stop
<1> HIDE DEF m, rest
<1>3. m * b \in Nat
  BY <1>1, SMT
<1>4. Stop(n, b) = m * b
  BY <1>1, <1>2, <1>3
<1>5. ASSUME NEW k \in Strides(n, b), NEW j \in Below(b)
      PROVE  k + j \in Below(m * b) /\ (k + j) % b = j
  <2>1. k \in Nat /\ k % b = 0 /\ k + b <= n /\ j \in Nat /\ j < b
    BY DEF Strides, Below
  <2> DEFINE q == k \div b
  <2>2. q \in Nat /\ k = q * b
    BY <2>1, DivisionFacts
  <2> HIDE DEF q
  <2>3. (k + j) % b = j
    <3>1. j \in Nat /\ j < b /\ q \in Nat
      BY <2>1, <2>2
    <3>2. (q * b + j) % b = j
      BY ONLY <3>1, b \in Nat \ {0}, DivisionUnique
    <3> QED  BY <2>2, <3>2
  <2>4. q < m
    <3> SUFFICES ASSUME ~(q < m) PROVE FALSE
      OBVIOUS
    <3>1. CASE q = m
      BY <1>1, <1>3, <2>1, <2>2, <3>1
    <3>2. CASE m < q
      <4>1. m * b + b <= q * b
        BY <1>1, <2>2, <3>2, MoreTimes
      <4> QED  BY <1>1, <1>3, <2>1, <2>2, <4>1
    <3> QED  BY <1>1, <2>2, <3>1, <3>2
  <2>5. q * b + b <= m * b
    BY <1>1, <2>2, <2>4, MoreTimes
  <2> QED  BY <1>3, <2>1, <2>2, <2>3, <2>5 DEF Below
<1>6. ASSUME NEW c \in Below(m * b)
      PROVE  c - (c % b) \in Strides(n, b) /\ c % b \in Below(b)
             /\ (c - (c % b)) + (c % b) = c
  <2>1. c \in Nat /\ c < m * b
    BY <1>3, <1>6 DEF Below
  <2> DEFINE q == c \div b
             r == c % b
  <2>2. q \in Nat /\ r \in Nat /\ r < b /\ c = q * b + r /\ q < m
    BY <1>1, <2>1, DivisionFacts, QuotientLess
  <2> HIDE DEF q, r
  <2>3. q * b + b <= m * b /\ q * b \in Nat
    BY <1>1, <2>2, MoreTimes
  <2>4. c - r = q * b /\ (c - r) + r = c
    BY <2>2, <2>3
  <2>5. (q * b) % b = 0
    <3>1. (q * b + 0) % b = 0
      BY <2>2, DivisionUnique
    <3>2. q * b + 0 = q * b
      BY <2>3
    <3> QED  BY <3>1, <3>2
  <2>6. q * b \in Strides(n, b)
    BY <1>1, <1>3, <2>3, <2>5 DEF Strides, Below
  <2> QED  BY <2>2, <2>4, <2>6 DEF r, Below
<1> QED  BY <1>1, <1>2, <1>3, <1>4, <1>5, <1>6

-----------------------------------------------------------------------------
(***************************************************************************)
(* Sets of as many elements.                                               *)
(***************************************************************************)
LEMMA BelowIsFinite ==
    ASSUME NEW n \in Nat
    PROVE  IsFiniteSet(Below(n)) /\ Cardinality(Below(n)) = n
<1>1. 0 \in Int /\ n - 1 \in Int
  OBVIOUS
<1>2. /\ IsFiniteSet(0 .. (n - 1))
      /\ Cardinality(0 .. (n - 1)) = IF 0 > n - 1 THEN 0 ELSE (n - 1) - 0 + 1
  BY <1>1, FS_Interval
<1> QED  BY <1>2 DEF Below

\* An injective function on Below(n) has n values.
LEMMA ValuesApart ==
    ASSUME NEW n \in Nat, NEW f, DOMAIN f = Below(n),
           \A c, d \in Below(n) : f[c] = f[d] => c = d
    PROVE  Cardinality({f[c] : c \in Below(n)}) = n
<1> DEFINE S == Below(n)
           T == {f[c] : c \in S}
           g == [c \in S |-> f[c]]
<1>1. g \in Bijection(S, T)
  <2>1. g \in [S -> T]
    OBVIOUS
  <2>2. \A c, d \in S : g[c] = g[d] => c = d
    OBVIOUS
  <2>3. \A t \in T : \E c \in S : g[c] = t
    OBVIOUS
  <2> HIDE DEF g, T
  <2> QED  BY <2>1, <2>2, <2>3 DEF Bijection, Injection, IsInjective, Surjection
<1>2. ExistsBijection(S, T)
  BY <1>1 DEF ExistsBijection
<1>3. IsFiniteSet(S) /\ Cardinality(S) = n
  BY BelowIsFinite
<1> HIDE DEF S, T
<1>4. Cardinality(T) = Cardinality(S)
  BY <1>2, <1>3, FS_Bijection
<1> QED  BY <1>3, <1>4 DEF S, T

(***************************************************************************)
(* A loop whose turns correspond to the columns, col from the turns and    *)
(* turn back, and that multiplies the weight of its column with the        *)
(* activation of its column, is a walk over the row.                       *)
(***************************************************************************)
IsWalk(turns, row, act, n) ==
    /\ {turns[t] : t \in DOMAIN turns} = {<<row[c], act[c]>> : c \in Below(n)}
    /\ Cardinality(DOMAIN turns) = n

LEMMA WalkFromColumns ==
    ASSUME NEW n \in Nat, NEW turns, NEW row, NEW act, NEW col, NEW turn,
           col \in [DOMAIN turns -> Below(n)], turn \in [Below(n) -> DOMAIN turns],
           \A t \in DOMAIN turns : turn[col[t]] = t,
           \A c \in Below(n) : col[turn[c]] = c,
           \A t \in DOMAIN turns : turns[t] = <<row[col[t]], act[col[t]]>>
    PROVE  IsWalk(turns, row, act, n)
<1> DEFINE T == DOMAIN turns
           S == Below(n)
<1>1. {turns[t] : t \in T} = {<<row[c], act[c]>> : c \in S}
  <2> DEFINE A == {turns[t] : t \in T}
             B == {<<row[c], act[c]>> : c \in S}
  <2>1. ASSUME NEW t \in T PROVE turns[t] \in B
    BY Zenon
  <2>2. ASSUME NEW c \in S PROVE <<row[c], act[c]>> \in A
    <3>1. turn[c] \in T /\ turns[turn[c]] = <<row[c], act[c]>>
      BY Zenon
    <3> QED  BY <3>1, Zenon
  <2>3. A \subseteq B
    BY <2>1, ZenonT(60)
  <2>4. B \subseteq A
    BY <2>2, ZenonT(60)
  <2> QED  BY <2>3, <2>4, Zenon
<1>2. turn \in Bijection(S, T)
  <2>1. turn \in [S -> T]
    OBVIOUS
  <2>2. \A c, d \in S : turn[c] = turn[d] => c = d
    BY Zenon
  <2>3. \A t \in T : \E c \in S : turn[c] = t
    BY Zenon
  <2> HIDE DEF S, T
  <2> QED  BY <2>1, <2>2, <2>3 DEF Bijection, Injection, IsInjective, Surjection
<1>3. ExistsBijection(S, T)
  BY <1>2 DEF ExistsBijection
<1>4. IsFiniteSet(S) /\ Cardinality(S) = n
  BY BelowIsFinite
<1> HIDE DEF S, T
<1>5. Cardinality(T) = Cardinality(S)
  BY <1>3, <1>4, FS_Bijection
<1> QED  BY <1>1, <1>4, <1>5, Zenon DEF S, T, IsWalk

-----------------------------------------------------------------------------
(***************************************************************************)
(* The constants: halves of a block, and lanes in them.                    *)
(***************************************************************************)
LEMMA HalfFacts ==
    /\ Half \in Nat \ {0} /\ QK = 2 * Half /\ QK % 2 = 0 /\ QK \div Half = 2
    /\ Half % Lanes = 0 /\ QK % Half = 0 /\ QK % Lanes = 0
<1> DEFINE L == Lanes
           D == 2 * L
           m == QK \div D
<1>1. L \in Nat /\ L # 0 /\ QK \in Nat /\ QK # 0 /\ D \in Nat \ {0} /\ QK % D = 0
  BY QuantBlocksAssumption
<1>2. m \in Nat /\ QK = m * (2 * L)
  <2>1. D = 2 * L
    OBVIOUS
  <2> HIDE DEF D
  <2>2. m \in Nat /\ QK % D \in Nat /\ QK = m * D + (QK % D) /\ m * D \in Nat
    BY <1>1, DivisionFacts, SMT
  <2>3. QK = m * D
    BY <1>1, <2>2
  <2> HIDE DEF m
  <2> QED  BY <2>1, <2>2, <2>3
<1> HIDE DEF D, m
<1>3. m * L \in Nat /\ m * (2 * L) = 2 * (m * L) /\ m * (2 * L) = (2 * m) * L
      /\ 2 * m \in Nat
  BY <1>1, <1>2, SMT
<1> DEFINE h == m * L
<1>4. h \in Nat /\ QK = 2 * h /\ h # 0 /\ QK = (2 * m) * L
  BY <1>1, <1>2, <1>3
<1>5. h % L = 0
  <2>1. (m * L + 0) % L = 0
    BY <1>1, <1>2, DivisionUnique
  <2> QED  BY <1>3, <2>1
<1>6. QK % L = 0
  <2>1. ((2 * m) * L + 0) % L = 0
    BY <1>1, <1>3, DivisionUnique
  <2>2. (2 * m) * L + 0 = QK
    BY <1>1, <1>4
  <2> QED  BY <2>1, <2>2
<1> HIDE DEF h
<1>7. Half = h /\ QK % 2 = 0
  BY <1>4 DEF Half
<1>8. QK % h = 0 /\ QK \div h = 2
  <2>1. (2 * h + 0) % h = 0 /\ (2 * h + 0) \div h = 2
    BY <1>4, DivisionUnique
  <2>2. 2 * h + 0 = QK
    BY <1>4
  <2> QED  BY <2>1, <2>2
<1> QED  BY <1>1, <1>4, <1>5, <1>6, <1>7, <1>8

LEMMA Q6BlockFacts == Q6Block \in Nat \ {0} /\ Q6Block % Q6Run = 0 /\ Q6Block \div Q6Run = 8
<1>1. (8 * Q6Run + 0) % Q6Run = 0 /\ (8 * Q6Run + 0) \div Q6Run = 8
  BY QuantBlocksAssumption, DivisionUnique
<1>2. 8 * Q6Run + 0 = Q6Block /\ Q6Block \in Nat \ {0}
  BY QuantBlocksAssumption DEF Q6Block
<1> QED  BY <1>1, <1>2

(***************************************************************************)
(* The weights of a row are stored in different bits.                      *)
(***************************************************************************)
LEMMA ApartFrom ==
    ASSUME NEW n \in Nat, NEW row, DOMAIN row = Below(n), NEW low, NEW high,
           DOMAIN low = Below(n), DOMAIN high = Below(n),
           \A c \in Below(n) :
              low[c] = IF row[c][1] = "q6" THEN <<row[c][2], row[c][3].ql>> ELSE row[c],
           \A c \in Below(n) :
              high[c] = IF row[c][1] = "q6" THEN <<row[c][2], row[c][3].qh>> ELSE row[c],
           \A c, d \in Below(n) : low[c] = low[d] => c = d,
           \A c, d \in Below(n) : high[c] = high[d] => c = d
    PROVE  Apart(row)
<1> DEFINE Low(w) == IF w[1] = "q6" THEN <<w[2], w[3].ql>> ELSE w
           High(w) == IF w[1] = "q6" THEN <<w[2], w[3].qh>> ELSE w
<1>1. Cardinality({low[c] : c \in Below(n)}) = n
  BY ValuesApart
<1>2. Cardinality({high[c] : c \in Below(n)}) = n
  BY ValuesApart
<1>3. Cardinality(Below(n)) = n
  BY BelowIsFinite
<1>4. \A c \in Below(n) : low[c] = Low(row[c]) /\ high[c] = High(row[c])
  BY Zenon
<1>5. Apart(row) = /\ Cardinality({Low(row[c]) : c \in DOMAIN row}) = Cardinality(DOMAIN row)
                   /\ Cardinality({High(row[c]) : c \in DOMAIN row}) = Cardinality(DOMAIN row)
  BY Zenon DEF Apart
<1> HIDE DEF Low, High
<1>6. /\ {low[c] : c \in Below(n)} = {Low(row[c]) : c \in Below(n)}
      /\ {high[c] : c \in Below(n)} = {High(row[c]) : c \in Below(n)}
  BY <1>4
<1> QED  BY <1>1, <1>2, <1>3, <1>5, <1>6, Zenon

LEMMA ApartAsStored ==
    ASSUME NEW n \in Nat, NEW row, DOMAIN row = Below(n),
           \A c \in Below(n) : row[c][1] # "q6",
           \A c, d \in Below(n) : row[c] = row[d] => c = d
    PROVE  Apart(row)
<1> DEFINE Low(w) == IF w[1] = "q6" THEN <<w[2], w[3].ql>> ELSE w
           High(w) == IF w[1] = "q6" THEN <<w[2], w[3].qh>> ELSE w
<1>1. Cardinality({row[c] : c \in Below(n)}) = n
  BY ValuesApart
<1>2. Cardinality(Below(n)) = n
  BY BelowIsFinite
<1>3. \A c \in Below(n) : row[c] = Low(row[c]) /\ row[c] = High(row[c])
  BY Zenon
<1>4. Apart(row) = /\ Cardinality({Low(row[c]) : c \in DOMAIN row}) = Cardinality(DOMAIN row)
                   /\ Cardinality({High(row[c]) : c \in DOMAIN row}) = Cardinality(DOMAIN row)
  BY Zenon DEF Apart
<1> HIDE DEF Low, High
<1>5. /\ {row[c] : c \in Below(n)} = {Low(row[c]) : c \in Below(n)}
      /\ {row[c] : c \in Below(n)} = {High(row[c]) : c \in Below(n)}
  BY <1>3
<1> QED  BY <1>1, <1>2, <1>4, <1>5, Zenon

LEMMA PlainApart == ASSUME NEW n \in Nat PROVE Apart(Plain(n))
<1> DEFINE W == Plain(n)
<1>1. DOMAIN W = Below(n) /\ \A c \in Below(n) : W[c] = <<"plain", c>>
  BY DEF Plain
<1>2. \A c \in Below(n) : W[c][1] # "q6"
  BY <1>1
<1>3. \A c, d \in Below(n) : W[c] = W[d] => c = d
  BY <1>1
<1> HIDE DEF W
<1>4. Apart(W)
  BY <1>1, <1>2, <1>3, ApartAsStored
<1> QED  BY <1>4 DEF W

LEMMA NibblePlace ==
    ASSUME NEW n \in Nat, n % QK = 0
    PROVE  /\ \A c \in Below(n) :
                 /\ c \div QK \in Below(n \div QK) /\ c % QK \in Below(QK)
                 /\ (c \div QK) * QK + (c % QK) = c
                 /\ (c % QK) \div Half \in {0, 1} /\ (c % QK) % Half \in Below(Half)
                 /\ ((c % QK) \div Half) * Half + ((c % QK) % Half) = c % QK
           /\ \A b \in Below(n \div QK), h \in {0, 1}, s \in Below(Half) :
                 /\ h * Half + s \in Below(QK)
                 /\ b * QK + (h * Half + s) \in Below(n)
                 /\ (b * QK + (h * Half + s)) \div QK = b
                 /\ (b * QK + (h * Half + s)) % QK = h * Half + s
                 /\ (h * Half + s) \div Half = h /\ (h * Half + s) % Half = s
<1>1. Below(2) = {0, 1}
  BY DEF Below
<1>2. /\ \A q \in {0, 1}, r \in Below(Half) :
            /\ q * Half + r \in Below(QK)
            /\ (q * Half + r) \div Half = q /\ (q * Half + r) % Half = r
      /\ \A c \in Below(QK) :
            /\ c \div Half \in {0, 1} /\ c % Half \in Below(Half)
            /\ (c \div Half) * Half + (c % Half) = c
  <2>1. Half \in Nat \ {0} /\ QK \in Nat /\ QK % Half = 0 /\ QK \div Half = 2
    BY HalfFacts, QuantBlocksAssumption
  <2>2. Below(QK \div Half) = {0, 1}
    BY <1>1, <2>1
  <2>3. /\ \A q \in Below(QK \div Half), r \in Below(Half) :
              /\ q * Half + r \in Below(QK)
              /\ (q * Half + r) \div Half = q /\ (q * Half + r) % Half = r
        /\ \A c \in Below(QK) :
              /\ c \div Half \in Below(QK \div Half) /\ c % Half \in Below(Half)
              /\ (c \div Half) * Half + (c % Half) = c
    <3> HIDE DEF Half
    <3> QED  BY ONLY <2>1, BlockPlace
  <2> QED  BY <2>2, <2>3, Zenon
<1>3. /\ \A q \in Below(n \div QK), r \in Below(QK) :
            /\ q * QK + r \in Below(n)
            /\ (q * QK + r) \div QK = q /\ (q * QK + r) % QK = r
      /\ \A c \in Below(n) :
            /\ c \div QK \in Below(n \div QK) /\ c % QK \in Below(QK)
            /\ (c \div QK) * QK + (c % QK) = c
  <2>1. QK \in Nat \ {0}
    BY QuantBlocksAssumption
  <2> QED  BY ONLY <2>1, n \in Nat, n % QK = 0, BlockPlace
<1>4. ASSUME NEW c \in Below(n)
      PROVE  /\ c \div QK \in Below(n \div QK) /\ c % QK \in Below(QK)
             /\ (c \div QK) * QK + (c % QK) = c
             /\ (c % QK) \div Half \in {0, 1} /\ (c % QK) % Half \in Below(Half)
             /\ ((c % QK) \div Half) * Half + ((c % QK) % Half) = c % QK
  <2>1. c % QK \in Below(QK)
    BY <1>3
  <2> QED  BY <1>2, <1>3, <2>1
<1>5. ASSUME NEW b \in Below(n \div QK), NEW h \in {0, 1}, NEW s \in Below(Half)
      PROVE  /\ h * Half + s \in Below(QK)
             /\ b * QK + (h * Half + s) \in Below(n)
             /\ (b * QK + (h * Half + s)) \div QK = b
             /\ (b * QK + (h * Half + s)) % QK = h * Half + s
             /\ (h * Half + s) \div Half = h /\ (h * Half + s) % Half = s
  <2>1. h * Half + s \in Below(QK)
    BY <1>2
  <2> QED  BY <1>2, <1>3, <2>1
<1> QED  BY <1>4, <1>5

LEMMA Q4Apart == ASSUME NEW n \in Nat, n % QK = 0 PROVE Apart(Q4Row(n))
<1> DEFINE W == Q4Row(n)
<1>1. DOMAIN W = Below(n)
      /\ \A c \in Below(n) : W[c] = <<"q4", c \div QK, (c % QK) % Half, (c % QK) \div Half>>
  BY DEF Q4Row, Nibble
<1>2. \A c \in Below(n) : W[c][1] # "q6"
  BY <1>1
<1>3. ASSUME NEW c \in Below(n), NEW d \in Below(n), W[c] = W[d] PROVE c = d
  <2>1. /\ c \div QK = d \div QK /\ (c % QK) % Half = (d % QK) % Half
        /\ (c % QK) \div Half = (d % QK) \div Half
    BY <1>1, <1>3
  <2>2. c % QK = d % QK
    BY <2>1, NibblePlace
  <2> QED  BY <2>1, <2>2, NibblePlace
<1> HIDE DEF W
<1>4. Apart(W)
  BY <1>1, <1>2, <1>3, ApartAsStored
<1> QED  BY <1>4 DEF W

(***************************************************************************)
(* Q6_K: the byte of the low four bits and which half, or the byte of the  *)
(* high two bits and which pair, give the element back.                    *)
(***************************************************************************)
LEMMA RunPlace ==
    ASSUME NEW i \in Below(Q6Block)
    PROVE  /\ i \div Q6Run \in 0 .. 7 /\ i % Q6Run \in Nat /\ i % Q6Run < Q6Run
           /\ i = (i \div Q6Run) * Q6Run + (i % Q6Run)
<1>1. i \div Q6Run \in Below(Q6Block \div Q6Run) /\ i % Q6Run \in Below(Q6Run)
      /\ (i \div Q6Run) * Q6Run + (i % Q6Run) = i
  <2>1. Q6Block \in Nat /\ Q6Run \in Nat \ {0} /\ Q6Block % Q6Run = 0
    BY Q6BlockFacts, QuantBlocksAssumption
  <2>2. \A c \in Below(Q6Block) :
           /\ c \div Q6Run \in Below(Q6Block \div Q6Run) /\ c % Q6Run \in Below(Q6Run)
           /\ (c \div Q6Run) * Q6Run + (c % Q6Run) = c
    BY ONLY <2>1, BlockPlace
  <2> QED  BY <2>2
<1>2. Below(8) = 0 .. 7 /\ Q6Run \in Nat
  BY QuantBlocksAssumption DEF Below
<1> QED  BY <1>1, <1>2, Q6BlockFacts DEF Below

LEMMA Q6BitsOf ==
    ASSUME NEW i \in Below(Q6Block)
    PROVE  \E g \in {0, 1}, p \in {0, 1}, h \in {0, 1}, j \in Below(Q6Run) :
              /\ i = (4 * g + 2 * h + p) * Q6Run + j
              /\ Q6Bits(i).ql = <<(2 * g + p) * Q6Run + j, h>>
              /\ Q6Bits(i).qh = <<g * Q6Run + j, 2 * h + p>>
<1> DEFINE R == Q6Run
           run == i \div R
           j == i % R
           local == run % 4
           g == run \div 4
           p == local % 2
           h == local \div 2
<1>1. R \in Nat /\ run \in 0 .. 7 /\ j \in Nat /\ j < R /\ i = run * R + j
  BY QuantBlocksAssumption, RunPlace
<1>2. Q6Bits(i) = [ql |-> <<g * 2 * R + p * R + j, h>>, qh |-> <<g * R + j, local>>]
  BY DEF Q6Bits
<1> HIDE DEF R, run, j
<1>3. g \in {0, 1} /\ p \in {0, 1} /\ h \in {0, 1} /\ local = 2 * h + p /\ run = 4 * g + local
  BY <1>1
<1> HIDE DEF local, g, p, h
<1>4. g * 2 * R + p * R = (2 * g + p) * R
  BY <1>1, <1>3
<1>5. run = 4 * g + 2 * h + p
  BY <1>1, <1>3
<1>6. /\ i = (4 * g + 2 * h + p) * R + j
      /\ Q6Bits(i).ql = <<(2 * g + p) * R + j, h>>
      /\ Q6Bits(i).qh = <<g * R + j, 2 * h + p>>
  <2>1. i = (4 * g + 2 * h + p) * R + j
    BY <1>1, <1>5, Zenon
  <2>2. g * 2 * R + p * R + j = (2 * g + p) * R + j
    BY <1>4, Zenon
  <2>3. Q6Bits(i).ql = <<g * 2 * R + p * R + j, h>>
    BY <1>2
  <2>4. Q6Bits(i).qh = <<g * R + j, local>>
    BY <1>2
  <2>5. Q6Bits(i).ql = <<(2 * g + p) * R + j, h>>
    BY <2>2, <2>3, Zenon
  <2>6. Q6Bits(i).qh = <<g * R + j, 2 * h + p>>
    BY <1>3, <2>4, Zenon
  <2> QED  BY <2>1, <2>5, <2>6
<1>7. j \in Below(R)
  BY <1>1 DEF Below
<1> QED  BY <1>3, <1>6, <1>7 DEF R

LEMMA Q6BitsApart ==
    ASSUME NEW i \in Below(Q6Block), NEW k \in Below(Q6Block)
    PROVE  /\ Q6Bits(i).ql = Q6Bits(k).ql => i = k
           /\ Q6Bits(i).qh = Q6Bits(k).qh => i = k
<1> DEFINE R == Q6Run
<1>1. PICK g \in {0, 1}, p \in {0, 1}, h \in {0, 1}, j \in Below(R) :
              /\ i = (4 * g + 2 * h + p) * R + j
              /\ Q6Bits(i).ql = <<(2 * g + p) * R + j, h>>
              /\ Q6Bits(i).qh = <<g * R + j, 2 * h + p>>
  BY Q6BitsOf
<1>2. PICK gg \in {0, 1}, pp \in {0, 1}, hh \in {0, 1}, jj \in Below(R) :
              /\ k = (4 * gg + 2 * hh + pp) * R + jj
              /\ Q6Bits(k).ql = <<(2 * gg + pp) * R + jj, hh>>
              /\ Q6Bits(k).qh = <<gg * R + jj, 2 * hh + pp>>
  BY Q6BitsOf
<1>3. R \in Nat \ {0} /\ j \in Nat /\ j < R /\ jj \in Nat /\ jj < R
  BY <1>1, <1>2, QuantBlocksAssumption DEF Below
<1>4. ASSUME Q6Bits(i).ql = Q6Bits(k).ql PROVE i = k
  <2> DEFINE a == 2 * g + p
             b == 2 * gg + pp
  <2>1. a * R + j = b * R + jj /\ h = hh
    BY <1>1, <1>2, <1>4
  <2>2. a \in Nat /\ b \in Nat
    OBVIOUS
  <2> HIDE DEF a, b
  <2>3. a = b /\ j = jj
    <3>1. (a * R + j) \div R = a /\ (a * R + j) % R = j
      BY <1>3, <2>2, DivisionUnique
    <3>2. (b * R + jj) \div R = b /\ (b * R + jj) % R = jj
      BY <1>3, <2>2, DivisionUnique
    <3> QED  BY <2>1, <3>1, <3>2, Zenon
  <2>4. g = gg /\ p = pp
    BY <2>3 DEF a, b
  <2> QED  BY <1>1, <1>2, <2>1, <2>3, <2>4
<1>5. ASSUME Q6Bits(i).qh = Q6Bits(k).qh PROVE i = k
  <2>1. g * R + j = gg * R + jj /\ 2 * h + p = 2 * hh + pp
    BY <1>1, <1>2, <1>5
  <2>2. g = gg /\ j = jj
    BY <1>3, <2>1, DivisionUnique
  <2>3. h = hh /\ p = pp
    BY <2>1
  <2> QED  BY <1>1, <1>2, <2>2, <2>3
<1> QED  BY <1>4, <1>5

LEMMA Q6Apart == ASSUME NEW n \in Nat, n % Q6Block = 0 PROVE Apart(Q6Row(n))
<1> DEFINE B == Q6Block
           W == Q6Row(n)
           low == [c \in Below(n) |-> <<c \div B, Q6Bits(c % B).ql>>]
           high == [c \in Below(n) |-> <<c \div B, Q6Bits(c % B).qh>>]
<1>1. DOMAIN W = Below(n)
      /\ \A c \in Below(n) : W[c] = <<"q6", c \div B, Q6Bits(c % B)>>
  BY DEF Q6Row
<1>2. \A c \in Below(n) : c % B \in Below(B) /\ (c \div B) * B + (c % B) = c
  BY Q6BlockFacts, BlockPlace
<1>3. DOMAIN low = Below(n) /\ DOMAIN high = Below(n)
  OBVIOUS
<1>4. \A c \in Below(n) :
         /\ low[c] = <<c \div B, Q6Bits(c % B).ql>>
         /\ high[c] = <<c \div B, Q6Bits(c % B).qh>>
  OBVIOUS
<1> HIDE DEF W, low, high, B
<1>5. \A c \in Below(n) :
         low[c] = IF W[c][1] = "q6" THEN <<W[c][2], W[c][3].ql>> ELSE W[c]
  BY <1>1, <1>4
<1>6. \A c \in Below(n) :
         high[c] = IF W[c][1] = "q6" THEN <<W[c][2], W[c][3].qh>> ELSE W[c]
  BY <1>1, <1>4
<1>7. ASSUME NEW c \in Below(n), NEW d \in Below(n),
             low[c] = low[d] \/ high[c] = high[d]
      PROVE  c = d
  <2>1. c \div B = d \div B
    BY <1>4, <1>7
  <2>2. Q6Bits(c % B).ql = Q6Bits(d % B).ql \/ Q6Bits(c % B).qh = Q6Bits(d % B).qh
    BY <1>4, <1>7
  <2>3. c % B = d % B
    BY <1>2, <2>2, Q6BitsApart DEF B
  <2> QED  BY <1>2, <2>1, <2>3
<1>8. Apart(W)
  <2>1. \A c, d \in Below(n) : low[c] = low[d] => c = d
    BY <1>7
  <2>2. \A c, d \in Below(n) : high[c] = high[d] => c = d
    BY <1>7
  <2>3. DOMAIN W = Below(n)
    BY <1>1
  <2> QED  BY ONLY n \in Nat, <1>3, <1>5, <1>6, <2>1, <2>2, <2>3, ApartFrom,
             SMTT(60)
<1> QED  BY <1>8 DEF W

-----------------------------------------------------------------------------
(***************************************************************************)
(* The loops, each a walk over its row.                                    *)
(***************************************************************************)
Columnwise(n) == [c \in Below(n) |-> c]

LEMMA F16Walk == ASSUME NEW n \in Nat PROVE IsWalk(DotF16(n), Plain(n), Columnwise(n), n)
<1> DEFINE w == DotF16(n)
           id == Columnwise(n)
           P == Plain(n)
<1>1. DOMAIN w = Below(n)
  BY DEF DotF16
<1>2. id \in [Below(n) -> Below(n)] /\ \A c \in Below(n) : id[c] = c
  BY DEF Columnwise
<1>3. \A t \in DOMAIN w : w[t] = <<P[id[t]], id[id[t]]>>
  BY DEF DotF16, Plain, Columnwise
<1> HIDE DEF w, id, P
<1>4. IsWalk(w, P, id, n)
  <2>1. id \in [DOMAIN w -> Below(n)] /\ id \in [Below(n) -> DOMAIN w]
    BY <1>1, <1>2, Zenon
  <2>2. \A t \in DOMAIN w : id[id[t]] = t
    BY <1>1, <1>2, Zenon
  <2>3. \A c \in Below(n) : id[id[c]] = c
    BY <1>2, Zenon
  <2> QED  BY <1>3, <2>1, <2>2, <2>3, WalkFromColumns
<1> QED  BY <1>4 DEF w, id, P

LEMMA F32Walk == ASSUME NEW n \in Nat PROVE IsWalk(DotF32(n), Plain(n), Columnwise(n), n)
<1> DEFINE w == DotF32(n)
           id == Columnwise(n)
           P == Plain(n)
           L == Lanes
           end == Stop(n, L)
           col == [t \in F32Turns(n) |-> t[1] + t[2]]
           turn == [c \in Below(n) |-> IF c < end THEN <<c - (c % L), c % L>> ELSE <<c, 0>>]
<1>1. L \in Nat \ {0}
  BY QuantBlocksAssumption
<1>2. /\ end \in Nat /\ end <= n
      /\ \A k \in Strides(n, L), j \in Below(L) : k + j \in Below(end) /\ (k + j) % L = j
      /\ \A c \in Below(end) :
            c - (c % L) \in Strides(n, L) /\ c % L \in Below(L) /\ (c - (c % L)) + (c % L) = c
  <2> HIDE DEF L
  <2> QED  BY <1>1, StridePlace
<1>3. DOMAIN w = F32Turns(n)
      /\ F32Turns(n) = (Strides(n, L) \X Below(L)) \cup ((end .. (n - 1)) \X {0})
  BY DEF DotF32, F32Turns, Rest
<1>4. \A k \in Strides(n, L), j \in Below(L) : k \in Nat /\ j \in Nat
  BY <1>1 DEF Strides, Below
<1>5. /\ \A t \in F32Turns(n) : col[t] = t[1] + t[2]
      /\ \A c \in Below(n) : turn[c] = IF c < end THEN <<c - (c % L), c % L>> ELSE <<c, 0>>
      /\ \A t \in F32Turns(n) : w[t] = <<<<"plain", t[1] + t[2]>>, t[1] + t[2]>>
      /\ \A c \in Below(n) : P[c] = <<"plain", c>> /\ id[c] = c
      /\ DOMAIN col = F32Turns(n) /\ DOMAIN turn = Below(n)
      /\ col = [t \in F32Turns(n) |-> col[t]] /\ turn = [c \in Below(n) |-> turn[c]]
  BY DEF DotF32, Plain, Columnwise
<1> HIDE DEF w, id, P, L, end, col, turn
<1>6. ASSUME NEW t \in F32Turns(n)
      PROVE  col[t] \in Below(n) /\ turn[col[t]] = t
  <2>1. CASE t \in Strides(n, L) \X Below(L)
    <3>1. PICK k \in Strides(n, L), j \in Below(L) : t = <<k, j>>
      BY <2>1
    <3>2. k + j \in Below(end) /\ (k + j) % L = j /\ k \in Nat /\ j \in Nat
      BY <1>2, <1>4
    <3>3. col[t] = k + j /\ k + j < end /\ k + j \in Below(n)
      BY <1>2, <1>5, <3>1, <3>2 DEF Below
    <3>4. turn[k + j] = <<(k + j) - ((k + j) % L), (k + j) % L>>
      BY <1>5, <3>3
    <3>5. (k + j) - j = k
      BY <3>2
    <3> QED  BY <3>1, <3>2, <3>3, <3>4, <3>5
  <2>2. CASE t \in (end .. (n - 1)) \X {0}
    <3>1. PICK k \in end .. (n - 1) : t = <<k, 0>>
      BY <2>2
    <3>2. k \in Nat /\ k \in Below(n) /\ ~(k < end) /\ k + 0 = k
      BY <1>2 DEF Below
    <3> QED  BY <1>5, <3>1, <3>2
  <2> QED  BY <1>3, <2>1, <2>2
<1>7. ASSUME NEW c \in Below(n)
      PROVE  turn[c] \in F32Turns(n) /\ col[turn[c]] = c
  <2>0. c \in Nat /\ c <= n - 1
    BY DEF Below
  <2>1. CASE c < end
    <3>1. c \in Below(end)
      BY <1>2, <2>0, <2>1 DEF Below
    <3>2. c - (c % L) \in Strides(n, L) /\ c % L \in Below(L) /\ (c - (c % L)) + (c % L) = c
      BY <1>2, <3>1
    <3>3. turn[c] = <<c - (c % L), c % L>>
      BY <1>5, <2>1
    <3>4. turn[c] \in F32Turns(n)
      BY <1>3, <3>2, <3>3
    <3> QED  BY <1>5, <3>2, <3>3, <3>4
  <2>2. CASE ~(c < end)
    <3>1. turn[c] = <<c, 0>> /\ c \in end .. (n - 1)
      BY <1>2, <1>5, <2>0, <2>2
    <3>2. turn[c] \in F32Turns(n)
      BY <1>3, <3>1
    <3>3. c + 0 = c
      BY <2>0
    <3> QED  BY <1>5, <3>1, <3>2, <3>3
  <2> QED  BY <2>1, <2>2
<1>8. IsWalk(w, P, id, n)
  <2>1. col \in [DOMAIN w -> Below(n)] /\ turn \in [Below(n) -> DOMAIN w]
    BY <1>3, <1>5, <1>6, <1>7
  <2>2. \A t \in DOMAIN w : turn[col[t]] = t
    BY <1>3, <1>6
  <2>3. \A c \in Below(n) : col[turn[c]] = c
    BY <1>7
  <2>4. ASSUME NEW t \in DOMAIN w PROVE w[t] = <<P[col[t]], id[col[t]]>>
    <3>1. col[t] \in Below(n) /\ t \in F32Turns(n)
      BY <1>3, <1>6
    <3>2. w[t] = <<<<"plain", col[t]>>, col[t]>>
      BY <1>5, <3>1, ZenonT(60)
    <3>3. P[col[t]] = <<"plain", col[t]>> /\ id[col[t]] = col[t]
      BY <1>5, <3>1, Zenon
    <3> QED  BY <3>2, <3>3, Zenon
  <2> QED  BY ONLY n \in Nat, <2>1, <2>2, <2>3, <2>4, WalkFromColumns
<1> QED  BY <1>8 DEF w, id, P

LEMMA Q8Walk ==
    ASSUME NEW n \in Nat, n % QK = 0
    PROVE  IsWalk(DotQ8(n), Plain(n), Columnwise(n), n)
<1> DEFINE w == DotQ8(n)
           id == Columnwise(n)
           P == Plain(n)
           L == Lanes
           K == QK
           S == Strides(K, L)
           col == [t \in Q8Turns(n) |-> t[1] * K + t[2] + t[3]]
           turn == [c \in Below(n) |-> <<c \div K, (c % K) - ((c % K) % L), (c % K) % L>>]
<1>1. L \in Nat \ {0} /\ K \in Nat \ {0} /\ K % L = 0 /\ n % K = 0
  BY QuantBlocksAssumption, HalfFacts
<1>2. DOMAIN w = Q8Turns(n) /\ Q8Turns(n) = Below(n \div K) \X S \X Below(L)
  BY DEF DotQ8, Q8Turns
<1>3. /\ \A t \in Q8Turns(n) : col[t] = t[1] * K + t[2] + t[3]
      /\ \A c \in Below(n) : turn[c] = <<c \div K, (c % K) - ((c % K) % L), (c % K) % L>>
      /\ \A t \in Q8Turns(n) : w[t] = <<<<"plain", t[1] * K + t[2] + t[3]>>, t[1] * K + t[2] + t[3]>>
      /\ \A c \in Below(n) : P[c] = <<"plain", c>> /\ id[c] = c
      /\ DOMAIN col = Q8Turns(n) /\ DOMAIN turn = Below(n)
      /\ col = [t \in Q8Turns(n) |-> col[t]] /\ turn = [c \in Below(n) |-> turn[c]]
  BY DEF DotQ8, Plain, Columnwise
<1>4. \A k \in S, j \in Below(L) : k \in Nat /\ j \in Nat
  BY <1>1 DEF Strides, Below
<1> HIDE DEF w, id, P, L, K, col, turn
<1>5. /\ \A k \in S, j \in Below(L) : k + j \in Below(K) /\ (k + j) % L = j
      /\ \A c \in Below(K) :
            c - (c % L) \in S /\ c % L \in Below(L) /\ (c - (c % L)) + (c % L) = c
  <2>1. Stop(K, L) = K
    BY <1>1, StridePlace
  <2> QED  BY <1>1, <2>1, StridePlace
<1>6. /\ \A q \in Below(n \div K), r \in Below(K) :
            /\ q * K + r \in Below(n)
            /\ (q * K + r) \div K = q /\ (q * K + r) % K = r
      /\ \A c \in Below(n) :
            /\ c \div K \in Below(n \div K) /\ c % K \in Below(K)
            /\ (c \div K) * K + (c % K) = c
  BY <1>1, BlockPlace
<1>7. \A q \in Below(n \div K) : q * K \in Nat
  <2>1. n \div K \in Nat
    BY <1>1, DivisionFacts
  <2>2. \A q \in Nat : q * K \in Nat
    BY <1>1, SMT
  <2>3. \A q \in Below(n \div K) : q \in Nat
    BY <2>1 DEF Below
  <2> QED  BY <2>2, <2>3
<1> HIDE DEF S
<1>8. ASSUME NEW t \in Q8Turns(n)
      PROVE  col[t] \in Below(n) /\ turn[col[t]] = t
  <2>1. PICK q \in Below(n \div K), k \in S, j \in Below(L) : t = <<q, k, j>>
    BY <1>2
  <2>2. k + j \in Below(K) /\ (k + j) % L = j /\ k \in Nat /\ j \in Nat /\ q * K \in Nat
    BY <1>4, <1>5, <1>7
  <2>3. col[t] = q * K + k + j
    BY <1>3, <2>1
  <2>4. q * K + k + j = q * K + (k + j)
    BY <2>2
  <2> DEFINE r == k + j
             x == q * K + r
  <2>5. x \in Below(n) /\ x \div K = q /\ x % K = r
    BY <1>6, <2>2
  <2>6. r - j = k
    BY <2>2
  <2>7. turn[x] = <<x \div K, (x % K) - ((x % K) % L), (x % K) % L>>
    BY <1>3, <2>5
  <2>8. r % L = j /\ col[t] = x
    BY <2>2, <2>3, <2>4
  <2> HIDE DEF x, r
  <2>9. turn[x] = <<q, k, j>>
    BY <2>5, <2>6, <2>7, <2>8
  <2> QED  BY <2>1, <2>5, <2>8, <2>9
<1>9. ASSUME NEW c \in Below(n)
      PROVE  turn[c] \in Q8Turns(n) /\ col[turn[c]] = c
  <2> DEFINE q == c \div K
             r == c % K
  <2>1. q \in Below(n \div K) /\ r \in Below(K) /\ q * K + r = c
    BY <1>6
  <2>2. turn[c] = <<q, r - (r % L), r % L>>
    BY <1>3
  <2> HIDE DEF q, r
  <2>3. r - (r % L) \in S /\ r % L \in Below(L) /\ (r - (r % L)) + (r % L) = r
    BY <1>5, <2>1
  <2>4. turn[c] \in Q8Turns(n)
    BY <1>2, <2>1, <2>2, <2>3
  <2>5. col[turn[c]] = q * K + (r - (r % L)) + (r % L)
    BY <1>3, <2>2, <2>4
  <2>6. r - (r % L) \in Nat /\ r % L \in Nat /\ q * K \in Nat
    BY <1>4, <1>7, <2>1, <2>3
  <2>7. q * K + (r - (r % L)) + (r % L) = q * K + r
    BY <2>3, <2>6
  <2> QED  BY <2>1, <2>4, <2>5, <2>7
<1>10. IsWalk(w, P, id, n)
  <2>1. col \in [DOMAIN w -> Below(n)] /\ turn \in [Below(n) -> DOMAIN w]
    BY <1>2, <1>3, <1>8, <1>9
  <2>2. \A t \in DOMAIN w : turn[col[t]] = t
    BY <1>2, <1>8
  <2>3. \A c \in Below(n) : col[turn[c]] = c
    BY <1>9
  <2>4. ASSUME NEW t \in DOMAIN w PROVE w[t] = <<P[col[t]], id[col[t]]>>
    <3>1. col[t] \in Below(n) /\ t \in Q8Turns(n)
      BY <1>2, <1>8
    <3>2. w[t] = <<<<"plain", col[t]>>, col[t]>>
      <4>1. w[t] = <<<<"plain", t[1] * K + t[2] + t[3]>>, t[1] * K + t[2] + t[3]>>
        BY <1>3, <3>1
      <4>2. col[t] = t[1] * K + t[2] + t[3]
        BY <1>3, <3>1
      <4> QED  BY <4>1, <4>2, Zenon
    <3>3. P[col[t]] = <<"plain", col[t]>> /\ id[col[t]] = col[t]
      BY <1>3, <3>1, Zenon
    <3> QED  BY <3>2, <3>3, Zenon
  <2> QED  BY ONLY n \in Nat, <2>1, <2>2, <2>3, <2>4, WalkFromColumns
<1> QED  BY <1>10 DEF w, id, P

LEMMA Q6Walk ==
    ASSUME NEW n \in Nat, n % Q6Block = 0
    PROVE  IsWalk(DotQ6(n), Q6Row(n), Columnwise(n), n)
<1> DEFINE w == DotQ6(n)
           id == Columnwise(n)
           P == Q6Row(n)
           B == Q6Block
           T == Below(n \div B) \X Below(B)
           col == [t \in T |-> t[1] * B + t[2]]
           turn == [c \in Below(n) |-> <<c \div B, c % B>>]
<1>1. B \in Nat \ {0} /\ n % B = 0
  BY Q6BlockFacts
<1>2. DOMAIN w = T
  BY DEF DotQ6
<1>3. /\ \A t \in T : col[t] = t[1] * B + t[2]
      /\ \A c \in Below(n) : turn[c] = <<c \div B, c % B>>
      /\ \A t \in T : w[t] = <<<<"q6", t[1], Q6Bits(t[2])>>, t[1] * B + t[2]>>
      /\ \A c \in Below(n) : P[c] = <<"q6", c \div B, Q6Bits(c % B)>> /\ id[c] = c
      /\ DOMAIN col = T /\ DOMAIN turn = Below(n)
      /\ col = [t \in T |-> col[t]] /\ turn = [c \in Below(n) |-> turn[c]]
  BY DEF DotQ6, Q6Row, Columnwise
<1> HIDE DEF w, id, P, B, col, turn
<1>4. /\ \A q \in Below(n \div B), r \in Below(B) :
            /\ q * B + r \in Below(n)
            /\ (q * B + r) \div B = q /\ (q * B + r) % B = r
      /\ \A c \in Below(n) :
            /\ c \div B \in Below(n \div B) /\ c % B \in Below(B)
            /\ (c \div B) * B + (c % B) = c
  BY <1>1, BlockPlace
<1>5. ASSUME NEW t \in T
      PROVE  /\ col[t] \in Below(n) /\ turn[col[t]] = t
             /\ w[t] = <<P[col[t]], id[col[t]]>>
  <2>1. PICK q \in Below(n \div B), r \in Below(B) : t = <<q, r>>
    OBVIOUS
  <2> DEFINE x == q * B + r
  <2>2. x \in Below(n) /\ x \div B = q /\ x % B = r
    BY <1>4
  <2>3. col[t] = x /\ w[t] = <<<<"q6", q, Q6Bits(r)>>, x>>
    BY <1>3, <2>1
  <2> HIDE DEF x
  <2>4. turn[x] = <<q, r>> /\ P[x] = <<"q6", q, Q6Bits(r)>> /\ id[x] = x
    BY <1>3, <2>2
  <2> QED  BY <2>1, <2>2, <2>3, <2>4, Zenon
<1>6. ASSUME NEW c \in Below(n)
      PROVE  turn[c] \in T /\ col[turn[c]] = c
  <2>1. turn[c] = <<c \div B, c % B>> /\ turn[c] \in T
    <3>1. turn[c] = <<c \div B, c % B>>
      BY <1>3
    <3>2. c \div B \in Below(n \div B) /\ c % B \in Below(B)
      BY <1>4
    <3> QED  BY <3>1, <3>2
  <2>2. col[turn[c]] = (c \div B) * B + (c % B)
    BY <1>3, <2>1
  <2> QED  BY <1>4, <2>1, <2>2
<1>7. IsWalk(w, P, id, n)
  <2> HIDE DEF T
  <2>1. col \in [DOMAIN w -> Below(n)] /\ turn \in [Below(n) -> DOMAIN w]
    BY <1>2, <1>3, <1>5, <1>6
  <2>2. \A t \in DOMAIN w : turn[col[t]] = t
    BY <1>2, <1>5
  <2>3. \A c \in Below(n) : col[turn[c]] = c
    BY <1>6
  <2>4. \A t \in DOMAIN w : w[t] = <<P[col[t]], id[col[t]]>>
    BY <1>2, <1>5
  <2> QED  BY ONLY n \in Nat, <2>1, <2>2, <2>3, <2>4, WalkFromColumns
<1> QED  BY <1>7 DEF w, id, P

\* A Q4_0 weight, from its block, half and place in the half.
LEMMA NibbleOf ==
    ASSUME NEW n \in Nat, n % QK = 0,
           NEW b \in Below(n \div QK), NEW h \in {0, 1}, NEW s \in Below(Half)
    PROVE  /\ b * QK + (h * Half + s) \in Below(n)
           /\ Q4Row(n)[b * QK + (h * Half + s)] = Nibble(b, s, h)
           /\ (b * QK + (h * Half + s)) \div QK = b
           /\ b * QK \in Nat /\ h * Half \in Nat /\ s \in Nat
<1> DEFINE r == h * Half + s
           x == b * QK + r
<1>1. x \in Below(n) /\ x \div QK = b /\ x % QK = r /\ r \div Half = h /\ r % Half = s
  BY NibblePlace
<1>2. \A c \in Below(n) : Q4Row(n)[c] = Nibble(c \div QK, (c % QK) % Half, (c % QK) \div Half)
  BY DEF Q4Row
<1>3. b * QK \in Nat /\ h * Half \in Nat /\ s \in Nat
  <2>1. QK \in Nat \ {0} /\ Half \in Nat \ {0}
    BY QuantBlocksAssumption, HalfFacts
  <2>2. n \div QK \in Nat
    BY <2>1, DivisionFacts
  <2>3. b \in Nat /\ s \in Nat /\ h \in Nat
    BY <2>1, <2>2 DEF Below
  <2> QED  BY <2>1, <2>3, SMT
<1> HIDE DEF x, r
<1>4. Q4Row(n)[x] = Nibble(b, s, h)
  BY <1>1, <1>2
<1> QED  BY <1>1, <1>3, <1>4 DEF x, r

LEMMA Q4Walk ==
    ASSUME NEW n \in Nat, n % QK = 0
    PROVE  IsWalk(DotQ4(n), Q4Row(n), Columnwise(n), n)
<1> DEFINE w == DotQ4(n)
           id == Columnwise(n)
           P == Q4Row(n)
           L == Lanes
           H == Half
           K == QK
           S == Strides(H, L)
           col == [t \in Q4Turns(n) |-> t[1] * K + t[2] * H + t[3] + t[4]]
           s(c) == (c % K) % H
           turn == [c \in Below(n) |-> <<c \div K, (c % K) \div H, s(c) - (s(c) % L), s(c) % L>>]
<1>1. L \in Nat \ {0} /\ H \in Nat \ {0} /\ H % L = 0
  BY QuantBlocksAssumption, HalfFacts
<1>2. DOMAIN w = Q4Turns(n) /\ Q4Turns(n) = Below(n \div K) \X {0, 1} \X S \X Below(L)
  BY DEF DotQ4, Q4Turns
<1>3. /\ \A t \in Q4Turns(n) : col[t] = t[1] * K + t[2] * H + t[3] + t[4]
      /\ \A c \in Below(n) :
            turn[c] = <<c \div K, (c % K) \div H, s(c) - (s(c) % L), s(c) % L>>
      /\ \A t \in Q4Turns(n) : w[t] = <<Nibble(t[1], t[3] + t[4], t[2]), col[t]>>
      /\ \A c \in Below(n) : id[c] = c
      /\ DOMAIN col = Q4Turns(n) /\ DOMAIN turn = Below(n)
      /\ col = [t \in Q4Turns(n) |-> col[t]] /\ turn = [c \in Below(n) |-> turn[c]]
  BY DEF DotQ4, Columnwise
<1>4. \A k \in S, j \in Below(L) : k \in Nat /\ j \in Nat
  BY <1>1 DEF Strides, Below
<1>5. /\ \A b \in Below(n \div K), h \in {0, 1}, i \in Below(H) :
            /\ b * K + (h * H + i) \in Below(n)
            /\ P[b * K + (h * H + i)] = Nibble(b, i, h)
            /\ (b * K + (h * H + i)) \div K = b
            /\ b * K \in Nat /\ h * H \in Nat /\ i \in Nat
            /\ (b * K + (h * H + i)) % K = h * H + i
            /\ (h * H + i) \div H = h /\ (h * H + i) % H = i
      /\ \A c \in Below(n) :
            /\ c \div K \in Below(n \div K) /\ (c \div K) * K + (c % K) = c
            /\ (c % K) \div H \in {0, 1} /\ (c % K) % H \in Below(H)
            /\ ((c % K) \div H) * H + ((c % K) % H) = c % K
  BY NibblePlace, NibbleOf
<1> HIDE DEF w, id, P, L, K, H, col, turn
<1>6. /\ \A k \in S, j \in Below(L) : k + j \in Below(H) /\ (k + j) % L = j
      /\ \A c \in Below(H) :
            c - (c % L) \in S /\ c % L \in Below(L) /\ (c - (c % L)) + (c % L) = c
  <2>1. Stop(H, L) = H
    BY <1>1, StridePlace
  <2> QED  BY <1>1, <2>1, StridePlace
<1> HIDE DEF S
<1>7. ASSUME NEW t \in Q4Turns(n)
      PROVE  /\ col[t] \in Below(n) /\ turn[col[t]] = t
             /\ w[t] = <<P[col[t]], id[col[t]]>>
  <2>1. PICK b \in Below(n \div K), h \in {0, 1}, k \in S, j \in Below(L) : t = <<b, h, k, j>>
    BY <1>2
  <2> DEFINE i == k + j
             r == h * H + i
             x == b * K + r
  <2>2. i \in Below(H) /\ i % L = j /\ k \in Nat /\ j \in Nat
    BY <1>4, <1>6
  <2>3. /\ x \in Below(n) /\ P[x] = Nibble(b, i, h) /\ x \div K = b
        /\ x % K = r /\ r \div H = h /\ r % H = i /\ b * K \in Nat /\ h * H \in Nat
    BY <1>5, <2>2
  <2>4. col[t] = b * K + h * H + k + j
    BY <1>3, <2>1
  <2>5. col[t] = x /\ i - j = k
    BY <2>2, <2>3, <2>4
  <2>6. w[t] = <<Nibble(b, i, h), x>>
    BY <1>3, <2>1, <2>5
  <2> HIDE DEF x, r, i
  <2>7. s(x) = i
    BY <2>3
  <2>8. turn[x] = <<x \div K, (x % K) \div H, s(x) - (s(x) % L), s(x) % L>> /\ id[x] = x
    BY <1>3, <2>3
  <2> HIDE DEF s
  <2>9. turn[x] = <<b, h, k, j>>
    BY <2>2, <2>3, <2>5, <2>7, <2>8, Zenon
  <2> QED  BY <2>1, <2>3, <2>5, <2>6, <2>8, <2>9, Zenon
<1>8. ASSUME NEW c \in Below(n)
      PROVE  turn[c] \in Q4Turns(n) /\ col[turn[c]] = c
  <2> DEFINE b == c \div K
             r == c % K
             h == r \div H
             i == r % H
  <2>1. /\ b \in Below(n \div K) /\ h \in {0, 1} /\ i \in Below(H)
        /\ b * K + r = c /\ h * H + i = r
    BY <1>5
  <2>2. turn[c] = <<b, h, i - (i % L), i % L>>
    BY <1>3
  <2> HIDE DEF b, r, h, i
  <2>3. i - (i % L) \in S /\ i % L \in Below(L) /\ (i - (i % L)) + (i % L) = i
    BY <1>6, <2>1
  <2>4. turn[c] \in Q4Turns(n)
    BY <1>2, <2>1, <2>2, <2>3
  <2>5. col[turn[c]] = b * K + h * H + (i - (i % L)) + (i % L)
    BY <1>3, <2>2, <2>4
  <2>6. i - (i % L) \in Nat /\ i % L \in Nat /\ b * K \in Nat /\ h * H \in Nat
    BY <1>4, <1>5, <2>1, <2>3
  <2>7. b * K + h * H + (i - (i % L)) + (i % L) = b * K + (h * H + i)
    BY <2>3, <2>6
  <2> QED  BY <2>1, <2>4, <2>5, <2>7
<1>9. IsWalk(w, P, id, n)
  <2>1. col \in [DOMAIN w -> Below(n)] /\ turn \in [Below(n) -> DOMAIN w]
    <3>1. \A t \in DOMAIN w : col[t] \in Below(n)
      BY <1>2, <1>7
    <3>2. \A c \in Below(n) : turn[c] \in DOMAIN w
      BY <1>2, <1>8
    <3>3. DOMAIN col = DOMAIN w /\ col = [t \in DOMAIN w |-> col[t]]
          /\ turn = [c \in Below(n) |-> turn[c]]
      BY <1>2, <1>3, Zenon
    <3> QED  BY ONLY <3>1, <3>2, <3>3
  <2>2. \A t \in DOMAIN w : turn[col[t]] = t
    BY <1>2, <1>7
  <2>3. \A c \in Below(n) : col[turn[c]] = c
    BY <1>8
  <2>4. \A t \in DOMAIN w : w[t] = <<P[col[t]], id[col[t]]>>
    BY <1>2, <1>7
  <2> QED  BY ONLY n \in Nat, <2>1, <2>2, <2>3, <2>4, WalkFromColumns
<1> QED  BY <1>9 DEF w, id, P

LEMMA Q4Q8Walk ==
    ASSUME NEW n \in Nat, n % QK = 0
    PROVE  IsWalk(DotQ4Q8(n), Q4Row(n), Quantized(n), n)
<1> DEFINE w == DotQ4Q8(n)
           q == Quantized(n)
           P == Q4Row(n)
           H == Half
           K == QK
           T == Below(n \div K) \X {0, 1} \X Below(H)
           col == [t \in T |-> t[1] * K + (t[2] * H + t[3])]
           turn == [c \in Below(n) |-> <<c \div K, (c % K) \div H, (c % K) % H>>]
<1>1. DOMAIN w = T
  BY DEF DotQ4Q8
<1>2. /\ \A t \in T : col[t] = t[1] * K + (t[2] * H + t[3])
      /\ \A c \in Below(n) : turn[c] = <<c \div K, (c % K) \div H, (c % K) % H>>
      /\ \A t \in T : w[t] = <<Nibble(t[1], t[3], t[2]), <<t[1] * K + (t[2] * H + t[3]), t[1]>>>>
      /\ \A c \in Below(n) : q[c] = <<c, c \div K>>
      /\ DOMAIN col = T /\ DOMAIN turn = Below(n)
      /\ col = [t \in T |-> col[t]] /\ turn = [c \in Below(n) |-> turn[c]]
  BY DEF DotQ4Q8, Quantized
<1>3. /\ \A b \in Below(n \div K), h \in {0, 1}, i \in Below(H) :
            /\ b * K + (h * H + i) \in Below(n)
            /\ P[b * K + (h * H + i)] = Nibble(b, i, h)
            /\ (b * K + (h * H + i)) \div K = b
            /\ (b * K + (h * H + i)) % K = h * H + i
            /\ (h * H + i) \div H = h /\ (h * H + i) % H = i
      /\ \A c \in Below(n) :
            /\ c \div K \in Below(n \div K) /\ (c \div K) * K + (c % K) = c
            /\ (c % K) \div H \in {0, 1} /\ (c % K) % H \in Below(H)
            /\ ((c % K) \div H) * H + ((c % K) % H) = c % K
  BY NibblePlace, NibbleOf
<1> HIDE DEF w, q, P, K, H, col, turn
<1>4. ASSUME NEW t \in T
      PROVE  /\ col[t] \in Below(n) /\ turn[col[t]] = t
             /\ w[t] = <<P[col[t]], q[col[t]]>>
  <2>1. PICK b \in Below(n \div K), h \in {0, 1}, i \in Below(H) : t = <<b, h, i>>
    OBVIOUS
  <2> DEFINE r == h * H + i
             x == b * K + r
  <2>2. /\ x \in Below(n) /\ P[x] = Nibble(b, i, h) /\ x \div K = b
        /\ x % K = r /\ r \div H = h /\ r % H = i
    BY <1>3
  <2>3. col[t] = x
    BY <1>2, <2>1
  <2>4. w[t] = <<Nibble(b, i, h), <<x, b>>>>
    BY <1>2, <2>1
  <2> HIDE DEF x, r
  <2>5. turn[x] = <<x \div K, (x % K) \div H, (x % K) % H>> /\ q[x] = <<x, x \div K>>
    BY <1>2, <2>2
  <2>6. turn[x] = <<b, h, i>> /\ q[x] = <<x, b>>
    BY <2>2, <2>5, Zenon
  <2> QED  BY <2>1, <2>2, <2>3, <2>4, <2>6, Zenon
<1>5. ASSUME NEW c \in Below(n)
      PROVE  turn[c] \in T /\ col[turn[c]] = c
  <2> DEFINE b == c \div K
             r == c % K
             h == r \div H
             i == r % H
  <2>1. /\ b \in Below(n \div K) /\ h \in {0, 1} /\ i \in Below(H)
        /\ b * K + r = c /\ h * H + i = r
    BY <1>3
  <2>2. turn[c] = <<b, h, i>>
    BY <1>2
  <2> HIDE DEF b, r, h, i
  <2>3. turn[c] \in T
    BY <2>1, <2>2
  <2>4. col[turn[c]] = b * K + (h * H + i)
    <3>1. col[turn[c]] = turn[c][1] * K + (turn[c][2] * H + turn[c][3])
      BY <1>2, <2>3
    <3>2. turn[c][1] = b /\ turn[c][2] = h /\ turn[c][3] = i
      BY <2>2
    <3> QED  BY <3>1, <3>2, Zenon
  <2> QED  BY <2>1, <2>3, <2>4
<1>6. IsWalk(w, P, q, n)
  <2> HIDE DEF T
  <2>1. col \in [DOMAIN w -> Below(n)] /\ turn \in [Below(n) -> DOMAIN w]
    BY <1>1, <1>2, <1>4, <1>5
  <2>2. \A t \in DOMAIN w : turn[col[t]] = t
    BY <1>1, <1>4
  <2>3. \A c \in Below(n) : col[turn[c]] = c
    BY <1>5
  <2>4. \A t \in DOMAIN w : w[t] = <<P[col[t]], q[col[t]]>>
    BY <1>1, <1>4
  <2> QED  BY ONLY n \in Nat, <2>1, <2>2, <2>3, <2>4, WalkFromColumns
<1> QED  BY <1>6 DEF w, q, P

(***************************************************************************)
(* Every kernel computes a product, for rows that fill their blocks.       *)
(***************************************************************************)
LEMMA KernelIsProduct ==
    ASSUME NEW by \in KernelNames, NEW n \in Nat, n % BlockOf(TypeOfKernel(by)) = 0,
           by = "q8_fp32" => n % QK = 0
    PROVE  IsProduct(by, n)
<1> DEFINE type == TypeOfKernel(by)
           act == IF by = "q4_q8" THEN Quantized(n) ELSE Columnwise(n)
<1>1. IsProduct(by, n) <=> Apart(Row(type, n)) /\ IsWalk(Dot(by, n), Row(type, n), act, n)
  BY Zenon DEF IsProduct, IsWalk, Columnwise
<1>2. CASE by = "q4_fp32"
  <2>1. n % QK = 0 /\ Row(type, n) = Q4Row(n) /\ Dot(by, n) = DotQ4(n) /\ act = Columnwise(n)
    BY <1>2 DEF TypeOfKernel, BlockOf, Row, Dot
  <2> QED  BY <1>1, <2>1, Q4Apart, Q4Walk
<1>3. CASE by = "q4_q8"
  <2>1. n % QK = 0 /\ Row(type, n) = Q4Row(n) /\ Dot(by, n) = DotQ4Q8(n) /\ act = Quantized(n)
    BY <1>3 DEF TypeOfKernel, BlockOf, Row, Dot
  <2> QED  BY <1>1, <2>1, Q4Apart, Q4Q8Walk
<1>4. CASE by = "q8_fp32"
  <2>1. n % QK = 0 /\ Row(type, n) = Plain(n) /\ Dot(by, n) = DotQ8(n) /\ act = Columnwise(n)
    BY <1>4 DEF TypeOfKernel, Row, Dot
  <2> QED  BY <1>1, <2>1, PlainApart, Q8Walk
<1>5. CASE by = "q6_fp32"
  <2>1. n % Q6Block = 0 /\ Row(type, n) = Q6Row(n) /\ Dot(by, n) = DotQ6(n)
        /\ act = Columnwise(n)
    BY <1>5 DEF TypeOfKernel, BlockOf, Row, Dot
  <2> QED  BY <1>1, <2>1, Q6Apart, Q6Walk
<1>6. CASE by = "f32"
  <2>1. Row(type, n) = Plain(n) /\ Dot(by, n) = DotF32(n) /\ act = Columnwise(n)
    BY <1>6 DEF TypeOfKernel, Row, Dot
  <2> QED  BY <1>1, <2>1, PlainApart, F32Walk
<1>7. CASE by = "f16"
  <2>1. Row(type, n) = Plain(n) /\ Dot(by, n) = DotF16(n) /\ act = Columnwise(n)
    BY <1>7 DEF TypeOfKernel, Row, Dot
  <2> QED  BY <1>1, <2>1, PlainApart, F16Walk
<1> QED  BY <1>2, <1>3, <1>4, <1>5, <1>6, <1>7 DEF KernelNames

-----------------------------------------------------------------------------
(***************************************************************************)
(* What a job is, and what its elements ought to be.                       *)
(***************************************************************************)
GoodJob(o, t) ==
    /\ t.rows \in Nat \ {0} /\ t.batch \in Nat \ {0}
    /\ t.cols \in Columns /\ t.cols % BlockOf(t.type) = 0
    /\ ~o.batched => t.batch = 1

Size(t) == t.batch * t.rows
Right(t, i) == [row |-> i % t.rows, token |-> i \div t.rows, whole |-> TRUE]

\* Where the chunks of a job place an element, and how far they go.
ByElement(o, t) == o.batched /\ ~IsGemm(t)
Place(o, t, i) == IF ByElement(o, t) THEN i ELSE i % t.rows
Places(o, t) == IF ByElement(o, t) THEN Size(t) ELSE t.rows

LEMMA SizeFacts ==
    ASSUME NEW o, NEW t, GoodJob(o, t)
    PROVE  /\ Size(t) \in Nat \ {0} /\ Places(o, t) \in Nat \ {0}
           /\ \A i \in Below(Size(t)) :
                 /\ i \in Nat /\ Place(o, t, i) \in Below(Places(o, t))
                 /\ i \div t.rows \in Below(t.batch) /\ i % t.rows \in Below(t.rows)
                 /\ (i \div t.rows) * t.rows + (i % t.rows) = i
<1> DEFINE r == t.rows
           b == t.batch
<1>1. r \in Nat \ {0} /\ b \in Nat \ {0}
  BY DEF GoodJob
<1>2. Size(t) = b * r
  BY DEF Size
<1> HIDE DEF r, b
<1>3. b * r \in Nat /\ b * r # 0 /\ (b * r) % r = 0 /\ (b * r) \div r = b
  <2>1. 0 * r + r <= b * r /\ b * r \in Nat /\ 0 * r = 0
    BY <1>1, MoreTimes
  <2>2. (b * r + 0) % r = 0 /\ (b * r + 0) \div r = b
    BY <1>1, DivisionUnique
  <2>3. b * r + 0 = b * r
    BY <2>1
  <2> QED  BY <1>1, <2>1, <2>2, <2>3
<1> DEFINE n == b * r
<1>4. \A i \in Below(n) : /\ i \div r \in Below(b) /\ i % r \in Below(r)
                          /\ (i \div r) * r + (i % r) = i
  <2>1. n \in Nat /\ n % r = 0 /\ n \div r = b
    BY <1>3
  <2> HIDE DEF n
  <2>2. \A i \in Below(n) : /\ i \div r \in Below(n \div r) /\ i % r \in Below(r)
                            /\ (i \div r) * r + (i % r) = i
    BY <1>1, <2>1, BlockPlace
  <2> QED  BY <2>1, <2>2
<1>5. \A i \in Below(n) : i \in Nat
  BY <1>3 DEF Below
<1>6. Size(t) \in Nat \ {0}
  BY <1>2, <1>3
<1>7. Places(o, t) = IF ByElement(o, t) THEN n ELSE r
  BY <1>2 DEF Places, r
<1>8. \A i : Place(o, t, i) = IF ByElement(o, t) THEN i ELSE i % r
  BY DEF Place, r
<1>9. Places(o, t) \in Nat \ {0}
  BY <1>1, <1>3, <1>7
<1>10. \A i \in Below(n) : Place(o, t, i) \in Below(Places(o, t))
  BY <1>4, <1>7, <1>8
<1> HIDE DEF n
<1> QED  BY <1>2, <1>4, <1>5, <1>6, <1>7, <1>9, <1>10 DEF r, b, n

(***************************************************************************)
(* The kernel chosen for a type computes products of rows that fill the    *)
(* blocks of that type.                                                    *)
(***************************************************************************)
LEMMA ChosenKernels ==
    ASSUME NEW type \in KnownTypes, NEW n \in Columns, n % BlockOf(type) = 0
    PROVE  <<MatvecKernel[type], n>> \in Products /\ <<BatchKernel[type], n>> \in Products
<1>1. n \in Nat
  BY KernelsAssumption
<1>2. ASSUME NEW by \in KernelNames, n % BlockOf(TypeOfKernel(by)) = 0, by = "q8_fp32" => n % QK = 0
      PROVE  <<by, n>> \in Products
  <2>1. IsProduct(by, n)
    BY <1>1, <1>2, KernelIsProduct
  <2> DEFINE bn == <<by, n>>
  <2>2. bn[1] = by /\ bn[2] = n
    OBVIOUS
  <2>3. bn \in {<<z, m>> : z \in KernelNames, m \in Columns}
    OBVIOUS
  <2> HIDE DEF bn
  <2>4. IsProduct(bn[1], bn[2])
    BY <2>1, <2>2, Zenon
  <2>5. bn \in Products
    <3> DEFINE all == {<<z, m>> : z \in KernelNames, m \in Columns}
    <3>1. Products = {x \in all : IsProduct(x[1], x[2])}
      BY DEF Products
    <3> HIDE DEF all
    <3>2. bn \in all
      BY <2>3 DEF all
    <3> QED  BY <2>4, <3>1, <3>2, Zenon
  <2> QED  BY <2>5 DEF bn
<1>3. n % 1 = 0
  BY <1>1
<1>4. CASE type = "F32"
  <2>1. MatvecKernel[type] = "f32" /\ BatchKernel[type] = "f32"
    BY <1>4 DEF MatvecKernel, BatchKernel
  <2>2. "f32" \in KernelNames /\ BlockOf(TypeOfKernel("f32")) = 1
    BY DEF KernelNames, BlockOf, TypeOfKernel
  <2> QED  BY <1>2, <1>3, <2>1, <2>2
<1>5. CASE type = "F16"
  <2>1. MatvecKernel[type] = "f16" /\ BatchKernel[type] = "f16"
    BY <1>5 DEF MatvecKernel, BatchKernel
  <2>2. "f16" \in KernelNames /\ BlockOf(TypeOfKernel("f16")) = 1
    BY DEF KernelNames, BlockOf, TypeOfKernel
  <2> QED  BY <1>2, <1>3, <2>1, <2>2
<1>6. CASE type = "Q4_0"
  <2>1. MatvecKernel[type] = "q4_q8" /\ BatchKernel[type] = "q4_fp32" /\ n % QK = 0
    BY <1>6 DEF MatvecKernel, BatchKernel, BlockOf
  <2>2. /\ "q4_q8" \in KernelNames /\ BlockOf(TypeOfKernel("q4_q8")) = QK
        /\ "q4_fp32" \in KernelNames /\ BlockOf(TypeOfKernel("q4_fp32")) = QK
    BY DEF KernelNames, BlockOf, TypeOfKernel
  <2> QED  BY <1>2, <2>1, <2>2
<1>7. CASE type = "Q8_0"
  <2>1. MatvecKernel[type] = "q8_fp32" /\ BatchKernel[type] = "q8_fp32" /\ n % QK = 0
    BY <1>7 DEF MatvecKernel, BatchKernel, BlockOf
  <2>2. "q8_fp32" \in KernelNames /\ BlockOf(TypeOfKernel("q8_fp32")) = 1
    BY DEF KernelNames, BlockOf, TypeOfKernel
  <2> QED  BY <1>2, <1>3, <2>1, <2>2
<1>8. CASE type = "Q6_K"
  <2>1. MatvecKernel[type] = "q6_fp32" /\ BatchKernel[type] = "q6_fp32" /\ n % Q6Block = 0
    BY <1>8 DEF MatvecKernel, BatchKernel, BlockOf
  <2>2. "q6_fp32" \in KernelNames /\ BlockOf(TypeOfKernel("q6_fp32")) = Q6Block
    BY DEF KernelNames, BlockOf, TypeOfKernel
  <2> QED  BY <1>2, <2>1, <2>2
<1> QED  BY <1>4, <1>5, <1>6, <1>7, <1>8 DEF KnownTypes

LEMMA ElementRight ==
    ASSUME NEW t, NEW row, NEW token, NEW by, <<by, t.cols>> \in Products
    PROVE  Element(t, row, token, by) = [row |-> row, token |-> token, whole |-> TRUE]
BY Zenon DEF Element

(***************************************************************************)
(* The tokens in groups of eight or of four, and the rest one by one, are  *)
(* all tokens, each with its own activations.                              *)
(***************************************************************************)
LEMMA TokensAreAll ==
    ASSUME NEW t, t.batch \in Nat
    PROVE  DOMAIN TokensOf(t) = Below(t.batch) /\ \A p \in Below(t.batch) : TokensOf(t)[p] = p
<1> DEFINE n == t.batch
           w == Width(t)
           whole == Stop(n, w)
           j(p) == p % w
           grouped(p) == IF t.ffn THEN Batch8(p - j(p), j(p)) ELSE Batch4(p - j(p), j(p))
<1>1. w \in {4, 8} /\ w \in Nat \ {0}
  BY DEF Width
<1>2. n \in Nat
  OBVIOUS
<1>3. OneByOne(t) = whole .. (n - 1)
  BY DEF OneByOne, Rest
<1>4. TokensOf(t) = IF build.forceQ8 THEN [p \in Below(n) |-> p]
                    ELSE [p \in Below(whole) \cup OneByOne(t) |-> IF p < whole THEN grouped(p) ELSE p]
  BY Zenon DEF TokensOf
<1>5. whole \in Nat /\ whole <= n
  <2> HIDE DEF n, w
  <2> QED  BY <1>1, <1>2, StridePlace
<1>6. Below(whole) \cup OneByOne(t) = Below(n)
  <2> HIDE DEF n, w, whole
  <2> QED  BY <1>2, <1>3, <1>5 DEF Below
<1>7. ASSUME NEW p \in Below(n) PROVE grouped(p) = p
  <2>1. p \in Nat
    BY <1>2 DEF Below
  <2>2. j(p) \in Nat /\ p - j(p) \in Nat /\ j(p) <= p
    <3> HIDE DEF w
    <3> QED  BY <1>1, <2>1
  <2> HIDE DEF j, w, n
  <2>3. Batch4(p - j(p), j(p)) = p
    BY <2>1, <2>2 DEF Batch4
  <2>4. Batch8(p - j(p), j(p)) = p
    BY <2>1, <2>2 DEF Batch8, Batch4
  <2> QED  BY <2>3, <2>4, Zenon
<1> HIDE DEF grouped, whole, n
<1>8. TokensOf(t) = [p \in Below(n) |-> p]
  <2>1. CASE build.forceQ8
    BY <1>4, <2>1, Zenon
  <2>2. CASE ~build.forceQ8
    <3>1. TokensOf(t) = [p \in Below(n) |-> IF p < whole THEN grouped(p) ELSE p]
      BY <1>4, <1>6, <2>2, Zenon
    <3> QED  BY <1>7, <3>1
  <2> QED  BY <2>1, <2>2
<1> QED  BY <1>8 DEF n

(***************************************************************************)
(* A chunk computes the elements that have their place in it, each as it   *)
(* ought to be.                                                            *)
(***************************************************************************)
LEMMA ChunkComputes ==
    ASSUME NEW t, GoodJob(op, t), t.type \in KnownTypes, NEW a \in Nat, NEW b \in Nat,
           b <= Places(op, t), NEW i \in Below(Size(t))
    PROVE  /\ i \in DOMAIN Computed(t, a, b) <=> Place(op, t, i) \in a .. (b - 1)
           /\ i \in DOMAIN Computed(t, a, b) => Computed(t, a, b)[i] = Right(t, i)
<1> DEFINE r == t.rows
<1>1. r \in Nat \ {0} /\ t.batch \in Nat \ {0} /\ t.cols \in Columns /\ t.cols % BlockOf(t.type) = 0
  BY DEF GoodJob
<1>2. /\ i \in Nat /\ Place(op, t, i) \in Below(Places(op, t))
      /\ i \div r \in Below(t.batch) /\ i % r \in Below(r)
      /\ (i \div r) * r + (i % r) = i
  BY SizeFacts
<1>3. <<MatvecKernel[t.type], t.cols>> \in Products /\ <<BatchKernel[t.type], t.cols>> \in Products
  BY <1>1, ChosenKernels
<1>4. CASE ~op.batched
  <2>1. Computed(t, a, b) = MatvecRows(t, a, b)
    BY <1>4, Zenon DEF Computed
  <2>2. t.batch = 1 /\ ~ByElement(op, t)
    BY <1>4, Zenon DEF GoodJob, ByElement
  <2>3. Size(t) = r
    BY <1>1, <2>2 DEF Size
  <2>4. Place(op, t, i) = i % r
    BY <2>2, Zenon DEF Place
  <2>5. i \div r = 0
    BY <1>2, <2>2 DEF Below
  <2> HIDE DEF r
  <2>6. i % r = i
    <3>1. 0 * r = 0 /\ i % r \in Nat
      BY <1>1, <1>2 DEF Below
    <3> QED  BY <1>2, <2>5, <3>1
  <2>7. /\ DOMAIN MatvecRows(t, a, b) = a .. (b - 1)
        /\ \A k \in a .. (b - 1) : MatvecRows(t, a, b)[k] = Element(t, k, 0, MatvecKernel[t.type])
    BY Zenon DEF MatvecRows
  <2>8. Right(t, i) = [row |-> i, token |-> 0, whole |-> TRUE]
    BY <2>5, <2>6, Zenon DEF Right, r
  <2>9. Element(t, i, 0, MatvecKernel[t.type]) = [row |-> i, token |-> 0, whole |-> TRUE]
    BY <1>3, ElementRight, Zenon
  <2> QED  BY <2>1, <2>4, <2>6, <2>7, <2>8, <2>9, Zenon
<1>5. CASE op.batched /\ IsGemm(t)
  <2> DEFINE by == IF build.forceQ8 THEN MatvecKernel[t.type] ELSE BatchKernel[t.type]
             token == TokensOf(t)
             S == {p * r + k : p \in DOMAIN token, k \in a .. (b - 1)}
  <2>1. Computed(t, a, b) = GemmRows(t, a, b)
    BY <1>5, Zenon DEF Computed
  <2>2. ~ByElement(op, t) /\ Places(op, t) = r /\ Place(op, t, i) = i % r
    BY <1>5, Zenon DEF ByElement, Places, Place
  <2>3. DOMAIN token = Below(t.batch) /\ \A p \in Below(t.batch) : token[p] = p
    BY <1>1, TokensAreAll
  <2>4. <<by, t.cols>> \in Products
    BY <1>3, Zenon
  <2>5. GemmRows(t, a, b) = [k \in S |-> Element(t, k % r, token[k \div r], by)]
    BY DEF GemmRows
  <2> HIDE DEF by, token
  <2>6. Element(t, i % r, token[i \div r], by) = Right(t, i)
    <3>1. token[i \div r] = i \div r
      BY <1>2, <2>3
    <3>2. Element(t, i % r, i \div r, by) = [row |-> i % r, token |-> i \div r, whole |-> TRUE]
      BY <2>4, ElementRight, Zenon
    <3> QED  BY <3>1, <3>2, Zenon DEF Right
  <2> HIDE DEF r
  <2>7. i \in S <=> i % r \in a .. (b - 1)
    <3>1. ASSUME i % r \in a .. (b - 1) PROVE i \in S
      BY <1>2, <2>3, <3>1
    <3>2. ASSUME i \in S PROVE i % r \in a .. (b - 1)
      <4>1. PICK p \in Below(t.batch), k \in a .. (b - 1) : i = p * r + k
        BY <2>3, <3>2
      <4>2. p \in Nat /\ k \in Nat /\ k < r
        BY <1>1, <2>2, <4>1 DEF Below
      <4>3. r \in Nat \ {0}
        BY <1>1
      <4>4. (p * r + k) % r = k
        BY ONLY <4>2, <4>3, DivisionUnique
      <4> QED  BY <4>1, <4>4
    <3> QED  BY <3>1, <3>2
  <2> HIDE DEF S
  <2>8. DOMAIN GemmRows(t, a, b) = S
        /\ (i \in S => GemmRows(t, a, b)[i] = Element(t, i % r, token[i \div r], by))
    BY <2>5, Zenon
  <2> QED  BY <2>1, <2>2, <2>6, <2>7, <2>8, Zenon
<1>6. CASE op.batched /\ ~IsGemm(t)
  <2>1. Computed(t, a, b) = BatchJobs(t, a, b)
    BY <1>6, Zenon DEF Computed
  <2>2. Place(op, t, i) = i
    BY <1>6, Zenon DEF ByElement, Place
  <2>3. /\ DOMAIN BatchJobs(t, a, b) = a .. (b - 1)
        /\ \A k \in a .. (b - 1) :
              BatchJobs(t, a, b)[k] = Element(t, k % t.rows, k \div t.rows, BatchKernel[t.type])
    BY Zenon DEF BatchJobs
  <2>4. Element(t, i % t.rows, i \div t.rows, BatchKernel[t.type]) = Right(t, i)
    BY <1>3, ElementRight, Zenon DEF Right
  <2> QED  BY <2>1, <2>2, <2>3, <2>4, Zenon
<1> QED  BY <1>4, <1>5, <1>6, Zenon

(***************************************************************************)
(* The chunks, of whatever size, leave no place out and none beyond it in. *)
(***************************************************************************)
LEMMA CountIsPlaces ==
    ASSUME NEW t
    PROVE  Count(t) = Places(op, t)
BY Zenon DEF Count, Places, ByElement, Size

LEMMA ChunksCover ==
    ASSUME NEW n \in Nat \ {0}, build \in Builds
    PROVE  /\ \A c \in Chunks(n) : c \in Nat \X Nat /\ c[2] <= n
           /\ \A k \in Below(n) : \E c \in Chunks(n) : k \in c[1] .. (c[2] - 1)
<1> DEFINE T == Threads(n)
           step == (n + T - 1) \div T
           C == {<<tid * step, Smaller(n, (tid + 1) * step)>> : tid \in Below(T)}
<1>1. T \in Nat \ {0}
  <2>1. build.threads \in Nat \ {0}
    BY KernelsAssumption
  <2> QED  BY <2>1 DEF Threads, Smaller
<1>2. Chunks(n) = {c \in C : c[1] < c[2]}
  BY Zenon DEF Chunks
<1> HIDE DEF T
<1>3. step \in Nat /\ n <= T * step
  <2> DEFINE m == n + T - 1
  <2>1. m \in Nat /\ m = n + T - 1
    BY <1>1
  <2> HIDE DEF m
  <2>2. m \div T \in Nat /\ m % T \in Nat /\ m % T < T /\ m = (m \div T) * T + (m % T)
    BY <1>1, <2>1, DivisionFacts
  <2> DEFINE q == m \div T
  <2>3. q * T = T * q /\ q * T \in Nat
    BY <1>1, <2>2, SMT
  <2>4. step = q
    BY DEF m
  <2> HIDE DEF q, step
  <2>5. q \in Nat /\ m = q * T + (m % T)
    BY <2>2 DEF q
  <2> QED  BY <1>1, <2>1, <2>2, <2>3, <2>4, <2>5
<1> HIDE DEF step
<1>4. ASSUME NEW tid \in Below(T)
      PROVE  /\ tid \in Nat /\ tid * step \in Nat /\ (tid + 1) * step \in Nat
             /\ (tid + 1) * step = tid * step + step
             /\ Smaller(n, (tid + 1) * step) \in Nat /\ Smaller(n, (tid + 1) * step) <= n
  <2>1. tid \in Nat
    BY <1>1 DEF Below
  <2>2. tid * step \in Nat /\ (tid + 1) * step \in Nat /\ (tid + 1) * step = tid * step + step
    BY <1>3, <2>1, SMT
  <2> QED  BY <2>1, <2>2 DEF Smaller
<1>5. \A c \in C : c \in Nat \X Nat /\ c[2] <= n
  BY <1>4
<1>6. ASSUME NEW k \in Below(n)
      PROVE  \E c \in Chunks(n) : k \in c[1] .. (c[2] - 1)
  <2>1. k \in Nat /\ k < n /\ k < T * step
    BY <1>1, <1>3 DEF Below
  <2>2. step # 0
    <3> SUFFICES ASSUME step = 0 PROVE FALSE
      OBVIOUS
    <3>1. T * 0 = 0
      BY <1>1
    <3> QED  BY <2>1, <3>1
  <2> DEFINE tid == k \div step
             c == <<tid * step, Smaller(n, (tid + 1) * step)>>
  <2>3. /\ tid \in Nat /\ k % step \in Nat /\ k % step < step
        /\ k = tid * step + (k % step) /\ tid < T
    BY <1>1, <1>3, <2>1, <2>2, DivisionFacts, QuotientLess
  <2> HIDE DEF tid
  <2>4. tid \in Below(T)
    BY <1>1, <2>3 DEF Below
  <2>5. tid * step <= k /\ k < (tid + 1) * step
    BY <1>3, <1>4, <2>3, <2>4
  <2>6. c[1] = tid * step /\ c[2] = Smaller(n, (tid + 1) * step) /\ c \in C
    BY <2>4
  <2>7. k < c[2]
    BY <1>4, <2>1, <2>4, <2>5, <2>6 DEF Smaller
  <2> HIDE DEF c, C
  <2>8. c[1] \in Nat /\ c[2] \in Nat /\ c[1] <= k /\ c[1] < c[2]
    BY <1>4, <2>1, <2>4, <2>5, <2>6, <2>7
  <2>9. c \in Chunks(n) /\ k \in c[1] .. (c[2] - 1)
    BY <1>2, <2>1, <2>6, <2>7, <2>8
  <2> QED  BY <2>9
<1> QED  BY <1>2, <1>5, <1>6

-----------------------------------------------------------------------------
(***************************************************************************)
(* The jobs of a pass are good.                                            *)
(***************************************************************************)
LEMMA MatrixOfTensor ==
    ASSUME NEW f \in Files, NEW n \in DOMAIN f.tensors, Len(f.tensors[n].dims) = 2
    PROVE  /\ f.tensors[n].dims[2] \in Nat \ {0} /\ f.tensors[n].dims[1] \in Columns
           /\ f.tensors[n].dims[1] % BlockOf(f.tensors[n].type) = 0
<1>1. f.tensors[n].dims \in Seq(Nat \ {0})
  BY WeightsAssumption
<1>2. f.tensors[n].dims # <<>>
  <2>1. Len(<<>>) = 0
    OBVIOUS
  <2> QED  BY ONLY <2>1, Len(f.tensors[n].dims) = 2
<1> QED  BY <1>1, <1>2, WeightsAssumption

LEMMA NamesOfUses ==
    ASSUME ModelInv, PassInv, LayerInv, pass # NoPass, ~AtOutput(pass),
           NEW i \in 1 .. Len(UseAt(pass).names), NEW c
    PROVE  UseAt(pass).names[i] \in DOMAIN Shapes(c) /\ UseAt(pass).names[i] # "output"
<1> DEFINE use == UseAt(pass)
           all == {"attn_q", "attn_k", "attn_v", "attn_output", "ffn_gate", "ffn_up", "ffn_down"}
<1>1. use = LayerUses(pass)[pass.k]
  BY DEF UseAt
<1>2. CASE pass.single
  <2>1. pass.k \in 1 .. 4 /\ use = ForwardUses[pass.k]
    BY <1>1, <1>2 DEF LayerInv, LayerUses, ForwardUses
  <2>2. \A k \in 1 .. 4 : \A j \in 1 .. Len(ForwardUses[k].names) : ForwardUses[k].names[j] \in all
    <3>1. \A j \in 1 .. Len(ForwardUses[1].names) : ForwardUses[1].names[j] \in all
      BY DEF ForwardUses, Use
    <3>2. \A j \in 1 .. Len(ForwardUses[2].names) : ForwardUses[2].names[j] \in all
      BY DEF ForwardUses, Use
    <3>3. \A j \in 1 .. Len(ForwardUses[3].names) : ForwardUses[3].names[j] \in all
      BY DEF ForwardUses, Use
    <3>4. \A j \in 1 .. Len(ForwardUses[4].names) : ForwardUses[4].names[j] \in all
      BY DEF ForwardUses, Use
    <3> HIDE DEF all
    <3> QED  BY <3>1, <3>2, <3>3, <3>4
  <2>3. i \in 1 .. Len(use.names)
    OBVIOUS
  <2> HIDE DEF use, all
  <2>4. use.names[i] \in all
    BY <2>1, <2>2, <2>3
  <2> QED  BY <2>4 DEF Shapes, use, all
<1>3. CASE ~pass.single
  <2>1. pass.k \in 1 .. 7 /\ use = BatchUses[pass.k]
    BY <1>1, <1>3 DEF LayerInv, LayerUses, BatchUses
  <2>2. \A k \in 1 .. 7 : Len(BatchUses[k].names) = 1 /\ BatchUses[k].names[1] \in all
    BY DEF BatchUses, Use
  <2>3. i \in 1 .. Len(use.names)
    OBVIOUS
  <2> HIDE DEF use, all
  <2>4. i = 1
    <3>1. Len(use.names) = 1
      BY <2>1, <2>2, Zenon
    <3> QED  BY ONLY <2>3, <3>1
  <2>5. use.names[i] \in all
    BY <2>1, <2>2, <2>4
  <2> QED  BY <2>5 DEF Shapes, use, all
<1> QED  BY <1>2, <1>3

LEMMA NamesOfUse ==
    ASSUME ModelInv, PassInv, LayerInv, pass # NoPass
    PROVE  Len(UseAt(pass).names) \in Nat \ {0}
<1>1. CASE AtOutput(pass)
  BY <1>1 DEF UseAt, OutputUse, Use
<1>2. CASE ~AtOutput(pass) /\ pass.single
  <2>1. pass.k \in 1 .. 4 /\ UseAt(pass) = ForwardUses[pass.k]
    BY <1>2 DEF LayerInv, LayerUses, ForwardUses, UseAt
  <2>2. \A k \in 1 .. 4 : Len(ForwardUses[k].names) \in Nat \ {0}
    BY DEF ForwardUses, Use
  <2> QED  BY <2>1, <2>2
<1>3. CASE ~AtOutput(pass) /\ ~pass.single
  <2>1. pass.k \in 1 .. 7 /\ UseAt(pass) = BatchUses[pass.k]
    BY <1>3 DEF LayerInv, LayerUses, BatchUses, UseAt
  <2>2. \A k \in 1 .. 7 : Len(BatchUses[k].names) = 1
    BY DEF BatchUses, Use
  <2>3. Len(BatchUses[pass.k].names) = 1
    BY <2>1, <2>2
  <2>4. Len(UseAt(pass).names) = 1
    BY <2>1, <2>3, Zenon
  <2> QED  BY <2>4
<1> QED  BY <1>1, <1>2, <1>3

LEMMA JobsAreGood ==
    ASSUME ModelInv, PassInv, LayerInv, pass # NoPass
    PROVE  /\ Len(Matrices(pass)) \in Nat \ {0}
           /\ \A i \in 1 .. Len(Matrices(pass)) : GoodJob(OpOf(pass), Matrices(pass)[i])
<1> DEFINE c == Config(file)
<1>1. model = c /\ Accepts(file) /\ file \in Files /\ pass.batch \in Nat \ {0}
      /\ (pass.single => pass.batch = 1)
  BY DEF ModelInv, PassInv
<1>2. Len(Matrices(pass)) = Len(UseAt(pass).names)
      /\ \A i \in 1 .. Len(UseAt(pass).names) : Matrices(pass)[i] = Matrix(UseAt(pass).names[i], pass)
  BY NamesOfUse DEF Matrices
<1>3. OpOf(pass).batched <=> ~pass.single /\ ~AtOutput(pass)
  BY Zenon DEF OpOf
<1>4. CASE AtOutput(pass)
  <2>1. UseAt(pass).names = <<"output">>
    BY <1>4 DEF UseAt, OutputUse, Use
  <2> DEFINE n == OutputOf(file)
             m == Matrix("output", pass)
  <2>2. n \in DOMAIN file.tensors
    BY <1>1 DEF OutputOf, Has, Accepts, EmbeddingFits
  <2>3. Len(file.tensors[n].dims) = 2
    <3>1. file.tensors[n].dims = <<file.embd, Config(file).vocab>>
      BY <1>1 DEF Accepts
    <3> QED  BY <3>1
  <2>4. /\ file.tensors[n].dims[2] \in Nat \ {0} /\ file.tensors[n].dims[1] \in Columns
        /\ file.tensors[n].dims[1] % BlockOf(file.tensors[n].type) = 0
    <3> HIDE DEF n
    <3> QED  BY <1>1, <2>2, <2>3, MatrixOfTensor
  <2>5. /\ m.type = file.tensors[n].type /\ m.cols = file.tensors[n].dims[1]
        /\ m.rows = file.tensors[n].dims[2] /\ m.batch = 1
    BY <1>4, Zenon DEF Matrix
  <2> HIDE DEF m, n
  <2>6. GoodJob(OpOf(pass), m)
    BY <2>4, <2>5 DEF GoodJob
  <2> QED  BY <1>2, <2>1, <2>6 DEF m
<1>5. CASE ~AtOutput(pass)
  <2> SUFFICES ASSUME NEW i \in 1 .. Len(UseAt(pass).names)
               PROVE  GoodJob(OpOf(pass), Matrix(UseAt(pass).names[i], pass))
    BY <1>2, NamesOfUse
  <2> DEFINE name == UseAt(pass).names[i]
             m == Matrix(name, pass)
             n == <<name, pass.li>>
  <2>1. name \in DOMAIN Shapes(c) /\ name # "output"
    BY <1>5, NamesOfUses
  <2>2. pass.li \in Below(file.layers)
    <3>1. model.layers = file.layers /\ file.layers \in Nat
      BY <1>1, WeightsTypes DEF Config
    <3> QED  BY <1>5, <3>1 DEF LayerInv, AtOutput, Below
  <2> HIDE DEF name
  <2>3. n \in DOMAIN file.tensors /\ file.tensors[n].dims = Shapes(c)[name]
    BY <1>1, <2>1, <2>2 DEF Accepts, LayerFits, Has
  <2>4. Len(Shapes(c)[name]) = 2
    BY <2>1 DEF Shapes
  <2>5. /\ file.tensors[n].dims[2] \in Nat \ {0} /\ file.tensors[n].dims[1] \in Columns
        /\ file.tensors[n].dims[1] % BlockOf(file.tensors[n].type) = 0
    <3> HIDE DEF n, c
    <3> QED  BY <1>1, <2>3, <2>4, MatrixOfTensor
  <2>6. /\ m.type = file.tensors[n].type /\ m.cols = file.tensors[n].dims[1]
        /\ m.rows = file.tensors[n].dims[2] /\ m.batch = pass.batch
    BY <1>5, <2>1, Zenon DEF Matrix
  <2>7. ~OpOf(pass).batched => pass.batch = 1
    BY <1>1, <1>3, <1>5, Zenon
  <2> HIDE DEF m, n
  <2>8. GoodJob(OpOf(pass), m)
    BY <1>1, <2>5, <2>6, <2>7 DEF GoodJob
  <2> QED  BY <2>8 DEF m, name
<1> QED  BY <1>2, <1>4, <1>5, NamesOfUse

-----------------------------------------------------------------------------
(***************************************************************************)
(* A call under way: every element is unset or right, all of the matrices  *)
(* before the one in hand are right, and what is not set of that one has   *)
(* its place in a chunk that is still to run, unless a chunk has thrown,   *)
(* which only happens for a type without a kernel.                         *)
(***************************************************************************)
Partial(t, ys) ==
    /\ DOMAIN ys = Below(Size(t))
    /\ \A i \in DOMAIN ys : ys[i] \in {NoProduct, Right(t, i)}
Whole(t, ys) == \A i \in DOMAIN ys : ys[i] = Right(t, i)
ToRun(o, t, ys, chunks) ==
    \A i \in DOMAIN ys :
        ys[i] = Right(t, i) \/ \E c \in chunks : Place(o, t, i) \in c[1] .. (c[2] - 1)

CallInv ==
    /\ at \in 1 .. Len(jobs) /\ DOMAIN y = 1 .. Len(jobs)
    /\ \A j \in 1 .. Len(jobs) : Partial(jobs[j], y[j])
    /\ \A j \in 1 .. (at - 1) : Whole(jobs[j], y[j])
    /\ \A c \in team : c \in Nat \X Nat /\ c[2] <= Places(op, jobs[at])
    /\ failed => jobs[at].type \notin KnownTypes
    /\ way # "none" /\ ~failed => ToRun(op, jobs[at], y[at], team)

WorkInv ==
    /\ build \in Builds
    /\ failed \in BOOLEAN
    /\ ended # "running" \/ way = "none" => team = {} /\ ~failed
    /\ ended # "running" => way = "none"
    /\ ended = "running" => CallInv

LEMMA WorkInvInit == WeightsInit => WorkInv
BY DEF WeightsInit, KernelInit, WorkInv

LEMMA JobsInHand ==
    ASSUME WeightsInv, ended = "running"
    PROVE  Len(jobs) \in Nat \ {0} /\ \A j \in 1 .. Len(jobs) : GoodJob(op, jobs[j])
<1>1. pass # NoPass /\ jobs = Matrices(pass) /\ op = OpOf(pass)
      /\ ModelInv /\ PassInv /\ LayerInv
  BY DEF WeightsInv, RunInv
<1>2. /\ Len(Matrices(pass)) \in Nat \ {0}
      /\ \A i \in 1 .. Len(Matrices(pass)) : GoodJob(OpOf(pass), Matrices(pass)[i])
  BY <1>1, JobsAreGood
<1> QED  BY <1>1, <1>2, Zenon

(***************************************************************************)
(* What the elements mean to Product.                                      *)
(***************************************************************************)
DueOf(t, i) == [row |-> i % t.rows, token |-> i \div t.rows]
Results(ys) == [j \in DOMAIN ys |-> [i \in DOMAIN ys[j] |-> Meaning(ys[j][i])]]

LEMMA MeaningOfNone == Meaning(NoProduct) = NoProduct
<1>1. ~NoProduct.whole
  BY Zenon DEF NoProduct
<1> QED  BY <1>1, Zenon DEF Meaning

LEMMA MeaningOfRight ==
    ASSUME NEW t, NEW i
    PROVE  Meaning(Right(t, i)) = DueOf(t, i) /\ DueOf(t, i) # NoProduct
<1>1. Right(t, i).whole /\ Right(t, i).row = i % t.rows /\ Right(t, i).token = i \div t.rows
  BY Zenon DEF Right
<1>2. Meaning(Right(t, i)) = DueOf(t, i)
  BY <1>1, Zenon DEF Meaning, DueOf
<1>3. DOMAIN DueOf(t, i) = {"row", "token"} /\ DOMAIN NoProduct = {"row", "token", "whole"}
  BY Zenon DEF DueOf, NoProduct
<1>4. "whole" \in DOMAIN NoProduct /\ "whole" \notin DOMAIN DueOf(t, i)
  BY <1>3
<1>5. DOMAIN NoProduct # DOMAIN DueOf(t, i)
  BY <1>4, Zenon
<1> QED  BY <1>2, <1>5, Zenon

Advances(js, y1, y2) ==
    /\ DOMAIN y2 = DOMAIN y1
    /\ \A j \in DOMAIN y1 : DOMAIN y2[j] = DOMAIN y1[j] /\ \A i \in DOMAIN y1[j] :
          /\ y1[j][i] \in {NoProduct, Right(js[j], i)}
          /\ y2[j][i] \in {y1[j][i], Right(js[j], i)}

Computes(js, r1, r2) ==
    /\ DOMAIN r2 = DOMAIN r1
    /\ \A j \in DOMAIN r1 : DOMAIN r2[j] = DOMAIN r1[j] /\ \A i \in DOMAIN r1[j] :
          \/ r2[j][i] = r1[j][i]
          \/ r1[j][i] = NoProduct /\ r2[j][i] = DueOf(js[j], i)

LEMMA ElementsComputed ==
    ASSUME NEW y1, NEW y2, NEW js, Advances(js, y1, y2)
    PROVE  Computes(js, Results(y1), Results(y2))
<1>1. DOMAIN Results(y1) = DOMAIN y1 /\ DOMAIN Results(y2) = DOMAIN y1
  BY DEF Results, Advances
<1>2. ASSUME NEW j \in DOMAIN y1
      PROVE  /\ DOMAIN Results(y1)[j] = DOMAIN y1[j] /\ DOMAIN Results(y2)[j] = DOMAIN y1[j]
             /\ \A i \in DOMAIN y1[j] : /\ Results(y1)[j][i] = Meaning(y1[j][i])
                                        /\ Results(y2)[j][i] = Meaning(y2[j][i])
  BY DEF Results, Advances
<1>3. ASSUME NEW j \in DOMAIN y1, NEW i \in DOMAIN y1[j]
      PROVE  \/ Results(y2)[j][i] = Results(y1)[j][i]
             \/ Results(y1)[j][i] = NoProduct /\ Results(y2)[j][i] = DueOf(js[j], i)
  <2>1. Results(y1)[j][i] = Meaning(y1[j][i]) /\ Results(y2)[j][i] = Meaning(y2[j][i])
    BY <1>2
  <2>2. CASE y2[j][i] = y1[j][i]
    BY <2>1, <2>2
  <2>3. CASE y2[j][i] = Right(js[j], i) /\ y1[j][i] = NoProduct
    <3>1. Meaning(y1[j][i]) = NoProduct
      BY <2>3, MeaningOfNone
    <3>2. Meaning(y2[j][i]) = DueOf(js[j], i)
      BY <2>3, MeaningOfRight
    <3> QED  BY <2>1, <3>1, <3>2
  <2> QED  BY <2>2, <2>3 DEF Advances
<1> QED  BY <1>1, <1>2, <1>3 DEF Computes

LEMMA ElementsAllSet ==
    ASSUME NEW ys, NEW js, \A j \in DOMAIN ys : Whole(js[j], ys[j])
    PROVE  \A j \in DOMAIN Results(ys) : \A i \in DOMAIN Results(ys)[j] :
              Results(ys)[j][i] # NoProduct
<1> SUFFICES ASSUME NEW j \in DOMAIN ys, NEW i \in DOMAIN ys[j]
             PROVE  Meaning(ys[j][i]) # NoProduct
  BY DEF Results
<1>1. ys[j][i] = Right(js[j], i)
  BY DEF Whole
<1> QED  BY <1>1, MeaningOfRight

-----------------------------------------------------------------------------
(***************************************************************************)
(* Each action keeps WorkInv and is a step of Product, or none.            *)
(***************************************************************************)
LEMMA BeginsWell ==
    ASSUME WeightsInv, WorkInv, KernelBegins
    PROVE  WorkInv' /\ Promise!Begin
<1>1. /\ pass # NoPass /\ ended # "running"
      /\ jobs' = Matrices(pass) /\ at' = 1 /\ ended' = "running"
      /\ UNCHANGED <<build, way, team, failed>>
      /\ y' = [j \in 1 .. Len(jobs') |-> [i \in Below(jobs'[j].batch * jobs'[j].rows) |-> NoProduct]]
  BY DEF KernelBegins, Begins
<1>2. op' = OpOf(pass)
  BY Zenon DEF KernelBegins, Begins, OpOf
<1>3. PICK js, ys : js = Matrices(pass) /\ jobs' = js /\ y' = ys
  BY <1>1
<1>4. Len(js) \in Nat \ {0} /\ \A j \in 1 .. Len(js) : GoodJob(OpOf(pass), js[j])
  BY <1>1, <1>3, JobsAreGood DEF WeightsInv
<1>5. /\ ys = [j \in 1 .. Len(js) |-> [i \in Below(Size(js[j])) |-> NoProduct]]
      /\ DOMAIN ys = 1 .. Len(js)
      /\ \A j \in 1 .. Len(js) : /\ DOMAIN ys[j] = Below(Size(js[j]))
                                 /\ \A i \in Below(Size(js[j])) : ys[j][i] = NoProduct
  BY <1>1, <1>3 DEF Size
<1>6. team = {} /\ failed = FALSE /\ way = "none" /\ build \in Builds
  BY <1>1 DEF WorkInv
<1>7. \A j \in 1 .. Len(js) : Partial(js[j], ys[j])
  BY <1>5 DEF Partial
<1>8. CallInv'
  <2>1. 1 \in 1 .. Len(js) /\ 1 .. (1 - 1) = {}
    BY <1>4
  <2> QED  BY <1>1, <1>3, <1>5, <1>6, <1>7, <2>1 DEF CallInv
<1>9. WorkInv'
  BY <1>1, <1>6, <1>8 DEF WorkInv
<1>10. Promise!Begin
  <2>1. Results(ys) = [j \in 1 .. Len(js) |->
                          [i \in 0 .. (js[j].batch * js[j].rows - 1) |-> NoProduct]]
    <3>1. Results(ys) = [j \in 1 .. Len(js) |-> [i \in Below(Size(js[j])) |-> Meaning(NoProduct)]]
      BY <1>5 DEF Results
    <3> QED  BY <3>1, MeaningOfNone DEF Below, Size
  <2>2. \A j \in 1 .. Len(js) : js[j].rows > 0 /\ js[j].batch > 0
    BY <1>4 DEF GoodJob
  <2>3. [j \in DOMAIN y |-> [i \in DOMAIN y[j] |-> Meaning(y[j][i])]]' = Results(ys)
    BY <1>3 DEF Results, Meaning, NoProduct
  <2> QED  BY <1>1, <1>3, <2>1, <2>2, <2>3 DEF Promise!Begin, Promise!Elements
<1> QED  BY <1>9, <1>10

LEMMA RunsWell ==
    ASSUME WeightsInv, WorkInv, RunsChunk
    PROVE  WorkInv' /\ Promise!Compute
<1>1. PICK t, k : t = jobs[at] /\ k = at
  OBVIOUS
<1>2. PICK chunk \in team :
         /\ ended = "running" /\ t.type \in KnownTypes
         /\ y' = [y EXCEPT ![at] = [i \in DOMAIN @ |->
                     IF i \in DOMAIN Computed(t, chunk[1], chunk[2])
                     THEN Computed(t, chunk[1], chunk[2])[i] ELSE @[i]]]
         /\ team' = team \ {chunk}
         /\ UNCHANGED <<build, jobs, op, at, way, failed, ended>>
  BY <1>1 DEF RunsChunk, job
<1>3. CallInv /\ build \in Builds /\ failed \in BOOLEAN /\ way # "none" /\ ~failed
  BY <1>1, <1>2 DEF WorkInv, CallInv
<1>4. k \in 1 .. Len(jobs) /\ DOMAIN y = 1 .. Len(jobs) /\ GoodJob(op, t)
      /\ chunk \in Nat \X Nat /\ chunk[2] <= Places(op, t)
  BY <1>1, <1>2, <1>3, JobsInHand DEF CallInv
<1> DEFINE a == chunk[1]
           b == chunk[2]
           new == y'
<1>5. a \in Nat /\ b \in Nat /\ b <= Places(op, t)
  BY <1>4
<1>6. /\ DOMAIN y' = DOMAIN y /\ \A j \in DOMAIN y : j # k => y'[j] = y[j]
      /\ DOMAIN y'[k] = DOMAIN y[k]
      /\ \A i \in DOMAIN y[k] :
            y'[k][i] = IF i \in DOMAIN Computed(t, a, b) THEN Computed(t, a, b)[i] ELSE y[k][i]
  BY <1>1, <1>2, <1>4
<1> HIDE DEF a, b
<1>7. Partial(t, y[k])
  BY <1>1, <1>3, <1>4 DEF CallInv
<1>8. DOMAIN y[k] = Below(Size(t))
  BY <1>7 DEF Partial
<1>9. \A i \in DOMAIN y[k] :
         y'[k][i] = IF Place(op, t, i) \in a .. (b - 1) THEN Right(t, i) ELSE y[k][i]
  <2>1. \A i \in Below(Size(t)) :
           /\ i \in DOMAIN Computed(t, a, b) <=> Place(op, t, i) \in a .. (b - 1)
           /\ i \in DOMAIN Computed(t, a, b) => Computed(t, a, b)[i] = Right(t, i)
    BY <1>2, <1>4, <1>5, ChunkComputes
  <2> QED  BY <1>6, <1>8, <2>1, Zenon
<1>10. \A j \in DOMAIN y : DOMAIN y'[j] = DOMAIN y[j] /\ \A i \in DOMAIN y[j] :
          /\ y[j][i] \in {NoProduct, Right(jobs[j], i)}
          /\ y'[j][i] \in {y[j][i], Right(jobs[j], i)}
  <2> SUFFICES ASSUME NEW j \in DOMAIN y
               PROVE  DOMAIN y'[j] = DOMAIN y[j] /\ \A i \in DOMAIN y[j] :
                         /\ y[j][i] \in {NoProduct, Right(jobs[j], i)}
                         /\ y'[j][i] \in {y[j][i], Right(jobs[j], i)}
    OBVIOUS
  <2>1. \A i \in DOMAIN y[j] : y[j][i] \in {NoProduct, Right(jobs[j], i)}
    BY <1>3, <1>4 DEF CallInv, Partial
  <2>2. CASE j # k
    BY <1>6, <2>1, <2>2
  <2>3. CASE j = k
    BY <1>1, <1>6, <1>9, <2>1, <2>3
  <2> QED  BY <2>2, <2>3
<1>11. CallInv'
  <2>1. at' \in 1 .. Len(jobs') /\ DOMAIN y' = 1 .. Len(jobs')
    BY <1>1, <1>2, <1>4, <1>6
  <2>2. ASSUME NEW j \in 1 .. Len(jobs) PROVE Partial(jobs[j], y'[j])
    <3>1. Partial(jobs[j], y[j])
      BY <1>3 DEF CallInv
    <3> QED  BY <1>4, <1>10, <3>1 DEF Partial
  <2>3. ASSUME NEW j \in 1 .. (k - 1) PROVE Whole(jobs[j], y'[j])
    <3>1. Whole(jobs[j], y[j]) /\ j # k /\ j \in DOMAIN y
      BY <1>1, <1>3, <1>4, JobsInHand, <1>2 DEF CallInv
    <3> QED  BY <1>6, <3>1
  <2>4. \A c \in team' : c \in Nat \X Nat /\ c[2] <= Places(op, jobs[at])
    BY <1>2, <1>3 DEF CallInv
  <2>5. ToRun(op, t, y'[k], team')
    <3>1. ToRun(op, t, y[k], team)
      BY <1>1, <1>3 DEF CallInv
    <3>2. ASSUME NEW i \in DOMAIN y[k], y'[k][i] # Right(t, i)
          PROVE  \E c \in team' : Place(op, t, i) \in c[1] .. (c[2] - 1)
      <4>1. Place(op, t, i) \notin a .. (b - 1) /\ y[k][i] # Right(t, i)
        BY <1>9, <3>2, Zenon
      <4>2. PICK c \in team : Place(op, t, i) \in c[1] .. (c[2] - 1)
        BY <3>1, <4>1, Zenon DEF ToRun
      <4>3. c # chunk
        BY <4>1, <4>2 DEF a, b
      <4> QED  BY <1>2, <4>2, <4>3
    <3> QED  BY <1>6, <3>2, Zenon DEF ToRun
  <2> QED  BY <1>1, <1>2, <1>3, <2>1, <2>2, <2>3, <2>4, <2>5 DEF CallInv
<1>12. WorkInv'
  BY <1>2, <1>3, <1>11 DEF WorkInv
<1>13. Promise!Compute
  <2>1. PICK y1, y2, js : y1 = y /\ y2 = y' /\ js = jobs
    OBVIOUS
  <2>2. Advances(js, y1, y2)
    BY <1>6, <1>10, <2>1 DEF Advances
  <2>3. Computes(js, Results(y1), Results(y2))
    BY <2>2, ElementsComputed
  <2>4. [j \in DOMAIN y |-> [i \in DOMAIN y[j] |-> Meaning(y[j][i])]] = Results(y1)
    BY <2>1 DEF Results
  <2>5. [j \in DOMAIN y |-> [i \in DOMAIN y[j] |-> Meaning(y[j][i])]]' = Results(y2)
    BY <2>1 DEF Results, Meaning, NoProduct
  <2>6. PICK r1, r2 : r1 = Results(y1) /\ r2 = Results(y2)
    OBVIOUS
  <2>7. /\ DOMAIN r2 = DOMAIN r1
        /\ \A j \in DOMAIN r1 : DOMAIN r2[j] = DOMAIN r1[j] /\ \A i \in DOMAIN r1[j] :
              \/ r2[j][i] = r1[j][i]
              \/ r1[j][i] = NoProduct /\ r2[j][i] = Promise!Due(jobs[j], i)
    BY <2>1, <2>3, <2>6 DEF Computes, DueOf, Promise!Due
  <2>8. /\ [j \in DOMAIN y |-> [i \in DOMAIN y[j] |-> Meaning(y[j][i])]] = r1
        /\ [j \in DOMAIN y |-> [i \in DOMAIN y[j] |-> Meaning(y[j][i])]]' = r2
    BY <2>4, <2>5, <2>6
  <2>9. ended = "running" /\ ended' = ended /\ jobs' = jobs
    BY <1>2
  <2> QED  BY ONLY <2>7, <2>8, <2>9, ZenonT(60) DEF Promise!Compute
<1> QED  BY <1>12, <1>13

LEMMA DispatchesWell ==
    ASSUME WeightsInv, WorkInv, Dispatches
    PROVE  WorkInv' /\ UNCHANGED <<jobs, y, ended>>
<1>1. PICK t, k : t = jobs[at] /\ k = at
  OBVIOUS
<1>2. /\ ended = "running" /\ way = "none"
      /\ way' = Way(Count(t)) /\ team' = Chunks(Count(t))
      /\ UNCHANGED <<build, jobs, op, at, failed, y, ended>>
  BY <1>1 DEF Dispatches, job
<1>3. CallInv /\ build \in Builds /\ failed \in BOOLEAN /\ ~failed
  BY <1>2 DEF WorkInv
<1>4. k \in 1 .. Len(jobs) /\ GoodJob(op, t)
  BY <1>1, <1>2, <1>3, JobsInHand DEF CallInv
<1>5. Count(t) = Places(op, t) /\ Places(op, t) \in Nat \ {0}
  BY <1>4, CountIsPlaces, SizeFacts
<1> DEFINE n == Places(op, t)
<1>6. /\ \A c \in Chunks(n) : c \in Nat \X Nat /\ c[2] <= n
      /\ \A p \in Below(n) : \E c \in Chunks(n) : p \in c[1] .. (c[2] - 1)
  <2> HIDE DEF n
  <2>1. n \in Nat \ {0}
    BY <1>5 DEF n
  <2> QED  BY <1>3, <2>1, ChunksCover
<1>7. way' # "none"
  <2>1. \A m : Way(m) # "none"
    BY DEF Way
  <2> QED  BY <1>2, <2>1
<1>8. ToRun(op, t, y[k], team')
  <2>1. Partial(t, y[k])
    BY <1>1, <1>3, <1>4 DEF CallInv
  <2>2. \A i \in DOMAIN y[k] : Place(op, t, i) \in Below(n)
    BY <1>4, <2>1, SizeFacts DEF Partial
  <2> QED  BY <1>2, <1>5, <1>6, <2>2 DEF ToRun
<1>9. CallInv'
  BY <1>1, <1>2, <1>3, <1>5, <1>6, <1>8 DEF CallInv
<1> QED  BY <1>2, <1>3, <1>7, <1>9 DEF WorkInv

LEMMA FailsWell ==
    ASSUME WorkInv, RefusesType \/ ChunkThrows
    PROVE  WorkInv' /\ (Promise!Fail \/ UNCHANGED <<jobs, y, ended>>)
<1>1. ended = "running" /\ CallInv /\ jobs[at].type \notin KnownTypes
  BY DEF RefusesType, ChunkThrows, WorkInv, job
<1>2. at \in 1 .. Len(jobs) /\ build \in Builds
  BY <1>1 DEF WorkInv, CallInv
<1>3. CASE (Ends("threw") \/ Ends("terminated")) /\ UNCHANGED <<build, jobs, op, at, y>>
  <2>1. /\ ended' \in {"threw", "terminated"} /\ way' = "none" /\ team' = {} /\ failed' = FALSE
        /\ UNCHANGED <<build, jobs, y>>
    BY <1>3 DEF Ends
  <2>2. WorkInv'
    BY <1>2, <2>1 DEF WorkInv
  <2>3. [j \in DOMAIN y |-> [i \in DOMAIN y[j] |-> Meaning(y[j][i])]]'
           = [j \in DOMAIN y |-> [i \in DOMAIN y[j] |-> Meaning(y[j][i])]]
    BY <2>1 DEF Meaning, NoProduct
  <2>4. Promise!Fail
    BY <1>1, <1>2, <2>1, <2>3 DEF Promise!Fail
  <2> QED  BY <2>2, <2>4
<1>4. ASSUME NEW chunk \in team, team' = team \ {chunk}, failed' = TRUE,
             UNCHANGED <<way, ended, build, jobs, op, at, y>>
      PROVE  WorkInv' /\ UNCHANGED <<jobs, y, ended>>
  <2>1. way # "none"
    BY <1>4 DEF WorkInv
  <2>2. CallInv'
    BY <1>1, <1>4 DEF CallInv
  <2> QED  BY <1>1, <1>2, <1>4, <2>1, <2>2 DEF WorkInv
<1> QED  BY <1>3, <1>4 DEF RefusesType, ChunkThrows

LEMMA JoinsWell ==
    ASSUME WeightsInv, WorkInv, Joins
    PROVE  WorkInv' /\ (Promise!Return \/ Promise!Fail \/ UNCHANGED <<jobs, y, ended>>)
<1>1. /\ ended = "running" /\ way # "none" /\ team = {} /\ UNCHANGED <<build, jobs, op, y>>
      /\ IF failed \/ at = Len(jobs)
         THEN Ends(IF failed THEN "threw" ELSE "ok") /\ at' = at
         ELSE at' = at + 1 /\ way' = "none" /\ UNCHANGED <<team, failed, ended>>
  BY DEF Joins
<1>2. CallInv /\ build \in Builds /\ failed \in BOOLEAN
  BY <1>1 DEF WorkInv
<1>3. Len(jobs) \in Nat /\ at \in 1 .. Len(jobs) /\ DOMAIN y = 1 .. Len(jobs)
  BY <1>1, <1>2, JobsInHand DEF CallInv
<1>4. ~failed => \A j \in 1 .. at : Whole(jobs[j], y[j])
  <2>1. ~failed => Whole(jobs[at], y[at])
    BY <1>1, <1>2 DEF CallInv, ToRun, Whole
  <2>2. \A j \in 1 .. (at - 1) : Whole(jobs[j], y[j])
    BY <1>2 DEF CallInv
  <2> QED  BY <1>3, <2>1, <2>2
<1>5. [j \in DOMAIN y |-> [i \in DOMAIN y[j] |-> Meaning(y[j][i])]]'
           = [j \in DOMAIN y |-> [i \in DOMAIN y[j] |-> Meaning(y[j][i])]]
  BY <1>1 DEF Meaning, NoProduct
<1>6. CASE failed
  <2>1. /\ ended' = "threw" /\ way' = "none" /\ team' = {} /\ failed' = FALSE
    BY <1>1, <1>6 DEF Ends
  <2>2. WorkInv'
    BY <1>1, <1>2, <2>1 DEF WorkInv
  <2>3. jobs[at].type \notin KnownTypes
    BY <1>2, <1>6 DEF CallInv
  <2>4. Promise!Fail
    BY <1>1, <1>3, <1>5, <2>1, <2>3 DEF Promise!Fail
  <2> QED  BY <2>2, <2>4
<1>7. CASE ~failed /\ at = Len(jobs)
  <2>1. /\ ended' = "ok" /\ way' = "none" /\ team' = {} /\ failed' = FALSE
    BY <1>1, <1>7 DEF Ends
  <2>2. WorkInv'
    BY <1>1, <1>2, <2>1 DEF WorkInv
  <2>3. PICK y1, js : y1 = y /\ js = jobs
    OBVIOUS
  <2>4. \A j \in DOMAIN y1 : Whole(js[j], y1[j])
    BY <1>3, <1>4, <1>7, <2>3
  <2>5. \A j \in DOMAIN Results(y1) : \A i \in DOMAIN Results(y1)[j] :
              Results(y1)[j][i] # NoProduct
    BY <2>4, ElementsAllSet
  <2>6. [j \in DOMAIN y |-> [i \in DOMAIN y[j] |-> Meaning(y[j][i])]] = Results(y1)
    BY <2>3 DEF Results
  <2>7. Promise!Return
    BY <1>1, <1>5, <2>1, <2>5, <2>6 DEF Promise!Return
  <2> QED  BY <2>2, <2>7
<1>8. CASE ~failed /\ at # Len(jobs)
  <2>1. at' = at + 1 /\ way' = "none" /\ UNCHANGED <<team, failed, ended>>
    BY <1>1, <1>8
  <2>2. at + 1 \in 1 .. Len(jobs) /\ (at + 1) - 1 = at
    BY <1>3, <1>8
  <2>3. CallInv'
    BY <1>1, <1>2, <1>4, <1>8, <2>1, <2>2 DEF CallInv
  <2> QED  BY <1>1, <1>2, <1>8, <2>1, <2>3 DEF WorkInv
<1> QED  BY <1>6, <1>7, <1>8

LEMMA StepIsProduct ==
    ASSUME WeightsInv, WorkInv, [WeightsNext]_weightVars
    PROVE  WorkInv' /\ [Promise!ProductNext]_(Promise!productVars)
<1>1. CASE KernelBegins
  BY <1>1, BeginsWell DEF Promise!ProductNext
<1>2. ASSUME WorkInv', UNCHANGED <<jobs, y, ended>>
      PROVE  UNCHANGED Promise!productVars
  <2>1. [j \in DOMAIN y |-> [i \in DOMAIN y[j] |-> Meaning(y[j][i])]]'
           = [j \in DOMAIN y |-> [i \in DOMAIN y[j] |-> Meaning(y[j][i])]]
    BY <1>2 DEF Meaning, NoProduct
  <2> QED  BY <1>2, <2>1 DEF Promise!productVars
<1>3. CASE KernelRuns
  <2>1. RefusesType \/ Dispatches \/ RunsChunk \/ ChunkThrows \/ Joins
    BY <1>3 DEF KernelRuns, KernelStep
  <2> QED  BY <1>2, <2>1, RunsWell, DispatchesWell, FailsWell, JoinsWell DEF Promise!ProductNext
<1>4. CASE UNCHANGED kernelVars
  <2>1. UNCHANGED <<build, jobs, op, at, way, team, failed, y, ended>>
    BY <1>4 DEF kernelVars, workVars
  <2>2. WorkInv'
    BY <2>1 DEF WorkInv, CallInv
  <2> QED  BY <1>2, <2>1, <2>2
<1>5. KernelBegins \/ KernelRuns \/ UNCHANGED kernelVars
  BY DEF WeightsNext, Loads, PassBegins, weightVars
<1> QED  BY <1>1, <1>3, <1>4, <1>5

(***************************************************************************)
(* ImplementsProduct for every file, batch size, build, block size and     *)
(* thread count: whatever runs the chunks of a kernel, and in whichever    *)
(* order, and whichever loops compute them, a call is a matrix product.    *)
(***************************************************************************)
THEOREM KernelsAreProducts == WeightsSpec => ImplementsProduct
<1>1. WeightsInit => Promise!ProductInit
  <2> SUFFICES ASSUME WeightsInit PROVE Promise!ProductInit
    OBVIOUS
  <2>1. jobs = <<>> /\ y = <<>> /\ ended = "none"
    BY DEF WeightsInit, KernelInit
  <2>2. [j \in DOMAIN y |-> [i \in DOMAIN y[j] |-> Meaning(y[j][i])]] = <<>>
    BY <2>1
  <2> QED  BY <2>1, <2>2 DEF Promise!ProductInit
<1>2. WeightsInv /\ WorkInv /\ [WeightsNext]_weightVars
         => WorkInv' /\ [Promise!ProductNext]_(Promise!productVars)
  BY StepIsProduct
<1> QED
  BY <1>1, <1>2, WeightsInvInit, WeightsInvNext, WorkInvInit, PTL
  DEF WeightsSpec, ImplementsProduct, Promise!ProductSpec
=============================================================================
