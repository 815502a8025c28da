------------------------------ MODULE Kernels -------------------------------
(***************************************************************************)
(* The matrix kernels (src/src/gguf_kernels.cpp): which elements of a      *)
(* result a call computes, from what, on which threads, and how an error   *)
(* leaves it.  A call works through its matrices one after the other; the  *)
(* rows of each are cut into chunks, and a chunk is one step of a thread.  *)
(*                                                                         *)
(* An OpenMP region is given the threads it asks for.                      *)
(***************************************************************************)
EXTENDS QuantBlocks, Sequences

CONSTANTS
    Builds,    \* OpenMP or not, thread counts, MEMVANTA_FORCE_Q8_ACT
    Columns    \* numbers of columns of the matrices

ASSUME KernelsAssumption ==
    /\ Builds \subseteq [openmp : BOOLEAN, threads : Nat \ {0}, forceQ8 : BOOLEAN]
    /\ Columns \subseteq Nat

VARIABLES
    build,     \* one of them
    jobs,      \* the matrices of the call, with its batch
    op,        \* tensor_matvec(_group) or tensor_matmul_batch_v06, with a pool?
    at,        \* the matrix in hand
    way,       \* what runs its chunks
    team,      \* the chunks not run yet
    failed,    \* has one of them thrown
    y,         \* for each matrix, the elements of its result
    ended      \* how the call ended

workVars == <<at, way, team, failed>>
kernelVars == <<build, jobs, op, workVars, y, ended>>

NoProduct == [row |-> 0, token |-> 0, whole |-> FALSE]
NoOp == [batched |-> FALSE, pool |-> FALSE]

KernelInit ==
    /\ build \in Builds
    /\ jobs = <<>> /\ op = NoOp
    /\ at = 0 /\ way = "none" /\ team = {} /\ failed = FALSE
    /\ y = <<>> /\ ended = "none"

job == jobs[at]

-----------------------------------------------------------------------------
(***************************************************************************)
(* parallel_rows.                                                          *)
(***************************************************************************)
Smaller(a, b) == IF a <= b THEN a ELSE b
Threads(n) == Smaller(n, build.threads)

\* The pool is used when it has as many threads as there is work for.
Way(n) == CASE op.pool /\ build.threads = Threads(n) -> "pool"
            [] ~(op.pool /\ build.threads = Threads(n)) /\ build.openmp -> "region"
            [] OTHER -> IF Threads(n) = 1 THEN "caller" ELSE "threads"

Chunks(n) ==
    LET step == (n + Threads(n) - 1) \div Threads(n)
    IN  {c \in {<<tid * step, Smaller(n, (tid + 1) * step)>> : tid \in Below(Threads(n))} :
            c[1] < c[2]}

\* An error leaves a pool, or the calling thread, and nothing else.
Survives == way \in {"pool", "caller"}

-----------------------------------------------------------------------------
(***************************************************************************)
(* What a chunk computes: from elements of the result to the row and the   *)
(* token they come from, and whether the dot product that computes them is *)
(* one over all the columns of the matrix.                                 *)
(***************************************************************************)
Products ==
    {bn \in {<<by, n>> : by \in KernelNames, n \in Columns} : IsProduct(bn[1], bn[2])}
Element(t, row, token, by) ==
    [row |-> row, token |-> token, whole |-> <<by, t.cols>> \in Products]

\* tensor_matvec; a group of Q4_0 matrices shares the quantized activations.
MatvecKernel ==
    [F32 |-> "f32", F16 |-> "f16", Q4_0 |-> "q4_q8", Q8_0 |-> "q8_fp32",
     Q6_K |-> "q6_fp32"]
MatvecRows(t, a, b) == [r \in a .. (b - 1) |-> Element(t, r, 0, MatvecKernel[t.type])]

\* tensor_matmul_batch: job j is a row and a token.
BatchKernel == [MatvecKernel EXCEPT !.Q4_0 = "q4_fp32"]
BatchJobs(t, a, b) ==
    [j \in a .. (b - 1) |-> Element(t, j % t.rows, j \div t.rows, BatchKernel[t.type])]

\* tensor_matmul_batch_v06: whole batches of Q4_0 and Q8_0.
IsGemm(t) == t.batch >= 2 /\ t.type \in {"Q4_0", "Q8_0"} /\ t.cols % QK = 0

\* q4_row_batch4_fp32, q8_row_batch4_fp32: output j is token first + j.
Batch4(first, j) == first + j

\* q4_row_batch8_fp32, q8_row_batch8_fp32: four, and the next four.
Batch8(first, j) == IF j < 4 THEN Batch4(first, j) ELSE Batch4(first + 4, j - 4)

\* How many tokens the loop takes at once, and those it leaves for last.
Width(t) == IF t.ffn THEN 8 ELSE 4

\* Mutant: the tokens after the last whole group are forgotten.
OneByOneNever(t) == {}

OneByOne(t) == Rest(t.batch, Width(t))

\* For each token of the batch that has its element set, the token whose
\* activations the element is computed from.
TokensOf(t) ==
    LET whole == Stop(t.batch, Width(t))
        j(p) == p % Width(t)
        Grouped(p) == IF t.ffn THEN Batch8(p - j(p), j(p)) ELSE Batch4(p - j(p), j(p))
    IN  IF build.forceQ8 THEN [p \in Below(t.batch) |-> p]
        ELSE [p \in Below(whole) \cup OneByOne(t) |-> IF p < whole THEN Grouped(p) ELSE p]

GemmRows(t, a, b) ==
    LET by == IF build.forceQ8 THEN MatvecKernel[t.type] ELSE BatchKernel[t.type]
        token == TokensOf(t)
    IN  [i \in {p * t.rows + r : p \in DOMAIN token, r \in a .. (b - 1)} |->
            Element(t, i % t.rows, token[i \div t.rows], by)]

Computed(t, a, b) ==
    CASE ~op.batched -> MatvecRows(t, a, b)
      [] op.batched /\ IsGemm(t) -> GemmRows(t, a, b)
      [] OTHER -> BatchJobs(t, a, b)

\* How many rows, or jobs, parallel_rows is given.
Count(t) == IF op.batched /\ ~IsGemm(t) THEN t.batch * t.rows ELSE t.rows

-----------------------------------------------------------------------------
Ends(how) == ended' = how /\ way' = "none" /\ team' = {} /\ failed' = FALSE

\* A call on `matrices', each with its batch.
Begins(matrices, kind) ==
    /\ ended # "running"
    /\ jobs' = matrices /\ op' = kind
    /\ at' = 1
    /\ y' = [j \in 1 .. Len(matrices) |->
                [i \in Below(matrices[j].batch * matrices[j].rows) |-> NoProduct]]
    /\ ended' = "running"
    /\ UNCHANGED <<build, way, team, failed>>

\* tensor_matvec knows its types before it starts threads ...
RefusesType ==
    /\ ended = "running" /\ way = "none"
    /\ ~op.batched /\ job.type \notin KnownTypes
    /\ Ends("threw")
    /\ UNCHANGED <<build, jobs, op, at, y>>

Dispatches ==
    /\ ended = "running" /\ way = "none"
    /\ op.batched \/ job.type \in KnownTypes
    /\ way' = Way(Count(job))
    /\ team' = Chunks(Count(job))
    /\ UNCHANGED <<build, jobs, op, at, failed, y, ended>>

RunsChunk ==
    /\ ended = "running"
    /\ job.type \in KnownTypes
    /\ \E chunk \in team :
          /\ LET done == Computed(job, chunk[1], chunk[2])
             IN  y' = [y EXCEPT ![at] = [i \in DOMAIN @ |->
                                           IF i \in DOMAIN done THEN done[i] ELSE @[i]]]
          /\ team' = team \ {chunk}
    /\ UNCHANGED <<build, jobs, op, at, way, failed, ended>>

\* ... tensor_matmul_batch finds out in each of them.
ChunkThrows ==
    /\ ended = "running"
    /\ job.type \notin KnownTypes
    /\ \E chunk \in team :
          IF Survives
          THEN /\ team' = team \ {chunk} /\ failed' = TRUE
               /\ UNCHANGED <<way, ended>>
          ELSE Ends("terminated")
    /\ UNCHANGED <<build, jobs, op, at, y>>

Joins ==
    /\ ended = "running" /\ way # "none"
    /\ team = {}
    /\ IF failed \/ at = Len(jobs)
       THEN /\ Ends(IF failed THEN "threw" ELSE "ok")
            /\ UNCHANGED at
       ELSE /\ at' = at + 1 /\ way' = "none"
            /\ UNCHANGED <<team, failed, ended>>
    /\ UNCHANGED <<build, jobs, op, y>>

KernelStep == RefusesType \/ Dispatches \/ RunsChunk \/ ChunkThrows \/ Joins

-----------------------------------------------------------------------------
(***************************************************************************)
(* Whatever runs the chunks, and whichever loops compute them, a kernel is *)
(* a matrix product: no element is left out or taken from another row or   *)
(* token (in chunks that do not divide the rows, in the tokens after the   *)
(* last group of eight or of four), each is a sum over all its columns,    *)
(* once each, however the loops walk through blocks and registers, and a   *)
(* call fails only for a type it has no kernel for.  (A failure that ends  *)
(* the program is a failure too.)                                          *)
(***************************************************************************)
Meaning(e) == IF e.whole THEN [row |-> e.row, token |-> e.token] ELSE NoProduct

Promise == INSTANCE Product WITH
    y <- [j \in DOMAIN y |-> [i \in DOMAIN y[j] |-> Meaning(y[j][i])]]
ImplementsProduct == Promise!ProductSpec
=============================================================================
