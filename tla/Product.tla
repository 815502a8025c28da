------------------------------ MODULE Product -------------------------------
(***************************************************************************)
(* What a matrix kernel promises: each element of each result is set once, *)
(* to the product of its row of the matrix and its column of activations,  *)
(* in any order; a call that returns has set them all; and it fails only   *)
(* for a matrix of a type it has no kernel for.                            *)
(***************************************************************************)
EXTENDS Integers, Sequences

CONSTANTS KnownTypes, NoProduct

VARIABLES
    jobs,      \* the matrices of the call, with the batch of activations
    y,         \* for each of them, the elements of its result
    ended      \* how the call ended

productVars == <<jobs, y, ended>>

Elements(job) == 0 .. (job.batch * job.rows - 1)

\* Element b * rows + r is row r times the activations of token b.
Due(job, i) == [row |-> i % job.rows, token |-> i \div job.rows]

ProductInit == jobs = <<>> /\ y = <<>> /\ ended = "none"

Begin ==
    /\ ended # "running"
    /\ \A j \in 1 .. Len(jobs') : jobs'[j].rows > 0 /\ jobs'[j].batch > 0
    /\ y' = [j \in 1 .. Len(jobs') |-> [i \in Elements(jobs'[j]) |-> NoProduct]]
    /\ ended' = "running"

Compute ==
    /\ ended = "running"
    /\ DOMAIN y' = DOMAIN y
    /\ \A j \in DOMAIN y :
          /\ DOMAIN y'[j] = DOMAIN y[j]
          /\ \A i \in DOMAIN y[j] :
                \/ y'[j][i] = y[j][i]
                \/ y[j][i] = NoProduct /\ y'[j][i] = Due(jobs[j], i)
    /\ UNCHANGED <<jobs, ended>>

Return ==
    /\ ended = "running"
    /\ \A j \in DOMAIN y : \A i \in DOMAIN y[j] : y[j][i] # NoProduct
    /\ ended' = "ok"
    /\ UNCHANGED <<jobs, y>>

Fail ==
    /\ ended = "running"
    /\ \E j \in 1 .. Len(jobs) : jobs[j].type \notin KnownTypes
    /\ ended' \in {"threw", "terminated"}
    /\ UNCHANGED <<jobs, y>>

ProductNext == Begin \/ Compute \/ Return \/ Fail

ProductSpec == ProductInit /\ [][ProductNext]_productVars
=============================================================================
