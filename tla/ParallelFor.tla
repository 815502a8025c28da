---------------------------- MODULE ParallelFor ----------------------------
(***************************************************************************)
(* What WorkerPool::parallel_for promises its callers, without threads: one *)
(* call at a time; in a call each index is processed once, in any order     *)
(* and any grouping; the call ends when all of them have been; and it      *)
(* throws if and only if the function threw somewhere in this call.        *)
(***************************************************************************)
EXTENDS Naturals

CONSTANTS Callers, Lengths, Nobody

VARIABLES
    inside,    \* the caller whose call is running, or Nobody
    left,      \* the indices not processed yet
    failed,    \* the function has thrown in this call
    result     \* how the last call of each caller ended

pforVars == <<inside, left, failed, result>>

PforInit ==
    /\ inside = Nobody
    /\ left = {}
    /\ failed = FALSE
    /\ result = [c \in Callers |-> "none"]

Begin(c, n) ==
    /\ inside = Nobody
    /\ inside' = c
    /\ left' = 0 .. (n - 1)
    /\ failed' = FALSE
    /\ UNCHANGED result

Process ==
    /\ inside # Nobody
    /\ \E done \in SUBSET left : done # {} /\ left' = left \ done
    /\ failed' \in {failed, TRUE}
    /\ UNCHANGED <<inside, result>>

End(c) ==
    /\ inside = c
    /\ left = {}
    /\ inside' = Nobody
    /\ result' = [result EXCEPT ![c] = IF failed THEN "threw" ELSE "ok"]
    /\ failed' = FALSE
    /\ UNCHANGED left

PforNext ==
    \/ \E c \in Callers, n \in Lengths : Begin(c, n)
    \/ Process
    \/ \E c \in Callers : End(c)

PforSpec == PforInit /\ [][PforNext]_pforVars
=============================================================================
