----------------------------- MODULE MCRuntime -----------------------------
(***************************************************************************)
(* Four slices, the third twice as long as the others.  Windows are of two *)
(* slices; without a copy cache a budget of two bytes admits two short     *)
(* slices or the long one alone.                                           *)
(***************************************************************************)
EXTENDS Runtime

MCIds  == 0 .. 3
MCSize == [id \in MCIds |-> <<1, 1, 2, 1>>[id + 1]]

MCCopy ==
    [passes |-> 2, copy_cache |-> TRUE, adaptive_prefetch |-> FALSE, prefetch_depth |-> 2,
     adaptive_window |-> 2, prefetch_budget_bytes |-> 2]
MCWholeCache == [MCCopy EXCEPT !.passes = 1, !.prefetch_budget_bytes = 0]
MCMmap == [MCCopy EXCEPT !.passes = 3, !.copy_cache = FALSE]
MCAdaptive(c) == [c EXCEPT !.adaptive_prefetch = TRUE, !.prefetch_budget_bytes = 0]

MCConfigs == {MCCopy, MCWholeCache, MCMmap, MCAdaptive(MCCopy), [MCMmap EXCEPT !.adaptive_prefetch = TRUE]}
MCCopyConfigs == {MCCopy}
MCDeepCopyConfigs == {[MCCopy EXCEPT !.passes = 1, !.prefetch_depth = 3]}
=============================================================================
