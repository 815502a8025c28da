---------------------------- MODULE MCPrefetcher ----------------------------
(***************************************************************************)
(* Four slices against a capacity of four bytes: two that fit together, an *)
(* insertion that needs two evictions, one slice larger than the cache.    *)
(* MaxU64 is smaller than their sum, so that pending_bytes_ can overflow.  *)
(***************************************************************************)
EXTENDS Prefetcher

MCIds  == 0 .. 3
MCSize == [id \in MCIds |-> <<1, 2, 3, 5>>[id + 1]]
=============================================================================
