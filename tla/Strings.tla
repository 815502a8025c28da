------------------------------ MODULE Strings ------------------------------
(***************************************************************************)
(* Strings that are put together: += in the loops of llama_model.cpp.      *)
(***************************************************************************)
EXTENDS Integers, Sequences

\* f[1] \o f[2] \o ... (FlattenSeq of the community modules is recursive).
Concat(f) ==
    LET upto[n \in 0 .. Len(f)] == IF n = 0 THEN <<>> ELSE upto[n - 1] \o f[n]
    IN  upto[Len(f)]
=============================================================================
