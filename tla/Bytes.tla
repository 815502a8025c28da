------------------------------- MODULE Bytes -------------------------------
(***************************************************************************)
(* Byte totals and 64-bit arithmetic, shared by the modules of the memory  *)
(* policy.  A slice of the model file is an identifier; Size gives its     *)
(* length in bytes (TensorSlice::bytes).  The total size of a set of       *)
(* slices is the number of its byte cells, a definition without recursion, *)
(* so that the proof modules can reason about it by cardinalities.         *)
(***************************************************************************)
EXTENDS Integers, FiniteSets

CONSTANTS
    Ids,      \* slice identifiers 0 .. store.count()-1
    Size,     \* Size[id] = store.slice(id).bytes
    MaxU64    \* numeric_limits<uint64_t>::max(), small in TLC's instances

ASSUME BytesAssumption ==
    /\ Ids \subseteq Nat
    /\ IsFiniteSet(Ids)
    /\ MaxU64 \in Nat
    /\ Size \in [Ids -> 0 .. MaxU64]

Cells(S) == UNION {{id} \X (1 .. Size[id]) : id \in S}
BytesOf(S) == Cardinality(Cells(S))

\* std::uint64_t addition and subtraction wrap around.
U64Plus(a, b)  == IF a + b <= MaxU64 THEN a + b ELSE a + b - (MaxU64 + 1)
U64Minus(a, b) == IF b <= a THEN a - b ELSE a - b + (MaxU64 + 1)

Larger(a, b)  == IF a >= b THEN a ELSE b      \* std::max
Smaller(a, b) == IF a <= b THEN a ELSE b      \* std::min
=============================================================================
