----------------------------- MODULE BoundedLru -----------------------------
(***************************************************************************)
(* What a byte-bounded least-recently-used cache promises, without a list, *)
(* a map or a counter: the set of slices it holds and which of two held    *)
(* slices was used more recently.  TensorCache implements it.              *)
(***************************************************************************)
EXTENDS Integers

CONSTANTS
    Ids,           \* slice identifiers
    Size,          \* Size[id]: the bytes of slice id
    Capacity,      \* the bytes the cache may hold
    BytesOf(_)     \* the bytes of a set of slices

VARIABLES
    held,     \* the slices in the cache
    newer     \* <<a, b>> \in newer: a was used more recently than b

lruVars == <<held, newer>>

LruInit == held = {} /\ newer = {}

Among(S) == newer \cap (S \X S)

\* S is used last and is the only part of the cache that changed.
MostRecent(id, S) == Among(S \ {id}) \cup ({id} \X (S \ {id}))

(***************************************************************************)
(* Room for `incoming' bytes is made by dropping the oldest slices, and no *)
(* more of them than it takes: with the newest of the dropped slices kept, *)
(* the room would not have been there.                                     *)
(***************************************************************************)
MakesRoom(V, incoming) ==
    /\ V \subseteq held
    /\ \A v \in V, k \in held \ V : <<k, v>> \in newer
    /\ BytesOf(held \ V) + incoming <= Capacity
    /\ \A v \in V : (\A u \in V \ {v} : <<v, u>> \in newer)
                    => BytesOf((held \ V) \cup {v}) + incoming > Capacity

Touch(id) ==
    /\ id \in held
    /\ newer' = MostRecent(id, held)
    /\ UNCHANGED held

Admit(id) ==
    /\ id \notin held
    /\ \E V \in SUBSET held :
        /\ MakesRoom(V, Size[id])
        /\ held' = (held \ V) \cup {id}
        /\ newer' = MostRecent(id, held')

\* Room was made for id but its bytes could not be allocated.
Shed(id) ==
    /\ id \notin held
    /\ \E V \in SUBSET held :
        /\ MakesRoom(V, Size[id])
        /\ held' = held \ V
        /\ newer' = Among(held')

LruNext == \E id \in Ids : Touch(id) \/ Admit(id) \/ Shed(id)
LruSpec == LruInit /\ [][LruNext]_lruVars
=============================================================================
