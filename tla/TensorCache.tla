---------------------------- MODULE TensorCache ----------------------------
(***************************************************************************)
(* TensorCache (src/src/lru_cache.cpp): a byte-bounded LRU copy cache.     *)
(* Every public operation runs under mu_ from its first to its last line,  *)
(* so each is one atomic action here.                                      *)
(*                                                                         *)
(* map_ is represented by its key set `resident' and by the keys whose     *)
(* Entry::prefetched flag is set; lru_ is a sequence whose head is the     *)
(* front (most recently used).  The hit/miss/bytes_copied counters of      *)
(* CacheStats steer nothing and are left out; the eviction counter, which  *)
(* the adaptive policy reads, is kept by Runtime.                          *)
(***************************************************************************)
EXTENDS Bytes, SequencesExt

CONSTANT Capacity    \* capacity_

ASSUME CapacityAssumption == Capacity \in 0 .. MaxU64

VARIABLES
    lru,                    \* lru_: front first
    resident,               \* keys of map_
    prefetched,             \* keys of map_ whose entry has prefetched = true
    used,                   \* used_
    prefetched_used,        \* prefetched_used_
    peak_prefetched_used    \* peak_prefetched_used_

cacheVars ==
    <<lru, resident, prefetched, used, prefetched_used, peak_prefetched_used>>

CacheInit ==
    /\ lru = <<>>
    /\ resident = {}
    /\ prefetched = {}
    /\ used = 0
    /\ prefetched_used = 0
    /\ peak_prefetched_used = 0

-----------------------------------------------------------------------------
(***************************************************************************)
(* evict_for(incoming): pop entries off the back while incoming exceeds    *)
(* capacity_ - used_ and the list is not empty.  The loop stops at the     *)
(* longest prefix of the list at which its condition is false.             *)
(***************************************************************************)
Behind(k) == {lru[i] : i \in (k + 1) .. Len(lru)}
UsedWithout(k) == U64Minus(used, BytesOf(Behind(k)))

\* Mutants: room for a byte that is not there; the room of before the loop.
LoopStopsOneOver(k, incoming) ==
    k = 0 \/ incoming <= U64Minus(Capacity + 1, UsedWithout(k))
LoopStopsStale(k, incoming) ==
    k = 0 \/ incoming <= U64Minus(Capacity, used)

LoopStops(k, incoming) ==
    k = 0 \/ incoming <= U64Minus(Capacity, UsedWithout(k))

Kept(incoming) ==
    CHOOSE k \in 0 .. Len(lru) :
        /\ LoopStops(k, incoming)
        /\ \A j \in (k + 1) .. Len(lru) : ~LoopStops(j, incoming)

Victims(incoming) == Behind(Kept(incoming))
Survivors(incoming) == SubSeq(lru, 1, Kept(incoming))
UsedAfter(incoming) == UsedWithout(Kept(incoming))

\* Mutant: an evicted entry's prefetched flag is not looked at.
PrefetchedUsedUnchanged(incoming) == prefetched_used

PrefetchedUsedAfter(incoming) ==
    U64Minus(prefetched_used, BytesOf(Victims(incoming) \cap prefetched))

\* evict_for alone: what is left behind when the buffer allocation after it
\* throws bad_alloc.
EvictFor(incoming) ==
    /\ lru' = Survivors(incoming)
    /\ resident' = resident \ Victims(incoming)
    /\ prefetched' = prefetched \ Victims(incoming)
    /\ used' = UsedAfter(incoming)
    /\ prefetched_used' = PrefetchedUsedAfter(incoming)
    /\ UNCHANGED peak_prefetched_used

-----------------------------------------------------------------------------
(***************************************************************************)
(* get_or_load(id, src, bytes), with its four ways out.                    *)
(***************************************************************************)
\* The list iterator an entry keeps: the place of its key in lru_.
lru_it(id) == CHOOSE i \in 1 .. Len(lru) : lru[i] = id

\* Mutant: lru_.erase is forgotten.
HitKeepsOldNode(id) ==
    /\ id \in resident
    /\ lru' = <<id>> \o lru
    /\ UNCHANGED <<resident, prefetched, used, prefetched_used, peak_prefetched_used>>

Hit(id) ==
    /\ id \in resident
    /\ prefetched_used' = IF id \in prefetched
                          THEN U64Minus(prefetched_used, Size[id])
                          ELSE prefetched_used
    /\ prefetched' = prefetched \ {id}
    /\ lru' = <<id>> \o RemoveAt(lru, lru_it(id))
    /\ UNCHANGED <<resident, used, peak_prefetched_used>>

\* "tensor larger than cache capacity": thrown before anything is evicted.
LoadRejected(id) ==
    /\ id \notin resident
    /\ Size[id] > Capacity
    /\ UNCHANGED cacheVars

LoadMiss(id) ==
    /\ id \notin resident
    /\ Size[id] <= Capacity
    /\ lru' = <<id>> \o Survivors(Size[id])
    /\ resident' = (resident \ Victims(Size[id])) \cup {id}
    /\ prefetched' = prefetched \ Victims(Size[id])
    /\ used' = U64Plus(UsedAfter(Size[id]), Size[id])
    /\ prefetched_used' = PrefetchedUsedAfter(Size[id])
    /\ UNCHANGED peak_prefetched_used

\* make_shared throws after evict_for has run; the lookup throws bad_alloc.
LoadAllocFails(id) ==
    /\ id \notin resident
    /\ Size[id] <= Capacity
    /\ EvictFor(Size[id])

InsertSkipped(id) ==
    /\ id \in resident \/ Size[id] > Capacity
    /\ UNCHANGED cacheVars

InsertCopied(id) ==
    /\ id \notin resident
    /\ Size[id] <= Capacity
    /\ lru' = <<id>> \o Survivors(Size[id])
    /\ resident' = (resident \ Victims(Size[id])) \cup {id}
    /\ prefetched' = (prefetched \ Victims(Size[id])) \cup {id}
    /\ used' = U64Plus(UsedAfter(Size[id]), Size[id])
    /\ prefetched_used' = U64Plus(PrefetchedUsedAfter(Size[id]), Size[id])
    /\ peak_prefetched_used' = Larger(peak_prefetched_used, prefetched_used')

InsertAllocFails(id) ==
    /\ id \notin resident
    /\ Size[id] <= Capacity
    /\ EvictFor(Size[id])

-----------------------------------------------------------------------------
GetOrLoad(id) ==
    Hit(id) \/ LoadRejected(id) \/ LoadMiss(id) \/ LoadAllocFails(id)
InsertPrefetched(id) ==
    InsertSkipped(id) \/ InsertCopied(id) \/ InsertAllocFails(id)

CacheNext == \E id \in Ids : GetOrLoad(id) \/ InsertPrefetched(id)
CacheSpec == CacheInit /\ [][CacheNext]_cacheVars

-----------------------------------------------------------------------------
(***************************************************************************)
(* Properties.                                                             *)
(***************************************************************************)
(***************************************************************************)
(* The counters are words of the machine and never wrap, and only slices   *)
(* the cache holds are marked as prefetched.                               *)
(***************************************************************************)
CacheTypeOK ==
    /\ lru \in Seq(Ids)
    /\ resident \subseteq Ids
    /\ prefetched \subseteq resident
    /\ used \in 0 .. MaxU64
    /\ prefetched_used \in 0 .. MaxU64
    /\ peak_prefetched_used \in 0 .. MaxU64

(***************************************************************************)
(* The list and the map never drift apart: lru_ holds every key of map_    *)
(* exactly once.  evict_for dereferences map_.find(lru_.back()) and the    *)
(* hit path erases through a stored list iterator without a check; both    *)
(* are undefined behaviour the moment this fails.                          *)
(***************************************************************************)
ListMatchesMap ==
    /\ ToSet(lru) = resident
    /\ \A i, j \in 1 .. Len(lru) : lru[i] = lru[j] => i = j

(***************************************************************************)
(* used_ is the number of bytes the cache really holds and never exceeds   *)
(* capacity_.  evict_for computes capacity_ - used_ in unsigned 64-bit     *)
(* arithmetic: one byte too many and the difference wraps around, nothing  *)
(* is ever evicted again and the cache grows without bound.                *)
(***************************************************************************)
UsedIsResidentBytes ==
    /\ used = BytesOf(resident)
    /\ used <= Capacity

(***************************************************************************)
(* prefetched_used_ counts exactly the bytes copied ahead and not yet      *)
(* consumed, whichever of hit, eviction and failed allocation removed      *)
(* them, and its peak never exceeds the capacity (tests.cpp checks         *)
(* max_prefetched_cache_bytes <= cache_bytes).                             *)
(***************************************************************************)
PrefetchedBytesExact ==
    /\ prefetched_used = BytesOf(prefetched)
    /\ prefetched_used <= peak_prefetched_used
    /\ peak_prefetched_used <= Capacity

(***************************************************************************)
(* Whatever the callers do, the cache evicts in true least-recently-used   *)
(* order (a prefetch insertion counts as a use, a hit always does), evicts *)
(* nothing when the incoming slice already fits, and never more than the   *)
(* slice needs: get_or_load and insert_prefetched of lru_cache.cpp         *)
(* implement BoundedLru.                                                   *)
(***************************************************************************)
Earlier == {p \in (1 .. Len(lru)) \X (1 .. Len(lru)) : p[1] < p[2]}
Recency == {<<lru[p[1]], lru[p[2]]>> : p \in Earlier}

Lru == INSTANCE BoundedLru WITH held <- resident, newer <- Recency

ImplementsLru == Lru!LruSpec
=============================================================================
