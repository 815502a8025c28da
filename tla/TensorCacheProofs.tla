------------------------- MODULE TensorCacheProofs -------------------------
(***************************************************************************)
(* TensorCache is correct, and implements BoundedLru, for every set of     *)
(* slices, every size, every capacity and every word width.                *)
(*                                                                         *)
(* The bytes of a set of slices are the cardinality of its set of byte     *)
(* cells, so that what the sums used_, prefetched_used_ and pending_bytes_ *)
(* rest on are laws of finite cardinalities.                               *)
(*                                                                         *)
(* The four invariants of the cache together are inductive.  None of them  *)
(* is inductive alone: evict_for subtracts from used_ the bytes of the     *)
(* entries behind the cut, which are the map's only while list and map     *)
(* agree, and prefetched_used_ may be decremented only because it counts a *)
(* part of used_.                                                          *)
(*                                                                         *)
(* The abstract recency relation is the order of lru_, so the refinement   *)
(* is about what push_front, erase and dropping the back do to the order   *)
(* of a duplicate-free list.                                               *)
(***************************************************************************)
EXTENDS TensorCache, FiniteSetTheorems, SequenceTheorems, TLAPS

-----------------------------------------------------------------------------
(***************************************************************************)
(* Byte totals.                                                            *)
(***************************************************************************)
\* The byte cells of a set of slices form a finite set.
LEMMA CellsFinite ==
    ASSUME NEW S \in SUBSET Ids
    PROVE  IsFiniteSet(Cells(S))
<1>1. IsFiniteSet(1 .. MaxU64)
  BY FS_Interval, BytesAssumption
<1>2. IsFiniteSet(Ids \X (1 .. MaxU64))
  BY <1>1, FS_Product, BytesAssumption
<1>3. Cells(S) \subseteq Ids \X (1 .. MaxU64)
  BY BytesAssumption DEF Cells
<1> QED
  BY <1>2, <1>3, FS_Subset

\* The bytes of a set of slices are a natural number.
LEMMA BytesOfType ==
    ASSUME NEW S \in SUBSET Ids
    PROVE  BytesOf(S) \in Nat
BY CellsFinite, FS_CardinalityType DEF BytesOf

\* No slices, no bytes.
LEMMA BytesOfEmpty == BytesOf({}) = 0
<1>1. Cells({}) = {}
  BY DEF Cells
<1> QED
  BY <1>1, FS_EmptySet DEF BytesOf

\* One slice has the bytes of its length.
LEMMA BytesOfOne ==
    ASSUME NEW id \in Ids
    PROVE  BytesOf({id}) = Size[id]
<1>1. Cells({id}) = {id} \X (1 .. Size[id])
  BY DEF Cells
<1>2. Size[id] \in Nat
  BY BytesAssumption
<1>3. IsFiniteSet(1 .. Size[id]) /\ Cardinality(1 .. Size[id]) = Size[id]
  <2>1. 1 \in Int /\ Size[id] \in Int
    BY <1>2
  <2>2. /\ IsFiniteSet(1 .. Size[id])
        /\ Cardinality(1 .. Size[id]) = IF 1 > Size[id] THEN 0 ELSE Size[id] - 1 + 1
    BY <2>1, FS_Interval, Zenon
  <2>3. (IF 1 > Size[id] THEN 0 ELSE Size[id] - 1 + 1) = Size[id]
    BY <1>2
  <2> QED
    BY <2>2, <2>3
<1>4. IsFiniteSet({id}) /\ Cardinality({id}) = 1
  BY FS_Singleton
<1>5. Cardinality({id} \X (1 .. Size[id])) = Cardinality({id}) * Cardinality(1 .. Size[id])
  <2> DEFINE one == {id}
             all == 1 .. Size[id]
  <2>1. IsFiniteSet(one) /\ IsFiniteSet(all)
    BY <1>3, <1>4
  <2> HIDE DEF one, all
  <2>2. Cardinality(one \X all) = Cardinality(one) * Cardinality(all)
    BY <2>1, FS_Product
  <2> QED
    BY <2>2 DEF one, all
<1>6. Cardinality({id} \X (1 .. Size[id])) = Size[id]
  BY <1>2, <1>3, <1>4, <1>5
<1>7. Cardinality(Cells({id})) = Cardinality({id} \X (1 .. Size[id]))
  BY <1>1, Zenon
<1> QED
  BY <1>6, <1>7, Zenon DEF BytesOf

\* The bytes of two disjoint sets of slices add up.
LEMMA BytesOfUnion ==
    ASSUME NEW S \in SUBSET Ids, NEW T \in SUBSET Ids, S \cap T = {}
    PROVE  BytesOf(S \cup T) = BytesOf(S) + BytesOf(T)
<1>1. Cells(S \cup T) = Cells(S) \cup Cells(T)
  BY DEF Cells
<1>2. Cells(S) \cap Cells(T) = {}
  BY DEF Cells
<1>3. IsFiniteSet(Cells(S)) /\ IsFiniteSet(Cells(T))
  BY CellsFinite
<1>4. Cardinality(Cells(S) \cup Cells(T))
        = Cardinality(Cells(S)) + Cardinality(Cells(T)) - Cardinality(Cells(S) \cap Cells(T))
  BY <1>3, FS_Union
<1>5. Cardinality(Cells(S)) \in Nat /\ Cardinality(Cells(T)) \in Nat
  BY <1>3, FS_CardinalityType
<1>6. Cardinality(Cells(S) \cap Cells(T)) = 0
  BY <1>2, FS_EmptySet
<1>7. Cardinality(Cells(S) \cup Cells(T)) = Cardinality(Cells(S)) + Cardinality(Cells(T))
  BY <1>4, <1>5, <1>6
<1>8. Cardinality(Cells(S \cup T)) = Cardinality(Cells(S) \cup Cells(T))
  BY <1>1, Zenon
<1> QED
  BY <1>7, <1>8, Zenon DEF BytesOf

\* Taking slices away takes their bytes away, and a part has no more bytes
\* than the whole.
LEMMA BytesOfDifference ==
    ASSUME NEW S \in SUBSET Ids, NEW T \in SUBSET S
    PROVE  /\ BytesOf(S \ T) = BytesOf(S) - BytesOf(T)
           /\ BytesOf(T) <= BytesOf(S)
<1>1. S = (S \ T) \cup T /\ (S \ T) \cap T = {}
  OBVIOUS
<1>2. (S \ T) \in SUBSET Ids /\ T \in SUBSET Ids
  OBVIOUS
<1>3. BytesOf(S) = BytesOf(S \ T) + BytesOf(T)
  BY <1>1, <1>2, BytesOfUnion
<1> QED
  BY <1>2, <1>3, BytesOfType

\* One slice more adds its length (used_ += bytes).
LEMMA BytesOfWith ==
    ASSUME NEW S \in SUBSET Ids, NEW id \in Ids \ S
    PROVE  BytesOf(S \cup {id}) = BytesOf(S) + Size[id]
BY BytesOfUnion, BytesOfOne

\* One slice less subtracts its length, without a wrap (used_ -= bytes).
LEMMA BytesOfWithout ==
    ASSUME NEW S \in SUBSET Ids, NEW id \in S
    PROVE  /\ BytesOf(S \ {id}) = BytesOf(S) - Size[id]
           /\ Size[id] <= BytesOf(S)
BY BytesOfDifference, BytesOfOne

\* A nonempty set of naturals below a bound has a largest element.
LEMMA LargestExists ==
    ASSUME NEW n \in Nat, NEW K \in SUBSET (0 .. n), K # {}
    PROVE  \E k \in K : \A j \in K : j <= k
<1> DEFINE D == {n - k : k \in K}
<1>1. D \subseteq Nat
  <2> SUFFICES ASSUME NEW k \in K PROVE n - k \in Nat
    OBVIOUS
  <2> QED
    BY k \in 0 .. n
<1>a. D # {}
  OBVIOUS
<1>2. PICK x \in D : \A y \in D : ~ (<<y, x>> \in OpToRel(<, Nat))
  BY <1>1, <1>a, WFMin, NatLessThanWellFounded
<1>3. \A y \in D : ~ (y < x)
  BY <1>1, <1>2 DEF OpToRel
<1>4. PICK k \in K : x = n - k
  OBVIOUS
<1>5. \A j \in K : j <= k
  <2> TAKE j \in K
  <2>1. n - j \in D
    OBVIOUS
  <2> QED
    BY <2>1, <1>3, <1>4
<1> QED
  BY <1>5

-----------------------------------------------------------------------------
(***************************************************************************)
(* The accounting of the cache.                                            *)
(***************************************************************************)
\* No element of s occurs twice.
Distinct(s) == \A i, j \in 1 .. Len(s) : s[i] = s[j] => i = j

\* The inductive invariant: what holds between two calls on the cache.
CacheInv ==
    /\ CacheTypeOK
    /\ ListMatchesMap
    /\ UsedIsResidentBytes
    /\ PrefetchedBytesExact

-----------------------------------------------------------------------------
\* The elements of a list, by position.
LEMMA ToSetIs ==
    ASSUME NEW s \in Seq(Ids)
    PROVE  ToSet(s) = {s[i] : i \in 1 .. Len(s)}
BY LenProperties DEF ToSet

\* push_front: the new element first, the others one place later.
LEMMA FrontOf ==
    ASSUME NEW s \in Seq(Ids), NEW id \in Ids
    PROVE  /\ <<id>> \o s \in Seq(Ids)
           /\ Len(<<id>> \o s) = Len(s) + 1
           /\ \A i \in 1 .. Len(s) + 1 :
                (<<id>> \o s)[i] = IF i = 1 THEN id ELSE s[i - 1]
<1>1. <<id>> \in Seq(Ids) /\ Len(<<id>>) = 1 /\ <<id>>[1] = id
  OBVIOUS
<1>2. Len(s) \in Nat
  BY LenProperties
<1>3. /\ <<id>> \o s \in Seq(Ids)
      /\ Len(<<id>> \o s) = 1 + Len(s)
      /\ \A i \in 1 .. 1 + Len(s) :
           (<<id>> \o s)[i] = IF i <= 1 THEN <<id>>[i] ELSE s[i - 1]
  BY <1>1, ConcatProperties
<1> QED
  BY <1>1, <1>2, <1>3

\* push_front of an absent element keeps a list free of duplicates.
LEMMA PushFront ==
    ASSUME NEW s \in Seq(Ids), Distinct(s), NEW id \in Ids, id \notin ToSet(s)
    PROVE  /\ <<id>> \o s \in Seq(Ids)
           /\ ToSet(<<id>> \o s) = ToSet(s) \cup {id}
           /\ Distinct(<<id>> \o s)
<1> DEFINE t == <<id>> \o s
<1>2. Len(s) \in Nat
  BY LenProperties
<1>3. /\ t \in Seq(Ids)
      /\ Len(t) = Len(s) + 1
      /\ \A i \in 1 .. Len(s) + 1 : t[i] = IF i = 1 THEN id ELSE s[i - 1]
  BY FrontOf
<1>4. \A i \in 1 .. Len(s) : s[i] # id
  BY ToSetIs
<1> HIDE DEF t
<1>5. ToSet(t) = ToSet(s) \cup {id}
  <2>1. ToSet(t) = {t[i] : i \in 1 .. Len(t)}
    BY <1>3, ToSetIs
  <2>2. ToSet(s) = {s[i] : i \in 1 .. Len(s)}
    BY ToSetIs
  <2>3. \A x \in ToSet(t) : x \in ToSet(s) \cup {id}
    BY <1>2, <1>3, <2>1, <2>2
  <2>4. id \in ToSet(t)
    BY <1>2, <1>3, <2>1
  <2>5. ASSUME NEW i \in 1 .. Len(s) PROVE s[i] \in ToSet(t)
    <3>1. i + 1 \in 1 .. Len(t) /\ t[i + 1] = s[i]
      BY <1>2, <1>3
    <3> QED
      BY <3>1, <2>1
  <2> QED
    BY <2>2, <2>3, <2>4, <2>5
<1>6. Distinct(t)
  <2> SUFFICES ASSUME NEW i \in 1 .. Len(t), NEW j \in 1 .. Len(t), t[i] = t[j]
               PROVE  i = j
    BY DEF Distinct
  <2>1. CASE i = 1 /\ j = 1
    BY <2>1
  <2>2. CASE i = 1 /\ j # 1
    BY <2>2, <1>2, <1>3, <1>4
  <2>3. CASE i # 1 /\ j = 1
    BY <2>3, <1>2, <1>3, <1>4
  <2>4. CASE i # 1 /\ j # 1
    <3>1. i - 1 \in 1 .. Len(s) /\ j - 1 \in 1 .. Len(s)
      BY <2>4, <1>2, <1>3
    <3>2. s[i - 1] = s[j - 1]
      BY <2>4, <1>2, <1>3
    <3> QED
      BY <3>1, <3>2, <1>2 DEF Distinct
  <2> QED
    BY <2>1, <2>2, <2>3, <2>4
<1> QED
  BY <1>3, <1>5, <1>6 DEF t

\* What stays of a list whose back was popped: its first k elements.
LEMMA PrefixOf ==
    ASSUME NEW s \in Seq(Ids), NEW k \in 0 .. Len(s)
    PROVE  /\ SubSeq(s, 1, k) \in Seq(Ids)
           /\ Len(SubSeq(s, 1, k)) = k
           /\ \A i \in 1 .. k : SubSeq(s, 1, k)[i] = s[i]
<1>1. Len(s) \in Nat /\ \A i \in 1 .. Len(s) : s[i] \in Ids
  BY LenProperties, ElementOfSeq
<1>2. k \in Int /\ \A i \in 1 .. k : s[i] \in Ids
  BY <1>1
<1>3. /\ SubSeq(s, 1, k) \in Seq(Ids)
      /\ Len(SubSeq(s, 1, k)) = IF 1 <= k THEN k - 1 + 1 ELSE 0
      /\ \A i \in 1 .. k - 1 + 1 : SubSeq(s, 1, k)[i] = s[1 + i - 1]
  BY <1>2, SubSeqProperties
<1> QED
  BY <1>1, <1>3

\* erase at position k: the elements behind it move one place forward.
LEMMA WithoutAt ==
    ASSUME NEW s \in Seq(Ids), NEW k \in 1 .. Len(s)
    PROVE  /\ RemoveAt(s, k) \in Seq(Ids)
           /\ Len(RemoveAt(s, k)) = Len(s) - 1
           /\ \A i \in 1 .. Len(s) - 1 :
                RemoveAt(s, k)[i] = IF i < k THEN s[i] ELSE s[i + 1]
<1> DEFINE a == SubSeq(s, 1, k - 1)
           b == SubSeq(s, k + 1, Len(s))
           t == RemoveAt(s, k)
<1>1. Len(s) \in Nat /\ \A i \in 1 .. Len(s) : s[i] \in Ids
  BY LenProperties, ElementOfSeq
<1>2. /\ a \in Seq(Ids)
      /\ Len(a) = k - 1
      /\ \A i \in 1 .. k - 1 : a[i] = s[i]
  <2>1. k - 1 \in 0 .. Len(s)
    BY <1>1
  <2> QED
    BY <2>1, PrefixOf
<1>3. /\ b \in Seq(Ids)
      /\ Len(b) = Len(s) - k
      /\ \A i \in 1 .. Len(s) - k : b[i] = s[k + i]
  <2>1. k + 1 \in Int /\ Len(s) \in Int /\ \A i \in k + 1 .. Len(s) : s[i] \in Ids
    BY <1>1
  <2>2. /\ b \in Seq(Ids)
        /\ Len(b) = IF k + 1 <= Len(s) THEN Len(s) - (k + 1) + 1 ELSE 0
        /\ \A i \in 1 .. Len(s) - (k + 1) + 1 : b[i] = s[k + 1 + i - 1]
    BY <2>1, SubSeqProperties
  <2> QED
    BY <2>2, <1>1
<1>4. /\ t \in Seq(Ids)
      /\ Len(t) = Len(s) - 1
      /\ \A i \in 1 .. Len(s) - 1 : t[i] = IF i < k THEN s[i] ELSE s[i + 1]
  <2>1. t = a \o b
    BY DEF RemoveAt
  <2> HIDE DEF a, b, t
  <2>2. /\ t \in Seq(Ids)
        /\ Len(t) = Len(a) + Len(b)
        /\ \A i \in 1 .. Len(a) + Len(b) : t[i] = IF i <= Len(a) THEN a[i] ELSE b[i - Len(a)]
    BY <2>1, <1>2, <1>3, ConcatProperties
  <2>3. Len(t) = Len(s) - 1
    BY <2>2, <1>1, <1>2, <1>3
  <2>4. ASSUME NEW i \in 1 .. Len(s) - 1
        PROVE  t[i] = IF i < k THEN s[i] ELSE s[i + 1]
    <3>1. t[i] = IF i <= k - 1 THEN a[i] ELSE b[i - (k - 1)]
      BY <2>2, <1>1, <1>2, <1>3
    <3>2. CASE i < k
      BY <3>1, <3>2, <1>1, <1>2
    <3>3. CASE ~ (i < k)
      <4>1. i - (k - 1) \in 1 .. Len(s) - k /\ k + (i - (k - 1)) = i + 1
        BY <3>3, <1>1
      <4> QED
        BY <3>1, <3>3, <4>1, <1>1, <1>3
    <3> QED
      BY <3>2, <3>3
  <2> QED
    BY <2>2, <2>3, <2>4
<1> QED
  BY <1>4 DEF t

\* erase at position k removes exactly one element of a duplicate-free list.
LEMMA Unlinked ==
    ASSUME NEW s \in Seq(Ids), Distinct(s), NEW k \in 1 .. Len(s)
    PROVE  /\ RemoveAt(s, k) \in Seq(Ids)
           /\ ToSet(RemoveAt(s, k)) = ToSet(s) \ {s[k]}
           /\ Distinct(RemoveAt(s, k))
<1> DEFINE t == RemoveAt(s, k)
<1>1. Len(s) \in Nat
  BY LenProperties
<1>4. /\ t \in Seq(Ids)
      /\ Len(t) = Len(s) - 1
      /\ \A i \in 1 .. Len(s) - 1 : t[i] = IF i < k THEN s[i] ELSE s[i + 1]
  BY WithoutAt
<1> HIDE DEF t
<1>5. ToSet(t) = ToSet(s) \ {s[k]}
  <2>1. ToSet(t) = {t[i] : i \in 1 .. Len(t)} /\ ToSet(s) = {s[i] : i \in 1 .. Len(s)}
    BY <1>4, ToSetIs
  <2>2. ASSUME NEW i \in 1 .. Len(t) PROVE t[i] \in ToSet(s) \ {s[k]}
    <3>1. CASE i < k
      <4>1. i \in 1 .. Len(s) /\ t[i] = s[i] /\ i # k
        BY <3>1, <1>1, <1>4
      <4> QED
        BY <4>1, <2>1 DEF Distinct
    <3>2. CASE ~ (i < k)
      <4>1. i + 1 \in 1 .. Len(s) /\ t[i] = s[i + 1] /\ i + 1 # k
        BY <3>2, <1>1, <1>4
      <4> QED
        BY <4>1, <2>1 DEF Distinct
    <3> QED
      BY <3>1, <3>2
  <2>3. ASSUME NEW i \in 1 .. Len(s), s[i] # s[k] PROVE s[i] \in ToSet(t)
    <3>1. CASE i < k
      <4>1. i \in 1 .. Len(t) /\ t[i] = s[i]
        BY <3>1, <1>1, <1>4
      <4> QED
        BY <4>1, <2>1
    <3>2. CASE i > k
      <4>1. i - 1 \in 1 .. Len(t) /\ t[i - 1] = s[i]
        BY <3>2, <1>1, <1>4
      <4> QED
        BY <4>1, <2>1
    <3> QED
      BY <2>3, <3>1, <3>2, <1>1
  <2> QED
    BY <2>1, <2>2, <2>3
<1>6. Distinct(t)
  <2> SUFFICES ASSUME NEW i \in 1 .. Len(t), NEW j \in 1 .. Len(t), t[i] = t[j]
               PROVE  i = j
    BY DEF Distinct
  <2> DEFINE at(x) == IF x < k THEN x ELSE x + 1
  <2>1. at(i) \in 1 .. Len(s) /\ at(j) \in 1 .. Len(s)
    BY <1>1, <1>4
  <2>2. s[at(i)] = s[at(j)]
    BY <1>1, <1>4
  <2>3. at(i) = at(j)
    BY <2>1, <2>2 DEF Distinct
  <2> QED
    BY <2>3, <1>1
<1> QED
  BY <1>4, <1>5, <1>6 DEF t

-----------------------------------------------------------------------------
\* evict_for's loop terminates with a well-defined rest: the longest prefix
\* of lru_ at which its condition is false, the empty one at worst.
LEMMA KeptIsChosen ==
    ASSUME CacheTypeOK, NEW incoming
    PROVE  /\ Kept(incoming) \in 0 .. Len(lru)
           /\ LoopStops(Kept(incoming), incoming)
           /\ \A j \in (Kept(incoming) + 1) .. Len(lru) : ~ LoopStops(j, incoming)
<1> DEFINE K == {k \in 0 .. Len(lru) : LoopStops(k, incoming)}
<1>1. Len(lru) \in Nat
  BY LenProperties DEF CacheTypeOK
<1>2. 0 \in K
  BY <1>1 DEF LoopStops
<1>3. PICK k \in K : \A j \in K : j <= k
  BY <1>1, <1>2, LargestExists
<1>4. /\ k \in 0 .. Len(lru)
      /\ LoopStops(k, incoming)
      /\ \A j \in (k + 1) .. Len(lru) : ~ LoopStops(j, incoming)
  BY <1>1, <1>3
<1> QED
  BY <1>4 DEF Kept

(***************************************************************************)
(* evict_for(incoming) with incoming at most the capacity removes entries  *)
(* of the map only, leaves list and map in agreement and the counters      *)
(* exact, and afterwards the incoming bytes fit: no subtraction in it      *)
(* wraps around.                                                           *)
(***************************************************************************)
LEMMA EvictionIsExact ==
    ASSUME CacheInv, NEW incoming \in 0 .. Capacity
    PROVE  /\ Victims(incoming) \subseteq resident
           /\ Survivors(incoming) \in Seq(Ids)
           /\ ToSet(Survivors(incoming)) = resident \ Victims(incoming)
           /\ Distinct(Survivors(incoming))
           /\ UsedAfter(incoming) = BytesOf(resident \ Victims(incoming))
           /\ UsedAfter(incoming) + incoming <= Capacity
           /\ PrefetchedUsedAfter(incoming) = BytesOf(prefetched \ Victims(incoming))
<1> DEFINE k == Kept(incoming)
           V == Victims(incoming)
           s == Survivors(incoming)
<1>1. /\ lru \in Seq(Ids) /\ Len(lru) \in Nat
      /\ \A i \in 1 .. Len(lru) : lru[i] \in Ids
      /\ resident \in SUBSET Ids /\ prefetched \in SUBSET resident
      /\ used = BytesOf(resident) /\ used \in Nat /\ used <= Capacity
      /\ prefetched_used = BytesOf(prefetched)
      /\ Capacity \in Nat
  BY LenProperties, ElementOfSeq, BytesAssumption, CapacityAssumption
     DEF CacheInv, CacheTypeOK, UsedIsResidentBytes, PrefetchedBytesExact
<1>2. resident = {lru[i] : i \in 1 .. Len(lru)} /\ Distinct(lru)
  BY <1>1, ToSetIs DEF CacheInv, ListMatchesMap, Distinct
<1>3. k \in 0 .. Len(lru) /\ LoopStops(k, incoming)
  BY KeptIsChosen DEF CacheInv
<1>4. V = {lru[i] : i \in (k + 1) .. Len(lru)}
  BY DEF Victims, Behind
<1> HIDE DEF k, V
<1>5. V \in SUBSET resident
  BY <1>1, <1>2, <1>3, <1>4
<1>6. /\ s \in Seq(Ids)
      /\ Len(s) = k
      /\ \A i \in 1 .. k : s[i] = lru[i]
  BY <1>1, <1>3, PrefixOf DEF Survivors, k
<1> HIDE DEF s
<1>7. ToSet(s) = resident \ V
  <2>1. ToSet(s) = {lru[i] : i \in 1 .. k}
    BY <1>6, ToSetIs
  <2>2. ASSUME NEW i \in 1 .. k PROVE lru[i] \in resident \ V
    BY <1>1, <1>2, <1>3, <1>4 DEF Distinct
  <2>3. ASSUME NEW i \in 1 .. Len(lru), lru[i] \notin V PROVE lru[i] \in ToSet(s)
    BY <1>1, <1>3, <1>4, <2>1, <2>3
  <2> QED
    BY <2>1, <2>2, <2>3, <1>2
<1>8. Distinct(s)
  BY <1>1, <1>2, <1>3, <1>6 DEF Distinct
<1>9. UsedAfter(incoming) = BytesOf(resident \ V)
  <2>1. UsedAfter(incoming) = U64Minus(used, BytesOf(V))
    BY DEF UsedAfter, UsedWithout, Victims, V
  <2>2. /\ BytesOf(resident \ V) = BytesOf(resident) - BytesOf(V)
        /\ BytesOf(V) <= BytesOf(resident)
    BY <1>1, <1>5, BytesOfDifference
  <2>3. BytesOf(V) \in Nat
    BY <1>1, <1>5, BytesOfType
  <2> QED
    BY <2>1, <2>2, <2>3, <1>1 DEF U64Minus
<1>10. UsedAfter(incoming) + incoming <= Capacity
  <2>1. UsedAfter(incoming) \in Nat /\ UsedAfter(incoming) <= used
    <3>1. /\ BytesOf(resident \ V) = BytesOf(resident) - BytesOf(V)
      BY <1>1, <1>5, BytesOfDifference
    <3>2. BytesOf(V) \in Nat /\ BytesOf(resident \ V) \in Nat
      BY <1>1, <1>5, BytesOfType
    <3> QED
      BY <3>1, <3>2, <1>9, <1>1
  <2>2. CASE k = 0
    <3>1. V = resident
      BY <2>2, <1>2, <1>4
    <3>2. UsedAfter(incoming) = 0
      <4>1. resident \ V = {}
        BY <3>1
      <4> QED
        BY <4>1, <1>9, BytesOfEmpty
    <3> QED
      BY <3>2, <1>1
  <2>3. CASE k # 0
    <3>1. incoming <= U64Minus(Capacity, UsedAfter(incoming))
      BY <2>3, <1>3 DEF LoopStops, UsedAfter, k
    <3> QED
      BY <3>1, <2>1, <1>1 DEF U64Minus
  <2> QED
    BY <2>2, <2>3
<1>11. PrefetchedUsedAfter(incoming) = BytesOf(prefetched \ V)
  <2>1. PrefetchedUsedAfter(incoming) = U64Minus(prefetched_used, BytesOf(V \cap prefetched))
    BY DEF PrefetchedUsedAfter, V
  <2>2. /\ BytesOf(prefetched \ (V \cap prefetched))
             = BytesOf(prefetched) - BytesOf(V \cap prefetched)
        /\ BytesOf(V \cap prefetched) <= BytesOf(prefetched)
    BY <1>1, BytesOfDifference
  <2>3. prefetched \ (V \cap prefetched) = prefetched \ V
    OBVIOUS
  <2>4. BytesOf(V \cap prefetched) \in Nat /\ BytesOf(prefetched) \in Nat
    BY <1>1, <1>5, BytesOfType
  <2>5. U64Minus(prefetched_used, BytesOf(V \cap prefetched))
          = BytesOf(prefetched) - BytesOf(V \cap prefetched)
    BY <2>2, <2>4, <1>1 DEF U64Minus
  <2> QED
    BY <2>1, <2>2, <2>3, <2>5
<1> QED
  BY <1>5, <1>6, <1>7, <1>8, <1>9, <1>10, <1>11 DEF V, s

-----------------------------------------------------------------------------
\* A hit moves the entry to the front, clears its prefetched flag and keeps
\* the invariant.
LEMMA HitKeepsInv ==
    ASSUME CacheInv, NEW id \in Ids, Hit(id)
    PROVE  CacheInv'
<1> DEFINE k == lru_it(id)
<1>1. /\ lru \in Seq(Ids) /\ resident \in SUBSET Ids /\ prefetched \in SUBSET resident
      /\ ToSet(lru) = resident /\ Distinct(lru)
  BY DEF CacheInv, CacheTypeOK, ListMatchesMap, Distinct
<1>2. k \in 1 .. Len(lru) /\ lru[k] = id
  <2>1. \E x \in 1 .. Len(lru) : lru[x] = id
    BY <1>1, ToSetIs DEF Hit
  <2> QED
    BY <2>1 DEF lru_it
<1> HIDE DEF k
<1>3. /\ RemoveAt(lru, k) \in Seq(Ids)
      /\ ToSet(RemoveAt(lru, k)) = resident \ {id}
      /\ Distinct(RemoveAt(lru, k))
  BY <1>1, <1>2, Unlinked
<1>4. /\ lru' = <<id>> \o RemoveAt(lru, k)
      /\ resident' = resident /\ id \in resident
      /\ prefetched' = prefetched \ {id}
      /\ used' = used /\ peak_prefetched_used' = peak_prefetched_used
  BY DEF Hit, k
<1>5. lru' \in Seq(Ids) /\ ToSet(lru') = resident' /\ Distinct(lru')
  <2>1. id \notin ToSet(RemoveAt(lru, k))
    BY <1>3
  <2>2. /\ <<id>> \o RemoveAt(lru, k) \in Seq(Ids)
        /\ ToSet(<<id>> \o RemoveAt(lru, k)) = (resident \ {id}) \cup {id}
        /\ Distinct(<<id>> \o RemoveAt(lru, k))
    BY <1>3, <2>1, PushFront
  <2>3. (resident \ {id}) \cup {id} = resident'
    BY <1>4
  <2> QED
    BY <2>2, <2>3, <1>4
<1>6. /\ prefetched_used' = BytesOf(prefetched')
      /\ prefetched_used' <= prefetched_used
      /\ prefetched_used' \in Nat
  <2>1. prefetched_used = BytesOf(prefetched) /\ prefetched_used \in Nat
    BY <1>1, BytesOfType DEF CacheInv, PrefetchedBytesExact
  <2>2. CASE id \in prefetched
    <3>1. BytesOf(prefetched \ {id}) = BytesOf(prefetched) - Size[id]
          /\ Size[id] <= BytesOf(prefetched)
      BY <2>2, <1>1, BytesOfWithout
    <3>2. Size[id] \in Nat
      BY BytesAssumption
    <3>3. prefetched_used' = U64Minus(prefetched_used, Size[id])
      BY <2>2 DEF Hit
    <3> QED
      BY <3>1, <3>2, <3>3, <2>1, <1>4 DEF U64Minus
  <2>3. CASE id \notin prefetched
    <3>1. prefetched' = prefetched /\ prefetched_used' = prefetched_used
      BY <2>3 DEF Hit
    <3> QED
      BY <3>1, <2>1
  <2> QED
    BY <2>2, <2>3
<1>7. CacheTypeOK'
  <2>1. prefetched_used' \in 0 .. MaxU64
    BY <1>6, BytesAssumption DEF CacheInv, CacheTypeOK
  <2>2. /\ resident' \subseteq Ids /\ prefetched' \subseteq resident'
        /\ used' \in 0 .. MaxU64 /\ peak_prefetched_used' \in 0 .. MaxU64
    BY <1>1, <1>4 DEF CacheInv, CacheTypeOK
  <2> QED
    BY <2>1, <2>2, <1>5 DEF CacheTypeOK
<1>8. ListMatchesMap'
  BY <1>5 DEF ListMatchesMap, Distinct
<1>9. UsedIsResidentBytes'
  BY <1>4 DEF CacheInv, UsedIsResidentBytes
<1>10. PrefetchedBytesExact'
  <2>1. prefetched_used <= peak_prefetched_used /\ peak_prefetched_used <= Capacity
    BY DEF CacheInv, PrefetchedBytesExact
  <2>2. prefetched_used \in Nat /\ peak_prefetched_used \in Nat
    BY BytesAssumption DEF CacheInv, CacheTypeOK
  <2>3. prefetched_used' <= peak_prefetched_used'
    BY <2>1, <2>2, <1>4, <1>6
  <2> QED
    BY <2>1, <2>3, <1>4, <1>6 DEF PrefetchedBytesExact
<1> QED
  BY <1>7, <1>8, <1>9, <1>10 DEF CacheInv

\* Evicting slices never raises the prefetched byte total.
LEMMA FewerPrefetched ==
    ASSUME CacheTypeOK, NEW V
    PROVE  /\ BytesOf(prefetched \ V) \in Nat
           /\ BytesOf(prefetched \ V) <= BytesOf(prefetched)
<1>1. prefetched \in SUBSET Ids
  BY DEF CacheTypeOK
<1>2. BytesOf(prefetched \ V) \in Nat /\ BytesOf(V \cap prefetched) \in Nat
      /\ BytesOf(prefetched) \in Nat
  BY <1>1, BytesOfType
<1>3. BytesOf(prefetched \ (V \cap prefetched)) = BytesOf(prefetched) - BytesOf(V \cap prefetched)
  BY <1>1, BytesOfDifference
<1>4. prefetched \ (V \cap prefetched) = prefetched \ V
  OBVIOUS
<1>5. BytesOf(prefetched \ V) = BytesOf(prefetched) - BytesOf(V \cap prefetched)
  BY <1>3, <1>4
<1> QED
  BY <1>2, <1>5

\* An eviction whose allocation then fails leaves the cache smaller but
\* consistent: get_or_load and insert_prefetched may throw bad_alloc here.
LEMMA EvictForKeepsInv ==
    ASSUME CacheInv, NEW incoming \in 0 .. Capacity, EvictFor(incoming)
    PROVE  CacheInv'
<1> DEFINE V == Victims(incoming)
           s == Survivors(incoming)
<1>1. /\ V \subseteq resident
      /\ s \in Seq(Ids) /\ ToSet(s) = resident \ V /\ Distinct(s)
      /\ UsedAfter(incoming) = BytesOf(resident \ V)
      /\ UsedAfter(incoming) + incoming <= Capacity
      /\ PrefetchedUsedAfter(incoming) = BytesOf(prefetched \ V)
  BY EvictionIsExact
<1>2. /\ lru' = s /\ resident' = resident \ V /\ prefetched' = prefetched \ V
      /\ used' = UsedAfter(incoming)
      /\ prefetched_used' = PrefetchedUsedAfter(incoming)
      /\ peak_prefetched_used' = peak_prefetched_used
  BY DEF EvictFor
<1> HIDE DEF V, s
<1>3. /\ resident \in SUBSET Ids /\ prefetched \in SUBSET resident
      /\ prefetched_used = BytesOf(prefetched)
      /\ prefetched_used <= peak_prefetched_used /\ peak_prefetched_used <= Capacity
      /\ prefetched_used \in 0 .. MaxU64 /\ peak_prefetched_used \in 0 .. MaxU64
      /\ Capacity \in 0 .. MaxU64 /\ MaxU64 \in Nat
  BY BytesAssumption, CapacityAssumption
     DEF CacheInv, CacheTypeOK, PrefetchedBytesExact
<1>4. used' \in Nat /\ used' <= Capacity
  <2>1. UsedAfter(incoming) \in Nat
    <3>1. BytesOf(resident \ V) \in Nat
      BY <1>3, BytesOfType
    <3> QED
      BY <3>1, <1>1
  <2> QED
    BY <2>1, <1>1, <1>2, <1>3
<1>5. prefetched_used' \in Nat /\ prefetched_used' <= prefetched_used
  BY <1>1, <1>2, <1>3, FewerPrefetched DEF CacheInv
<1>6. CacheTypeOK'
  <2>1. used' \in 0 .. MaxU64 /\ prefetched_used' \in 0 .. MaxU64
        /\ peak_prefetched_used' \in 0 .. MaxU64
    BY <1>2, <1>3, <1>4, <1>5
  <2>2. lru' \in Seq(Ids) /\ resident' \subseteq Ids /\ prefetched' \subseteq resident'
    BY <1>1, <1>2, <1>3
  <2> QED
    BY <2>1, <2>2 DEF CacheTypeOK
<1>7. ListMatchesMap'
  BY <1>1, <1>2 DEF ListMatchesMap, Distinct
<1>8. UsedIsResidentBytes'
  BY <1>1, <1>2, <1>4 DEF UsedIsResidentBytes
<1>9. PrefetchedBytesExact'
  <2>1. prefetched_used' <= peak_prefetched_used'
    BY <1>2, <1>3, <1>5
  <2> QED
    BY <2>1, <1>1, <1>2, <1>3 DEF PrefetchedBytesExact
<1> QED
  BY <1>6, <1>7, <1>8, <1>9 DEF CacheInv

\* A miss evicts, inserts at the front and keeps the invariant.
LEMMA LoadMissKeepsInv ==
    ASSUME CacheInv, NEW id \in Ids, LoadMiss(id)
    PROVE  CacheInv'
<1> DEFINE V == Victims(Size[id])
           s == Survivors(Size[id])
<1>1. Size[id] \in 0 .. Capacity
  BY BytesAssumption, CapacityAssumption DEF LoadMiss
<1>2. /\ V \subseteq resident
      /\ s \in Seq(Ids) /\ ToSet(s) = resident \ V /\ Distinct(s)
      /\ UsedAfter(Size[id]) = BytesOf(resident \ V)
      /\ UsedAfter(Size[id]) + Size[id] <= Capacity
      /\ PrefetchedUsedAfter(Size[id]) = BytesOf(prefetched \ V)
  BY <1>1, EvictionIsExact
<1>3. /\ id \notin resident
      /\ lru' = <<id>> \o s
      /\ resident' = (resident \ V) \cup {id}
      /\ prefetched' = prefetched \ V
      /\ used' = U64Plus(UsedAfter(Size[id]), Size[id])
      /\ prefetched_used' = PrefetchedUsedAfter(Size[id])
      /\ peak_prefetched_used' = peak_prefetched_used
  BY DEF LoadMiss
<1> HIDE DEF V, s
<1>4. /\ resident \in SUBSET Ids /\ prefetched \in SUBSET resident
      /\ prefetched_used = BytesOf(prefetched)
      /\ prefetched_used <= peak_prefetched_used /\ peak_prefetched_used <= Capacity
      /\ prefetched_used \in 0 .. MaxU64 /\ peak_prefetched_used \in 0 .. MaxU64
      /\ Capacity \in 0 .. MaxU64 /\ MaxU64 \in Nat
  BY BytesAssumption, CapacityAssumption
     DEF CacheInv, CacheTypeOK, PrefetchedBytesExact
<1>5. lru' \in Seq(Ids) /\ ToSet(lru') = resident' /\ Distinct(lru')
  <2>1. id \notin ToSet(s)
    BY <1>2, <1>3
  <2>2. /\ <<id>> \o s \in Seq(Ids)
        /\ ToSet(<<id>> \o s) = ToSet(s) \cup {id}
        /\ Distinct(<<id>> \o s)
    BY <1>2, <2>1, PushFront
  <2> QED
    BY <2>2, <1>2, <1>3
<1>6. used' = BytesOf(resident') /\ used' \in Nat /\ used' <= Capacity
  <2>1. BytesOf((resident \ V) \cup {id}) = BytesOf(resident \ V) + Size[id]
    BY <1>3, <1>4, BytesOfWith
  <2>2. BytesOf(resident \ V) \in Nat
    BY <1>4, BytesOfType
  <2>3. U64Plus(UsedAfter(Size[id]), Size[id]) = BytesOf(resident \ V) + Size[id]
    BY <2>2, <1>1, <1>2, <1>4 DEF U64Plus
  <2> QED
    BY <2>1, <2>2, <2>3, <1>1, <1>2, <1>3, <1>4
<1>7. prefetched_used' \in Nat /\ prefetched_used' <= prefetched_used
  BY <1>2, <1>3, <1>4, FewerPrefetched DEF CacheInv
<1>8. CacheTypeOK'
  <2>1. used' \in 0 .. MaxU64 /\ prefetched_used' \in 0 .. MaxU64
        /\ peak_prefetched_used' \in 0 .. MaxU64
    BY <1>3, <1>4, <1>6, <1>7
  <2>2. resident' \subseteq Ids /\ prefetched' \subseteq resident'
    BY <1>3, <1>4
  <2> QED
    BY <2>1, <2>2, <1>5 DEF CacheTypeOK
<1>9. ListMatchesMap'
  BY <1>5 DEF ListMatchesMap, Distinct
<1>10. UsedIsResidentBytes'
  BY <1>6 DEF UsedIsResidentBytes
<1>11. PrefetchedBytesExact'
  <2>1. prefetched_used' <= peak_prefetched_used'
    BY <1>3, <1>4, <1>7
  <2> QED
    BY <2>1, <1>2, <1>3, <1>4 DEF PrefetchedBytesExact
<1> QED
  BY <1>8, <1>9, <1>10, <1>11 DEF CacheInv

\* So does a prefetched copy, which also counts towards the peak.
LEMMA InsertCopiedKeepsInv ==
    ASSUME CacheInv, NEW id \in Ids, InsertCopied(id)
    PROVE  CacheInv'
<1> DEFINE V == Victims(Size[id])
           s == Survivors(Size[id])
<1>1. Size[id] \in 0 .. Capacity
  BY BytesAssumption, CapacityAssumption DEF InsertCopied
<1>2. /\ V \subseteq resident
      /\ s \in Seq(Ids) /\ ToSet(s) = resident \ V /\ Distinct(s)
      /\ UsedAfter(Size[id]) = BytesOf(resident \ V)
      /\ UsedAfter(Size[id]) + Size[id] <= Capacity
      /\ PrefetchedUsedAfter(Size[id]) = BytesOf(prefetched \ V)
  BY <1>1, EvictionIsExact
<1>3. /\ id \notin resident
      /\ lru' = <<id>> \o s
      /\ resident' = (resident \ V) \cup {id}
      /\ prefetched' = (prefetched \ V) \cup {id}
      /\ used' = U64Plus(UsedAfter(Size[id]), Size[id])
      /\ prefetched_used' = U64Plus(PrefetchedUsedAfter(Size[id]), Size[id])
      /\ peak_prefetched_used' = Larger(peak_prefetched_used, prefetched_used')
  BY DEF InsertCopied
<1> HIDE DEF V, s
<1>4. /\ resident \in SUBSET Ids /\ prefetched \in SUBSET resident
      /\ peak_prefetched_used <= Capacity
      /\ peak_prefetched_used \in 0 .. MaxU64
      /\ Capacity \in 0 .. MaxU64 /\ MaxU64 \in Nat
  BY BytesAssumption, CapacityAssumption
     DEF CacheInv, CacheTypeOK, PrefetchedBytesExact
<1>5. lru' \in Seq(Ids) /\ ToSet(lru') = resident' /\ Distinct(lru')
  <2>1. id \notin ToSet(s)
    BY <1>2, <1>3
  <2>2. /\ <<id>> \o s \in Seq(Ids)
        /\ ToSet(<<id>> \o s) = ToSet(s) \cup {id}
        /\ Distinct(<<id>> \o s)
    BY <1>2, <2>1, PushFront
  <2> QED
    BY <2>2, <1>2, <1>3
<1>6. used' = BytesOf(resident') /\ used' \in Nat /\ used' <= Capacity
  <2>1. BytesOf((resident \ V) \cup {id}) = BytesOf(resident \ V) + Size[id]
    BY <1>3, <1>4, BytesOfWith
  <2>2. BytesOf(resident \ V) \in Nat
    BY <1>4, BytesOfType
  <2>3. U64Plus(UsedAfter(Size[id]), Size[id]) = BytesOf(resident \ V) + Size[id]
    BY <2>2, <1>1, <1>2, <1>4 DEF U64Plus
  <2> QED
    BY <2>1, <2>2, <2>3, <1>1, <1>2, <1>3, <1>4
<1>7. prefetched_used' = BytesOf(prefetched') /\ prefetched_used' \in 0 .. Capacity
  <2>1. BytesOf((prefetched \ V) \cup {id}) = BytesOf(prefetched \ V) + Size[id]
    BY <1>3, <1>4, BytesOfWith
  <2>2. BytesOf(prefetched \ V) \in Nat /\ BytesOf(resident \ V) \in Nat
        /\ BytesOf(prefetched \ V) <= BytesOf(resident \ V)
    <3>1. (resident \ V) \in SUBSET Ids /\ (prefetched \ V) \in SUBSET (resident \ V)
      BY <1>4
    <3> QED
      BY <3>1, BytesOfType, BytesOfDifference
  <2>3. BytesOf(prefetched \ V) + Size[id] <= Capacity
    BY <2>2, <1>1, <1>2, <1>4
  <2>4. U64Plus(PrefetchedUsedAfter(Size[id]), Size[id]) = BytesOf(prefetched \ V) + Size[id]
    BY <2>2, <2>3, <1>1, <1>2, <1>4 DEF U64Plus
  <2> QED
    BY <2>1, <2>2, <2>3, <2>4, <1>1, <1>3
<1>8. /\ peak_prefetched_used' \in 0 .. MaxU64
      /\ prefetched_used' <= peak_prefetched_used'
      /\ peak_prefetched_used' <= Capacity
  BY <1>3, <1>4, <1>7 DEF Larger
<1>9. CacheTypeOK'
  <2>1. used' \in 0 .. MaxU64 /\ prefetched_used' \in 0 .. MaxU64
    BY <1>4, <1>6, <1>7
  <2>2. resident' \subseteq Ids /\ prefetched' \subseteq resident'
    BY <1>3, <1>4
  <2> QED
    BY <2>1, <2>2, <1>5, <1>8 DEF CacheTypeOK
<1>10. ListMatchesMap'
  BY <1>5 DEF ListMatchesMap, Distinct
<1>11. UsedIsResidentBytes'
  BY <1>6 DEF UsedIsResidentBytes
<1>12. PrefetchedBytesExact'
  BY <1>7, <1>8 DEF PrefetchedBytesExact
<1> QED
  BY <1>9, <1>10, <1>11, <1>12 DEF CacheInv

\* A rejected or skipped call leaves the cache as it was.
LEMMA NothingChanges ==
    ASSUME CacheInv, UNCHANGED cacheVars
    PROVE  CacheInv'
BY DEF CacheInv, cacheVars, CacheTypeOK, ListMatchesMap, UsedIsResidentBytes,
       PrefetchedBytesExact, ToSet

\* Every way out of get_or_load keeps the invariant.
LEMMA GetOrLoadKeepsInv ==
    ASSUME CacheInv, NEW id \in Ids, GetOrLoad(id)
    PROVE  CacheInv'
<1>1. CASE Hit(id)
  BY <1>1, HitKeepsInv
<1>2. CASE LoadRejected(id)
  BY <1>2, NothingChanges DEF LoadRejected
<1>3. CASE LoadMiss(id)
  BY <1>3, LoadMissKeepsInv
<1>4. CASE LoadAllocFails(id)
  <2>1. Size[id] \in 0 .. Capacity
    BY <1>4, BytesAssumption, CapacityAssumption DEF LoadAllocFails
  <2> QED
    BY <1>4, <2>1, EvictForKeepsInv DEF LoadAllocFails
<1> QED
  BY <1>1, <1>2, <1>3, <1>4 DEF GetOrLoad

\* Every way out of insert_prefetched keeps the invariant.
LEMMA InsertPrefetchedKeepsInv ==
    ASSUME CacheInv, NEW id \in Ids, InsertPrefetched(id)
    PROVE  CacheInv'
<1>1. CASE InsertSkipped(id)
  BY <1>1, NothingChanges DEF InsertSkipped
<1>2. CASE InsertCopied(id)
  BY <1>2, InsertCopiedKeepsInv
<1>3. CASE InsertAllocFails(id)
  <2>1. Size[id] \in 0 .. Capacity
    BY <1>3, BytesAssumption, CapacityAssumption DEF InsertAllocFails
  <2> QED
    BY <1>3, <2>1, EvictForKeepsInv DEF InsertAllocFails
<1> QED
  BY <1>1, <1>2, <1>3 DEF InsertPrefetched

\* The constructed cache satisfies the invariant.
LEMMA EmptyCacheInv == CacheInit => CacheInv
<1> SUFFICES ASSUME CacheInit PROVE CacheInv
  OBVIOUS
<1>1. lru \in Seq(Ids) /\ Len(lru) = 0
  BY EmptySeq DEF CacheInit
<1>2. 0 \in 0 .. MaxU64 /\ 0 <= Capacity
  BY BytesAssumption, CapacityAssumption
<1>3. CacheTypeOK
  BY <1>1, <1>2 DEF CacheInit, CacheTypeOK
<1>4. ListMatchesMap
  <2>1. ToSet(lru) = {lru[i] : i \in 1 .. Len(lru)}
    BY <1>1, ToSetIs
  <2>2. 1 .. Len(lru) = {}
    BY <1>1
  <2>3. ToSet(lru) = {}
    BY <2>1, <2>2
  <2> QED
    BY <2>2, <2>3 DEF CacheInit, ListMatchesMap
<1>5. UsedIsResidentBytes
  BY <1>2, BytesOfEmpty DEF CacheInit, UsedIsResidentBytes
<1>6. PrefetchedBytesExact
  BY <1>2, BytesOfEmpty DEF CacheInit, PrefetchedBytesExact
<1> QED
  BY <1>3, <1>4, <1>5, <1>6 DEF CacheInv

(***************************************************************************)
(* The invariant holds after any sequence of get_or_load and               *)
(* insert_prefetched calls, successful, rejected or failed in the          *)
(* allocation, for all values of the constants.                            *)
(***************************************************************************)
THEOREM CacheCorrect == CacheSpec => []CacheInv
<1>1. CacheInit => CacheInv
  BY EmptyCacheInv
<1>2. CacheInv /\ [CacheNext]_cacheVars => CacheInv'
  BY GetOrLoadKeepsInv, InsertPrefetchedKeepsInv, NothingChanges DEF CacheNext
<1> QED
  BY <1>1, <1>2, PTL DEF CacheSpec

\* TensorCache keeps its type invariant.
THEOREM CacheTypeCorrect == CacheSpec => []CacheTypeOK
<1>1. CacheInv => CacheTypeOK
  BY DEF CacheInv
<1> QED
  BY <1>1, CacheCorrect, PTL

(***************************************************************************)
(* lru_ and map_ hold the same keys, each once: the unchecked find in      *)
(* evict_for and the stored list iterators of lru_cache.cpp are always     *)
(* valid.                                                                  *)
(***************************************************************************)
THEOREM ListNeverDrifts == CacheSpec => []ListMatchesMap
<1>1. CacheInv => ListMatchesMap
  BY DEF CacheInv
<1> QED
  BY <1>1, CacheCorrect, PTL

(***************************************************************************)
(* used_ is the number of bytes held and never exceeds capacity_, so the   *)
(* unsigned capacity_ - used_ of evict_for never wraps around.             *)
(***************************************************************************)
THEOREM UsedNeverWraps == CacheSpec => []UsedIsResidentBytes
<1>1. CacheInv => UsedIsResidentBytes
  BY DEF CacheInv
<1> QED
  BY <1>1, CacheCorrect, PTL

(***************************************************************************)
(* prefetched_used_ is the number of bytes copied ahead and not yet        *)
(* consumed, whichever of hit, eviction and failure removed them, and its  *)
(* recorded peak stays within the capacity.                                *)
(***************************************************************************)
THEOREM PrefetchedNeverDrifts == CacheSpec => []PrefetchedBytesExact
<1>1. CacheInv => PrefetchedBytesExact
  BY DEF CacheInv
<1> QED
  BY <1>1, CacheCorrect, PTL

-----------------------------------------------------------------------------
(***************************************************************************)
(* Least recently used.                                                    *)
(***************************************************************************)
\* <<a, b>>: a stands before b in the list s.
Order(s) == {<<s[p[1]], s[p[2]]>> :
               p \in {q \in (1 .. Len(s)) \X (1 .. Len(s)) : q[1] < q[2]}}

\* Order, by positions.
LEMMA InOrder ==
    ASSUME NEW s, NEW a, NEW b
    PROVE  <<a, b>> \in Order(s) <=>
             \E i, j \in 1 .. Len(s) : i < j /\ s[i] = a /\ s[j] = b
<1>1. ASSUME <<a, b>> \in Order(s)
      PROVE  \E i, j \in 1 .. Len(s) : i < j /\ s[i] = a /\ s[j] = b
  <2>1. PICK p \in (1 .. Len(s)) \X (1 .. Len(s)) :
             p[1] < p[2] /\ <<a, b>> = <<s[p[1]], s[p[2]]>>
    BY <1>1 DEF Order
  <2>2. p[1] \in 1 .. Len(s) /\ p[2] \in 1 .. Len(s)
    BY <2>1
  <2>3. s[p[1]] = a /\ s[p[2]] = b
    BY <2>1
  <2> QED
    BY <2>1, <2>2, <2>3
<1>2. ASSUME NEW i \in 1 .. Len(s), NEW j \in 1 .. Len(s), i < j, s[i] = a, s[j] = b
      PROVE  <<a, b>> \in Order(s)
  <2> DEFINE p == <<i, j>>
  <2>1. p \in (1 .. Len(s)) \X (1 .. Len(s)) /\ p[1] < p[2]
    BY <1>2
  <2>2. <<a, b>> = <<s[p[1]], s[p[2]]>>
    BY <1>2
  <2> QED
    BY <2>1, <2>2 DEF Order
<1> QED
  BY <1>1, <1>2

\* The order of a list relates its elements only.
LEMMA OrderIsPairs ==
    ASSUME NEW s \in Seq(Ids)
    PROVE  Order(s) \subseteq ToSet(s) \X ToSet(s)
BY ToSetIs DEF Order

\* The refinement mapping of TensorCache is the order of lru_ ...
LEMMA RecencyIsOrder == Recency = Order(lru)
BY DEF Recency, Earlier, Order

\* ... in the next state too.
LEMMA RecencyIsOrderAfter == Recency' = Order(lru')
BY DEF Recency, Earlier, Order

\* push_front puts the new element before all others and changes nothing
\* else.
LEMMA OrderPushFront ==
    ASSUME NEW s \in Seq(Ids), NEW id \in Ids
    PROVE  Order(<<id>> \o s) = Order(s) \cup ({id} \X ToSet(s))
<1> DEFINE t == <<id>> \o s
<1>1. Len(s) \in Nat
  BY LenProperties
<1>2. t \in Seq(Ids) /\ Len(t) = Len(s) + 1 /\ t[1] = id
      /\ \A i \in 1 .. Len(s) : t[i + 1] = s[i]
  <2>1. /\ t \in Seq(Ids) /\ Len(t) = Len(s) + 1
        /\ \A i \in 1 .. Len(s) + 1 : t[i] = IF i = 1 THEN id ELSE s[i - 1]
    BY FrontOf
  <2> HIDE DEF t
  <2> QED
    BY <2>1, <1>1
<1> HIDE DEF t
<1>3. ToSet(s) = {s[i] : i \in 1 .. Len(s)} /\ ToSet(t) = {t[i] : i \in 1 .. Len(t)}
  BY <1>2, ToSetIs
<1>4. ASSUME NEW a, NEW b, <<a, b>> \in Order(t)
      PROVE  <<a, b>> \in Order(s) \cup ({id} \X ToSet(s))
  <2>1. PICK i, j \in 1 .. Len(t) : i < j /\ t[i] = a /\ t[j] = b
    BY <1>4, InOrder
  <2>2. j - 1 \in 1 .. Len(s) /\ s[j - 1] = b
    <3>1. j - 1 \in 1 .. Len(s) /\ (j - 1) + 1 = j
      BY <2>1, <1>1, <1>2
    <3> QED
      BY <3>1, <2>1, <1>2
  <2>3. CASE i = 1
    BY <2>1, <2>2, <2>3, <1>2, <1>3
  <2>4. CASE i # 1
    <3>1. i - 1 \in 1 .. Len(s) /\ (i - 1) + 1 = i /\ i - 1 < j - 1
      BY <2>1, <2>4, <1>1, <1>2
    <3>2. s[i - 1] = a
      BY <3>1, <2>1, <1>2
    <3> QED
      BY <3>1, <3>2, <2>2, InOrder
  <2> QED
    BY <2>3, <2>4
<1>5. ASSUME NEW a, NEW b, <<a, b>> \in Order(s)
      PROVE  <<a, b>> \in Order(t)
  <2>1. PICK i, j \in 1 .. Len(s) : i < j /\ s[i] = a /\ s[j] = b
    BY <1>5, InOrder
  <2>2. i + 1 \in 1 .. Len(t) /\ j + 1 \in 1 .. Len(t) /\ i + 1 < j + 1
        /\ t[i + 1] = a /\ t[j + 1] = b
    BY <2>1, <1>1, <1>2
  <2> QED
    BY <2>2, InOrder
<1>6. ASSUME NEW b \in ToSet(s)
      PROVE  <<id, b>> \in Order(t)
  <2>1. PICK j \in 1 .. Len(s) : s[j] = b
    BY <1>3
  <2>2. 1 \in 1 .. Len(t) /\ j + 1 \in 1 .. Len(t) /\ 1 < j + 1 /\ t[j + 1] = b
    BY <2>1, <1>1, <1>2
  <2> QED
    BY <2>2, <1>2, InOrder
<1>7. Order(t) \subseteq ToSet(t) \X ToSet(t) /\ Order(s) \subseteq ToSet(s) \X ToSet(s)
  BY <1>2, OrderIsPairs
<1>8. Order(t) \subseteq Order(s) \cup ({id} \X ToSet(s))
  BY <1>4, <1>7
<1>9. Order(s) \cup ({id} \X ToSet(s)) \subseteq Order(t)
  BY <1>5, <1>6, <1>7
<1> QED
  BY <1>8, <1>9 DEF t

\* erase keeps the order of the elements that stay.
LEMMA OrderWithoutAt ==
    ASSUME NEW s \in Seq(Ids), Distinct(s), NEW k \in 1 .. Len(s)
    PROVE  Order(RemoveAt(s, k))
             = Order(s) \cap ((ToSet(s) \ {s[k]}) \X (ToSet(s) \ {s[k]}))
<1> DEFINE t == RemoveAt(s, k)
           T == ToSet(s) \ {s[k]}
<1>1. Len(s) \in Nat
  BY LenProperties
<1>2. /\ t \in Seq(Ids)
      /\ Len(t) = Len(s) - 1
      /\ \A i \in 1 .. Len(s) - 1 : t[i] = IF i < k THEN s[i] ELSE s[i + 1]
  BY WithoutAt
<1>3. ToSet(t) = T
  BY Unlinked
<1>4. Order(t) \subseteq T \X T /\ Order(s) \subseteq ToSet(s) \X ToSet(s)
  BY <1>2, <1>3, OrderIsPairs
<1> HIDE DEF t
<1>5. ASSUME NEW a, NEW b, <<a, b>> \in Order(t)
      PROVE  <<a, b>> \in Order(s)
  <2>1. PICK i, j \in 1 .. Len(t) : i < j /\ t[i] = a /\ t[j] = b
    BY <1>5, InOrder
  <2> DEFINE at(x) == IF x < k THEN x ELSE x + 1
  <2>2. at(i) \in 1 .. Len(s) /\ at(j) \in 1 .. Len(s) /\ at(i) < at(j)
    BY <2>1, <1>1, <1>2
  <2>3. s[at(i)] = a /\ s[at(j)] = b
    BY <2>1, <1>1, <1>2
  <2> QED
    BY <2>2, <2>3, InOrder
<1>6. ASSUME NEW a \in T, NEW b \in T, <<a, b>> \in Order(s)
      PROVE  <<a, b>> \in Order(t)
  <2>1. PICK i, j \in 1 .. Len(s) : i < j /\ s[i] = a /\ s[j] = b
    BY <1>6, InOrder
  <2>2. i # k /\ j # k
    BY <2>1
  <2> DEFINE at(x) == IF x < k THEN x ELSE x - 1
  <2>3. at(i) \in 1 .. Len(t) /\ at(j) \in 1 .. Len(t) /\ at(i) < at(j)
    BY <2>1, <2>2, <1>1, <1>2
  <2>4. t[at(i)] = s[i] /\ t[at(j)] = s[j]
    <3>1. ASSUME NEW x \in 1 .. Len(s), x # k PROVE t[at(x)] = s[x]
      <4>1. CASE x < k
        BY <4>1, <1>1, <1>2
      <4>2. CASE x > k
        <5>1. x - 1 \in 1 .. Len(s) - 1 /\ ~ (x - 1 < k) /\ (x - 1) + 1 = x
          BY <4>2, <1>1
        <5> QED
          BY <5>1, <4>2, <1>2
      <4> QED
        BY <3>1, <4>1, <4>2
    <3> QED
      BY <3>1, <2>2
  <2> QED
    BY <2>1, <2>3, <2>4, InOrder
<1>7. Order(t) \subseteq Order(s) \cap (T \X T)
  BY <1>4, <1>5
<1>8. Order(s) \cap (T \X T) \subseteq Order(t)
  BY <1>6
<1> QED
  BY <1>7, <1>8 DEF t

\* Popping the back keeps the order of the elements that stay.
LEMMA OrderPrefix ==
    ASSUME NEW s \in Seq(Ids), Distinct(s), NEW k \in 0 .. Len(s), NEW T,
           T = ToSet(SubSeq(s, 1, k))
    PROVE  Order(SubSeq(s, 1, k)) = Order(s) \cap (T \X T)
<1> DEFINE t == SubSeq(s, 1, k)
<1>1. Len(s) \in Nat
  BY LenProperties
<1>2. t \in Seq(Ids) /\ Len(t) = k /\ \A i \in 1 .. k : t[i] = s[i]
  BY PrefixOf
<1> HIDE DEF t
<1>3. ToSet(t) = {s[i] : i \in 1 .. k}
  <2>1. ToSet(t) = {t[i] : i \in 1 .. Len(t)}
    BY <1>2, ToSetIs
  <2> QED
    BY <2>1, <1>2
<1>4. Order(t) \subseteq T \X T
  BY <1>2, OrderIsPairs DEF t
<1>5. ASSUME NEW a, NEW b, <<a, b>> \in Order(t)
      PROVE  <<a, b>> \in Order(s)
  <2>1. PICK i, j \in 1 .. Len(t) : i < j /\ t[i] = a /\ t[j] = b
    BY <1>5, InOrder
  <2>2. i \in 1 .. Len(s) /\ j \in 1 .. Len(s) /\ s[i] = a /\ s[j] = b
    BY <2>1, <1>1, <1>2
  <2> QED
    BY <2>1, <2>2, InOrder
<1>6. ASSUME NEW a \in T, NEW b \in T, <<a, b>> \in Order(s)
      PROVE  <<a, b>> \in Order(t)
  <2>1. PICK i, j \in 1 .. Len(s) : i < j /\ s[i] = a /\ s[j] = b
    BY <1>6, InOrder
  <2>2. a \in {s[x] : x \in 1 .. k} /\ b \in {s[x] : x \in 1 .. k}
    BY <1>3 DEF t
  <2>3. PICK x, y \in 1 .. k : s[x] = a /\ s[y] = b
    BY <2>2
  <2>4. x = i /\ y = j
    BY <2>1, <2>3, <1>1 DEF Distinct
  <2>5. t[i] = a /\ t[j] = b
    BY <2>1, <2>3, <2>4, <1>2
  <2> QED
    BY <2>1, <2>3, <2>4, <2>5, <1>2, InOrder
<1> QED
  <2>1. Order(t) \subseteq Order(s) \cap (T \X T)
    BY <1>4, <1>5
  <2>2. Order(s) \cap (T \X T) \subseteq Order(t)
    BY <1>6
  <2> QED
    BY <2>1, <2>2 DEF t

-----------------------------------------------------------------------------
(***************************************************************************)
(* evict_for drops the oldest entries, enough of them for the incoming     *)
(* bytes, and not one more: with the newest of the dropped entries kept    *)
(* the bytes would not fit.                                                *)
(***************************************************************************)
LEMMA EvictionMakesRoom ==
    ASSUME CacheInv, NEW incoming \in 0 .. Capacity
    PROVE  Lru!MakesRoom(Victims(incoming), incoming)
<1> DEFINE k == Kept(incoming)
           V == Victims(incoming)
<1>1. /\ lru \in Seq(Ids) /\ Len(lru) \in Nat
      /\ \A i \in 1 .. Len(lru) : lru[i] \in Ids
      /\ resident \in SUBSET Ids
      /\ used = BytesOf(resident) /\ used \in Nat /\ used <= Capacity
      /\ Capacity \in Nat
  BY LenProperties, ElementOfSeq, BytesAssumption, CapacityAssumption
     DEF CacheInv, CacheTypeOK, UsedIsResidentBytes
<1>2. resident = {lru[i] : i \in 1 .. Len(lru)} /\ Distinct(lru)
  BY <1>1, ToSetIs DEF CacheInv, ListMatchesMap, Distinct
<1>3. /\ k \in 0 .. Len(lru)
      /\ \A j \in (k + 1) .. Len(lru) : ~ LoopStops(j, incoming)
  BY KeptIsChosen DEF CacheInv
<1>4. V = {lru[i] : i \in (k + 1) .. Len(lru)}
  BY DEF Victims, Behind
<1>5. V \subseteq resident /\ BytesOf(resident \ V) + incoming <= Capacity
  BY EvictionIsExact
<1> HIDE DEF k, V
<1>6. ASSUME NEW v \in V, NEW x \in resident \ V
      PROVE  <<x, v>> \in Recency
  <2>1. PICK j \in (k + 1) .. Len(lru) : lru[j] = v
    BY <1>4
  <2>2. PICK i \in 1 .. Len(lru) : lru[i] = x
    BY <1>2
  <2>3. i < j
    BY <2>1, <2>2, <1>1, <1>3, <1>4
  <2>4. j \in 1 .. Len(lru)
    BY <2>1, <1>1, <1>3
  <2> QED
    BY <2>1, <2>2, <2>3, <2>4, InOrder, RecencyIsOrder
<1>7. ASSUME NEW v \in V, \A u \in V \ {v} : <<v, u>> \in Recency
      PROVE  BytesOf((resident \ V) \cup {v}) + incoming > Capacity
  <2>1. PICK j \in (k + 1) .. Len(lru) : lru[j] = v
    BY <1>4
  <2>2. k + 1 \in 1 .. Len(lru) /\ k + 1 \in (k + 1) .. Len(lru)
    BY <2>1, <1>1, <1>3
  <2>3. v = lru[k + 1]
    <3> SUFFICES ASSUME v # lru[k + 1] PROVE FALSE
      OBVIOUS
    <3>1. lru[k + 1] \in V \ {v}
      BY <2>2, <1>4
    <3>a. <<v, lru[k + 1]>> \in Order(lru)
      BY <3>1, <1>7, RecencyIsOrder
    <3>2. PICK a, b \in 1 .. Len(lru) : a < b /\ lru[a] = v /\ lru[b] = lru[k + 1]
      BY <3>a, InOrder
    <3>3. b = k + 1 /\ a = j
      BY <3>2, <2>1, <2>2, <1>1, <1>2, <1>3 DEF Distinct
    <3> QED
      BY <3>2, <3>3, <2>1, <1>3, <1>1
  <2>4. Behind(k + 1) \in SUBSET resident
        /\ resident \ Behind(k + 1) = (resident \ V) \cup {v}
    <3>1. Behind(k + 1) = {lru[i] : i \in (k + 2) .. Len(lru)}
      BY <1>1, <1>3 DEF Behind
    <3>2. ASSUME NEW i \in (k + 2) .. Len(lru) PROVE lru[i] \in V /\ lru[i] # v
      <4>1. i \in (k + 1) .. Len(lru) /\ i \in 1 .. Len(lru) /\ i # k + 1
        BY <1>1, <1>3
      <4> QED
        BY <4>1, <2>2, <2>3, <1>2, <1>4 DEF Distinct
    <3>3. ASSUME NEW i \in (k + 1) .. Len(lru), lru[i] # v PROVE lru[i] \in Behind(k + 1)
      <4>1. i # k + 1
        BY <3>3, <2>3
      <4>2. i \in (k + 2) .. Len(lru)
        BY <4>1, <1>1, <1>3
      <4> QED
        BY <4>2, <3>1
    <3>4. Behind(k + 1) = V \ {v}
      BY <3>1, <3>2, <3>3, <1>4
    <3> QED
      BY <3>4, <1>5
  <2>5. UsedWithout(k + 1) = BytesOf((resident \ V) \cup {v})
        /\ UsedWithout(k + 1) \in Nat /\ UsedWithout(k + 1) <= Capacity
    <3>1. /\ BytesOf(resident \ Behind(k + 1)) = BytesOf(resident) - BytesOf(Behind(k + 1))
          /\ BytesOf(Behind(k + 1)) <= BytesOf(resident)
      BY <2>4, <1>1, BytesOfDifference
    <3>2. BytesOf(Behind(k + 1)) \in Nat
      BY <2>4, <1>1, BytesOfType
    <3>3. UsedWithout(k + 1) = BytesOf(resident) - BytesOf(Behind(k + 1))
      BY <3>1, <3>2, <1>1 DEF UsedWithout, U64Minus
    <3>4. UsedWithout(k + 1) = BytesOf(resident \ Behind(k + 1))
      BY <3>1, <3>3
    <3>5. UsedWithout(k + 1) = BytesOf((resident \ V) \cup {v})
      BY <3>4, <2>4
    <3>6. UsedWithout(k + 1) \in Nat /\ UsedWithout(k + 1) <= Capacity
      BY <3>1, <3>2, <3>3, <1>1
    <3> QED
      BY <3>5, <3>6
  <2>6. ~ (incoming <= U64Minus(Capacity, UsedWithout(k + 1)))
    BY <2>2, <1>3 DEF LoopStops
  <2> QED
    BY <2>5, <2>6, <1>1 DEF U64Minus
<1> QED
  BY <1>5, <1>6, <1>7 DEF Lru!MakesRoom, V

-----------------------------------------------------------------------------
\* A hit is the abstract use of a held slice.
LEMMA HitTouches ==
    ASSUME CacheInv, NEW id \in Ids, Hit(id)
    PROVE  Lru!Touch(id)
<1> DEFINE k == lru_it(id)
           s == RemoveAt(lru, k)
<1>1. lru \in Seq(Ids) /\ Distinct(lru) /\ ToSet(lru) = resident
  BY DEF CacheInv, CacheTypeOK, ListMatchesMap, Distinct
<1>2. k \in 1 .. Len(lru) /\ lru[k] = id
  <2>1. \E x \in 1 .. Len(lru) : lru[x] = id
    BY <1>1, ToSetIs DEF Hit
  <2> QED
    BY <2>1 DEF lru_it
<1>3. id \in resident /\ resident' = resident /\ lru' = <<id>> \o s
  BY DEF Hit
<1> HIDE DEF k
<1>4. s \in Seq(Ids) /\ ToSet(s) = resident \ {id}
  BY <1>1, <1>2, Unlinked
<1>5. Order(s) = Order(lru) \cap ((resident \ {id}) \X (resident \ {id}))
  <2>1. Order(s) = Order(lru) \cap ((ToSet(lru) \ {lru[k]}) \X (ToSet(lru) \ {lru[k]}))
    BY <1>1, <1>2, OrderWithoutAt
  <2> QED
    BY <2>1, <1>1, <1>2
<1> HIDE DEF s
<1>6. Order(lru') = Order(s) \cup ({id} \X (resident \ {id}))
  BY <1>3, <1>4, OrderPushFront
<1>7. Recency' = Order(lru')
  BY RecencyIsOrderAfter
<1>8. Lru!MostRecent(id, resident)
        = (Order(lru) \cap ((resident \ {id}) \X (resident \ {id})))
            \cup ({id} \X (resident \ {id}))
  BY RecencyIsOrder DEF Lru!MostRecent, Lru!Among
<1> QED
  BY <1>3, <1>5, <1>6, <1>7, <1>8 DEF Lru!Touch

\* The entries evict_for leaves keep lru_'s order among themselves.
LEMMA SurvivorsOrder ==
    ASSUME CacheInv, NEW incoming \in 0 .. Capacity
    PROVE  Order(Survivors(incoming))
             = Order(lru) \cap ((resident \ Victims(incoming))
                                  \X (resident \ Victims(incoming)))
<1>1. lru \in Seq(Ids) /\ Distinct(lru)
  BY DEF CacheInv, CacheTypeOK, ListMatchesMap, Distinct
<1>2. Kept(incoming) \in 0 .. Len(lru)
  BY KeptIsChosen DEF CacheInv
<1>3. ToSet(SubSeq(lru, 1, Kept(incoming))) = resident \ Victims(incoming)
  BY EvictionIsExact DEF Survivors
<1> QED
  BY <1>1, <1>2, <1>3, OrderPrefix DEF Survivors

\* A miss and a prefetched copy are abstract admissions.
LEMMA MissAdmits ==
    ASSUME CacheInv, NEW id \in Ids, LoadMiss(id) \/ InsertCopied(id)
    PROVE  Lru!Admit(id)
<1> DEFINE V == Victims(Size[id])
           s == Survivors(Size[id])
<1>1. Size[id] \in 0 .. Capacity
  BY BytesAssumption, CapacityAssumption DEF LoadMiss, InsertCopied
<1>2. /\ id \notin resident
      /\ lru' = <<id>> \o s
      /\ resident' = (resident \ V) \cup {id}
  BY DEF LoadMiss, InsertCopied
<1>3. V \subseteq resident /\ s \in Seq(Ids) /\ ToSet(s) = resident \ V
  BY <1>1, EvictionIsExact
<1>4. Lru!MakesRoom(V, Size[id])
  BY <1>1, EvictionMakesRoom
<1>5. Order(s) = Order(lru) \cap ((resident \ V) \X (resident \ V))
  BY <1>1, SurvivorsOrder
<1> HIDE DEF V, s
<1>6. Order(lru') = Order(s) \cup ({id} \X (resident \ V))
  BY <1>2, <1>3, OrderPushFront
<1>7. resident' \ {id} = resident \ V
  BY <1>2, <1>3
<1>8. Lru!MostRecent(id, resident')
        = (Order(lru) \cap ((resident \ V) \X (resident \ V))) \cup ({id} \X (resident \ V))
  BY <1>7, RecencyIsOrder DEF Lru!MostRecent, Lru!Among
<1>9. Recency' = Lru!MostRecent(id, resident')
  BY <1>5, <1>6, <1>8, RecencyIsOrderAfter
<1> QED
  BY <1>2, <1>3, <1>4, <1>9 DEF Lru!Admit

\* A failed allocation after eviction only drops oldest entries.
LEMMA FailedAllocationSheds ==
    ASSUME CacheInv, NEW id \in Ids, LoadAllocFails(id) \/ InsertAllocFails(id)
    PROVE  Lru!Shed(id)
<1> DEFINE V == Victims(Size[id])
           s == Survivors(Size[id])
<1>1. Size[id] \in 0 .. Capacity
  BY BytesAssumption, CapacityAssumption DEF LoadAllocFails, InsertAllocFails
<1>2. id \notin resident /\ lru' = s /\ resident' = resident \ V
  BY DEF LoadAllocFails, InsertAllocFails, EvictFor
<1>3. V \subseteq resident
  BY <1>1, EvictionIsExact
<1>4. Lru!MakesRoom(V, Size[id])
  BY <1>1, EvictionMakesRoom
<1>5. Order(s) = Order(lru) \cap ((resident \ V) \X (resident \ V))
  BY <1>1, SurvivorsOrder
<1> HIDE DEF V, s
<1>6. Recency' = Lru!Among(resident')
  BY <1>2, <1>5, RecencyIsOrder, RecencyIsOrderAfter DEF Lru!Among
<1> QED
  BY <1>2, <1>3, <1>4, <1>6 DEF Lru!Shed

\* Every step of the cache is a step of BoundedLru or leaves it unchanged.
LEMMA StepRefines ==
    ASSUME CacheInv, [CacheNext]_cacheVars
    PROVE  [Lru!LruNext]_(Lru!lruVars)
<1>1. ASSUME UNCHANGED cacheVars PROVE UNCHANGED Lru!lruVars
  BY <1>1 DEF cacheVars, Lru!lruVars, Recency, Earlier
<1>2. ASSUME NEW id \in Ids, GetOrLoad(id) PROVE [Lru!LruNext]_(Lru!lruVars)
  <2>1. CASE Hit(id)
    BY <2>1, HitTouches DEF Lru!LruNext
  <2>2. CASE LoadRejected(id)
    BY <2>2, <1>1 DEF LoadRejected
  <2>3. CASE LoadMiss(id)
    BY <2>3, MissAdmits DEF Lru!LruNext
  <2>4. CASE LoadAllocFails(id)
    BY <2>4, FailedAllocationSheds DEF Lru!LruNext
  <2> QED
    BY <1>2, <2>1, <2>2, <2>3, <2>4 DEF GetOrLoad
<1>3. ASSUME NEW id \in Ids, InsertPrefetched(id) PROVE [Lru!LruNext]_(Lru!lruVars)
  <2>1. CASE InsertSkipped(id)
    BY <2>1, <1>1 DEF InsertSkipped
  <2>2. CASE InsertCopied(id)
    BY <2>2, MissAdmits DEF Lru!LruNext
  <2>3. CASE InsertAllocFails(id)
    BY <2>3, FailedAllocationSheds DEF Lru!LruNext
  <2> QED
    BY <1>3, <2>1, <2>2, <2>3 DEF InsertPrefetched
<1> QED
  BY <1>1, <1>2, <1>3 DEF CacheNext

\* The constructed cache is an empty BoundedLru.
LEMMA InitRefines == CacheInit => Lru!LruInit
<1> SUFFICES ASSUME CacheInit PROVE Lru!LruInit
  OBVIOUS
<1>1. lru \in Seq(Ids) /\ resident = {} /\ Len(lru) = 0
  BY EmptySeq DEF CacheInit
<1>2. Order(lru) = {}
  BY <1>1 DEF Order
<1> QED
  BY <1>1, <1>2, RecencyIsOrder DEF Lru!LruInit

(***************************************************************************)
(* The copy cache evicts in true least-recently-used order and never more  *)
(* than an incoming slice needs: lru_cache.cpp implements BoundedLru.      *)
(***************************************************************************)
THEOREM CacheImplementsLru == CacheSpec => ImplementsLru
<1>1. CacheInit => Lru!LruInit
  BY InitRefines
<1>2. CacheInv /\ [CacheNext]_cacheVars => [Lru!LruNext]_(Lru!lruVars)
  BY StepRefines
<1> QED
  BY <1>1, <1>2, CacheCorrect, PTL DEF CacheSpec, ImplementsLru, Lru!LruSpec
=============================================================================
