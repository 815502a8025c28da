-------------------------- MODULE WorkerPoolProofs --------------------------
(***************************************************************************)
(* No chunk outlives its call, and parallel_for implements ParallelFor,    *)
(* for every number of threads, callers and calls, and every length.       *)
(*                                                                         *)
(* A caller leaves when it has counted threads_ - 1 reports, so the        *)
(* argument is about what finished_ counts: exactly the workers that have  *)
(* seen the current generation and are not busy with it.  When that is all *)
(* of them, nobody is busy, and nobody can become busy before the next     *)
(* generation, for all of them have seen this one.  The refinement adds    *)
(* that the rounded-up chunks partition the indices, so that those handed  *)
(* over are exactly those in the chunks of the threads that are past       *)
(* their call of the function.                                             *)
(***************************************************************************)
EXTENDS WorkerPool, FiniteSetTheorems, TLAPS

Published == {"notify", "own", "catch", "await", "parking", "waiting"}
Busy == {"run", "catch", "finish"}
WorkerPlaces == {"check", "parking", "waiting", "exited"} \cup Busy
CallerPlaces == {"out", "alone", "leave", "publish"} \cup Published

PoolTypeOK ==
    /\ threads \in Nat \ {0}
    /\ generation \in Nat /\ finished \in Nat /\ n \in Nat
    /\ stop \in BOOLEAN
    /\ wpc \in [Workers -> WorkerPlaces]
    /\ seen \in [Workers -> Nat] /\ wn \in [Workers -> Nat]
    /\ cpc \in [Callers -> CallerPlaces] /\ cn \in [Callers -> Nat]

\* A caller is inside exactly while it holds call_mu_; the pool is
\* destroyed from outside.
Exclusive ==
    /\ \A c \in Callers : cpc[c] # "out" <=> call_mu = c
    /\ call_mu \in Callers \cup {Nobody}
    /\ opc = "alive" <=> ~stop
    /\ stop => call_mu = Nobody

\* A call is published, and its workers not yet all back.
InProgress == call_mu # Nobody /\ cpc[call_mu] \in Published

Reported == {t \in Workers : seen[t] = generation /\ wpc[t] \notin Busy}

Counted ==
    /\ \A t \in Workers : seen[t] <= generation
    /\ \A t \in Workers : wpc[t] \in Busy =>
          InProgress /\ seen[t] = generation /\ wn[t] = n
    /\ InProgress => finished = Cardinality(Reported) /\ n = cn[call_mu]
    /\ ~InProgress /\ ~stop => \A t \in Workers : seen[t] = generation

PoolInv == PoolTypeOK /\ Exclusive /\ Counted

-----------------------------------------------------------------------------
\* Whole quotients, and multiples of a number.
LEMMA Division ==
    ASSUME NEW a \in Nat, NEW b \in Nat \ {0}
    PROVE  /\ a \div b \in Nat
           /\ (a \div b) * b <= a
           /\ a < (a \div b) * b + b
OBVIOUS

LEMMA Consecutive ==
    ASSUME NEW a \in Nat, NEW b \in Nat, NEW s \in Nat
    PROVE  /\ a * s \in Nat /\ b * s \in Nat
           /\ a < b => a * s + s <= b * s
           /\ a * s < b * s => a < b
OBVIOUS

LEMMA WorkersFinite ==
    ASSUME PoolTypeOK
    PROVE  /\ IsFiniteSet(Workers) /\ Cardinality(Workers) = threads - 1
           /\ IsFiniteSet(Reported) /\ Cardinality(Reported) \in Nat
<1>1. 1 \in Int /\ threads - 1 \in Int /\ threads - 1 >= 0
  BY DEF PoolTypeOK
<1> DEFINE last == threads - 1
<1>2. /\ IsFiniteSet(1 .. last)
      /\ Cardinality(1 .. last) = IF 1 > last THEN 0 ELSE last - 1 + 1
  BY <1>1, FS_Interval, Zenon
<1>3. (IF 1 > last THEN 0 ELSE last - 1 + 1) = last
  BY <1>1
<1>4. IsFiniteSet(Workers) /\ Cardinality(Workers) = threads - 1
  <2>1. Workers = 1 .. last
    BY Zenon DEF Workers
  <2> QED
    BY <1>2, <1>3, <2>1, Zenon
<1>5. Reported \in SUBSET Workers
  BY DEF Reported
<1>6. IsFiniteSet(Reported)
  BY <1>4, <1>5, FS_Subset
<1> QED
  BY <1>4, <1>6, FS_CardinalityType

\* When all workers have reported, each of them has.
LEMMA AllReported ==
    ASSUME PoolTypeOK, Cardinality(Reported) = threads - 1
    PROVE  \A t \in Workers : seen[t] = generation /\ wpc[t] \notin Busy
<1>1. Reported \in SUBSET Workers
  BY DEF Reported
<1>2. Reported = Workers
  BY <1>1, WorkersFinite, FS_Subset
<1> QED
  BY <1>2 DEF Reported

-----------------------------------------------------------------------------
LEMMA PoolStarts == PoolInit => PoolInv
<1> SUFFICES ASSUME PoolInit PROVE PoolInv
  OBVIOUS
<1>1. PoolTypeOK
  <2>1. threads \in Nat \ {0}
    BY PoolAssumption DEF PoolInit
  <2>2. /\ wpc \in [Workers -> WorkerPlaces] /\ cpc \in [Callers -> CallerPlaces]
        /\ seen \in [Workers -> Nat] /\ wn \in [Workers -> Nat] /\ cn \in [Callers -> Nat]
    BY DEF PoolInit, WorkerPlaces, CallerPlaces
  <2> QED
    BY <2>1, <2>2 DEF PoolInit, PoolTypeOK
<1>2. Exclusive
  BY PoolAssumption DEF PoolInit, Exclusive
<1>3. Counted
  BY <1>1 DEF PoolInit, Counted, InProgress, Busy
<1> QED
  BY <1>1, <1>2, <1>3 DEF PoolInv

-----------------------------------------------------------------------------
\* Steps of a worker that is not busy, and of all workers that sleep, to
\* where it is not busy either.
LEMMA WorkersRest ==
    ASSUME PoolInv, PoolTypeOK',
           UNCHANGED <<threads, generation, finished, n, stop, seen, wn>>,
           UNCHANGED <<call_mu, cpc, cn, opc>>,
           \A t \in Workers : wpc'[t] \in Busy <=> wpc[t] \in Busy
    PROVE  PoolInv'
<1>1. Exclusive'
  BY DEF PoolInv, Exclusive
<1>2. Workers' = Workers /\ (InProgress' <=> InProgress)
  BY DEF Workers, InProgress
<1>3. Reported' = Reported
  BY <1>2 DEF Reported
<1>4. Counted'
  BY <1>2, <1>3 DEF PoolInv, Counted
<1> QED
  BY <1>1, <1>4 DEF PoolInv

\* A worker takes the call it has not seen: it had not been counted.
LEMMA Takes ==
    ASSUME PoolInv, UNCHANGED threads, NEW t \in Workers, WorkerTakes(t)
    PROVE  PoolInv'
<1> USE DEF PoolInv, WorkerTakes, shared, callerVars
<1>1. Workers' = Workers /\ (InProgress' <=> InProgress)
  BY DEF Workers, InProgress
<1>2. /\ wpc' = [wpc EXCEPT ![t] = "run"] /\ seen' = [seen EXCEPT ![t] = generation]
      /\ wn' = [wn EXCEPT ![t] = n]
      /\ UNCHANGED <<threads, generation, finished, n, stop, call_mu, cpc, cn, opc>>
      /\ ~stop /\ wpc[t] = "check" /\ generation # seen[t]
  OBVIOUS
<1>3. PoolTypeOK'
  BY <1>1, <1>2 DEF PoolTypeOK, WorkerPlaces, Busy
<1>4. Exclusive'
  BY <1>2 DEF Exclusive
<1>5. Reported' = Reported
  BY <1>1, <1>2 DEF Reported, PoolTypeOK, Busy
<1>6. InProgress
  BY <1>2 DEF Counted
<1>7. Counted'
  BY <1>1, <1>2, <1>5, <1>6 DEF Counted, PoolTypeOK, Busy
<1> QED
  BY <1>3, <1>4, <1>7

\* A worker that is done with the call is counted.
LEMMA Finishes ==
    ASSUME PoolInv, UNCHANGED threads, NEW t \in Workers, WorkerFinishes(t)
    PROVE  PoolInv'
<1> USE DEF PoolInv, WorkerFinishes
<1>1. Workers' = Workers
  BY DEF Workers
<1>2. /\ wpc' = [wpc EXCEPT ![t] = "check"] /\ wpc[t] = "finish"
      /\ UNCHANGED <<threads, generation, n, stop, call_mu, seen, wn, cn, opc>>
  OBVIOUS
<1>3. InProgress /\ seen[t] = generation /\ finished' = finished + 1
  BY <1>2 DEF Counted, Busy
<1>4. /\ cpc' \in [Callers -> CallerPlaces]
      /\ \A c \in Callers :
            cpc'[c] = cpc[c] \/ (cpc[c] = "waiting" /\ cpc'[c] = "await")
  <2>1. cpc \in [Callers -> CallerPlaces] /\ "await" \in CallerPlaces
    BY DEF PoolTypeOK, CallerPlaces, Published
  <2>2. CASE NotifyCaller
    BY <2>1, <2>2 DEF NotifyCaller
  <2>3. CASE UNCHANGED cpc
    BY <2>1, <2>3
  <2> QED
    BY <2>2, <2>3
<1>5. PoolTypeOK'
  BY <1>1, <1>2, <1>3, <1>4 DEF PoolTypeOK, WorkerPlaces
<1>6. Exclusive'
  BY <1>2, <1>4 DEF Exclusive
<1>7. InProgress'
  BY <1>2, <1>3, <1>4 DEF InProgress, Exclusive, Published
<1>8. Reported' = Reported \cup {t} /\ t \notin Reported
  BY <1>1, <1>2, <1>3 DEF Reported, PoolTypeOK, Busy
<1>9. finished' = Cardinality(Reported')
  <2>1. IsFiniteSet(Reported)
    BY WorkersFinite
  <2>2. Cardinality(Reported \cup {t}) = Cardinality(Reported) + 1
    BY <1>8, <2>1, FS_AddElement
  <2>3. finished = Cardinality(Reported)
    BY <1>3 DEF Counted
  <2> QED
    BY <1>3, <1>8, <2>2, <2>3
<1>10. Counted'
  BY <1>1, <1>2, <1>3, <1>7, <1>9 DEF Counted, PoolTypeOK, Busy
<1> QED
  BY <1>5, <1>6, <1>10

LEMMA WorkerKeeps ==
    ASSUME PoolInv, UNCHANGED threads, NEW t \in Workers,
           WorkerStep(t) \/ WorkerWakesSpuriously(t)
    PROVE  PoolInv'
<1>1. ASSUME NEW place \in WorkerPlaces, wpc' = [wpc EXCEPT ![t] = place],
             place \in Busy <=> wpc[t] \in Busy,
             UNCHANGED <<generation, finished, n, stop, seen, wn, call_mu, cpc, cn, opc>>
      PROVE  PoolInv'
  <2>1. PoolTypeOK'
    BY <1>1 DEF PoolInv, PoolTypeOK, Workers
  <2>2. \A u \in Workers : wpc'[u] \in Busy <=> wpc[u] \in Busy
    BY <1>1 DEF PoolInv, PoolTypeOK
  <2> QED
    BY <1>1, <2>1, <2>2, WorkersRest
<1>2. ASSUME WorkerExits(t) \/ WorkerFindsNothing(t) \/ WorkerSleeps(t)
             \/ WorkerWakesSpuriously(t)
      PROVE  PoolInv'
  BY <1>1, <1>2
     DEF WorkerExits, WorkerFindsNothing, WorkerSleeps, WorkerWakesSpuriously, shared,
         callerVars, WorkerPlaces, Busy
<1>3. ASSUME WorkerRuns(t) \/ WorkerThrows(t) \/ WorkerCatches(t)
      PROVE  PoolInv'
  BY <1>1, <1>3
     DEF WorkerRuns, WorkerThrows, WorkerCatches, shared, callerVars, WorkerPlaces, Busy
<1> QED
  BY <1>2, <1>3, Takes, Finishes DEF WorkerStep

-----------------------------------------------------------------------------
\* Steps of the caller inside, after it has published its call.
LEMMA CallerMoves ==
    ASSUME PoolInv, UNCHANGED threads, NEW c \in Callers,
           NEW place \in Published, cpc[c] \in Published, cpc' = [cpc EXCEPT ![c] = place],
           UNCHANGED <<generation, finished, n, stop, seen, wn, call_mu, cn, opc>>,
           wpc' \in [Workers -> WorkerPlaces],
           \A t \in Workers : wpc'[t] \in Busy <=> wpc[t] \in Busy
    PROVE  PoolInv'
<1> USE DEF PoolInv
<1>1. Workers' = Workers
  BY DEF Workers
<1>2. PoolTypeOK'
  BY <1>1 DEF PoolTypeOK, CallerPlaces
<1>3. Exclusive'
  BY DEF Exclusive, PoolTypeOK, Published
<1>4. InProgress /\ InProgress'
  BY PoolAssumption DEF InProgress, Exclusive, PoolTypeOK, Published
<1>5. Reported' = Reported
  BY <1>1 DEF Reported
<1>6. Counted'
  BY <1>1, <1>4, <1>5 DEF Counted
<1> QED
  BY <1>2, <1>3, <1>6

\* A caller takes call_mu_, or leaves a pool that has no workers.
LEMMA CallerOutside ==
    ASSUME PoolInv, UNCHANGED threads, NEW c \in Callers,
           \/ \E len \in Lengths : CallerEnters(c, len)
           \/ CallerRunsAlone(c) \/ CallerLeaves(c)
    PROVE  PoolInv'
<1> USE DEF PoolInv
<1>1. Workers' = Workers
  BY DEF Workers
<1>2. UNCHANGED <<generation, finished, n, stop, seen, wn, wpc, opc>>
  BY DEF CallerEnters, CallerRunsAlone, CallerLeaves, shared, workerVars
<1>3. PoolTypeOK'
  <2>1. cn' \in [Callers -> Nat]
    BY PoolAssumption DEF CallerEnters, CallerRunsAlone, CallerLeaves, PoolTypeOK
  <2>2. cpc' \in [Callers -> CallerPlaces]
    BY DEF CallerEnters, CallerRunsAlone, CallerLeaves, PoolTypeOK, CallerPlaces
  <2> QED
    BY <1>1, <1>2, <2>1, <2>2 DEF PoolTypeOK
<1>4. Exclusive'
  BY <1>2, PoolAssumption
     DEF CallerEnters, CallerRunsAlone, CallerLeaves, PoolTypeOK, Exclusive
<1>5. ~InProgress
  BY DEF CallerEnters, CallerRunsAlone, CallerLeaves, Exclusive, InProgress, Published
<1>6. ~InProgress'
  BY PoolAssumption
     DEF CallerEnters, CallerRunsAlone, CallerLeaves, PoolTypeOK, Exclusive, InProgress, Published
<1>7. Counted'
  BY <1>1, <1>2, <1>5, <1>6 DEF Counted
<1> QED
  BY <1>3, <1>4, <1>7

\* A new generation, which no worker can have seen.
LEMMA Publishes ==
    ASSUME PoolInv, UNCHANGED threads, NEW c \in Callers, CallerPublishes(c)
    PROVE  PoolInv'
<1> USE DEF PoolInv, CallerPublishes, workerVars
<1>1. Workers' = Workers
  BY DEF Workers
<1>2. /\ call_mu = c /\ c # Nobody /\ ~stop /\ ~InProgress
  BY PoolAssumption DEF Exclusive, InProgress, Published
<1>3. PoolTypeOK'
  BY <1>1 DEF PoolTypeOK, CallerPlaces, Published
<1>4. Exclusive'
  BY DEF Exclusive, PoolTypeOK
<1>5. InProgress'
  BY <1>2 DEF InProgress, PoolTypeOK, Published
<1>6. \A t \in Workers : wpc[t] \notin Busy /\ seen[t] <= generation /\ seen[t] # generation'
  BY <1>2 DEF Counted, PoolTypeOK
<1>7. Reported' = {}
  BY <1>1, <1>6 DEF Reported
<1>8. Cardinality(Reported') = 0
  BY <1>7, FS_EmptySet
<1>9. Counted'
  BY <1>1, <1>2, <1>5, <1>6, <1>8 DEF Counted, PoolTypeOK
<1> QED
  BY <1>3, <1>4, <1>9

\* The caller has counted all workers, so that none is busy.
LEMMA Returns ==
    ASSUME PoolInv, UNCHANGED threads, NEW c \in Callers, CallerReturns(c)
    PROVE  PoolInv'
<1> USE DEF PoolInv, CallerReturns, workerVars, shared
<1>1. Workers' = Workers
  BY DEF Workers
<1>2. call_mu = c /\ InProgress
  BY PoolAssumption DEF Exclusive, InProgress, Published
<1>3. \A t \in Workers : seen[t] = generation /\ wpc[t] \notin Busy
  BY <1>2, AllReported DEF Counted
<1>4. PoolTypeOK'
  BY <1>1 DEF PoolTypeOK, CallerPlaces
<1>5. Exclusive'
  BY <1>2, PoolAssumption DEF Exclusive, PoolTypeOK
<1>6. ~InProgress'
  BY DEF InProgress
<1>7. Counted'
  BY <1>1, <1>3, <1>6 DEF Counted, PoolTypeOK
<1> QED
  BY <1>4, <1>5, <1>7

LEMMA CallerKeeps ==
    ASSUME PoolInv, UNCHANGED threads, NEW c \in Callers,
           \/ CallerStep(c) \/ CallerWakesSpuriously(c)
           \/ \E len \in Lengths : CallerEnters(c, len)
    PROVE  PoolInv'
<1>1. wpc \in [Workers -> WorkerPlaces]
  BY DEF PoolInv, PoolTypeOK
<1>2. CASE CallerNotifies(c)
  <2>1. /\ wpc' \in [Workers -> WorkerPlaces]
        /\ \A t \in Workers : wpc'[t] \in Busy <=> wpc[t] \in Busy
    BY <1>1, <1>2 DEF CallerNotifies, NotifyWorkers, WorkerPlaces, Busy
  <2> QED
    BY <1>2, <2>1, CallerMoves DEF CallerNotifies, Published, shared
<1>3. CASE \/ CallerRuns(c) \/ CallerThrows(c) \/ CallerCatches(c) \/ CallerWaits(c)
           \/ CallerSleeps(c) \/ CallerWakesSpuriously(c)
  BY <1>1, <1>3, CallerMoves
     DEF CallerRuns, CallerThrows, CallerCatches, CallerWaits, CallerSleeps,
         CallerWakesSpuriously, Published, shared, workerVars
<1> QED
  BY <1>2, <1>3, CallerOutside, Publishes, Returns DEF CallerStep

-----------------------------------------------------------------------------
\* The destructor begins when nobody is inside, and so nobody busy.
LEMMA DestroyKeeps ==
    ASSUME PoolInv, UNCHANGED threads, DestroyBegins \/ Destroy \/ Gone
    PROVE  PoolInv'
<1>1. CASE DestroyBegins
  <2> USE <1>1 DEF PoolInv, DestroyBegins, workerVars, callerVars
  <2>1. Workers' = Workers
    BY DEF Workers
  <2>2. call_mu = Nobody /\ ~InProgress /\ ~InProgress'
    BY DEF Exclusive, InProgress
  <2>3. PoolTypeOK'
    BY <2>1 DEF PoolTypeOK
  <2>4. Exclusive'
    BY <2>2 DEF Exclusive
  <2>5. Counted'
    BY <2>1, <2>2 DEF Counted, PoolTypeOK
  <2> QED
    BY <2>3, <2>4, <2>5
<1>2. CASE DestroyNotifies
  <2> USE <1>2 DEF PoolInv, DestroyNotifies, NotifyWorkers, shared, callerVars
  <2>1. Workers' = Workers /\ (InProgress' <=> InProgress)
    BY DEF Workers, InProgress
  <2>2. PoolTypeOK'
    BY <2>1 DEF PoolTypeOK, WorkerPlaces
  <2>3. Exclusive'
    BY DEF Exclusive
  <2>4. \A t \in Workers : wpc'[t] \in Busy <=> wpc[t] \in Busy
    BY DEF PoolTypeOK, Busy
  <2>5. Reported' = Reported
    BY <2>1, <2>4 DEF Reported
  <2>6. Counted'
    BY <2>1, <2>4, <2>5 DEF Counted
  <2> QED
    BY <2>2, <2>3, <2>6
<1>3. CASE DestroyJoins
  <2> USE <1>3 DEF PoolInv, DestroyJoins, shared, workerVars, callerVars
  <2>1. Workers' = Workers /\ (InProgress' <=> InProgress) /\ Reported' = Reported
    BY DEF Workers, InProgress, Reported
  <2>2. PoolTypeOK' /\ Exclusive' /\ Counted'
    BY <2>1 DEF PoolTypeOK, Exclusive, Counted
  <2> QED
    BY <2>2
<1>4. CASE UNCHANGED poolVars
  BY <1>4 DEF PoolInv, PoolTypeOK, Exclusive, Counted, InProgress, Reported, Workers, poolVars,
              shared, workerVars, callerVars
<1> QED
  BY <1>1, <1>2, <1>3, <1>4 DEF Destroy, Gone

LEMMA PoolKept == PoolInv /\ [PoolNext]_poolVars => PoolInv'
<1> SUFFICES ASSUME PoolInv, [PoolNext]_poolVars PROVE PoolInv'
  OBVIOUS
<1>1. CASE PoolNext
  BY <1>1, WorkerKeeps, CallerKeeps, DestroyKeeps DEF PoolNext
<1>2. CASE UNCHANGED poolVars
  BY <1>2 DEF PoolInv, PoolTypeOK, Exclusive, Counted, InProgress, Reported, Workers, poolVars,
              shared, workerVars, callerVars
<1> QED
  BY <1>1, <1>2

(***************************************************************************)
(* Whatever the number of threads, callers and calls: a worker that runs,  *)
(* or has yet to report, a chunk does so for the call in progress, with    *)
(* the length of that call and a caller that has not returned.             *)
(***************************************************************************)
THEOREM ChunksStayInTheirCall == PoolSpec => []NoChunkOutlivesCall
<1>1. PoolInv => NoChunkOutlivesCall
  BY DEF PoolInv, Counted, InProgress, NoChunkOutlivesCall, Published, Busy
<1> QED
  BY <1>1, PoolStarts, PoolKept, PTL DEF PoolSpec

-----------------------------------------------------------------------------
(***************************************************************************)
(* The refinement: what has become of the indices of the call in progress, *)
(* and of its errors.  An index is handed over once because its chunk is   *)
(* the only one it is in, and no index is left because it is in one.       *)
(***************************************************************************)
\* Rounding up: a chunk for each thread is enough, and none overlap.
LEMMA ChunksPartition ==
    ASSUME threads \in Nat \ {0}, NEW len \in Nat \ {0}
    PROVE  /\ \A a, b \in 0 .. (threads - 1) : a # b => Chunk(a, len) \cap Chunk(b, len) = {}
           /\ \A x \in 0 .. (len - 1) : \E a \in 0 .. (threads - 1) : x \in Chunk(a, len)
           /\ Chunk(0, len) # {}
<1> DEFINE s == Step(len)
<1>1. s \in Nat /\ (len + threads - 1) - threads < s * threads
  <2>1. len + threads - 1 \in Nat
    OBVIOUS
  <2>2. /\ s \in Nat
        /\ len + threads - 1 < s * threads + threads
    BY <2>1, Division DEF Step
  <2>3. s * threads \in Nat
    BY <2>2
  <2> QED
    BY <2>2, <2>3
<1>2. len <= s * threads /\ s # 0
  <2>1. s * threads \in Nat
    BY <1>1
  <2> QED
    BY <1>1, <2>1
<1>3. ASSUME NEW a \in Nat, NEW x
      PROVE  x \in Chunk(a, len) <=> x \in 0 .. (len - 1) /\ a * s <= x /\ x < a * s + s
  <2>1. a * s \in Nat
    BY <1>1
  <2> HIDE DEF s
  <2>2. Chunk(a, len) = {i \in 0 .. (len - 1) :
                           a * s <= i /\ i < IF a * s + s < len THEN a * s + s ELSE len}
    BY DEF Chunk, ChunkEnd, s
  <2> QED
    BY <1>1, <2>1, <2>2
<1> HIDE DEF s
<1>4. ASSUME NEW a \in 0 .. (threads - 1), NEW b \in 0 .. (threads - 1), a < b
      PROVE  Chunk(a, len) \cap Chunk(b, len) = {}
  <2>1. a \in Nat /\ b \in Nat /\ a * s + s <= b * s /\ a * s \in Nat /\ b * s \in Nat
    BY <1>1, <1>4, Consecutive
  <2> QED
    BY <1>1, <1>3, <2>1
<1>5. ASSUME NEW x \in 0 .. (len - 1)
      PROVE  \E a \in 0 .. (threads - 1) : x \in Chunk(a, len)
  <2> DEFINE a == x \div s
  <2>1. a \in Nat /\ a * s <= x /\ x < a * s + s
    BY <1>1, <1>2, Division
  <2>2. a * s < threads * s
    BY <1>1, <1>2, <2>1
  <2>3. a < threads
    BY <1>1, <2>1, <2>2, Consecutive
  <2> QED
    BY <1>3, <2>1, <2>3
<1>6. 0 \in Chunk(0, len)
  BY <1>1, <1>2, <1>3
<1> QED
  BY <1>4, <1>5, <1>6
-----------------------------------------------------------------------------
\* The chunks of the call in progress that its function has been given.
HandedOver ==
    (IF cpc[call_mu] \in {"catch", "await", "parking", "waiting"} THEN {0} ELSE {})
    \cup {t \in Workers : seen[t] = generation /\ wpc[t] # "run"}

IsHanded(x) == \E tid \in HandedOver : x \in Chunk(tid, cn[call_mu])
ErrorKnown == error \/ cpc[call_mu] = "catch" \/ \E t \in Workers : wpc[t] = "catch"

CallInv ==
    /\ threw \in BOOLEAN /\ error \in BOOLEAN
    /\ call_mu # Nobody => cn[call_mu] \in Lengths
    /\ call_mu # Nobody /\ cpc[call_mu] \in {"alone", "publish"} =>
          threw = FALSE /\ \A x \in Indices : ran[x] = 0
    /\ call_mu # Nobody /\ cpc[call_mu] = "leave" =>
          \A x \in 0 .. (cn[call_mu] - 1) : ran[x] = 1
    /\ InProgress =>
          /\ threw <=> ErrorKnown
          /\ \A x \in Indices : ran[x] = IF IsHanded(x) THEN 1 ELSE 0

\* The refinement mapping of the indices left.
Left == IF call_mu = Nobody THEN {} ELSE {x \in 0 .. (cn[call_mu] - 1) : ran[x] # 1}

\* A step of ParallelFor, or none.
Simulates == [Pfor!PforNext]_(Pfor!pforVars)

LEMMA LengthIn ==
    ASSUME NEW len \in Lengths
    PROVE  len \in Nat \ {0} /\ 0 .. (len - 1) \subseteq Indices
BY PoolAssumption DEF Indices

LEMMA Stutters ==
    ASSUME UNCHANGED <<call_mu, cn, ran, threw, result>>
    PROVE  Simulates
BY DEF Simulates, Pfor!pforVars

LEMMA SimulatesProcess ==
    ASSUME call_mu # Nobody, UNCHANGED <<call_mu, result>>,
           NEW done \in SUBSET Left, done # {} \/ threw' = threw,
           Left' = Left \ done, threw' \in {threw, TRUE}
    PROVE  Simulates
<1> DEFINE failed == call_mu # Nobody /\ threw
<1>1. CASE done = {}
  <2>1. Left' = Left /\ threw' = threw
    BY <1>1
  <2>2. failed' = failed
    BY <2>1, Zenon
  <2>3. UNCHANGED Pfor!pforVars
    BY <2>1, <2>2, Zenon DEF Pfor!pforVars, Left
  <2> QED
    BY <2>3 DEF Simulates
<1>2. CASE done # {}
  <2>1. failed' \in {failed, TRUE}
    <3>1. CASE threw' = threw
      <4>1. failed' = failed
        BY <3>1, Zenon
      <4> QED
        BY <4>1, Zenon
    <3>2. CASE threw' = TRUE
      <4>1. failed' = TRUE
        BY <3>2, Zenon
      <4> QED
        BY <4>1, Zenon
    <3> QED
      BY <3>1, <3>2
  <2>2. \E d \in SUBSET Left : d # {} /\ Left' = Left \ d
    BY <1>2, Zenon
  <2>3. Pfor!Process
    BY <2>1, <2>2, Zenon DEF Pfor!Process, Left
  <2> QED
    BY <2>3 DEF Simulates, Pfor!PforNext
<1> QED
  BY <1>1, <1>2

\* Steps in a call that hand over nothing.
LEMMA NothingHanded ==
    ASSUME PoolInv, CallInv, InProgress, InProgress',
           UNCHANGED <<threads, call_mu, cn, ran, result>>, HandedOver' = HandedOver,
           threw' = threw, error' \in BOOLEAN, threw' <=> ErrorKnown'
    PROVE  CallInv' /\ Simulates
<1>1. \A x : IsHanded(x)' <=> IsHanded(x)
  BY DEF IsHanded, Chunk, ChunkEnd, Step
<1>2. cpc'[call_mu'] \in Published
  BY DEF InProgress
<1>3. CallInv'
  BY <1>1, <1>2 DEF CallInv, InProgress, Published
<1> QED
  BY <1>3, Stutters

\* A thread hands its chunk over: none of it had been.
LEMMA Handing ==
    ASSUME PoolInv, CallInv, InProgress, InProgress',
           NEW tid \in 0 .. (threads - 1), tid \notin HandedOver,
           UNCHANGED <<threads, call_mu, cn, result>>, Process(tid, cn[call_mu]),
           HandedOver' = HandedOver \cup {tid},
           threw' \in {threw, TRUE}, error' \in BOOLEAN, threw' <=> ErrorKnown',
           threw' = threw \/ Chunk(tid, cn[call_mu]) # {}
    PROVE  CallInv' /\ Simulates
<1> DEFINE len == cn[call_mu]
           chunk == Chunk(tid, len)
<1>1. len \in Lengths /\ len \in Nat \ {0} /\ 0 .. (len - 1) \subseteq Indices
  BY LengthIn DEF CallInv, InProgress
<1>2. threads \in Nat \ {0} /\ HandedOver \subseteq 0 .. (threads - 1)
  BY DEF PoolInv, PoolTypeOK, HandedOver, Workers
<1>3. \A a \in HandedOver : Chunk(a, len) \cap chunk = {}
  BY <1>1, <1>2, ChunksPartition
<1>4. chunk \subseteq 0 .. (len - 1)
  BY DEF Chunk
<1>5. \A x \in chunk : ~IsHanded(x)
  BY <1>3 DEF IsHanded
<1>6. \A x \in Indices : ran[x] = IF IsHanded(x) THEN 1 ELSE 0
  BY DEF CallInv
<1>7. \A x \in Indices : ran'[x] = IF x \in chunk THEN ran[x] + 1 ELSE ran[x]
  BY DEF Process
<1>8. len' = len /\ \A a : Chunk(a, len)' = Chunk(a, len)
  BY DEF Chunk, ChunkEnd, Step
<1>9. \A x : IsHanded(x)' <=> IsHanded(x) \/ x \in chunk
  BY <1>8 DEF IsHanded
<1>10. \A x \in Indices : ran'[x] = IF IsHanded(x)' THEN 1 ELSE 0
  BY <1>5, <1>6, <1>7, <1>9
<1>11. CallInv'
  <2>1. cpc'[call_mu'] \in Published
    BY DEF InProgress
  <2>2. threw' \in BOOLEAN
    BY DEF CallInv
  <2> QED
    BY <1>1, <1>8, <1>10, <2>1, <2>2 DEF CallInv, InProgress, Published
<1>12. call_mu # Nobody
  BY DEF InProgress
<1>13. chunk \in SUBSET Left /\ Left' = Left \ chunk
  <2>1. Left = {x \in 0 .. (len - 1) : ran[x] # 1}
    BY <1>12 DEF Left
  <2>2. Left' = {x \in 0 .. (len - 1) : ran'[x] # 1}
    BY <1>8, <1>12 DEF Left
  <2>3. \A x \in 0 .. (len - 1) : x \in Indices
    BY <1>1
  <2>4. \A x \in chunk : ran[x] = 0 /\ ran'[x] = 1
    BY <1>4, <1>5, <1>6, <1>7, <2>3
  <2>5. \A x \in (0 .. (len - 1)) \ chunk : ran'[x] = ran[x]
    BY <1>7, <2>3
  <2> HIDE DEF len, chunk
  <2> QED
    BY <1>4, <2>1, <2>2, <2>4, <2>5
<1> QED
  BY <1>11, <1>12, <1>13, SimulatesProcess

-----------------------------------------------------------------------------
\* While no call is published, no worker changes what its callers see.
LEMMA OutsideCall ==
    ASSUME PoolInv, CallInv, ~InProgress, ~InProgress',
           UNCHANGED <<call_mu, cn, cpc, ran, threw, result>>, error' \in BOOLEAN
    PROVE  CallInv' /\ Simulates
<1>1. CallInv'
  BY DEF CallInv
<1> QED
  BY <1>1, Stutters

LEMMA WorkerSimulates ==
    ASSUME PoolInv, PoolInv', CallInv, UNCHANGED threads, NEW t \in Workers,
           WorkerStep(t) \/ WorkerWakesSpuriously(t)
    PROVE  CallInv' /\ Simulates
<1>1. /\ wpc \in [Workers -> WorkerPlaces] /\ seen \in [Workers -> Nat] /\ generation \in Nat
      /\ t \in 0 .. (threads - 1) /\ t # 0
      /\ Workers' = Workers
  <2>1. wpc \in [Workers -> WorkerPlaces] /\ seen \in [Workers -> Nat] /\ generation \in Nat
    BY DEF PoolInv, PoolTypeOK
  <2>2. threads \in Nat /\ t \in 1 .. (threads - 1)
    BY DEF PoolInv, PoolTypeOK, Workers
  <2>3. Workers' = Workers
    BY DEF Workers
  <2> QED
    BY <2>1, <2>2, <2>3
<1>2. error \in BOOLEAN /\ threw \in BOOLEAN
  BY DEF CallInv
<1>3. CASE \/ WorkerExits(t) \/ WorkerFindsNothing(t) \/ WorkerSleeps(t)
           \/ WorkerWakesSpuriously(t)
  <2>1. UNCHANGED <<generation, seen, error, call_mu, cpc, cn, ran, threw, result>>
    BY <1>3 DEF WorkerExits, WorkerFindsNothing, WorkerSleeps, WorkerWakesSpuriously,
                shared, callerVars, history
  <2>2. \E place \in WorkerPlaces \ Busy :
           wpc[t] \notin Busy /\ wpc' = [wpc EXCEPT ![t] = place]
    BY <1>3 DEF WorkerExits, WorkerFindsNothing, WorkerSleeps, WorkerWakesSpuriously,
                WorkerPlaces, Busy
  <2>3. \A u \in Workers : wpc'[u] \in Busy <=> wpc[u] \in Busy
    BY <1>1, <2>2
  <2>4. \A u \in Workers :
          /\ wpc'[u] = "run" <=> wpc[u] = "run"
          /\ wpc'[u] = "catch" <=> wpc[u] = "catch"
    BY <1>1, <2>2 DEF Busy
  <2>5. InProgress' <=> InProgress
    BY <2>1 DEF InProgress
  <2>6. CASE InProgress
    <3>1. HandedOver' = HandedOver
      BY <1>1, <2>1, <2>4 DEF HandedOver
    <3>2. ErrorKnown' <=> ErrorKnown
      BY <1>1, <2>1, <2>4 DEF ErrorKnown
    <3> QED
      BY <1>2, <2>1, <2>5, <2>6, <3>1, <3>2, NothingHanded DEF CallInv
  <2>7. CASE ~InProgress
    BY <1>2, <2>1, <2>5, <2>7, OutsideCall
  <2> QED
    BY <2>6, <2>7
<1>4. CASE WorkerTakes(t)
  <2> USE <1>4 DEF WorkerTakes, shared, callerVars, history
  <2>1. InProgress /\ InProgress'
    BY DEF PoolInv, Counted, InProgress
  <2>2. HandedOver' = HandedOver
    BY <1>1 DEF HandedOver
  <2>3. ErrorKnown' <=> ErrorKnown
    BY <1>1 DEF ErrorKnown
  <2> QED
    BY <1>2, <2>1, <2>2, <2>3, NothingHanded DEF CallInv
<1>5. ASSUME wpc[t] \in Busy
      PROVE  InProgress /\ seen[t] = generation /\ wn[t] = cn[call_mu]
  BY <1>5 DEF PoolInv, Counted
<1>6. CASE WorkerRuns(t) \/ WorkerThrows(t)
  <2> USE <1>6 DEF WorkerRuns, WorkerThrows, shared, callerVars
  <2>1. wpc[t] = "run" /\ wpc' \in {[wpc EXCEPT ![t] = p] : p \in {"finish", "catch"}}
    OBVIOUS
  <2>2. InProgress /\ InProgress' /\ seen[t] = generation /\ wn[t] = cn[call_mu]
    BY <1>5, <2>1 DEF Busy, InProgress
  <2>3. HandedOver' = HandedOver \cup {t} /\ t \notin HandedOver
    BY <1>1, <2>1, <2>2 DEF HandedOver
  <2>4. threw' <=> ErrorKnown'
    <3>1. threw <=> ErrorKnown
      BY <2>2 DEF CallInv
    <3>2. CASE WorkerRuns(t)
      BY <1>1, <3>1, <3>2 DEF ErrorKnown
    <3>3. CASE WorkerThrows(t)
      BY <1>1, <3>3 DEF ErrorKnown
    <3> QED
      BY <3>2, <3>3
  <2>5. Process(t, cn[call_mu]) /\ UNCHANGED <<call_mu, cn, result, error>>
    BY <2>2
  <2>6. threw' \in {threw, TRUE} /\ (threw' = threw \/ Chunk(t, cn[call_mu]) # {})
    BY <2>2
  <2> QED
    BY <1>1, <1>2, <2>2, <2>3, <2>4, <2>5, <2>6, Handing
<1>7. CASE WorkerCatches(t)
  <2> USE <1>7 DEF WorkerCatches, callerVars, history
  <2>1. InProgress /\ InProgress' /\ seen[t] = generation
    BY <1>5 DEF Busy, InProgress
  <2>2. HandedOver' = HandedOver
    BY <1>1 DEF HandedOver
  <2>3. threw
    BY <1>1, <2>1 DEF CallInv, ErrorKnown
  <2>4. error' = TRUE
    BY <2>1
  <2>5. threw' <=> ErrorKnown'
    BY <2>3, <2>4 DEF ErrorKnown
  <2> QED
    BY <2>1, <2>2, <2>4, <2>5, NothingHanded
<1>8. CASE WorkerFinishes(t)
  <2> USE <1>8 DEF WorkerFinishes, history
  <2>1. InProgress /\ cpc \in [Callers -> CallerPlaces] /\ call_mu \in Callers
    BY <1>5 DEF Busy, PoolInv, PoolTypeOK, Exclusive, InProgress
  <2>2. cpc' = cpc \/ NotifyCaller
    OBVIOUS
  <2>3. cpc'[call_mu] = cpc[call_mu] \/ (cpc[call_mu] = "waiting" /\ cpc'[call_mu] = "await")
    BY <2>1, <2>2 DEF NotifyCaller
  <2>4. InProgress'
    BY <2>1, <2>3 DEF InProgress, Published
  <2>5. HandedOver' = HandedOver
    BY <1>1, <2>3 DEF HandedOver
  <2>6. ErrorKnown' <=> ErrorKnown
    BY <1>1, <2>3 DEF ErrorKnown
  <2> QED
    BY <1>2, <2>1, <2>4, <2>5, <2>6, NothingHanded DEF CallInv
<1> QED
  BY <1>3, <1>4, <1>6, <1>7, <1>8 DEF WorkerStep

-----------------------------------------------------------------------------
\* A call begins in ParallelFor when the caller takes call_mu_ ...
LEMMA EntersSimulates ==
    ASSUME PoolInv, PoolInv', CallInv, NEW c \in Callers, NEW len \in Lengths,
           CallerEnters(c, len)
    PROVE  CallInv' /\ Simulates
<1> USE DEF CallerEnters, shared
<1>1. /\ c # Nobody /\ call_mu' = c /\ cn'[c] = len /\ cpc'[c] \in {"alone", "publish"}
      /\ \A x \in Indices : ran'[x] = 0
  BY PoolAssumption DEF PoolInv, PoolTypeOK
<1>2. CallInv'
  BY <1>1 DEF CallInv, InProgress, Published
<1>3. Left = {} /\ Left' = 0 .. (len - 1)
  BY <1>1, LengthIn DEF Left
<1>4. (call_mu' # Nobody /\ threw') = FALSE
  OBVIOUS
<1>5. Pfor!Begin(c, len)
  BY <1>1, <1>3, <1>4, Zenon DEF Pfor!Begin, Left
<1> QED
  BY <1>2, <1>5 DEF Simulates, Pfor!PforNext

\* ... and ends when it lets go of it, everything handed over and the
\* outcome that of this call.
LEMMA EndsCall ==
    ASSUME PoolInv, PoolInv', CallInv, NEW c \in Callers, call_mu = c, call_mu' = Nobody,
           NEW outcome \in BOOLEAN, outcome <=> threw,
           result' = [result EXCEPT ![c] = IF outcome THEN "threw" ELSE "ok"],
           \A x \in 0 .. (cn[c] - 1) : ran[x] = 1,
           UNCHANGED <<error, threw>>
    PROVE  CallInv' /\ Simulates
<1>1. CallInv'
  BY DEF CallInv, InProgress
<1>2. c # Nobody
  BY PoolAssumption
<1>3. Left = {} /\ Left' = {}
  BY <1>2 DEF Left
<1>4. result' = [result EXCEPT ![c] = IF call_mu # Nobody /\ threw THEN "threw" ELSE "ok"]
  BY <1>2
<1>5. (call_mu' # Nobody /\ threw') = FALSE
  OBVIOUS
<1>6. Pfor!End(c)
  BY <1>3, <1>4, <1>5, Zenon DEF Pfor!End, Left
<1> QED
  BY <1>1, <1>6 DEF Simulates, Pfor!PforNext

LEMMA ReturnsSimulates ==
    ASSUME PoolInv, PoolInv', CallInv, NEW c \in Callers, CallerReturns(c)
    PROVE  CallInv' /\ Simulates
<1> USE DEF CallerReturns, shared, workerVars
<1>1. call_mu = c /\ InProgress
  BY PoolAssumption DEF PoolInv, Exclusive, InProgress, Published
<1>2. \A t \in Workers : seen[t] = generation /\ wpc[t] \notin Busy
  BY <1>1, AllReported DEF PoolInv, Counted
<1>3. threads \in Nat \ {0} /\ cn[c] \in Lengths
  BY <1>1, PoolAssumption DEF PoolInv, PoolTypeOK, CallInv
<1>4. HandedOver = 0 .. (threads - 1)
  <2>1. HandedOver = {0} \cup Workers
    BY <1>1, <1>2 DEF HandedOver, Busy
  <2>2. 0 .. (threads - 1) = {0} \cup (1 .. (threads - 1))
    BY <1>3
  <2> QED
    BY <2>1, <2>2 DEF Workers
<1>5. \A x \in 0 .. (cn[c] - 1) : ran[x] = 1
  <2> TAKE x \in 0 .. (cn[c] - 1)
  <2>1. cn[c] \in Nat \ {0} /\ x \in Indices
    BY <1>3, LengthIn
  <2>2. IsHanded(x)
    BY <1>1, <1>3, <1>4, <2>1, ChunksPartition DEF IsHanded
  <2> QED
    BY <1>1, <2>1, <2>2 DEF CallInv
<1>6. error <=> threw
  BY <1>1, <1>2 DEF CallInv, ErrorKnown, Busy
<1>7. error \in BOOLEAN
  BY DEF CallInv
<1> QED
  BY <1>1, <1>5, <1>6, <1>7, EndsCall

LEMMA AloneSimulates ==
    ASSUME PoolInv, PoolInv', CallInv, NEW c \in Callers,
           CallerRunsAlone(c) \/ CallerLeaves(c)
    PROVE  CallInv' /\ Simulates
<1>1. call_mu = c /\ c # Nobody /\ cpc \in [Callers -> CallerPlaces]
  BY PoolAssumption DEF PoolInv, Exclusive, PoolTypeOK, CallerRunsAlone, CallerLeaves
<1>2. cn[c] \in Lengths /\ cn[c] \in Nat \ {0} /\ 0 .. (cn[c] - 1) \subseteq Indices
  BY <1>1, LengthIn DEF CallInv
<1>3. CASE CallerRunsAlone(c)
  <2> USE <1>3 DEF CallerRunsAlone, shared
  <2>1. threw = FALSE /\ \A x \in Indices : ran[x] = 0
    BY <1>1 DEF CallInv
  <2>2. \A x \in 0 .. (cn[c] - 1) : x \in Indices /\ x < cn[c]
    BY <1>2
  <2>3. \A x \in 0 .. (cn[c] - 1) : ran'[x] = 1
    BY <2>1, <2>2
  <2>4. call_mu' = c /\ cn' = cn /\ cpc'[c] = "leave"
    BY <1>1
  <2>5. CallInv'
    BY <1>1, <1>2, <2>3, <2>4 DEF CallInv, InProgress, Published
  <2>6. Left = 0 .. (cn[c] - 1) /\ Left' = {}
    BY <1>1, <2>1, <2>2, <2>3, <2>4 DEF Left
  <2>7. Left # {} /\ Left' = Left \ Left
    <3>1. 0 \in 0 .. (cn[c] - 1)
      BY <1>2
    <3> QED
      BY <2>6, <3>1
  <2>8. threw' \in {threw, TRUE}
    BY <2>1
  <2> QED
    BY <1>1, <2>4, <2>5, <2>7, <2>8, SimulatesProcess
<1>4. CASE CallerLeaves(c)
  <2> USE <1>4 DEF CallerLeaves, shared
  <2>1. \A x \in 0 .. (cn[c] - 1) : ran[x] = 1
    BY <1>1 DEF CallInv
  <2>2. threw \in BOOLEAN
    BY DEF CallInv
  <2> QED
    BY <1>1, <2>1, <2>2, EndsCall
<1> QED
  BY <1>3, <1>4

\* The workers have nothing of the new call, and no error of the last.
LEMMA PublishesSimulates ==
    ASSUME PoolInv, PoolInv', CallInv, UNCHANGED threads, NEW c \in Callers, CallerPublishes(c)
    PROVE  CallInv' /\ Simulates
<1> USE DEF CallerPublishes, workerVars, history
<1>1. call_mu = c /\ c # Nobody /\ ~InProgress /\ cpc \in [Callers -> CallerPlaces]
  BY PoolAssumption DEF PoolInv, Exclusive, PoolTypeOK, InProgress, Published
<1>2. Workers' = Workers /\ cpc'[c] = "notify" /\ call_mu' = c
  BY <1>1 DEF Workers
<1>3. \A t \in Workers : seen'[t] # generation' /\ wpc'[t] # "catch"
  BY <1>1 DEF PoolInv, PoolTypeOK, Counted, Busy
<1>4. HandedOver' = {}
  BY <1>2, <1>3 DEF HandedOver
<1>5. ~ErrorKnown'
  BY <1>2, <1>3 DEF ErrorKnown
<1>6. \A x : ~IsHanded(x)'
  BY <1>4 DEF IsHanded
<1>7. threw' = FALSE /\ \A x \in Indices : ran'[x] = 0
  BY <1>1 DEF CallInv
<1>8. CallInv'
  BY <1>1, <1>2, <1>5, <1>6, <1>7 DEF CallInv
<1> QED
  BY <1>8, Stutters

\* What the caller does itself of a call it has published.
LEMMA OwnSimulates ==
    ASSUME PoolInv, PoolInv', CallInv, UNCHANGED threads, NEW c \in Callers,
           \/ CallerNotifies(c) \/ CallerRuns(c) \/ CallerThrows(c) \/ CallerCatches(c)
           \/ CallerWaits(c) \/ CallerSleeps(c) \/ CallerWakesSpuriously(c)
    PROVE  CallInv' /\ Simulates
<1>1. /\ call_mu = c /\ InProgress /\ cpc \in [Callers -> CallerPlaces]
      /\ wpc \in [Workers -> WorkerPlaces] /\ threads \in Nat \ {0} /\ Workers' = Workers
      /\ error \in BOOLEAN /\ threw \in BOOLEAN
  BY PoolAssumption
     DEF PoolInv, Exclusive, PoolTypeOK, InProgress, Published, Workers, CallInv,
         CallerNotifies, CallerRuns, CallerThrows, CallerCatches, CallerWaits, CallerSleeps,
         CallerWakesSpuriously
<1>2. threw <=> ErrorKnown
  BY <1>1 DEF CallInv
<1>3. CASE CallerNotifies(c)
  <2> USE <1>3 DEF CallerNotifies, NotifyWorkers, shared, history
  <2>1. cpc[c] = "notify" /\ cpc'[c] = "own" /\ InProgress'
    BY <1>1 DEF InProgress, Published
  <2>2. HandedOver' = HandedOver
    BY <1>1, <2>1 DEF HandedOver
  <2>3. ErrorKnown' <=> ErrorKnown
    BY <1>1, <2>1 DEF ErrorKnown
  <2> QED
    BY <1>1, <1>2, <2>1, <2>2, <2>3, NothingHanded
<1>4. CASE CallerRuns(c) \/ CallerThrows(c)
  <2> USE <1>4 DEF CallerRuns, CallerThrows, shared, workerVars
  <2>1. cpc[c] = "own" /\ cpc'[c] \in {"await", "catch"} /\ InProgress'
    BY <1>1 DEF InProgress, Published
  <2>2. 0 \in 0 .. (threads - 1) /\ 0 \notin HandedOver
    BY <1>1, <2>1 DEF HandedOver, Workers
  <2>3. HandedOver' = HandedOver \cup {0}
    BY <1>1, <2>1 DEF HandedOver
  <2>4. threw' <=> ErrorKnown'
    <3>1. CASE CallerRuns(c)
      BY <1>1, <1>2, <3>1 DEF ErrorKnown
    <3>2. CASE CallerThrows(c)
      BY <1>1, <3>2 DEF ErrorKnown
    <3> QED
      BY <3>1, <3>2
  <2>5. Chunk(0, cn[call_mu]) # {}
    <3>1. cn[call_mu] \in Nat \ {0}
      BY <1>1, LengthIn DEF CallInv, InProgress
    <3> QED
      BY <1>1, <3>1, ChunksPartition
  <2>6. /\ Process(0, cn[call_mu]) /\ UNCHANGED <<call_mu, cn, result, error>>
        /\ threw' \in {threw, TRUE}
    BY <1>1
  <2> QED
    BY <1>1, <2>1, <2>2, <2>3, <2>4, <2>5, <2>6, Handing
<1>5. CASE CallerCatches(c)
  <2> USE <1>5 DEF CallerCatches, workerVars, history
  <2>1. cpc[c] = "catch" /\ cpc'[c] = "await" /\ InProgress'
    BY <1>1 DEF InProgress, Published
  <2>2. HandedOver' = HandedOver
    BY <1>1, <2>1 DEF HandedOver
  <2>3. threw /\ ErrorKnown'
    BY <1>1, <1>2, <2>1 DEF ErrorKnown
  <2> QED
    BY <1>1, <2>1, <2>2, <2>3, NothingHanded
<1>6. CASE CallerWaits(c) \/ CallerSleeps(c) \/ CallerWakesSpuriously(c)
  <2> USE <1>6 DEF CallerWaits, CallerSleeps, CallerWakesSpuriously, shared, workerVars, history
  <2>1. /\ cpc[c] \in {"await", "parking", "waiting"}
        /\ cpc'[c] \in {"await", "parking", "waiting"} /\ InProgress'
    BY <1>1 DEF InProgress, Published
  <2>2. HandedOver' = HandedOver
    BY <1>1, <2>1 DEF HandedOver
  <2>3. ErrorKnown' <=> ErrorKnown
    BY <1>1, <2>1 DEF ErrorKnown
  <2> QED
    BY <1>1, <1>2, <2>1, <2>2, <2>3, NothingHanded
<1> QED
  BY <1>3, <1>4, <1>5, <1>6

\* Destruction is outside all calls.
LEMMA DestroySimulates ==
    ASSUME PoolInv, CallInv, DestroyBegins \/ Destroy \/ Gone \/ UNCHANGED poolVars
    PROVE  CallInv' /\ Simulates
<1>1. CASE UNCHANGED poolVars
  <2>1. CallInv'
    BY <1>1 DEF CallInv, InProgress, IsHanded, HandedOver, ErrorKnown, Workers, Chunk, ChunkEnd,
                Step, poolVars, shared, workerVars, callerVars, history
  <2> QED
    BY <1>1, <2>1, Stutters DEF poolVars, callerVars, history
<1>2. CASE DestroyBegins \/ Destroy
  <2>1. call_mu = Nobody
    BY <1>2 DEF DestroyBegins, Destroy, DestroyNotifies, DestroyJoins, PoolInv, Exclusive
  <2>2. UNCHANGED <<error, call_mu, cpc, cn, ran, threw, result>>
    BY <1>2 DEF DestroyBegins, Destroy, DestroyNotifies, DestroyJoins, shared, callerVars, history
  <2>3. ~InProgress /\ ~InProgress' /\ error' \in BOOLEAN
    BY <2>1, <2>2 DEF InProgress, CallInv
  <2> QED
    BY <2>2, <2>3, OutsideCall
<1> QED
  BY <1>1, <1>2 DEF Gone

LEMMA StepSimulates ==
    ASSUME PoolInv, PoolInv', CallInv, [PoolNext]_poolVars
    PROVE  CallInv' /\ Simulates
BY WorkerSimulates, EntersSimulates, ReturnsSimulates, AloneSimulates, PublishesSimulates,
   OwnSimulates, DestroySimulates
   DEF PoolNext, CallerStep

LEMMA SimulationStarts == PoolInit => CallInv /\ Pfor!PforInit
<1> SUFFICES ASSUME PoolInit PROVE CallInv /\ Pfor!PforInit
  OBVIOUS
<1>1. call_mu = Nobody /\ threw = FALSE /\ error = FALSE /\ result = [c \in Callers |-> "none"]
  BY DEF PoolInit
<1>2. CallInv
  BY <1>1 DEF CallInv, InProgress
<1>3. Left = {} /\ (call_mu # Nobody /\ threw) = FALSE
  BY <1>1 DEF Left
<1>4. Pfor!PforInit
  BY <1>1, <1>3, Zenon DEF Pfor!PforInit, Left
<1> QED
  BY <1>2, <1>4

(***************************************************************************)
(* parallel_for keeps its promise for every number of threads, callers     *)
(* and indices: one call at a time, each index processed once, and an      *)
(* exception if and only if the function of this call threw.               *)
(***************************************************************************)
THEOREM PoolImplementsParallelFor == PoolSpec => ImplementsParallelFor
<1>1. PoolInit => PoolInv /\ CallInv /\ Pfor!PforInit
  BY PoolStarts, SimulationStarts
<1>2. PoolInv /\ CallInv /\ [PoolNext]_poolVars
        => PoolInv' /\ CallInv' /\ [Pfor!PforNext]_(Pfor!pforVars)
  BY PoolKept, StepSimulates DEF Simulates
<1> QED
  BY <1>1, <1>2, PTL DEF PoolSpec, ImplementsParallelFor, Pfor!PforSpec
=============================================================================
