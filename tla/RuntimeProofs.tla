--------------------------- MODULE RuntimeProofs ---------------------------
(***************************************************************************)
(* Proofs about Runtime and the two parts only it uses, the Prefetcher and *)
(* the adaptive controller.                                                *)
(***************************************************************************)
EXTENDS Runtime, PolicyRun, TensorCacheProofs

-----------------------------------------------------------------------------
(***************************************************************************)
(* The prefetcher: the accounting of the background copies, and the        *)
(* silence after a stop or a failure.                                      *)
(*                                                                         *)
(* Neither property is inductive alone.  That a failed or stopped thread   *)
(* leaves nothing behind needs to know where the thread is when the owner  *)
(* is inside stop(), and that a thread is gone only once stop_ is set;     *)
(* that a completion never makes pending_bytes_ wrap needs the slice in    *)
(* hand to be pending, and not in the queue a second time.                 *)
(***************************************************************************)
\* Where the two threads are, against stop_.
Phases ==
    /\ call \in {"stop_notify", "join", "cancel"} => stop
    /\ call = "cancel" => wpc = "done"
    /\ wpc = "done" => stop

PrefetchInv == PrefetcherTypeOK /\ PendingIsExact /\ QuietAfterStop /\ Phases

-----------------------------------------------------------------------------
\* push_back of an absent element keeps a queue free of duplicates.
LEMMA PushBack ==
    ASSUME NEW s \in Seq(Ids), Distinct(s), NEW id \in Ids, id \notin ToSet(s)
    PROVE  /\ Append(s, id) \in Seq(Ids)
           /\ ToSet(Append(s, id)) = ToSet(s) \cup {id}
           /\ Distinct(Append(s, id))
<1> DEFINE t == Append(s, id)
<1>1. Len(s) \in Nat
  BY LenProperties
<1>2. /\ t \in Seq(Ids)
      /\ Len(t) = Len(s) + 1
      /\ \A k \in 1 .. Len(s) : t[k] = s[k]
      /\ t[Len(s) + 1] = id
  BY AppendProperties
<1>3. \A k \in 1 .. Len(s) : s[k] # id
  BY ToSetIs
<1> HIDE DEF t
<1>4. ToSet(t) = ToSet(s) \cup {id}
  <2>1. ToSet(t) = {t[k] : k \in 1 .. Len(t)} /\ ToSet(s) = {s[k] : k \in 1 .. Len(s)}
    BY <1>2, ToSetIs
  <2>2. 1 .. Len(t) = (1 .. Len(s)) \cup {Len(s) + 1}
    BY <1>1, <1>2
  <2> QED
    BY <2>1, <2>2, <1>2
<1>5. Distinct(t)
  <2> SUFFICES ASSUME NEW k \in 1 .. Len(t), NEW m \in 1 .. Len(t), t[k] = t[m]
               PROVE  k = m
    BY DEF Distinct
  <2> QED
    BY <1>1, <1>2, <1>3 DEF Distinct
<1> QED
  BY <1>2, <1>4, <1>5 DEF t

\* front and pop_front: the first element is not in what is left.
LEMMA PopFront ==
    ASSUME NEW s \in Seq(Ids), Distinct(s), s # <<>>
    PROVE  /\ Head(s) \in Ids
           /\ Tail(s) \in Seq(Ids)
           /\ ToSet(s) = ToSet(Tail(s)) \cup {Head(s)}
           /\ Head(s) \notin ToSet(Tail(s))
           /\ Distinct(Tail(s))
<1> DEFINE t == Tail(s)
<1>1. Len(s) \in Nat \ {0} /\ s[1] \in Ids
  BY EmptySeq, LenProperties, ElementOfSeq
<1>2. /\ Head(s) = s[1]
      /\ t \in Seq(Ids)
      /\ Len(t) = Len(s) - 1
      /\ \A k \in 1 .. Len(t) : t[k] = s[k + 1]
  BY <1>1, HeadTailProperties
<1> HIDE DEF t
<1>3. ToSet(t) = {t[k] : k \in 1 .. Len(t)} /\ ToSet(s) = {s[k] : k \in 1 .. Len(s)}
  BY <1>2, ToSetIs
<1>4. \A k \in 1 .. Len(s) : k = 1 \/ (k - 1 \in 1 .. Len(t) /\ s[k] = t[k - 1])
  BY <1>1, <1>2
<1>5. \A k \in 1 .. Len(t) : k + 1 \in 1 .. Len(s) /\ t[k] = s[k + 1]
  BY <1>1, <1>2
<1>6. ToSet(s) = ToSet(t) \cup {s[1]}
  <2>1. ASSUME NEW x \in ToSet(s) PROVE x \in ToSet(t) \cup {s[1]}
    <3>1. PICK k \in 1 .. Len(s) : x = s[k]
      BY <1>3
    <3> QED
      BY <3>1, <1>3, <1>4
  <2>2. ASSUME NEW x \in ToSet(t) PROVE x \in ToSet(s)
    <3>1. PICK k \in 1 .. Len(t) : x = t[k]
      BY <1>3
    <3> QED
      BY <3>1, <1>3, <1>5
  <2>3. s[1] \in ToSet(s)
    BY <1>1, <1>3
  <2> QED
    BY <2>1, <2>2, <2>3
<1>7. s[1] \notin ToSet(t)
  <2> SUFFICES ASSUME NEW k \in 1 .. Len(t), t[k] = s[1] PROVE FALSE
    BY <1>3
  <2>1. k + 1 = 1
    BY <1>1, <1>5 DEF Distinct
  <2> QED
    BY <2>1
<1>8. Distinct(t)
  <2> SUFFICES ASSUME NEW k \in 1 .. Len(t), NEW m \in 1 .. Len(t), t[k] = t[m]
               PROVE  k = m
    BY DEF Distinct
  <2>1. k + 1 = m + 1
    BY <1>5 DEF Distinct
  <2> QED
    BY <2>1
<1> QED
  BY <1>1, <1>2, <1>6, <1>7, <1>8 DEF t

\* An empty queue.
LEMMA NothingQueued == /\ <<>> \in Seq(Ids) /\ ToSet(<<>>) = {} /\ Distinct(<<>>)
<1>1. <<>> \in Seq(Ids) /\ Len(<<>>) = 0
  BY EmptySeq
<1>2. 1 .. Len(<<>>) = {}
  BY <1>1
<1>3. ToSet(<<>>) = {}
  BY <1>1, <1>2, ToSetIs
<1> QED
  BY <1>1, <1>2, <1>3 DEF Distinct

\* What BytesAssumption says of one slice.
LEMMA SizeIsWord == /\ MaxU64 \in Nat
                    /\ \A id \in Ids : Size[id] \in 0 .. MaxU64 /\ id # NoSlice
BY BytesAssumption DEF NoSlice

\* The invariant, with the queue's list and the bytes named apart.
LEMMA Exact ==
    PendingIsExact <=>
        /\ pending = ToSet(q) \cup Active /\ Active \cap ToSet(q) = {}
        /\ Distinct(q)
        /\ pending_bytes = BytesOf(pending) /\ pending_bytes <= peak_pending_bytes
BY Zenon DEF PendingIsExact, Distinct

-----------------------------------------------------------------------------
LEMMA PrefetchStarts == PrefetchInit => PrefetchInv
<1> SUFFICES ASSUME PrefetchInit PROVE PrefetchInv
  OBVIOUS
<1>1. PrefetcherTypeOK
  <2>1. q \in Seq(Ids)
    BY NothingQueued DEF PrefetchInit, PrefetcherInit
  <2>2. pending_bytes \in 0 .. MaxU64 /\ peak_pending_bytes \in 0 .. MaxU64
    BY SizeIsWord DEF PrefetchInit, PrefetcherInit
  <2> QED
    BY <2>1, <2>2 DEF PrefetchInit, PrefetcherInit, PrefetcherTypeOK
<1>2. PendingIsExact
  BY NothingQueued, BytesOfEmpty, Exact DEF PrefetchInit, PrefetcherInit, Active
<1> QED
  BY <1>1, <1>2 DEF PrefetchInit, PrefetcherInit, PrefetchInv, QuietAfterStop, Phases

\* Steps that move neither the queue, the accounting nor the slice in hand.
LEMMA AccountingKept ==
    ASSUME PrefetchInv, UNCHANGED queueVars, Active' = Active
    PROVE  PendingIsExact'
BY Zenon DEF PrefetchInv, PendingIsExact, queueVars

\* Everything cancelled, and no slice in hand.
LEMMA Cancelled ==
    ASSUME PrefetchInv, CancelAll, Active' = {}
    PROVE  /\ PendingIsExact'
           /\ q' \in Seq(Ids) /\ pending' \subseteq Ids
           /\ pending_bytes' \in 0 .. MaxU64 /\ peak_pending_bytes' \in 0 .. MaxU64
<1>1. q' = <<>> /\ pending' = {} /\ pending_bytes' = 0 /\ peak_pending_bytes' = peak_pending_bytes
  BY DEF CancelAll
<1>2. ToSet(q') = {} /\ Distinct(q') /\ q' \in Seq(Ids)
  BY <1>1, NothingQueued
<1>3. BytesOf(pending') = 0
  BY <1>1, BytesOfEmpty
<1>4. peak_pending_bytes \in 0 .. MaxU64
  BY DEF PrefetchInv, PrefetcherTypeOK
<1>5. PendingIsExact'
  BY <1>1, <1>2, <1>3, <1>4 DEF PendingIsExact, Distinct
<1> QED
  BY <1>1, <1>2, <1>4, <1>5, SizeIsWord

-----------------------------------------------------------------------------
\* A call of the owner that leaves the queue and the thread as they are.
LEMMA CallMoves ==
    ASSUME PrefetchInv,
           \/ \E id \in Ids : RequestEnters(id)
           \/ RequestFilters \/ RequestDropped \/ RequestOverflows
           \/ RequestNotifies \/ StopBegins \/ StopNotifies \/ StopJoins
    PROVE  PrefetchInv'
<1> USE DEF PrefetchInv
<1>1. UNCHANGED queueVars
  BY DEF RequestEnters, RequestFilters, RequestDropped, RequestOverflows, RequestNotifies,
         StopBegins, StopNotifies, StopJoins
<1>2. UNCHANGED <<q, pending, pending_bytes, peak_pending_bytes>> /\ UNCHANGED <<error, mu, wid>>
  BY <1>1 DEF RequestEnters, RequestFilters, RequestDropped, RequestOverflows, RequestNotifies,
         StopBegins, StopNotifies, StopJoins, queueVars, workerVars
<1>3. wpc' = wpc \/ (wpc = "waiting" /\ wpc' = "check")
  BY DEF RequestEnters, RequestFilters, RequestDropped, RequestOverflows, RequestNotifies,
         StopBegins, StopNotifies, StopJoins, workerVars, Notify
<1>4. PrefetcherTypeOK'
  BY <1>2, <1>3
     DEF PrefetcherTypeOK, RequestEnters, RequestFilters, RequestDropped, RequestOverflows,
         RequestNotifies, StopBegins, StopNotifies, StopJoins, Return, queueVars, workerVars
<1>5. PendingIsExact'
  <2>1. Active' = Active
    BY <1>2, <1>3 DEF Active
  <2> QED
    BY <1>1, <2>1, AccountingKept
<1>6. QuietAfterStop' /\ Phases'
  BY <1>2, <1>3
     DEF PrefetcherTypeOK, QuietAfterStop, Phases, RequestEnters, RequestFilters, RequestDropped,
         RequestOverflows, RequestNotifies, StopBegins, StopNotifies, StopJoins, Return,
         queueVars, workerVars
<1> QED
  BY <1>4, <1>5, <1>6

\* The owner queues a slice that was not pending.
LEMMA Enqueues ==
    ASSUME PrefetchInv, RequestEnqueues
    PROVE  PrefetchInv'
<1> USE DEF PrefetchInv, RequestEnqueues, EnqueuesIf
<1>1. /\ arg \in Ids /\ arg \notin pending /\ pending \in SUBSET Ids
      /\ q \in Seq(Ids) /\ Distinct(q)
      /\ pending = ToSet(q) \cup Active /\ Active \cap ToSet(q) = {}
      /\ pending_bytes = BytesOf(pending)
  BY Exact DEF PrefetcherTypeOK
<1>2. /\ q' \in Seq(Ids) /\ ToSet(q') = ToSet(q) \cup {arg} /\ Distinct(q')
  BY <1>1, PushBack
<1>3. pending' = pending \cup {arg} /\ Active' = Active
  BY DEF Active, workerVars
<1>4. /\ pending_bytes' = pending_bytes + Size[arg]
      /\ pending_bytes' \in 0 .. MaxU64 /\ peak_pending_bytes' \in 0 .. MaxU64
      /\ pending_bytes' <= peak_pending_bytes'
  BY <1>1, SizeIsWord DEF PrefetcherTypeOK, U64Plus, Larger
<1>5. pending_bytes' = BytesOf(pending')
  BY <1>1, <1>3, <1>4, BytesOfWith
<1>6. PrefetcherTypeOK'
  BY <1>1, <1>2, <1>3, <1>4 DEF PrefetcherTypeOK, workerVars
<1>7. PendingIsExact'
  <2>1. pending' = ToSet(q') \cup Active' /\ Active' \cap ToSet(q') = {}
    BY <1>1, <1>2, <1>3
  <2> QED
    BY <2>1, <1>2, <1>4, <1>5, Zenon DEF PendingIsExact, Distinct
<1>8. QuietAfterStop' /\ Phases'
  BY DEF QuietAfterStop, Phases, workerVars
<1> QED
  BY <1>6, <1>7, <1>8

\* stop() drops what was queued: the thread is gone.
LEMMA CancelsAll ==
    ASSUME PrefetchInv, StopCancels
    PROVE  PrefetchInv'
<1> USE DEF PrefetchInv, StopCancels
<1>1. wpc = "done" /\ wpc' = "done" /\ stop' /\ Active' = {}
  BY DEF Phases, workerVars, Active
<1>2. /\ PendingIsExact'
      /\ q' \in Seq(Ids) /\ pending' \subseteq Ids
      /\ pending_bytes' \in 0 .. MaxU64 /\ peak_pending_bytes' \in 0 .. MaxU64
  BY <1>1, Cancelled
<1>3. PrefetcherTypeOK'
  BY <1>1, <1>2 DEF PrefetcherTypeOK, Return, workerVars
<1>4. QuietAfterStop' /\ Phases'
  BY <1>1 DEF QuietAfterStop, Phases, Return, CancelAll
<1> QED
  BY <1>2, <1>3, <1>4

-----------------------------------------------------------------------------
\* Steps of the thread that leave the queue and the slice in hand.
LEMMA WorkerMoves ==
    ASSUME PrefetchInv,
           \/ WorkerReturns \/ WorkerFindsNothing \/ WorkerSleeps \/ WorkerWakesSpuriously
           \/ WorkerCopies \/ WorkerCopyThrows
    PROVE  PrefetchInv'
<1> USE DEF PrefetchInv
<1>1. UNCHANGED queueVars
  BY DEF WorkerReturns, WorkerFindsNothing, WorkerSleeps, WorkerWakesSpuriously, WorkerCopies,
         WorkerCopyThrows
<1>2. /\ UNCHANGED <<q, pending, pending_bytes, peak_pending_bytes>>
      /\ UNCHANGED <<stop, error, wid, call, arg>>
  BY <1>1 DEF WorkerReturns, WorkerFindsNothing, WorkerSleeps, WorkerWakesSpuriously, WorkerCopies,
         WorkerCopyThrows, queueVars, callVars
<1>3. \/ wpc = "check" /\ wpc' = "done" /\ stop /\ mu' = mu
      \/ wpc = "check" /\ wpc' = "parking" /\ mu' = "worker"
      \/ wpc = "parking" /\ wpc' = "waiting" /\ mu' = "free"
      \/ wpc = "waiting" /\ wpc' = "check" /\ mu' = mu
      \/ wpc = "copy" /\ wpc' \in {"settle", "failing"} /\ mu' = mu
  BY DEF WorkerReturns, WorkerFindsNothing, WorkerSleeps, WorkerWakesSpuriously, WorkerCopies,
         WorkerCopyThrows
<1>4. PrefetcherTypeOK'
  BY <1>2, <1>3 DEF PrefetcherTypeOK
<1>5. PendingIsExact'
  <2>1. Active' = Active
    BY <1>2, <1>3 DEF Active
  <2> QED
    BY <1>1, <2>1, AccountingKept
<1>6. QuietAfterStop' /\ Phases'
  BY <1>2, <1>3 DEF QuietAfterStop, Phases
<1> QED
  BY <1>4, <1>5, <1>6

\* A slice leaves the queue for the thread's hands and stays pending.
LEMMA Takes ==
    ASSUME PrefetchInv, WorkerTakes
    PROVE  PrefetchInv'
<1> USE DEF PrefetchInv, WorkerTakes
<1>1. /\ q \in Seq(Ids) /\ q # <<>> /\ Distinct(q)
      /\ pending = ToSet(q)
      /\ pending_bytes = BytesOf(pending) /\ pending_bytes <= peak_pending_bytes
  BY Exact DEF PrefetcherTypeOK, Active
<1>2. /\ wid' \in Ids /\ q' \in Seq(Ids) /\ Distinct(q')
      /\ ToSet(q) = ToSet(q') \cup {wid'} /\ wid' \notin ToSet(q')
  BY <1>1, PopFront
<1>3. Active' = {wid'}
  BY DEF Active
<1>4. UNCHANGED <<pending, pending_bytes, peak_pending_bytes, stop, error, mu, call, arg>>
  BY DEF callVars
<1>5. PrefetcherTypeOK'
  BY <1>2, <1>4 DEF PrefetcherTypeOK
<1>6. PendingIsExact'
  <2>1. pending' = ToSet(q') \cup Active' /\ Active' \cap ToSet(q') = {}
    BY <1>1, <1>2, <1>3, <1>4
  <2>2. pending_bytes' = BytesOf(pending') /\ pending_bytes' <= peak_pending_bytes'
    BY <1>1, <1>4
  <2> QED
    BY <2>1, <2>2, <1>2, Zenon DEF PendingIsExact, Distinct
<1>7. QuietAfterStop' /\ Phases'
  BY <1>4 DEF QuietAfterStop, Phases
<1> QED
  BY <1>5, <1>6, <1>7

\* A copy that is made is no longer pending, and its bytes with it.
LEMMA Settles ==
    ASSUME PrefetchInv, WorkerSettles
    PROVE  PrefetchInv'
<1> USE DEF PrefetchInv, WorkerSettles
<1>1. /\ wid \in Ids /\ pending \in SUBSET Ids
      /\ pending = ToSet(q) \cup {wid} /\ {wid} \cap ToSet(q) = {}
      /\ Distinct(q)
      /\ pending_bytes = BytesOf(pending) /\ pending_bytes <= peak_pending_bytes
  BY Exact DEF PrefetcherTypeOK, Active
<1>2. Active' = {}
  BY DEF Active
<1>3. UNCHANGED <<q, peak_pending_bytes, stop, error, mu, call, arg>>
  BY DEF callVars
<1>4. pending' = ToSet(q) /\ pending' \in SUBSET Ids
  BY <1>1
<1>5. BytesOf(pending') = pending_bytes - Size[wid] /\ Size[wid] <= pending_bytes
  BY <1>1, BytesOfWithout
<1>6. pending_bytes' = BytesOf(pending')
  BY <1>1, <1>5 DEF U64Minus
<1>7. pending_bytes' \in 0 .. MaxU64 /\ pending_bytes' <= peak_pending_bytes'
  BY <1>1, <1>3, <1>5, <1>6, SizeIsWord DEF PrefetcherTypeOK
<1>8. PrefetcherTypeOK'
  BY <1>3, <1>4, <1>7 DEF PrefetcherTypeOK
<1>9. PendingIsExact'
  BY <1>1, <1>2, <1>3, <1>4, <1>6, <1>7, Zenon DEF PendingIsExact, Distinct
<1>10. QuietAfterStop' /\ Phases'
  BY <1>3 DEF QuietAfterStop, Phases
<1> QED
  BY <1>8, <1>9, <1>10

\* The thread fails and takes everything queued with it.
LEMMA Fails ==
    ASSUME PrefetchInv, WorkerFails
    PROVE  PrefetchInv'
<1> USE DEF PrefetchInv, WorkerFails
<1>1. wpc' = "done" /\ stop' /\ Active' = {}
  BY DEF Active
<1>2. /\ PendingIsExact'
      /\ q' \in Seq(Ids) /\ pending' \subseteq Ids
      /\ pending_bytes' \in 0 .. MaxU64 /\ peak_pending_bytes' \in 0 .. MaxU64
  BY <1>1, Cancelled
<1>3. PrefetcherTypeOK'
  BY <1>1, <1>2 DEF PrefetcherTypeOK, callVars
<1>4. QuietAfterStop' /\ Phases'
  BY <1>1 DEF QuietAfterStop, Phases, CancelAll, callVars
<1> QED
  BY <1>2, <1>3, <1>4

-----------------------------------------------------------------------------
\* What the owner does outside its calls, the loads through the cache too.
LEMMA Untouched ==
    ASSUME PrefetchInv, UNCHANGED prefetcherVars
    PROVE  PrefetchInv'
BY DEF PrefetchInv, PrefetcherTypeOK, PendingIsExact, Active, QuietAfterStop, Phases,
       prefetcherVars, queueVars, workerVars, callVars

LEMMA PrefetchKept == PrefetchInv /\ [PrefetchNext]_prefetchVars => PrefetchInv'
<1> SUFFICES ASSUME PrefetchInv, [PrefetchNext]_prefetchVars PROVE PrefetchInv'
  OBVIOUS
<1>1. CASE UNCHANGED prefetcherVars
  BY <1>1, Untouched
<1>2. ASSUME NEW id \in Ids, OwnerLoads(id) PROVE PrefetchInv'
  BY <1>1, <1>2 DEF OwnerLoads
<1>3. CASE RequestRethrows
  BY <1>1, <1>3 DEF RequestRethrows, prefetchVars
<1>4. CASE StopCancels
  BY <1>4, CancelsAll
<1>5. CASE RequestEnqueues
  BY <1>5, Enqueues
<1>6. CASE Worker
  BY <1>6, WorkerMoves, Takes, Settles, Fails DEF Worker
<1>7. CASE UNCHANGED prefetchVars
  BY <1>1, <1>7 DEF prefetchVars
<1> QED
  BY <1>2, <1>3, <1>4, <1>5, <1>6, <1>7, CallMoves, WorkerMoves
     DEF PrefetchNext, OwnerBegins, OwnerContinues, RequestSteps, StopSteps

LEMMA PrefetchAlways == PrefetchSpec => []PrefetchInv
BY PrefetchStarts, PrefetchKept, PTL DEF PrefetchSpec

(***************************************************************************)
(* What pending_bytes_ charges against the prefetch budget is, whatever    *)
(* the background thread is doing, exactly the slices that are queued or   *)
(* being copied, each once; it never wraps.                                *)
(***************************************************************************)
THEOREM PendingNeverDrifts == PrefetchSpec => []PendingIsExact
BY PrefetchAlways, PTL DEF PrefetchInv

(***************************************************************************)
(* After a failed copy, or a stop() that has returned, the thread is gone  *)
(* and nothing is or becomes pending.                                      *)
(***************************************************************************)
THEOREM StopsForGood == PrefetchSpec => []QuietAfterStop
BY PrefetchAlways, PTL DEF PrefetchInv

-----------------------------------------------------------------------------
(***************************************************************************)
(* The adaptive controller, over windows of any content.                   *)
(*                                                                         *)
(* It remembers one refused transition, and the history all of them: that  *)
(* it never repeats an experiment needs the one it remembers to be the     *)
(* lowest (Refusals), which it is because it never gets deeper than that.  *)
(* That it goes up only when that was earned twice needs what its count of *)
(* stable windows says of the last one (Earned).  That it goes down only   *)
(* when that was earned needs that a rejected probe leaves nothing behind  *)
(* in what the next window is judged by (Judged).  That a steady stream is *)
(* served in time needs the time itself: each step is three windows, the   *)
(* first two (WindowsLeft).                                                *)
(***************************************************************************)
Control ==
    [depth : MinDepth .. MaxDepth, stable_windows : Nat, cooldown_windows : 0 .. 2,
     probe_from_depth : MinDepth .. MaxDepth, rejected_probe_from_depth : Nat,
     previous_evictions : Nat, previous_window_ms : Latencies \cup {Infinite},
     probe_reference_ms : Nat, rejected_probe_reference_ms : Latencies \cup {Infinite},
     probing_up : BOOLEAN, rejected_probe_blocked : BOOLEAN]

WindowType ==
    [average_item_ms : Latencies, consumed : Nat, useful : Nat, late : Nat,
     budget_skips : Nat, evictions : Nat, peak_inflight_bytes : Nat, inflight_limit : {Limit}]

\* A probe in flight is one step up from the depth it has to justify.
ProbeIsOneStep == ctl.probing_up => ctl.depth = ctl.probe_from_depth + 1

PolicyTypeOK ==
    /\ ctl \in Control
    /\ ctl.probing_up => ctl.probe_reference_ms \in Latencies
    /\ refused \subseteq MinDepth .. (MaxDepth - 1)
    /\ steady \in 0 .. Patience

\* The one transition the controller remembers is the lowest it has refused,
\* and it stays at or below it.
Refusals ==
    IF refused = {} THEN ~ctl.rejected_probe_blocked
    ELSE /\ ctl.rejected_probe_blocked
         /\ ctl.rejected_probe_from_depth \in refused
         /\ \A x \in refused : ctl.rejected_probe_from_depth <= x
         /\ ctl.depth <= ctl.rejected_probe_from_depth
         /\ ctl.rejected_probe_reference_ms \in Latencies

\* What a stable window says of the last one.
Earned ==
    ctl.stable_windows > 0 =>
        /\ adjustment = "none"
        /\ last.late \in Nat /\ last.late > 0 /\ HighUsefulness(last)
        /\ last.useful \in Nat /\ last.consumed \in Nat
        /\ last.useful + last.late = last.consumed
        /\ ctl.previous_window_ms = last.average_item_ms

\* How deep a steady stream gets, and the windows that takes.
Target == IF refused = {} THEN MaxDepth ELSE ctl.rejected_probe_from_depth

WindowsToProbe == Larger(1, Larger(ctl.cooldown_windows, 2 - ctl.stable_windows))

WindowsLeft ==
    IF ctl.probing_up THEN 3 * (Target - ctl.depth)
    ELSE 3 * (Target - ctl.depth - 1) + WindowsToProbe

Served == ctl.depth # Target => steady + WindowsLeft <= Patience

PolicyInv == PolicyTypeOK /\ ProbeIsOneStep /\ Refusals /\ Earned /\ Served

\* What the controller judges the next window by is what the windows it stood
\* by said, a rejected probe left out.
Judged ==
    /\ ctl.probing_up <=> adjustment = "up"
    /\ ctl.previous_evictions = last.evictions
    /\ ctl.probing_up => ctl.probe_reference_ms = baseline
    /\ ~ctl.probing_up => ctl.previous_window_ms = baseline

-----------------------------------------------------------------------------
LEMMA Depths ==
    /\ MinDepth \in Nat /\ MaxDepth \in Nat /\ MinDepth >= 1 /\ MinDepth <= MaxDepth
    /\ LowPct \in Nat /\ HighPct \in Nat /\ LowPct <= HighPct
    /\ Latencies \subseteq Nat /\ Infinite \notin Nat
    /\ Patience \in Nat
    /\ MinDepth < MaxDepth => Patience = 3 * (MaxDepth - MinDepth) - 1
BY PolicyAssumption DEF MinDepth, MaxDepth, Infinite, Patience

\* A feedback that is highly useful is not of low usefulness.
LEMMA HighIsNotLow ==
    ASSUME NEW w \in WindowType, HighUsefulness(w)
    PROVE  ~LowUsefulness(w)
<1>1. LowPct * w.consumed <= HighPct * w.consumed
  <2>1. \A a, b, c \in Nat : a <= b => a * c <= b * c
    OBVIOUS
  <2> QED  BY <2>1, Depths DEF WindowType
<1>2. LowPct * w.consumed \in Int /\ HighPct * w.consumed \in Int /\ 100 * w.useful \in Int
  BY Depths DEF WindowType
<1> QED  BY <1>1, <1>2 DEF HighUsefulness, LowUsefulness

\* A steady window puts no pressure on the look-ahead, and is no slower than
\* any other.
LEMMA SteadyIsCalm ==
    ASSUME NEW w \in WindowType, Steady(w)
    PROVE  /\ ~HardPressure(w)
           /\ HighUsefulness(w) /\ NeedsMoreLookahead(w) /\ ByteHeadroom(w)
           /\ ctl.previous_window_ms # Infinite
           /\ \A ms \in Latencies : w.average_item_ms <= ms
<1>1. HighUsefulness(w) /\ ~LowUsefulness(w)
  BY HighIsNotLow DEF Steady
<1> QED  BY <1>1 DEF Steady, HardPressure, EvictionPressure, NeedsMoreLookahead, WindowType

LEMMA ControlUpdated ==
    ASSUME ctl \in Control, NEW a \in Latencies \cup {Infinite}, NEW b \in 0 .. 2, NEW e \in Nat,
           NEW f \in BOOLEAN, NEW g \in Nat
    PROVE  [ctl EXCEPT !.previous_window_ms = a, !.cooldown_windows = b, !.stable_windows = e,
                       !.rejected_probe_blocked = f, !.previous_evictions = g] \in Control
BY Zenon DEF Control

\* The controller after a calm window.
LEMMA CalmedFields ==
    ASSUME ctl \in Control, NEW w \in WindowType
    PROVE  LET c == Calmed(w)
           IN  /\ c \in Control
               /\ c.depth = ctl.depth /\ c.probe_from_depth = ctl.probe_from_depth
               /\ c.probing_up = ctl.probing_up
               /\ c.probe_reference_ms = ctl.probe_reference_ms
               /\ c.rejected_probe_from_depth = ctl.rejected_probe_from_depth
               /\ c.rejected_probe_reference_ms = ctl.rejected_probe_reference_ms
               /\ c.previous_window_ms = w.average_item_ms
               /\ c.rejected_probe_blocked <=> ctl.rejected_probe_blocked /\ ~PhaseChanged(w)
               /\ c.stable_windows =
                    IF Stable(w) /\ HighUsefulness(w) /\ NeedsMoreLookahead(w) /\ ~PhaseChanged(w)
                    THEN ctl.stable_windows + 1 ELSE 0
               /\ PhaseChanged(w) => c.cooldown_windows = 2
               /\ ~PhaseChanged(w) =>
                    c.cooldown_windows =
                        IF ctl.cooldown_windows > 0 THEN ctl.cooldown_windows - 1 ELSE 0
<1> DEFINE c == Calmed(w)
<1>1. /\ DOMAIN c = DOMAIN ctl
      /\ c.depth = ctl.depth /\ c.probe_from_depth = ctl.probe_from_depth
      /\ c.probing_up = ctl.probing_up
      /\ c.probe_reference_ms = ctl.probe_reference_ms
      /\ c.rejected_probe_from_depth = ctl.rejected_probe_from_depth
      /\ c.rejected_probe_reference_ms = ctl.rejected_probe_reference_ms
      /\ c.previous_window_ms = w.average_item_ms
      /\ c.previous_evictions = w.evictions
  BY DEF Calmed, Control
<1>2. c.rejected_probe_blocked = (ctl.rejected_probe_blocked /\ ~PhaseChanged(w))
  BY Zenon DEF Calmed, Control
<1>3. c.stable_windows =
         IF Stable(w) /\ HighUsefulness(w) /\ NeedsMoreLookahead(w) /\ ~PhaseChanged(w)
         THEN ctl.stable_windows + 1 ELSE 0
  BY DEF Calmed, Control
<1>4. c.cooldown_windows =
         LET cooled == IF ctl.cooldown_windows > 0 THEN ctl.cooldown_windows - 1 ELSE 0
         IN  IF PhaseChanged(w) /\ cooled < 2 THEN 2 ELSE cooled
  BY DEF Calmed, Control
<1>5. /\ ctl.cooldown_windows \in 0 .. 2 /\ ctl.stable_windows \in Nat
      /\ w.average_item_ms \in Latencies \cup {Infinite} /\ w.evictions \in Nat
  BY DEF Control, WindowType
<1>6. /\ c.cooldown_windows \in 0 .. 2 /\ c.stable_windows \in Nat
      /\ c.rejected_probe_blocked \in BOOLEAN
      /\ PhaseChanged(w) => c.cooldown_windows = 2
      /\ ~PhaseChanged(w) =>
            c.cooldown_windows =
                IF ctl.cooldown_windows > 0 THEN ctl.cooldown_windows - 1 ELSE 0
  <2> HIDE DEF c
  <2>1. c.rejected_probe_blocked \in BOOLEAN
    BY <1>2, Zenon
  <2> QED  BY <2>1, <1>3, <1>4, <1>5
<1>7. c \in Control
  <2>1. c = [ctl EXCEPT !.previous_window_ms = c.previous_window_ms,
                        !.cooldown_windows = c.cooldown_windows,
                        !.stable_windows = c.stable_windows,
                        !.rejected_probe_blocked = c.rejected_probe_blocked,
                        !.previous_evictions = c.previous_evictions]
    BY Zenon DEF Calmed, Control
  <2> HIDE DEF c
  <2>2. /\ c.previous_window_ms \in Latencies \cup {Infinite} /\ c.previous_evictions \in Nat
    BY <1>1, <1>5
  <2>3. [ctl EXCEPT !.previous_window_ms = c.previous_window_ms,
                    !.cooldown_windows = c.cooldown_windows,
                    !.stable_windows = c.stable_windows,
                    !.rejected_probe_blocked = c.rejected_probe_blocked,
                    !.previous_evictions = c.previous_evictions] \in Control
    <3> DEFINE a == c.previous_window_ms
               b == c.cooldown_windows
               e == c.stable_windows
               f == c.rejected_probe_blocked
               g == c.previous_evictions
    <3>1. a \in Latencies \cup {Infinite} /\ b \in 0 .. 2 /\ e \in Nat /\ f \in BOOLEAN /\ g \in Nat
      BY <2>2, <1>6, Zenon
    <3> HIDE DEF a, b, e, f, g
    <3> QED  BY <3>1, ControlUpdated, Zenon DEF a, b, e, f, g
  <2> QED  BY <2>1, <2>3, Zenon
<1> HIDE DEF c
<1>8. c.rejected_probe_blocked <=> ctl.rejected_probe_blocked /\ ~PhaseChanged(w)
  BY <1>2, Zenon
<1> QED  BY <1>1, <1>3, <1>6, <1>7, <1>8, Zenon DEF c

-----------------------------------------------------------------------------
\* The controller's fields and what the invariant says of them.
LEMMA Fields ==
    ASSUME PolicyInv
    PROVE  /\ ctl \in Control
           /\ ctl.depth \in MinDepth .. MaxDepth /\ ctl.depth \in Nat
           /\ ctl.probe_from_depth \in MinDepth .. MaxDepth
           /\ ctl.stable_windows \in Nat /\ ctl.cooldown_windows \in 0 .. 2
           /\ ctl.previous_window_ms # Infinite => ctl.previous_window_ms \in Latencies
           /\ ctl.probing_up => /\ ctl.probe_reference_ms \in Latencies
                                /\ ctl.depth = ctl.probe_from_depth + 1
           /\ Target \in Nat /\ ctl.depth <= Target /\ Target <= MaxDepth
           /\ steady \in Nat /\ steady <= Patience
<1>1. ctl \in Control /\ refused \subseteq MinDepth .. (MaxDepth - 1)
  BY DEF PolicyInv, PolicyTypeOK
<1>2. /\ ctl.depth \in MinDepth .. MaxDepth /\ ctl.probe_from_depth \in MinDepth .. MaxDepth
      /\ ctl.stable_windows \in Nat /\ ctl.cooldown_windows \in 0 .. 2
      /\ ctl.previous_window_ms \in Latencies \cup {Infinite}
  BY <1>1 DEF Control
<1>3. ctl.probing_up => /\ ctl.probe_reference_ms \in Latencies
                        /\ ctl.depth = ctl.probe_from_depth + 1
  BY Zenon DEF PolicyInv, PolicyTypeOK, ProbeIsOneStep
<1>4. Target \in Nat /\ ctl.depth <= Target /\ Target <= MaxDepth
  <2>1. CASE refused = {}
    BY <2>1, <1>2, Depths DEF Target
  <2>2. CASE refused # {}
    <3>1. /\ ctl.rejected_probe_from_depth \in refused
          /\ ctl.depth <= ctl.rejected_probe_from_depth
      BY <2>2, Zenon DEF PolicyInv, Refusals
    <3>2. Target = ctl.rejected_probe_from_depth
      BY <2>2 DEF Target
    <3>3. Target \in MinDepth .. (MaxDepth - 1)
      BY <3>1, <3>2, <1>1, Zenon
    <3> QED  BY <3>1, <3>2, <3>3, <1>2, Depths
  <2> QED  BY <2>1, <2>2
<1>5. steady \in Nat /\ steady <= Patience
  BY Depths DEF PolicyInv, PolicyTypeOK
<1> QED  BY <1>1, <1>2, <1>3, <1>4, <1>5, Depths

\* How the count of steady windows moves.
Counts(w) == steady' = IF ~Steady(w) THEN 0 ELSE IF steady < Patience THEN steady + 1 ELSE steady

\* A window that is not steady makes every depth a new beginning.
LEMMA FromTheStart ==
    ASSUME NEW t \in Nat, NEW start \in Nat, NEW k \in 0 .. 2,
           MinDepth <= start, start < t, t <= MaxDepth
    PROVE  3 * (t - start - 1) + k <= Patience
BY Depths

\* A steady window is one of those that were left.
LEMMA OneLess ==
    ASSUME NEW w, Counts(w), steady \in Nat, steady <= Patience,
           NEW a \in Nat, NEW b \in Nat, steady + a <= Patience, b < a
    PROVE  steady' \in Nat /\ steady' + b <= Patience
BY Depths DEF Counts

LEMMA RejectedKept ==
    ASSUME PolicyInv, NEW w \in WindowType, ProbeRejected(w), Counts(w),
           refused' = refused \cup {ctl.probe_from_depth}
    PROVE  PolicyInv'
<1>0. ctl.probing_up
  BY Zenon DEF ProbeRejected
<1>1. /\ ctl \in Control
      /\ ctl.depth = ctl.probe_from_depth + 1
      /\ ctl.probe_reference_ms \in Latencies
      /\ ctl.depth \in MinDepth .. MaxDepth /\ ctl.probe_from_depth \in MinDepth .. MaxDepth
      /\ MinDepth \in Nat /\ MaxDepth \in Nat /\ Latencies \subseteq Nat /\ Patience \in Nat
  BY <1>0, Fields, Depths
<1>2. /\ ctl'.depth = ctl.probe_from_depth
      /\ ctl'.rejected_probe_from_depth = ctl.probe_from_depth
      /\ ctl'.rejected_probe_reference_ms = ctl.probe_reference_ms
      /\ ctl'.stable_windows = 0
      /\ ctl'.rejected_probe_blocked /\ ~ctl'.probing_up
  <2>1. ctl.depth > ctl.probe_from_depth
    BY <1>1
  <2> QED  BY <1>1, <2>1 DEF ProbeRejected, Control
<1>3. ctl' \in Control
  <2>1. /\ (IF ctl.depth > ctl.probe_from_depth THEN ctl.probe_from_depth ELSE ctl.depth)
              \in MinDepth .. MaxDepth
        /\ ctl.probe_from_depth \in Nat /\ ctl.probe_reference_ms \in Latencies \cup {Infinite}
        /\ 2 \in 0 .. 2 /\ 0 \in Nat /\ w.evictions \in Nat
    BY <1>1 DEF WindowType
  <2>2. TRUE \in BOOLEAN /\ FALSE \in BOOLEAN
    OBVIOUS
  <2> QED  BY <1>1, <2>1, <2>2, Zenon DEF ProbeRejected, Control
<1>4. steady' = 0
  <2> SUFFICES ~Steady(w)
    BY DEF Counts
  <2> SUFFICES ASSUME Steady(w) PROVE FALSE
    OBVIOUS
  <2>1. w.average_item_ms <= ctl.probe_reference_ms /\ ~HardPressure(w)
    BY SteadyIsCalm, <1>1
  <2>2. ProbeNonRegressive(w)
    <3>1. w.average_item_ms \in Nat /\ ctl.probe_reference_ms \in Nat
      BY <1>1 DEF WindowType
    <3> QED  BY <2>1, <3>1 DEF ProbeNonRegressive
  <2> QED  BY <2>1, <2>2 DEF ProbeRejected
<1>5. refused' \subseteq MinDepth .. (MaxDepth - 1)
  <2>1. ctl.probe_from_depth \in MinDepth .. (MaxDepth - 1)
    BY <1>1
  <2> QED  BY <2>1, Zenon DEF PolicyInv, PolicyTypeOK
<1>6. Refusals'
  <2>1. \A x \in refused' : ctl.probe_from_depth <= x
    <3> SUFFICES ASSUME NEW x \in refused PROVE ctl.probe_from_depth <= x
      BY <1>1
    <3>1. ctl.depth <= ctl.rejected_probe_from_depth /\ ctl.rejected_probe_from_depth <= x
      BY Zenon DEF PolicyInv, Refusals
    <3>2. ctl.rejected_probe_from_depth \in refused
      BY Zenon DEF PolicyInv, Refusals
    <3>3. x \in Int /\ ctl.rejected_probe_from_depth \in Int
      <4>1. {x, ctl.rejected_probe_from_depth} \subseteq MinDepth .. (MaxDepth - 1)
        BY <3>2, Zenon DEF PolicyInv, PolicyTypeOK
      <4> QED  BY <4>1, <1>1
    <3> QED  BY <3>1, <3>3, <1>1
  <2>2. ctl'.depth <= ctl'.rejected_probe_from_depth
    BY <1>1, <1>2
  <2> QED  BY <2>1, <2>2, <1>1, <1>2, Zenon DEF Refusals
<1>7. PolicyTypeOK'
  BY <1>1, <1>2, <1>3, <1>4, <1>5 DEF PolicyTypeOK
<1>8. Earned' /\ ProbeIsOneStep'
  BY <1>2 DEF Earned, ProbeIsOneStep
<1>9. Served'
  BY <1>2 DEF Served, Target
<1> QED  BY <1>6, <1>7, <1>8, <1>9 DEF PolicyInv

\* A step that does not judge a probe nor see a new phase keeps what was
\* refused, if the depth stays at or below it.
LEMMA RefusalsKept ==
    ASSUME PolicyInv, UNCHANGED refused,
           ctl'.rejected_probe_blocked = ctl.rejected_probe_blocked,
           ctl'.rejected_probe_from_depth = ctl.rejected_probe_from_depth,
           ctl'.rejected_probe_reference_ms = ctl.rejected_probe_reference_ms,
           ctl'.depth \in Nat, ctl'.depth <= Target
    PROVE  Refusals' /\ Target' = Target /\ refused' \subseteq MinDepth .. (MaxDepth - 1)
<1>1. Target' = Target
  BY Zenon DEF Target
<1>2. Refusals'
  <2>1. CASE refused = {}
    BY <2>1, Zenon DEF Refusals, PolicyInv
  <2>2. CASE refused # {}
    <3>1. ctl'.depth <= ctl'.rejected_probe_from_depth
      BY <2>2, Zenon DEF Target
    <3> QED  BY <3>1, <2>2, Zenon DEF Refusals, PolicyInv
  <2> QED  BY <2>1, <2>2
<1> QED  BY <1>1, <1>2, Zenon DEF PolicyInv, PolicyTypeOK

LEMMA AcceptedKept ==
    ASSUME PolicyInv, NEW w \in WindowType, ProbeKept(w), Counts(w), UNCHANGED refused
    PROVE  PolicyInv'
<1>0. ctl.probing_up
  BY Zenon DEF ProbeKept
<1>1. /\ ctl \in Control
      /\ ctl.depth \in Nat /\ MinDepth <= ctl.depth /\ ctl.depth <= Target /\ Target \in Nat
      /\ Target <= MaxDepth
      /\ MinDepth \in Nat /\ MaxDepth \in Nat /\ Latencies \subseteq Nat /\ Patience \in Nat
      /\ steady \in Nat /\ steady <= Patience
  BY Fields, Depths
<1>2. /\ ctl'.depth = ctl.depth
      /\ ctl'.rejected_probe_blocked = ctl.rejected_probe_blocked
      /\ ctl'.rejected_probe_from_depth = ctl.rejected_probe_from_depth
      /\ ctl'.rejected_probe_reference_ms = ctl.rejected_probe_reference_ms
      /\ ctl'.stable_windows = 0 /\ ctl'.cooldown_windows = 2
      /\ ctl'.probing_up = FALSE
  BY <1>1 DEF ProbeKept, Control
<1>3. ctl' \in Control
  <2>1. /\ w.average_item_ms \in Latencies \cup {Infinite}
        /\ 2 \in 0 .. 2 /\ 0 \in Nat /\ w.evictions \in Nat
    BY DEF WindowType
  <2>2. FALSE \in BOOLEAN
    OBVIOUS
  <2> QED  BY <1>1, <2>1, <2>2, Zenon DEF ProbeKept, Control
<1>4. Refusals' /\ Target' = Target /\ refused' \subseteq MinDepth .. (MaxDepth - 1)
  BY <1>1, <1>2, RefusalsKept
<1>5. steady' \in 0 .. Patience
  BY <1>1 DEF Counts
<1>6. Earned' /\ ProbeIsOneStep'
  BY <1>2 DEF Earned, ProbeIsOneStep
<1>7. Served'
  <2> SUFFICES ASSUME ctl.depth # Target PROVE steady' + WindowsLeft' <= Patience
    BY <1>2, <1>4 DEF Served
  <2>1. WindowsLeft' = 3 * (Target - ctl.depth - 1) + 2
    BY <1>1, <1>2, <1>4 DEF WindowsLeft, WindowsToProbe, Larger
  <2>2. WindowsLeft = 3 * (Target - ctl.depth) /\ steady + WindowsLeft <= Patience
    BY <1>0 DEF WindowsLeft, Served, PolicyInv
  <2> QED  BY <2>1, <2>2, <1>1 DEF Counts
<1>8. PolicyTypeOK'
  BY <1>2, <1>3, <1>4, <1>5 DEF PolicyTypeOK
<1> QED  BY <1>4, <1>6, <1>7, <1>8 DEF PolicyInv

LEMMA BackedOffKept ==
    ASSUME PolicyInv, NEW w \in WindowType, BacksOff(w), Counts(w), UNCHANGED refused
    PROVE  PolicyInv'
<1>1. /\ ctl \in Control
      /\ ctl.depth \in Nat /\ MinDepth <= ctl.depth /\ ctl.depth <= Target /\ Target \in Nat
      /\ Target <= MaxDepth
      /\ ctl.previous_window_ms # Infinite => ctl.previous_window_ms \in Latencies
      /\ MinDepth \in Nat /\ MaxDepth \in Nat /\ Latencies \subseteq Nat /\ Patience \in Nat
  BY Fields, Depths
<1>2. /\ ctl'.depth = IF ctl.depth > MinDepth THEN ctl.depth - 1 ELSE ctl.depth
      /\ ctl'.rejected_probe_blocked = ctl.rejected_probe_blocked
      /\ ctl'.rejected_probe_from_depth = ctl.rejected_probe_from_depth
      /\ ctl'.rejected_probe_reference_ms = ctl.rejected_probe_reference_ms
      /\ ctl'.stable_windows = 0 /\ ctl'.cooldown_windows = 2
      /\ ctl'.probing_up = ctl.probing_up
  BY <1>1 DEF BacksOff, Control
<1>3. ~ctl'.probing_up
  BY <1>2, Zenon DEF BacksOff
<1>4. ctl' \in Control
  <2>1. /\ w.average_item_ms \in Latencies \cup {Infinite}
        /\ 2 \in 0 .. 2 /\ 0 \in Nat /\ w.evictions \in Nat
        /\ (IF ctl.depth > MinDepth THEN ctl.depth - 1 ELSE ctl.depth) \in MinDepth .. MaxDepth
    BY <1>1 DEF WindowType
  <2> QED  BY <1>1, <2>1, Zenon DEF BacksOff, Control
<1>5. ctl'.depth \in Nat /\ ctl'.depth <= Target /\ MinDepth <= ctl'.depth
  BY <1>1, <1>2
<1>6. Refusals' /\ Target' = Target /\ refused' \subseteq MinDepth .. (MaxDepth - 1)
  BY <1>2, <1>5, RefusalsKept
<1>7. steady' = 0
  <2> SUFFICES ASSUME Steady(w) PROVE FALSE
    BY DEF Counts
  <2>1. ~HardPressure(w) /\ ctl.previous_window_ms \in Latencies
        /\ w.average_item_ms <= ctl.previous_window_ms
    BY SteadyIsCalm, <1>1
  <2>2. ~Slower(w)
    <3>1. w.average_item_ms \in Nat /\ ctl.previous_window_ms \in Nat
      BY <1>1, <2>1 DEF WindowType
    <3> QED  BY <2>1, <3>1 DEF Slower
  <2> QED  BY <2>1, <2>2, Zenon DEF BacksOff
<1>8. Earned' /\ ProbeIsOneStep'
  BY <1>2, <1>3 DEF Earned, ProbeIsOneStep
<1>9. Served'
  <2> SUFFICES ASSUME ctl'.depth # Target PROVE WindowsLeft' \in Nat /\ WindowsLeft' <= Patience
    BY <1>6, <1>7 DEF Served
  <2>1. WindowsLeft' = 3 * (Target - ctl'.depth - 1) + 2
    BY <1>1, <1>2, <1>3, <1>5, <1>6 DEF WindowsLeft, WindowsToProbe, Larger
  <2>2. ctl'.depth < Target
    BY <1>1, <1>5
  <2> QED  BY <2>1, <2>2, <1>1, <1>5, FromTheStart
<1>10. PolicyTypeOK'
  BY <1>1, <1>3, <1>4, <1>6, <1>7 DEF PolicyTypeOK
<1> QED  BY <1>6, <1>8, <1>9, <1>10 DEF PolicyInv

\* A steady window belongs to no new phase, and is stable.
LEMMA SteadyHasNoNewPhase ==
    ASSUME PolicyInv, NEW w \in WindowType, Steady(w)
    PROVE  ~PhaseChanged(w) /\ Stable(w)
<1>1. /\ ctl.previous_window_ms \in Latencies /\ Latencies \subseteq Nat
      /\ \A ms \in Latencies : w.average_item_ms <= ms
      /\ w.average_item_ms \in Nat
  BY SteadyIsCalm, Fields, Depths DEF WindowType
<1>2. Stable(w)
  <2>1. w.average_item_ms <= ctl.previous_window_ms /\ ctl.previous_window_ms \in Nat
    BY <1>1
  <2> QED  BY <2>1, <1>1, SteadyIsCalm DEF Stable
<1>3. ~PhaseChanged(w)
  <2> SUFFICES ASSUME ctl.rejected_probe_blocked PROVE ~PhaseChanged(w)
    BY Zenon DEF PhaseChanged
  <2>1. ctl.rejected_probe_reference_ms \in Latencies
    BY Zenon DEF PolicyInv, Refusals
  <2>2. w.average_item_ms <= ctl.rejected_probe_reference_ms /\ ctl.rejected_probe_reference_ms \in Nat
    BY <1>1, <2>1
  <2> QED  BY <2>2, <1>1 DEF PhaseChanged
<1> QED  BY <1>2, <1>3

\* A window with no probe in flight and nothing against it.
CalmStep(w) ==
    /\ Calm(w) /\ Counts(w) /\ last' = w
    /\ refused' = IF PhaseChanged(w) THEN {} ELSE refused

LEMMA HeldKept ==
    ASSUME PolicyInv, NEW w \in WindowType, w.useful + w.late = w.consumed,
           Holds(w), CalmStep(w)
    PROVE  PolicyInv'
<1>1. /\ ctl \in Control
      /\ ctl.depth \in Nat /\ MinDepth <= ctl.depth /\ ctl.depth <= Target /\ Target \in Nat
      /\ Target <= MaxDepth
      /\ ctl.stable_windows \in Nat /\ ctl.cooldown_windows \in 0 .. 2
      /\ MinDepth \in Nat /\ MaxDepth \in Nat /\ Latencies \subseteq Nat /\ Patience \in Nat
      /\ steady \in Nat /\ steady <= Patience
  BY Fields, Depths
<1>0. ~ctl.probing_up
  BY Zenon DEF CalmStep, Calm
<1>2. /\ ctl' \in Control
      /\ ctl'.depth = ctl.depth
      /\ ctl'.probing_up = ctl.probing_up
      /\ ctl'.rejected_probe_from_depth = ctl.rejected_probe_from_depth
      /\ ctl'.rejected_probe_reference_ms = ctl.rejected_probe_reference_ms
      /\ ctl'.previous_window_ms = w.average_item_ms
      /\ ctl'.rejected_probe_blocked <=> ctl.rejected_probe_blocked /\ ~PhaseChanged(w)
      /\ ctl'.stable_windows =
           IF Stable(w) /\ HighUsefulness(w) /\ NeedsMoreLookahead(w) /\ ~PhaseChanged(w)
           THEN ctl.stable_windows + 1 ELSE 0
      /\ PhaseChanged(w) => ctl'.cooldown_windows = 2
      /\ ~PhaseChanged(w) =>
           ctl'.cooldown_windows =
               IF ctl.cooldown_windows > 0 THEN ctl.cooldown_windows - 1 ELSE 0
  <2>1. ctl' = Calmed(w)
    BY Zenon DEF Holds
  <2> QED  BY <1>1, <2>1, CalmedFields, Zenon
<1>3. ctl'.rejected_probe_blocked = (ctl.rejected_probe_blocked /\ ~PhaseChanged(w))
  <2>1. ctl'.rejected_probe_blocked \in BOOLEAN
    BY <1>2, Zenon DEF Control
  <2> QED  BY <2>1, <1>2, Zenon
<1>4. ~ctl'.probing_up
  BY <1>0, <1>2, Zenon
<1>5. ProbeIsOneStep'
  BY <1>4 DEF ProbeIsOneStep
<1>6. Earned'
  <2> SUFFICES ASSUME ctl'.stable_windows > 0
               PROVE  /\ w.late > 0 /\ HighUsefulness(w) /\ adjustment' = "none"
                      /\ ctl'.previous_window_ms = w.average_item_ms
    <3>1. HighUsefulness(last)' <=> HighUsefulness(last')
      BY DEF HighUsefulness, HaveUsefulness
    <3> QED  BY <3>1, Zenon DEF Earned, CalmStep, WindowType
  <2>1. HighUsefulness(w) /\ NeedsMoreLookahead(w)
    BY <1>2
  <2> QED  BY <2>1, <1>2 DEF NeedsMoreLookahead, Holds
<1>7. CASE PhaseChanged(w)
  <2>1. ~Steady(w)
    BY <1>7, SteadyHasNoNewPhase
  <2>2. steady' = 0 /\ refused' = {} /\ ctl'.stable_windows = 0 /\ ctl'.cooldown_windows = 2
    BY <1>2, <1>7, <2>1 DEF CalmStep, Counts
  <2>3. Refusals'
    BY <2>2, <1>2, <1>7, Zenon DEF Refusals
  <2>4. Served'
    <3> SUFFICES ASSUME ctl'.depth # MaxDepth PROVE WindowsLeft' \in Nat /\ WindowsLeft' <= Patience
      BY <2>2 DEF Served, Target
    <3>1. WindowsLeft' = 3 * (MaxDepth - ctl.depth - 1) + 2
      BY <1>1, <1>2, <1>4, <2>2 DEF WindowsLeft, WindowsToProbe, Larger, Target
    <3>2. ctl.depth < MaxDepth
      BY <1>1, <1>2
    <3> QED  BY <3>1, <3>2, <1>1, FromTheStart
  <2>5. PolicyTypeOK'
    BY <1>1, <1>2, <1>4, <2>2 DEF PolicyTypeOK
  <2> QED  BY <1>5, <1>6, <2>3, <2>4, <2>5 DEF PolicyInv
<1>8. CASE ~PhaseChanged(w)
  <2>1. refused' = refused /\ ctl'.rejected_probe_blocked = ctl.rejected_probe_blocked
    <3>1. ctl.rejected_probe_blocked \in BOOLEAN
      BY <1>1, Zenon DEF Control
    <3> QED  BY <3>1, <1>3, <1>8, Zenon DEF CalmStep
  <2>2. Refusals' /\ Target' = Target /\ refused' \subseteq MinDepth .. (MaxDepth - 1)
    BY <1>1, <1>2, <2>1, RefusalsKept
  <2>3. steady' \in 0 .. Patience
    BY <1>1 DEF CalmStep, Counts
  <2>4. PolicyTypeOK'
    BY <1>2, <1>4, <2>2, <2>3 DEF PolicyTypeOK
  <2>5. Served'
    <3> SUFFICES ASSUME ctl.depth # Target PROVE steady' + WindowsLeft' <= Patience
      BY <1>2, <2>2 DEF Served
    <3> DEFINE s == ctl.stable_windows
               c == ctl.cooldown_windows
               left(k) == 3 * (Target - ctl.depth - 1) + k
    <3>1. /\ ctl.depth < Target
          /\ WindowsLeft = left(Larger(1, Larger(c, 2 - s)))
          /\ steady + WindowsLeft <= Patience
      BY <1>0, <1>1 DEF WindowsLeft, WindowsToProbe, Served, PolicyInv
    <3>2. WindowsLeft' = left(Larger(1, Larger(ctl'.cooldown_windows, 2 - ctl'.stable_windows)))
      BY <1>2, <1>4, <2>2 DEF WindowsLeft, WindowsToProbe, Larger
    <3>3. ctl'.cooldown_windows = IF c > 0 THEN c - 1 ELSE 0
      BY <1>2, <1>8
    <3>4. CASE Steady(w)
      <4>1. ctl'.stable_windows = s + 1
        BY <3>4, <1>2, SteadyIsCalm, SteadyHasNoNewPhase
      <4>2. ctl'.stable_windows < 2 \/ ctl'.cooldown_windows # 0
        <5> SUFFICES ASSUME ctl'.stable_windows >= 2, ctl'.cooldown_windows = 0 PROVE FALSE
          BY <1>1, <4>1
        <5>1. ctl'.depth < MaxDepth
          BY <1>1, <1>2, <3>1
        <5>2. ~(ctl'.rejected_probe_blocked /\ ctl'.depth = ctl'.rejected_probe_from_depth)
          <6>1. CASE refused = {}
            BY <6>1, <2>1, Zenon DEF PolicyInv, Refusals
          <6>2. CASE refused # {}
            BY <6>2, <1>2, Zenon DEF Target
          <6> QED  BY <6>1, <6>2
        <5>3. MayProbe(ctl', w)
          BY <3>4, <5>1, <5>2, SteadyIsCalm, Zenon DEF MayProbe
        <5> QED  BY <5>3, Zenon DEF Holds
      <4>3. /\ Larger(1, Larger(ctl'.cooldown_windows, 2 - ctl'.stable_windows))
                 < Larger(1, Larger(c, 2 - s))
        BY <4>1, <4>2, <3>3, <1>1 DEF Larger
      <4>4. steady' = IF steady < Patience THEN steady + 1 ELSE steady
        BY <3>4 DEF CalmStep, Counts
      <4>5. /\ Larger(1, Larger(ctl'.cooldown_windows, 2 - ctl'.stable_windows)) \in Nat
            /\ Larger(1, Larger(c, 2 - s)) \in Nat
        BY <4>1, <3>3, <1>1 DEF Larger
      <4> QED  BY <3>1, <3>2, <4>3, <4>4, <4>5, <1>1
    <3>5. CASE ~Steady(w)
      <4>1. steady' = 0
        BY <3>5 DEF CalmStep, Counts
      <4>2. Larger(1, Larger(ctl'.cooldown_windows, 2 - ctl'.stable_windows)) \in 0 .. 2
        BY <1>1, <1>2, <3>3 DEF Larger
      <4>3. WindowsLeft' \in Nat /\ WindowsLeft' <= Patience
        BY <3>1, <3>2, <4>2, <1>1, FromTheStart
      <4> QED  BY <4>1, <4>3
    <3> QED  BY <3>4, <3>5
  <2> QED  BY <1>5, <1>6, <2>2, <2>4, <2>5 DEF PolicyInv
<1> QED  BY <1>7, <1>8

LEMMA ProbedKept ==
    ASSUME PolicyInv, NEW w \in WindowType, ProbesUp(w), CalmStep(w)
    PROVE  /\ PolicyInv'
           /\ ctl.depth \notin refused
           /\ ctl.stable_windows > 0 /\ Stable(w) /\ HighUsefulness(w) /\ w.late > 0
           /\ ByteHeadroom(w) /\ w.budget_skips = 0
<1>1. /\ ctl \in Control
      /\ ctl.depth \in Nat /\ MinDepth <= ctl.depth /\ ctl.depth <= Target /\ Target \in Nat
      /\ Target <= MaxDepth
      /\ ctl.stable_windows \in Nat /\ ctl.cooldown_windows \in 0 .. 2
      /\ MinDepth \in Nat /\ MaxDepth \in Nat /\ Latencies \subseteq Nat /\ Patience \in Nat
      /\ steady \in Nat /\ steady <= Patience
      /\ w.average_item_ms \in Latencies
  BY Fields, Depths DEF WindowType
<1>0. ~ctl.probing_up
  BY Zenon DEF CalmStep, Calm
<1> DEFINE c == Calmed(w)
<1>2. /\ c \in Control
      /\ c.depth = ctl.depth
      /\ c.rejected_probe_from_depth = ctl.rejected_probe_from_depth
      /\ c.rejected_probe_reference_ms = ctl.rejected_probe_reference_ms
      /\ c.rejected_probe_blocked <=> ctl.rejected_probe_blocked /\ ~PhaseChanged(w)
      /\ c.stable_windows =
           IF Stable(w) /\ HighUsefulness(w) /\ NeedsMoreLookahead(w) /\ ~PhaseChanged(w)
           THEN ctl.stable_windows + 1 ELSE 0
      /\ PhaseChanged(w) => c.cooldown_windows = 2
  BY <1>1, CalmedFields, Zenon
<1>3. MayProbe(c, w)
  BY Zenon DEF ProbesUp
<1>4. ctl' = [c EXCEPT !.probe_reference_ms = w.average_item_ms,
                       !.probe_from_depth = ctl.depth,
                       !.depth = @ + 1,
                       !.probing_up = TRUE,
                       !.stable_windows = 0]
  BY Zenon DEF ProbesUp
<1> HIDE DEF c
<1>5. /\ c.stable_windows >= 2 /\ c.cooldown_windows = 0
      /\ HighUsefulness(w) /\ NeedsMoreLookahead(w) /\ ByteHeadroom(w)
      /\ c.depth < MaxDepth
  BY <1>3 DEF MayProbe
<1>6. ~PhaseChanged(w)
  BY <1>2, <1>5
<1>7. ~(ctl.rejected_probe_blocked /\ ctl.depth = ctl.rejected_probe_from_depth)
  BY <1>2, <1>3, <1>6, Zenon DEF MayProbe
<1>8. ctl.stable_windows > 0 /\ Stable(w) /\ w.late > 0
  BY <1>1, <1>2, <1>5 DEF NeedsMoreLookahead
<1>9. w.budget_skips = 0
  BY DEF CalmStep, Calm, HardPressure, WindowType
<1>10. refused' = refused /\ ctl.depth < Target
  <2>1. refused' = refused
    BY <1>6 DEF CalmStep
  <2>2. CASE refused = {}
    BY <2>1, <2>2, <1>1, <1>2, <1>5 DEF Target
  <2>3. CASE refused # {}
    <3>1. ctl.rejected_probe_blocked /\ Target = ctl.rejected_probe_from_depth
      BY <2>3, Zenon DEF PolicyInv, Refusals, Target
    <3>2. ctl.depth # Target
      BY <3>1, <1>7, Zenon
    <3> QED  BY <2>1, <3>2, <1>1
  <2> QED  BY <2>2, <2>3
<1>11. ctl.depth \notin refused
  <2> SUFFICES ASSUME ctl.depth \in refused PROVE FALSE
    OBVIOUS
  <2>1. Target <= ctl.depth
    BY Zenon DEF PolicyInv, Refusals, Target
  <2> QED  BY <2>1, <1>10, <1>1
<1>12. /\ ctl'.depth = ctl.depth + 1
       /\ ctl'.probe_from_depth = ctl.depth
       /\ ctl'.probe_reference_ms = w.average_item_ms
       /\ ctl'.rejected_probe_from_depth = ctl.rejected_probe_from_depth
       /\ ctl'.rejected_probe_reference_ms = ctl.rejected_probe_reference_ms
       /\ ctl'.stable_windows = 0
       /\ ctl'.rejected_probe_blocked = c.rejected_probe_blocked
       /\ ctl'.probing_up = TRUE
  BY <1>2, <1>4 DEF Control
<1>13. ctl'.rejected_probe_blocked = ctl.rejected_probe_blocked
  <2>1. c.rejected_probe_blocked \in BOOLEAN /\ ctl.rejected_probe_blocked \in BOOLEAN
    BY <1>1, <1>2, Zenon DEF Control
  <2> QED  BY <2>1, <1>2, <1>6, <1>12, Zenon
<1>14. ctl' \in Control
  <2>1. /\ w.average_item_ms \in Nat /\ ctl.depth \in MinDepth .. MaxDepth
        /\ c.depth + 1 \in MinDepth .. MaxDepth /\ 0 \in Nat
    <3>1. c.depth = ctl.depth /\ c.depth < MaxDepth
      BY <1>2, <1>5, Zenon
    <3>2. w.average_item_ms \in Nat
      BY <1>1, Zenon
    <3> QED  BY <3>1, <3>2, <1>1
  <2>2. TRUE \in BOOLEAN
    OBVIOUS
  <2> QED  BY <1>2, <1>4, <2>1, <2>2, Zenon DEF Control
<1>15. Refusals' /\ Target' = Target /\ refused' \subseteq MinDepth .. (MaxDepth - 1)
  <2>1. ctl'.depth \in Nat /\ ctl'.depth <= Target
    BY <1>1, <1>10, <1>12
  <2> QED  BY <2>1, <1>10, <1>12, <1>13, RefusalsKept
<1>16. Served'
  <2> SUFFICES ASSUME ctl'.depth # Target PROVE steady' + WindowsLeft' <= Patience
    BY <1>15 DEF Served
  <2>1. WindowsLeft' = 3 * (Target - ctl.depth - 1)
    BY <1>1, <1>12, <1>15 DEF WindowsLeft
  <2>2. /\ WindowsLeft \in Nat /\ 3 * (Target - ctl.depth - 1) < WindowsLeft
        /\ steady + WindowsLeft <= Patience
    BY <1>0, <1>1, <1>10 DEF WindowsLeft, WindowsToProbe, Larger, Served, PolicyInv
  <2> QED  BY <2>1, <2>2, <1>1, <1>10 DEF CalmStep, Counts
<1>17. steady' \in 0 .. Patience
  BY <1>1 DEF CalmStep, Counts
<1>18. PolicyTypeOK'
  BY <1>1, <1>12, <1>14, <1>15, <1>17 DEF PolicyTypeOK
<1>19. Earned' /\ ProbeIsOneStep'
  BY <1>12 DEF Earned, ProbeIsOneStep
<1> QED  BY <1>5, <1>8, <1>9, <1>11, <1>15, <1>16, <1>18, <1>19 DEF PolicyInv

-----------------------------------------------------------------------------
LEMMA PolicyStarts == RunInit => PolicyInv
<1> SUFFICES ASSUME RunInit PROVE PolicyInv
  OBVIOUS
<1> DEFINE start == Clamped(CfgDepth)
<1>1. start \in MinDepth .. MaxDepth
  BY Depths, RunAssumption DEF Clamped
<1> HIDE DEF start
<1>2. /\ ctl.depth = start /\ ctl.stable_windows = 0 /\ ctl.cooldown_windows = 0
      /\ ~ctl.probing_up /\ ~ctl.rejected_probe_blocked
      /\ refused = {} /\ steady = 0
  BY DEF RunInit, PolicyInit, start
<1>3. ctl \in Control
  <2>1. /\ Infinite \in Latencies \cup {Infinite}
        /\ 0 \in Nat /\ 0 \in 0 .. 2
    OBVIOUS
  <2>2. FALSE \in BOOLEAN
    OBVIOUS
  <2> QED  BY <1>1, <2>1, <2>2, Zenon DEF RunInit, PolicyInit, Control, start
<1>4. PolicyTypeOK
  <2>1. steady \in 0 .. Patience
    BY <1>2, Depths
  <2> QED  BY <1>2, <1>3, <2>1 DEF PolicyTypeOK
<1>5. Refusals /\ ProbeIsOneStep /\ Earned
  BY <1>2 DEF Refusals, ProbeIsOneStep, Earned
<1>6. Served
  <2> SUFFICES ASSUME start # MaxDepth PROVE steady + WindowsLeft <= Patience
    BY <1>2 DEF Served, Target
  <2>1. WindowsLeft = 3 * (MaxDepth - start - 1) + 2
    BY <1>1, <1>2, Depths DEF WindowsLeft, WindowsToProbe, Larger, Target
  <2>2. start \in Nat /\ MinDepth <= start /\ start < MaxDepth /\ MaxDepth \in Nat
    BY <1>1, Depths
  <2> QED  BY <1>2, <2>1, <2>2, FromTheStart
<1> QED  BY <1>4, <1>5, <1>6 DEF PolicyInv

\* A late request and a usefulness of 0.90 at once take ten requests met.
LEMMA TenMet ==
    ASSUME NEW w, w.late \in Nat, w.late > 0, w.useful \in Nat, w.consumed \in Nat,
           w.useful + w.late = w.consumed, HighUsefulness(w), HighPct >= 90
    PROVE  w.consumed >= 10
<1>1. 100 * w.useful >= HighPct * w.consumed
  BY DEF HighUsefulness
<1>2. HighPct * w.consumed >= 90 * w.consumed
  <2>1. \A a, b, c \in Nat : a <= b => a * c <= b * c
    OBVIOUS
  <2>2. 90 \in Nat /\ HighPct \in Nat /\ 90 <= HighPct
    BY Depths
  <2> QED  BY <2>1, <2>2
<1> DEFINE z == HighPct * w.consumed
<1>3. z \in Int
  BY Depths
<1>4. 100 * w.useful >= z /\ z >= 90 * w.consumed
  BY <1>1, <1>2
<1> HIDE DEF z
<1> QED  BY <1>3, <1>4

\* What a window observed does, and what it took to go deeper.
LEMMA WindowKept ==
    ASSUME PolicyInv, NEW w \in WindowType, w.useful + w.late = w.consumed, ObserveWindow(w)
    PROVE  /\ PolicyInv'
           /\ ctl'.depth > ctl.depth \/ adjustment' = "up" => ProbesUp(w) /\ CalmStep(w)
<1>1. Observe(w) /\ Counts(w) /\ last' = w
  BY DEF ObserveWindow, Counts
<1>2. refused' = IF Rejects(w) THEN refused \cup {ctl.probe_from_depth}
                 ELSE IF Calm(w) /\ PhaseChanged(w) THEN {} ELSE refused
  BY DEF ObserveWindow
<1>3. /\ ctl \in Control /\ ctl.depth \in Nat /\ ctl.probe_from_depth \in MinDepth .. MaxDepth
      /\ MinDepth \in Nat
  BY Fields, Depths
<1>4. CASE ProbeRejected(w)
  <2>1. refused' = refused \cup {ctl.probe_from_depth}
    BY <1>2, <1>4, Zenon DEF ProbeRejected, Rejects
  <2>2. adjustment' # "up"
    BY <1>4 DEF ProbeRejected
  <2>3. /\ ctl'.depth = IF ctl.depth > ctl.probe_from_depth THEN ctl.probe_from_depth ELSE ctl.depth
        /\ ctl.probe_from_depth \in Nat
    BY <1>3, <1>4, Depths DEF ProbeRejected, Control
  <2> QED  BY <1>1, <1>3, <1>4, <2>1, <2>2, <2>3, RejectedKept
<1>5. CASE ProbeKept(w)
  <2>1. refused' = refused
    BY <1>2, <1>5, Zenon DEF ProbeKept, Rejects, Calm
  <2>2. ctl'.depth = ctl.depth /\ adjustment' # "up"
    BY <1>3, <1>5 DEF ProbeKept, Control
  <2> QED  BY <1>1, <1>3, <1>5, <2>1, <2>2, AcceptedKept
<1>6. CASE BacksOff(w)
  <2>1. refused' = refused
    BY <1>2, <1>6, Zenon DEF BacksOff, Rejects, Calm
  <2>2. ctl'.depth = (IF ctl.depth > MinDepth THEN ctl.depth - 1 ELSE ctl.depth)
        /\ adjustment' # "up"
    BY <1>3, <1>6 DEF BacksOff, Control
  <2> QED  BY <1>1, <1>3, <1>6, <2>1, <2>2, BackedOffKept
<1>7. CASE Holds(w) \/ ProbesUp(w)
  <2>1. CalmStep(w)
    BY <1>1, <1>2, <1>7, Zenon DEF Holds, ProbesUp, Rejects, Calm, CalmStep
  <2>2. CASE ProbesUp(w)
    BY <2>1, <2>2, ProbedKept
  <2>3. CASE Holds(w)
    <3>1. ctl'.depth = ctl.depth /\ adjustment' # "up"
      BY <1>3, <2>3, CalmedFields DEF Holds
    <3> QED  BY <2>1, <2>3, <3>1, <1>3, HeldKept
  <2> QED  BY <1>7, <2>2, <2>3
<1> QED  BY <1>1, <1>4, <1>5, <1>6, <1>7, Zenon DEF Observe

LEMMA WindowIsTyped ==
    ASSUME PolicyInv, NEW f \in Feedback, NEW ms \in Latencies, NEW skips \in {0, 1},
           NEW evicted \in {0, 1}, NEW peak \in Peaks
    PROVE  LET w == Window(f, ms, skips, evicted, peak)
           IN  w \in WindowType /\ w.useful + w.late = w.consumed /\ w.inflight_limit = Limit
<1>1. ctl.previous_evictions \in Nat
  BY DEF PolicyInv, PolicyTypeOK, Control
<1>2. /\ f.consumed \in Nat /\ f.useful \in Nat /\ f.late \in Nat /\ peak \in Nat
      /\ f.useful + f.late = f.consumed
  BY RunAssumption
<1> QED  BY <1>1, <1>2 DEF Window, WindowType

LEMMA PolicyKept == PolicyInv /\ [RunNext]_runVars => PolicyInv'
<1> SUFFICES ASSUME PolicyInv, [RunNext]_runVars PROVE PolicyInv'
  OBVIOUS
<1>1. CASE UNCHANGED runVars
  BY <1>1, Zenon DEF PolicyInv, PolicyTypeOK, ProbeIsOneStep, Refusals, Earned, Served, Target,
     WindowsLeft, WindowsToProbe, HighUsefulness, HaveUsefulness, runVars, policyVars
<1>2. CASE RunNext
  <2>1. PICK w \in WindowType : w.useful + w.late = w.consumed /\ ObserveWindow(w)
    BY <1>2, WindowIsTyped DEF RunNext
  <2> QED  BY <2>1, WindowKept
<1> QED  BY <1>1, <1>2

LEMMA PolicyAlways == RunSpec => []PolicyInv
BY PolicyStarts, PolicyKept, PTL DEF RunSpec

-----------------------------------------------------------------------------
\* The pressure the controller feels is the one the windows show.
LEMMA PressureIsShown ==
    ASSUME PolicyInv, Judged, NEW w \in WindowType
    PROVE  HardPressure(w) <=> UnderPressure(last, w)
BY Zenon DEF Judged, HardPressure, EvictionPressure, UnderPressure

\* A window observed keeps what the next is judged by, and takes a step down
\* exactly when it asks for one.
LEMMA WindowJudged ==
    ASSUME PolicyInv, Judged, NEW w \in WindowType, ObserveWindow(w)
    PROVE  /\ Judged'
           /\ ctl'.depth < ctl.depth <=>
                 /\ ctl.depth > MinDepth
                 /\ UnderPressure(last, w) \/ TooSlow(baseline, w, adjustment = "up")
           /\ ctl'.depth < ctl.depth => ctl'.depth = ctl.depth - 1
<1>1. /\ Observe(w) /\ last' = w
      /\ baseline' = IF adjustment = "up" /\ adjustment' = "down"
                     THEN baseline ELSE w.average_item_ms
  BY DEF ObserveWindow
<1>2. /\ ctl \in Control /\ ctl.depth \in Nat
      /\ ctl.probe_from_depth \in Nat /\ MinDepth <= ctl.probe_from_depth
      /\ MinDepth \in Nat /\ Infinite \notin Nat /\ w.average_item_ms \in Nat
      /\ ctl.probing_up => /\ ctl.probe_reference_ms \in Nat
                           /\ ctl.depth = ctl.probe_from_depth + 1
  <2>1. /\ ctl \in Control /\ ctl.depth \in Nat /\ ctl.probe_from_depth \in MinDepth .. MaxDepth
        /\ ctl.probing_up => /\ ctl.probe_reference_ms \in Latencies
                             /\ ctl.depth = ctl.probe_from_depth + 1
    BY Fields
  <2>2. MinDepth \in Nat /\ Infinite \notin Nat /\ Latencies \subseteq Nat /\ MaxDepth \in Nat
    BY Depths
  <2>3. w.average_item_ms \in Latencies
    BY DEF WindowType
  <2>4. ctl.probe_from_depth \in Nat /\ MinDepth <= ctl.probe_from_depth
    BY <2>1, <2>2
  <2> QED  BY <2>1, <2>2, <2>3, <2>4, Zenon
<1>3. HardPressure(w) <=> UnderPressure(last, w)
  BY PressureIsShown
<1>4. ctl.probing_up =>
        /\ adjustment = "up" /\ ctl.depth > MinDepth
        /\ TooSlow(baseline, w, adjustment = "up") <=> ~ProbeNonRegressive(w)
  <2> SUFFICES ASSUME ctl.probing_up
               PROVE  /\ adjustment = "up" /\ ctl.depth > MinDepth
                      /\ TooSlow(baseline, w, adjustment = "up") <=> ~ProbeNonRegressive(w)
    OBVIOUS
  <2>1. adjustment = "up" /\ baseline = ctl.probe_reference_ms
    BY Zenon DEF Judged
  <2> QED  BY <2>1, <1>2 DEF TooSlow, ProbeNonRegressive
<1>5. ~ctl.probing_up =>
        /\ adjustment # "up"
        /\ TooSlow(baseline, w, adjustment = "up") <=> Slower(w)
  <2> SUFFICES ASSUME ~ctl.probing_up
               PROVE  adjustment # "up" /\ (TooSlow(baseline, w, adjustment = "up") <=> Slower(w))
    OBVIOUS
  <2>1. adjustment # "up" /\ baseline = ctl.previous_window_ms
    BY Zenon DEF Judged
  <2> QED  BY <2>1, ZenonT(60) DEF TooSlow, Slower
<1>6. CASE ProbeRejected(w)
  <2>1. ctl.probing_up /\ (HardPressure(w) \/ ~ProbeNonRegressive(w))
    BY <1>6, Zenon DEF ProbeRejected
  <2>2. ctl.depth > ctl.probe_from_depth
    BY <1>2, <2>1
  <2>3. /\ ctl'.depth = ctl.depth - 1 /\ adjustment' = "down" /\ ctl'.probing_up = FALSE
        /\ ctl'.previous_evictions = w.evictions
        /\ ctl'.previous_window_ms = ctl.probe_reference_ms
    BY <1>2, <1>6, <2>1, <2>2 DEF ProbeRejected, Control
  <2>4. baseline' = ctl.probe_reference_ms
    BY <1>1, <1>4, <2>1, <2>3, Zenon DEF Judged
  <2>5. Judged'
    BY <1>1, <2>3, <2>4 DEF Judged
  <2> QED  BY <1>2, <1>3, <1>4, <2>1, <2>3, <2>5
<1>7. CASE ProbeKept(w)
  <2>1. ctl.probing_up /\ ~HardPressure(w) /\ ProbeNonRegressive(w)
    BY <1>7, Zenon DEF ProbeKept
  <2>2. /\ ctl'.depth = ctl.depth /\ adjustment' = "none" /\ ctl'.probing_up = FALSE
        /\ ctl'.previous_evictions = w.evictions
        /\ ctl'.previous_window_ms = w.average_item_ms
    BY <1>2, <1>7 DEF ProbeKept, Control
  <2>3. Judged'
    BY <1>1, <2>2 DEF Judged
  <2> QED  BY <1>2, <1>3, <1>4, <2>1, <2>2, <2>3
<1>8. CASE BacksOff(w)
  <2>1. ~ctl.probing_up /\ (HardPressure(w) \/ Slower(w))
    BY <1>8, Zenon DEF BacksOff
  <2>2. /\ ctl'.depth = IF ctl.depth > MinDepth THEN ctl.depth - 1 ELSE ctl.depth
        /\ adjustment' \in {"down", "none"} /\ ctl'.probing_up = ctl.probing_up
        /\ ctl'.previous_evictions = w.evictions
        /\ ctl'.previous_window_ms = w.average_item_ms
    BY <1>2, <1>8 DEF BacksOff, Control
  <2>3. Judged'
    BY <1>1, <1>5, <2>1, <2>2 DEF Judged
  <2> QED  BY <1>2, <1>3, <1>5, <2>1, <2>2, <2>3
<1>9. CASE Holds(w)
  <2>1. ~ctl.probing_up /\ ~HardPressure(w) /\ ~Slower(w)
    BY <1>9, Zenon DEF Holds, Calm
  <2>2. ctl' = Calmed(w) /\ adjustment' = "none"
    BY <1>9, Zenon DEF Holds
  <2>3. /\ ctl'.depth = ctl.depth /\ ctl'.probing_up = ctl.probing_up
        /\ ctl'.previous_window_ms = w.average_item_ms
    BY <1>2, <2>2, CalmedFields, Zenon
  <2>4. ctl'.previous_evictions = w.evictions
    BY <1>2, <2>2 DEF Calmed, Control
  <2>5. Judged'
    BY <1>1, <1>5, <2>1, <2>2, <2>3, <2>4 DEF Judged
  <2> QED  BY <1>2, <1>3, <1>5, <2>1, <2>3, <2>5
<1>10. CASE ProbesUp(w)
  <2> DEFINE c == Calmed(w)
  <2>1. ~ctl.probing_up /\ ~HardPressure(w) /\ ~Slower(w)
    BY <1>10, Zenon DEF ProbesUp, Calm
  <2>2. /\ ctl' = [c EXCEPT !.probe_reference_ms = w.average_item_ms,
                            !.probe_from_depth = ctl.depth,
                            !.depth = @ + 1,
                            !.probing_up = TRUE,
                            !.stable_windows = 0]
        /\ adjustment' = "up"
    BY <1>10, Zenon DEF ProbesUp
  <2>3. c \in Control /\ c.depth = ctl.depth
    BY <1>2, CalmedFields, Zenon
  <2>4. c.previous_evictions = w.evictions
    BY <1>2 DEF Calmed, Control
  <2> HIDE DEF c
  <2>5. /\ ctl'.depth = ctl.depth + 1 /\ ctl'.probing_up = TRUE
        /\ ctl'.probe_reference_ms = w.average_item_ms
        /\ ctl'.previous_evictions = w.evictions
    BY <2>2, <2>3, <2>4 DEF Control
  <2>6. Judged'
    BY <1>1, <2>2, <2>5 DEF Judged
  <2> QED  BY <1>2, <1>3, <1>5, <2>1, <2>5, <2>6
<1> QED  BY <1>1, <1>6, <1>7, <1>8, <1>9, <1>10, Zenon DEF Observe

LEMMA JudgedAlways == RunSpec => []Judged
<1>1. RunInit => Judged
  BY DEF RunInit, PolicyInit, Judged, Quiet
<1>2. PolicyInv /\ Judged /\ [RunNext]_runVars => Judged'
  <2> SUFFICES ASSUME PolicyInv, Judged, [RunNext]_runVars PROVE Judged'
    OBVIOUS
  <2>1. CASE UNCHANGED runVars
    BY <2>1, Zenon DEF Judged, runVars, policyVars
  <2>2. CASE RunNext
    <3>1. PICK w \in WindowType : ObserveWindow(w)
      BY <2>2, WindowIsTyped DEF RunNext
    <3> QED  BY <3>1, WindowJudged
  <2> QED  BY <2>1, <2>2
<1> QED  BY <1>1, <1>2, PolicyAlways, PTL DEF RunSpec

(***************************************************************************)
(* A step is given up exactly when a window asks for it, judged by the     *)
(* last window the controller stood by: a rejected probe leaves nothing    *)
(* behind, over windows of any content, whatever the limits and            *)
(* thresholds.                                                             *)
(***************************************************************************)
THEOREM DescentsAreEarned == RunSpec => DownIsEarned
<1> DEFINE A ==
         /\ ctl'.depth < ctl.depth <=>
               /\ ctl.depth > MinDepth
               /\ \/ UnderPressure(last, last')
                  \/ TooSlow(baseline, last', adjustment = "up")
         /\ ctl'.depth < ctl.depth => ctl'.depth = ctl.depth - 1
<1>1. PolicyInv /\ Judged /\ [RunNext]_runVars => [A]_runVars
  <2> SUFFICES ASSUME PolicyInv, Judged, RunNext PROVE A
    BY Zenon
  <2>1. PICK w \in WindowType : ObserveWindow(w)
    BY WindowIsTyped DEF RunNext
  <2>2. last' = w
    BY <2>1 DEF ObserveWindow
  <2> QED  BY <2>1, <2>2, WindowJudged
<1> QED  BY <1>1, PolicyAlways, JudgedAlways, PTL DEF RunSpec, DownIsEarned

(***************************************************************************)
(* After Patience steady windows in a row the controller is as deep as it  *)
(* may go, or has refused to go deeper, whatever came before and whatever  *)
(* its limits and thresholds.                                              *)
(***************************************************************************)
THEOREM DemandIsServed == RunSpec => []SteadyDemandIsServed
<1>1. PolicyInv => SteadyDemandIsServed
  <2> SUFFICES ASSUME PolicyInv, steady = Patience, ctl.depth # Target PROVE FALSE
    BY Zenon DEF SteadyDemandIsServed, Target, PolicyInv, Refusals
  <2>1. steady + WindowsLeft <= Patience
    BY DEF PolicyInv, Served
  <2>2. /\ ctl.depth \in Nat /\ Target \in Nat /\ ctl.depth < Target
        /\ ctl.stable_windows \in Nat /\ ctl.cooldown_windows \in 0 .. 2
    BY Fields
  <2>3. WindowsLeft \in Nat /\ WindowsLeft > 0
    BY <2>2 DEF WindowsLeft, WindowsToProbe, Larger
  <2> QED  BY <2>1, <2>3, Depths
<1> QED  BY <1>1, PolicyAlways, PTL

(***************************************************************************)
(* No probe that was rejected is tried again before the stream enters a    *)
(* new phase, though only one transition is remembered: it is the lowest   *)
(* one refused, and the controller never gets past it.                     *)
(***************************************************************************)
THEOREM ExperimentsAreNotRepeated == RunSpec => NoRepeatedExperiment
<1> DEFINE A == adjustment' = "up" /\ ctl'.depth > ctl.depth => ctl.depth \notin refused
<1>1. PolicyInv /\ [RunNext]_runVars => [A]_runVars
  <2> SUFFICES ASSUME PolicyInv, RunNext, adjustment' = "up" PROVE ctl.depth \notin refused
    BY Zenon
  <2>1. PICK w \in WindowType : w.useful + w.late = w.consumed /\ ObserveWindow(w)
    BY WindowIsTyped DEF RunNext
  <2> QED  BY <2>1, WindowKept, ProbedKept
<1> QED  BY <1>1, PolicyAlways, PTL DEF RunSpec, NoRepeatedExperiment

(***************************************************************************)
(* The look-ahead gets deeper only after two calm windows in a row that    *)
(* both asked for it, with room in the budget, whatever the limits and     *)
(* thresholds.                                                             *)
(***************************************************************************)
THEOREM UpsAreEarned == RunSpec => UpIsEarned
<1> DEFINE A == ctl'.depth > ctl.depth =>
         /\ adjustment = "none"
         /\ last.late > 0 /\ HighUsefulness(last)
         /\ last'.late > 0 /\ HighUsefulness(last')
         /\ HighPct >= 90 => last.consumed >= 10 /\ last'.consumed >= 10
         /\ 100 * last'.average_item_ms <= 101 * last.average_item_ms
         /\ last'.budget_skips = 0
         /\ Limit = Unlimited \/ last'.peak_inflight_bytes < Limit - (Limit \div 4)
<1>1. PolicyInv /\ [RunNext]_runVars => [A]_runVars
  <2> SUFFICES ASSUME PolicyInv, RunNext, ctl'.depth > ctl.depth PROVE A
    BY Zenon
  <2>1. PICK w \in WindowType : /\ w.useful + w.late = w.consumed /\ ObserveWindow(w)
                                /\ w.inflight_limit = Limit
    BY WindowIsTyped DEF RunNext
  <2>2. last' = w
    BY <2>1 DEF ObserveWindow
  <2>3. /\ ctl.stable_windows > 0 /\ Stable(w) /\ HighUsefulness(w) /\ w.late > 0
        /\ ByteHeadroom(w) /\ w.budget_skips = 0
    BY <2>1, WindowKept, ProbedKept
  <2>4. /\ adjustment = "none" /\ last.late > 0 /\ HighUsefulness(last)
        /\ ctl.previous_window_ms = last.average_item_ms
    BY <2>3, Zenon DEF PolicyInv, Earned
  <2>5. HighPct >= 90 => last.consumed >= 10
    BY <2>3, TenMet, Zenon DEF PolicyInv, Earned
  <2>6. HighPct >= 90 => w.consumed >= 10
    <3>1. w.late \in Nat /\ w.useful \in Nat /\ w.consumed \in Nat
      BY DEF WindowType
    <3> QED  BY <3>1, <2>1, <2>3, TenMet, Zenon
  <2>7. 100 * w.average_item_ms <= 101 * last.average_item_ms
    BY <2>3, <2>4 DEF Stable
  <2>8. Limit = Unlimited \/ w.peak_inflight_bytes < Limit - (Limit \div 4)
    BY <2>1, <2>3, Zenon DEF ByteHeadroom
  <2>9. HighUsefulness(last')
    BY <2>2, <2>3, Zenon
  <2> QED  BY <2>2, <2>3, <2>4, <2>5, <2>6, <2>7, <2>8, <2>9, Zenon
<1> QED  BY <1>1, PolicyAlways, PTL DEF RunSpec, UpIsEarned

-----------------------------------------------------------------------------
(***************************************************************************)
(* The runtime.                                                            *)
(*                                                                         *)
(* The consumer works from a reading of pending_bytes() that is stale the  *)
(* moment it has it.  That the budget holds all the same is about what it  *)
(* promises itself (Headroom): only the consumer makes copies pending, and *)
(* it charges each before it reads again.  The books of the requests need  *)
(* to know which slices are outstanding: those behind the one in hand      *)
(* (Ahead).                                                                *)
(***************************************************************************)
Counted == [items : Nat, consumed : Nat, useful : Nat, late : Nat, skips : Nat, peak : Nat]
Totals == [requests : Nat, useful : Nat, unused : Nat, late : Nat, eligible : Nat,
           skipped_budget : Nat, max_inflight : Nat]

StreamTypeOK ==
    /\ cfg \in Configs
    /\ i \in Nat /\ d \in Nat \ {0} /\ requested \subseteq Ids
    /\ reserved \in Nat /\ window \in Counted /\ pf \in Totals

\* Between taking a slice and being done with it.
Using == {"reserve", "look", "advise", "request", "requesting", "load"}

Ahead ==
    /\ pc \in {"pass", "pass_end"} => requested = {}
    /\ pc \in {"scan", "arrive", "late"} => i \in Ids /\ \A id \in requested : i <= id
    /\ pc \in {"arrive", "late"} => i \in requested
    /\ pc \in Using \cup {"observe", "next"} => i \in Ids /\ \A id \in requested : i < id
    /\ pc \in {"advise", "request", "requesting"} => i + d \in requested

Books ==
    /\ inflight_bytes = BytesOf(requested)
    /\ pf.requests = pf.useful + pf.unused + Cardinality(Outstanding)

\* What the owner of the prefetcher is doing there.
Calling ==
    /\ pc = "requesting" => call \in {"filter", "enqueue", "notify"} /\ arg = i + d
    /\ pc \in {"stopping", "destroying"} => call \in {"stop_notify", "join", "cancel"}
    /\ pc \notin {"requesting", "stopping", "destroying"} => call = "none"
    /\ pc \in {"verdict", "returned", "destroyed"} => stop
    /\ pc = "returned" => ~error

Promised == IF CopyCache THEN pending_bytes ELSE inflight_bytes
Fits(id) == InflightLimit = Unlimited \/ reserved + Size[id] <= InflightLimit

Headroom ==
    /\ pc = "look" => Promised <= reserved
    /\ pc \in {"advise", "request", "requesting"} => Fits(i + d)
    /\ pc = "advise" => ~CopyCache /\ Promised <= reserved + Size[i + d]
    /\ pc = "request" => CopyCache /\ Promised <= reserved
    /\ pc = "requesting" =>
          CopyCache /\ Promised <= reserved + (IF call = "notify" THEN Size[i + d] ELSE 0)
    /\ ~CopyCache => inflight_bytes <= InflightLimit

Left == {"unwind", "destroying", "destroyed"}

Windows ==
    /\ window.useful + window.late = window.consumed + (IF pc = "late" THEN 1 ELSE 0)
    /\ window.consumed <= window.items + (IF pc \in Using \cup Left THEN 1 ELSE 0)
    /\ pc = "observe" => window.items = WindowItems
    /\ Adaptive /\ pc # "observe" => window.items < WindowItems

RuntimeInv ==
    /\ PrefetchInv /\ StreamTypeOK /\ Ahead /\ Books /\ Calling
    /\ Headroom /\ PendingWithinBudget /\ Windows

-----------------------------------------------------------------------------
\* Counting leaves a record of counters one.
LEMMA CountedUp ==
    ASSUME NEW w \in Counted, NEW p \in Totals
    PROVE  /\ [w EXCEPT !.useful = @ + 1, !.consumed = @ + 1] \in Counted
           /\ [p EXCEPT !.unused = @ + 1, !.late = @ + 1] \in Totals
           /\ [p EXCEPT !.eligible = @ + 1, !.skipped_budget = @ + 1] \in Totals
           /\ [p EXCEPT !.eligible = @ + 1, !.requests = @ + 1] \in Totals
<1>1. w.useful + 1 \in Nat /\ w.consumed + 1 \in Nat
  BY DEF Counted
<1>2. /\ p.unused + 1 \in Nat /\ p.late + 1 \in Nat /\ p.eligible + 1 \in Nat
      /\ p.skipped_budget + 1 \in Nat /\ p.requests + 1 \in Nat
  BY DEF Totals
<1>3. [w EXCEPT !.useful = @ + 1, !.consumed = @ + 1] \in Counted
  BY <1>1, Zenon DEF Counted
<1>4. [p EXCEPT !.unused = @ + 1, !.late = @ + 1] \in Totals
  BY <1>2, Zenon DEF Totals
<1>5. [p EXCEPT !.eligible = @ + 1, !.skipped_budget = @ + 1] \in Totals
  BY <1>2, Zenon DEF Totals
<1>6. [p EXCEPT !.eligible = @ + 1, !.requests = @ + 1] \in Totals
  BY <1>2, Zenon DEF Totals
<1> QED  BY <1>3, <1>4, <1>5, <1>6

-----------------------------------------------------------------------------
LEMMA Limits ==
    ASSUME cfg \in Configs
    PROVE  /\ InflightLimit \in Nat /\ InflightLimit <= MaxU64 /\ Unlimited = MaxU64
           /\ WindowItems \in Nat /\ WindowItems >= 1
           /\ Count \in Nat /\ Ids = 0 .. (Count - 1)
<1>1. /\ cfg.prefetch_budget_bytes \in 0 .. MaxU64 /\ cfg.adaptive_window \in Nat
  BY RuntimeAssumption DEF RunConfig
<1>2. MaxU64 \in Nat /\ Capacity \in 0 .. MaxU64 /\ Unlimited = MaxU64
  BY BytesAssumption, CapacityAssumption, RuntimeAssumption
<1>3. ConfiguredBudget \in 0 .. MaxU64
  <2>1. PrefetchBudget \in 0 .. MaxU64
    BY <1>1, <1>2 DEF PrefetchBudget, Smaller
  <2> QED  BY <2>1, <1>2 DEF ConfiguredBudget
<1>4. AdaptiveCacheLimit \in Nat
  BY <1>2, <1>3 DEF AdaptiveCacheLimit, Larger
<1>5. InflightLimit \in 0 .. MaxU64
  BY <1>2, <1>3, <1>4 DEF InflightLimit, Smaller
<1>6. WindowItems \in Nat /\ WindowItems >= 1
  BY <1>1 DEF WindowItems, Larger
<1>7. Count \in Nat
  BY BytesAssumption, FS_CardinalityType DEF Count
<1> QED  BY <1>2, <1>5, <1>6, <1>7, RuntimeAssumption

\* The limits are those of the configuration, which nobody changes.
LEMMA LimitsStay ==
    ASSUME UNCHANGED cfg
    PROVE  /\ CopyCache' = CopyCache /\ Adaptive' = Adaptive
           /\ InflightLimit' = InflightLimit /\ WindowItems' = WindowItems
BY Zenon DEF CopyCache, Adaptive, InflightLimit, WindowItems, ConfiguredBudget, PrefetchBudget,
   AdaptiveCacheLimit

-----------------------------------------------------------------------------
\* The consumer's steps that leave the prefetcher alone.
Alone ==
    \/ PassBegins \/ PassesEnd \/ (\E id \in Ids : ScansLate(id)) \/ ScanEnds
    \/ ArrivesUseful \/ ArrivesLate \/ KeepsLate \/ Reserves
    \/ LookEnds \/ LookSkips \/ LookOverBudget \/ LookAdmits \/ Advises
    \/ RequestThrows \/ Loads \/ LoadThrows \/ Observes \/ NextItem \/ PassEnds \/ RunReturns

\* Its calls of stop().
Stopping == RunStops \/ RunJoins \/ Destroys \/ DestroyJoins

LEMMA NextIs ==
    ASSUME [RuntimeNext]_runtimeVars
    PROVE  \/ Alone \/ RequestBegins \/ RequestContinues \/ Stopping
           \/ Background \/ Spurious \/ UNCHANGED runtimeVars
BY Zenon DEF RuntimeNext, Consumer, Alone, Stopping, SecondRunThrows, Destroyed

LEMMA AloneIs ==
    ASSUME Alone
    PROVE  UNCHANGED prefetcherVars
<1>1. UNCHANGED prefetchVars => UNCHANGED prefetcherVars
  BY DEF prefetchVars
<1> QED
  BY <1>1, Zenon DEF Alone, PassBegins, PassesEnd, ScansLate, ScanEnds, ArrivesUseful, ArrivesLate,
     KeepsLate, Reserves, LookEnds, LookSkips, LookOverBudget, LookAdmits, Advises, RequestThrows,
     RequestRethrows, Loads, LoadThrows, Observes, NextItem, PassEnds, RunReturns, OthersIdle

LEMMA PrefetcherKept ==
    ASSUME RuntimeInv, [RuntimeNext]_runtimeVars
    PROVE  PrefetchInv'
<1>1. PrefetchInv
  BY DEF RuntimeInv
<1>2. CASE Alone \/ UNCHANGED runtimeVars
  <2>1. UNCHANGED prefetcherVars
    BY <1>2, AloneIs DEF runtimeVars, prefetchVars
  <2> QED  BY <1>1, <2>1, Untouched
<1>3. CASE RequestBegins
  <2>1. i + d \in Ids
    BY <1>3, Zenon DEF RuntimeInv, Ahead, StreamTypeOK, RequestBegins
  <2> QED  BY <1>1, <1>3, <2>1, CallMoves DEF RequestBegins
<1>4. CASE RequestContinues
  BY <1>1, <1>4, CallMoves, Enqueues DEF RequestContinues
<1>5. CASE Stopping
  BY <1>1, <1>5, CallMoves, CancelsAll
     DEF Stopping, RunStops, RunJoins, Destroys, DestroyJoins, CallsStop, ContinuesStop
<1>6. CASE Background \/ Spurious
  BY <1>1, <1>6, WorkerMoves, Takes, Settles, Fails DEF Background, Spurious, Worker
<1> QED  BY <1>2, <1>3, <1>4, <1>5, <1>6, NextIs

-----------------------------------------------------------------------------
\* Steps of the background thread, which the consumer's locals do not see.
LEMMA BackgroundIs ==
    ASSUME PrefetchInv, Background \/ Spurious
    PROVE  /\ UNCHANGED <<pc, streamVars, call, arg>>
           /\ stop => stop'
           /\ wpc = "done" => error' = error
           /\ pending_bytes' <= pending_bytes /\ peak_pending_bytes' = peak_pending_bytes
<1>1. UNCHANGED <<pc, streamVars, callVars>>
  BY Zenon DEF Background, Spurious, Worker, WorkerReturns, WorkerTakes, WorkerFindsNothing,
     WorkerSleeps, WorkerCopies, WorkerCopyThrows, WorkerSettles, WorkerFails, WorkerWakesSpuriously
<1>2. stop => stop'
  BY DEF Background, Spurious, Worker, WorkerReturns, WorkerTakes, WorkerFindsNothing,
     WorkerSleeps, WorkerCopies, WorkerCopyThrows, WorkerSettles, WorkerFails, WorkerWakesSpuriously
<1>3. wpc = "done" => error' = error
  BY DEF Background, Spurious, Worker, WorkerReturns, WorkerTakes, WorkerFindsNothing,
     WorkerSleeps, WorkerCopies, WorkerCopyThrows, WorkerSettles, WorkerFails, WorkerWakesSpuriously
<1>4. peak_pending_bytes' = peak_pending_bytes
  BY DEF Background, Spurious, Worker, WorkerReturns, WorkerTakes, WorkerFindsNothing,
     WorkerSleeps, WorkerCopies, WorkerCopyThrows, WorkerSettles, WorkerFails,
     WorkerWakesSpuriously, CancelAll, queueVars
<1>5. pending_bytes' <= pending_bytes
  <2>1. pending_bytes \in Nat
    BY SizeIsWord DEF PrefetchInv, PrefetcherTypeOK
  <2>2. CASE WorkerSettles
    <3>1. /\ wid \in Ids /\ pending \in SUBSET Ids /\ wid \in pending /\ pending_bytes = BytesOf(pending)
      BY <2>2, Exact DEF PrefetchInv, PrefetcherTypeOK, WorkerSettles, Active
    <3>2. Size[wid] <= BytesOf(pending)
      BY <3>1, BytesOfWithout
    <3>3. Size[wid] <= pending_bytes /\ Size[wid] \in Nat
      BY <3>1, <3>2, SizeIsWord
    <3> QED  BY <2>1, <2>2, <3>1, <3>3 DEF WorkerSettles, U64Minus
  <2>3. CASE ~WorkerSettles
    BY <2>1, <2>3 DEF Background, Spurious, Worker, WorkerReturns, WorkerTakes, WorkerFindsNothing,
       WorkerSleeps, WorkerCopies, WorkerCopyThrows, WorkerFails,
       WorkerWakesSpuriously, CancelAll, queueVars
  <2> QED  BY <2>2, <2>3
<1> QED  BY <1>1, <1>2, <1>3, <1>4, <1>5 DEF callVars

\* Its calls of stop() leave its locals alone.
LEMMA StoppingIs ==
    ASSUME Stopping
    PROVE  /\ UNCHANGED streamVars
           /\ \/ pc \in {"stop", "returned", "unwind"} /\ StopBegins
              \/ pc \in {"stopping", "destroying"} /\ (StopNotifies \/ StopJoins \/ StopCancels)
           /\ \/ pc = "stop" /\ pc' = "stopping"
              \/ pc \in {"returned", "unwind"} /\ pc' = "destroying"
              \/ pc = "stopping" /\ pc' = IF call' = "none" THEN "verdict" ELSE "stopping"
              \/ pc = "destroying" /\ pc' = IF call' = "none" THEN "destroyed" ELSE "destroying"
BY Zenon DEF Stopping, RunStops, RunJoins, Destroys, DestroyJoins, CallsStop, ContinuesStop

\* Where its other steps lead.
LEMMA AloneGoes ==
    ASSUME Alone
    PROVE  /\ pc \notin {"requesting", "stopping", "destroying", "stop", "returned", "unwind", "destroyed"}
           /\ pc' \notin {"requesting", "stopping", "destroying", "destroyed"}
           /\ pc' = "verdict" => FALSE
           /\ pc' = "returned" => pc = "verdict" /\ ~error
           /\ UNCHANGED prefetcherVars
<1>1. UNCHANGED prefetcherVars
  BY AloneIs
<1> QED
  BY <1>1, SMTT(30) DEF Alone, PassBegins, PassesEnd, ScansLate, ScanEnds, ArrivesUseful, ArrivesLate,
     KeepsLate, Reserves, LookEnds, LookSkips, LookOverBudget, LookAdmits, Advises, RequestThrows,
     Loads, LoadThrows, Observes, NextItem, PassEnds, RunReturns, Looking, ItemDone

LEMMA CallingKept ==
    ASSUME RuntimeInv, [RuntimeNext]_runtimeVars
    PROVE  Calling'
<1>1. Calling /\ PrefetchInv
  BY DEF RuntimeInv
<1>2. CASE Alone
  BY <1>1, <1>2, AloneGoes DEF Calling, prefetcherVars, callVars
<1>3. CASE RequestBegins
  BY <1>1, <1>3 DEF Calling, RequestBegins, RequestEnters, streamVars
<1>4. CASE RequestContinues
  <2>1. pc = "requesting" /\ call \in {"filter", "enqueue", "notify"} /\ arg = i + d
    BY <1>1, <1>4 DEF Calling, RequestContinues
  <2>2. \/ call' = "none"
        \/ call' \in {"filter", "enqueue", "notify"} /\ arg' = arg
    BY <1>4 DEF RequestContinues, RequestFilters, RequestDropped, RequestEnqueues, EnqueuesIf,
       RequestNotifies, Return
  <2>3. CASE call' = "none"
    BY <2>3, <1>4 DEF RequestContinues, Calling
  <2>4. CASE call' # "none"
    BY <2>1, <2>2, <2>4, <1>4 DEF RequestContinues, Calling, streamVars
  <2> QED  BY <2>3, <2>4
<1>5. CASE Stopping
  <2>1. PrefetchInv'
    BY PrefetcherKept
  <2>2. stop'
    BY <1>1, <1>5, StoppingIs
       DEF StopBegins, StopNotifies, StopJoins, StopCancels, PrefetchInv, Phases, Calling
  <2>3. \/ call' \in {"stop_notify", "join", "cancel"}
        \/ call' = "none" /\ pc \in {"stopping", "destroying"}
    BY <1>5, StoppingIs DEF StopBegins, StopNotifies, StopJoins, StopCancels, Return
  <2>4. pc \in {"stop", "returned", "unwind"} => call' = "stop_notify"
    BY <1>5, StoppingIs DEF StopBegins
  <2> QED  BY <1>5, <2>2, <2>3, <2>4, StoppingIs DEF Calling
<1>6. CASE Background \/ Spurious
  <2>1. pc \in {"verdict", "returned", "destroyed"} => wpc = "done"
    BY <1>1 DEF Calling, PrefetchInv, QuietAfterStop
  <2> QED  BY <1>1, <1>6, <2>1, BackgroundIs DEF Calling, streamVars
<1>7. CASE UNCHANGED runtimeVars
  BY <1>1, <1>7, Zenon
     DEF Calling, runtimeVars, prefetchVars, prefetcherVars, callVars, streamVars
<1> QED  BY <1>2, <1>3, <1>4, <1>5, <1>6, <1>7, NextIs

-----------------------------------------------------------------------------
\* One request more on the way, or one less.
LEMMA Requested ==
    ASSUME requested \in SUBSET Ids, NEW id \in Ids
    PROVE  /\ id \in requested =>
                /\ BytesOf(requested \ {id}) = BytesOf(requested) - Size[id]
                /\ Size[id] <= BytesOf(requested)
                /\ Cardinality(requested \ {id}) = Cardinality(requested) - 1
           /\ id \notin requested =>
                /\ BytesOf(requested \cup {id}) = BytesOf(requested) + Size[id]
                /\ BytesOf(requested \cup {id}) <= MaxU64
                /\ Cardinality(requested \cup {id}) = Cardinality(requested) + 1
           /\ Cardinality(requested) \in Nat /\ BytesOf(requested) \in Nat
           /\ Size[id] \in Nat
<1>1. IsFiniteSet(requested)
  BY BytesAssumption, FS_Subset
<1>2. Cardinality(requested) \in Nat /\ BytesOf(requested) \in Nat /\ Size[id] \in Nat
  BY <1>1, FS_CardinalityType, BytesOfType, SizeIsWord
<1>3. CASE id \in requested
  BY <1>1, <1>2, <1>3, BytesOfWithout, FS_RemoveElement
<1>4. CASE id \notin requested
  <2>1. BytesOf(requested \cup {id}) = BytesOf(requested) + Size[id]
    BY <1>4, BytesOfWith
  <2>2. Cardinality(requested \cup {id}) = Cardinality(requested) + 1
    BY <1>1, <1>4, FS_AddElement
  <2>3. BytesOf(requested \cup {id}) <= MaxU64
    <3> DEFINE R == requested \cup {id}
    <3>1. R \in SUBSET Ids /\ Ids \ R \in SUBSET Ids /\ R \cap (Ids \ R) = {} /\ R \cup (Ids \ R) = Ids
      OBVIOUS
    <3> HIDE DEF R
    <3>2. BytesOf(R \cup (Ids \ R)) = BytesOf(R) + BytesOf(Ids \ R)
      BY <3>1, BytesOfUnion
    <3>3. BytesOf(R) \in Nat /\ BytesOf(Ids \ R) \in Nat /\ BytesOf(Ids) <= MaxU64 /\ MaxU64 \in Nat
      BY <3>1, BytesOfType, RuntimeAssumption, BytesAssumption
    <3>4. BytesOf(Ids) = BytesOf(R) + BytesOf(Ids \ R)
      BY <3>1, <3>2, Zenon
    <3>5. BytesOf(R) <= MaxU64
      BY <3>3, <3>4
    <3> QED  BY <3>5 DEF R
  <2> QED  BY <1>2, <1>4, <2>1, <2>2, <2>3
<1> QED  BY <1>2, <1>3, <1>4

\* The request met is done with.
LEMMA ConsumedBooks ==
    ASSUME RuntimeInv, Consumed, i \in requested
    PROVE  /\ requested' = requested \ {i}
           /\ inflight_bytes' = BytesOf(requested')
           /\ inflight_bytes' <= inflight_bytes
           /\ Cardinality(requested) = Cardinality(requested') + 1
           /\ Cardinality(requested') \in Nat
           /\ requested' \in SUBSET Ids
<1>1. requested \in SUBSET Ids /\ i \in Ids /\ inflight_bytes = BytesOf(requested)
  BY DEF RuntimeInv, StreamTypeOK, Books
<1>2. inflight_bytes' = inflight_bytes - Smaller(inflight_bytes, Size[i]) /\ requested' = requested \ {i}
  BY DEF Consumed
<1>3. /\ BytesOf(requested \ {i}) = BytesOf(requested) - Size[i]
      /\ Size[i] <= BytesOf(requested) /\ Size[i] \in Nat /\ BytesOf(requested) \in Nat
      /\ Cardinality(requested \ {i}) = Cardinality(requested) - 1
      /\ Cardinality(requested) \in Nat
  BY <1>1, Requested
<1>4. Cardinality(requested') \in Nat
  <2>1. IsFiniteSet(requested')
    BY <1>1, <1>2, BytesAssumption, FS_Subset
  <2> QED  BY <2>1, FS_CardinalityType
<1>5. inflight_bytes' = BytesOf(requested') /\ inflight_bytes' <= inflight_bytes
  BY <1>1, <1>2, <1>3 DEF Smaller
<1> QED  BY <1>1, <1>2, <1>3, <1>4, <1>5

\* The request made is on its way: the sum of all fits a word.
LEMMA AdmittedBooks ==
    ASSUME RuntimeInv, LookAdmits
    PROVE  /\ i + d \in Ids /\ i + d > i
           /\ requested' = requested \cup {i + d}
           /\ inflight_bytes' = BytesOf(requested')
           /\ inflight_bytes' = inflight_bytes + Size[i + d] /\ inflight_bytes' <= MaxU64
           /\ Cardinality(requested') = Cardinality(requested) + 1
           /\ Cardinality(requested) \in Nat
<1>1. /\ requested \in SUBSET Ids /\ inflight_bytes = BytesOf(requested)
      /\ i \in Nat /\ d \in Nat \ {0} /\ cfg \in Configs
  BY DEF RuntimeInv, StreamTypeOK, Books
<1>2. i + d \in Ids
  BY <1>1, Limits DEF LookAdmits, Looking
<1>3. i + d \notin requested /\ requested' = requested \cup {i + d}
  BY DEF LookAdmits, Covered
<1> DEFINE k == i + d
<1> HIDE DEF k
<1>4. k \in Ids /\ k \notin requested
  BY <1>2, <1>3 DEF k
<1>5. /\ BytesOf(requested \cup {k}) = BytesOf(requested) + Size[k]
      /\ BytesOf(requested \cup {k}) <= MaxU64 /\ BytesOf(requested) \in Nat /\ Size[k] \in Nat
      /\ Cardinality(requested \cup {k}) = Cardinality(requested) + 1
      /\ Cardinality(requested) \in Nat
  BY <1>1, <1>4, Requested
<1>6. inflight_bytes' = U64Plus(inflight_bytes, Size[k])
  BY DEF LookAdmits, k
<1>7. inflight_bytes' = inflight_bytes + Size[k]
  BY <1>1, <1>5, <1>6 DEF U64Plus
<1>8. i + d > i
  BY <1>1
<1> QED  BY <1>1, <1>2, <1>3, <1>5, <1>7, <1>8 DEF k

-----------------------------------------------------------------------------
\* A step that leaves the consumer's locals leads here.
LEMMA StreamStays ==
    ASSUME RuntimeInv, UNCHANGED cfg, UNCHANGED streamVars,
           \/ pc' = pc
           \/ pc = "pass" /\ pc' = "stop"
           \/ pc = "scan" /\ pc' = IF i \in requested THEN "arrive" ELSE "reserve"
           \/ pc = "look" /\ pc' = "load"
           \/ pc = "request" /\ pc' = "requesting"
           \/ pc \in {"request", "load"} /\ pc' = "unwind"
           \/ pc \in {"stop", "stopping", "verdict", "returned", "unwind", "destroying"}
                /\ pc' \in {"stopping", "verdict", "returned", "unwind", "destroying", "destroyed"}
                /\ (pc \in Left => pc' \in Left)
    PROVE  StreamTypeOK' /\ Ahead' /\ Books' /\ Windows'
<1>1. UNCHANGED <<i, d, requested, inflight_bytes, reserved, window, pf>>
  BY DEF streamVars
<1>2. StreamTypeOK /\ Ahead /\ Books /\ Windows
  BY DEF RuntimeInv
<1>3. StreamTypeOK'
  BY <1>1, <1>2, Zenon DEF StreamTypeOK
<1>4. Ahead'
  <2>1. CASE pc' = pc
    BY <1>1, <1>2, <2>1, Zenon DEF Ahead
  <2>2. CASE pc = "scan" /\ pc' = IF i \in requested THEN "arrive" ELSE "reserve"
    <3>1. i \in Ids /\ i \in Int /\ \A id \in requested : i <= id /\ id \in Int
      BY <1>2, <2>2, BytesAssumption DEF Ahead, StreamTypeOK
    <3> QED  BY <1>1, <2>2, <3>1 DEF Ahead, Using
  <2> QED  BY <1>1, <1>2, <2>1, <2>2 DEF Ahead, Using
<1>5. Books'
  <2>1. Outstanding' = Outstanding
    BY <1>1 DEF Outstanding
  <2> QED  BY <1>1, <1>2, <2>1, Zenon DEF Books
<1>6. Windows'
  <2>1. WindowItems' = WindowItems /\ Adaptive' = Adaptive
    BY LimitsStay
  <2>2. /\ window.useful \in Nat /\ window.late \in Nat /\ window.consumed \in Nat
        /\ window.items \in Nat
    BY <1>2 DEF StreamTypeOK, Counted
  <2>3. CASE pc' = pc
    BY <1>1, <1>2, <2>1, <2>3, Zenon DEF Windows
  <2>4. CASE pc' # pc
    <3>1. pc \notin {"late", "observe"} /\ pc' \notin {"late", "observe"}
      BY <2>4
    <3>2. pc \in Using \cup Left => pc' \in Using \cup Left
      BY <2>4 DEF Using, Left
    <3> QED  BY <1>1, <1>2, <2>1, <2>2, <3>1, <3>2 DEF Windows
  <2> QED  BY <2>3, <2>4
<1> QED  BY <1>3, <1>4, <1>5, <1>6

\* What the invariant says of the consumer's locals, in numbers.
LEMMA Locals ==
    ASSUME RuntimeInv
    PROVE  /\ cfg \in Configs /\ i \in Nat /\ d \in Nat \ {0}
           /\ requested \in SUBSET Ids /\ Ids \subseteq Nat
           /\ reserved \in Nat /\ inflight_bytes \in Nat
           /\ inflight_bytes = BytesOf(requested)
           /\ window \in Counted /\ pf \in Totals
           /\ pf.requests = pf.useful + pf.unused + Cardinality(Outstanding)
           /\ Cardinality(Outstanding) \in Nat
           /\ pending_bytes \in Nat /\ peak_pending_bytes \in Nat
           /\ pending_bytes <= peak_pending_bytes /\ pending_bytes <= MaxU64
           /\ \A id \in Ids : Size[id] \in Nat
<1>1. requested \in SUBSET Ids
  BY DEF RuntimeInv, StreamTypeOK
<1>2. Outstanding \in SUBSET Ids
  BY <1>1 DEF Outstanding
<1>3. IsFiniteSet(Outstanding)
  BY <1>2, BytesAssumption, FS_Subset
<1>4. BytesOf(requested) \in Nat /\ Cardinality(Outstanding) \in Nat
  BY <1>1, <1>3, BytesOfType, FS_CardinalityType
<1>5. /\ pending_bytes \in 0 .. MaxU64 /\ peak_pending_bytes \in 0 .. MaxU64
      /\ pending_bytes <= peak_pending_bytes
  BY DEF RuntimeInv, PrefetchInv, PrefetcherTypeOK, PendingIsExact
<1>6. /\ cfg \in Configs /\ i \in Nat /\ d \in Nat \ {0} /\ reserved \in Nat
      /\ window \in Counted /\ pf \in Totals
      /\ inflight_bytes = BytesOf(requested)
      /\ pf.requests = pf.useful + pf.unused + Cardinality(Outstanding)
  BY DEF RuntimeInv, StreamTypeOK, Books
<1> QED  BY <1>1, <1>4, <1>5, <1>6, SizeIsWord, BytesAssumption

\* The accounts of the consumer: its locals between two accesses to what is
\* shared.
Accounts == StreamTypeOK /\ Ahead /\ Books /\ Windows

\* Passes and slices begin and end.
LEMMA LoopKeepsAccounts ==
    ASSUME RuntimeInv, UNCHANGED cfg,
           PassBegins \/ PassesEnd \/ (\E id \in Ids : ScansLate(id)) \/ ScanEnds \/ NextItem \/ PassEnds
    PROVE  Accounts'
<1>1. Ahead /\ Books /\ Windows
  BY DEF RuntimeInv
<1>2. Count \in Nat /\ Ids = 0 .. (Count - 1)
  BY Locals, Limits
<1>3. WindowItems' = WindowItems /\ Adaptive' = Adaptive
  BY LimitsStay
<1>4. CASE PassesEnd \/ ScanEnds
  BY <1>4, StreamStays DEF PassesEnd, ScanEnds, Accounts
<1>5. CASE PassBegins
  <2>1. /\ requested = {} /\ requested' = {} /\ inflight_bytes' = 0 /\ i' = 0
        /\ pc = "pass" /\ pc' = (IF Count = 0 THEN "pass_end" ELSE "scan")
        /\ UNCHANGED <<d, reserved, window, pf>>
    BY <1>1, <1>5 DEF PassBegins, Ahead
  <2>2. StreamTypeOK'
    BY <2>1, Locals DEF StreamTypeOK
  <2>3. Ahead'
    BY <1>2, <2>1 DEF Ahead, Using
  <2>4. Books'
    <3>1. Outstanding = {} /\ Outstanding' = {}
      BY <2>1 DEF Outstanding
    <3>2. BytesOf(requested') = 0
      BY <2>1, BytesOfEmpty
    <3> QED  BY <1>1, <2>1, <3>1, <3>2 DEF Books
  <2>5. Windows'
    BY <1>1, <1>3, <2>1 DEF Windows, Using, Left
  <2> QED  BY <2>2, <2>3, <2>4, <2>5 DEF Accounts
<1>6. CASE \E id \in Ids : ScansLate(id)
  <2>1. pc' = pc /\ UNCHANGED <<i, d, requested, inflight_bytes, reserved, window, pf>>
    BY <1>6 DEF ScansLate
  <2>2. Outstanding' = Outstanding
    BY <2>1 DEF Outstanding
  <2> QED  BY <1>1, <1>3, <2>1, <2>2, Zenon
           DEF Accounts, StreamTypeOK, Ahead, Books, Windows, RuntimeInv
<1>7. CASE NextItem
  <2>1. /\ pc = "next" /\ i' = i + 1 /\ pc' = IF i + 1 < Count THEN "scan" ELSE "pass_end"
        /\ UNCHANGED <<d, requested, inflight_bytes, reserved, window, pf>>
    BY <1>7 DEF NextItem
  <2>2. StreamTypeOK'
    BY <2>1, Locals DEF StreamTypeOK
  <2>3. Ahead'
    <3>1. i \in Nat /\ \A id \in requested : i + 1 <= id /\ id \in Ids
      BY <1>1, <1>2, <2>1, Locals DEF Ahead
    <3>2. i + 1 >= Count => requested = {}
      BY <1>2, <3>1
    <3>3. i + 1 < Count => i + 1 \in Ids
      BY <1>2, <3>1
    <3>4. CASE i + 1 < Count
      BY <2>1, <3>1, <3>3, <3>4 DEF Ahead, Using
    <3>5. CASE ~(i + 1 < Count)
      <4>1. pc' = "pass_end" /\ requested' = {}
        BY <1>2, <2>1, <3>1, <3>2, <3>5
      <4> QED  BY <4>1 DEF Ahead, Using
    <3> QED  BY <3>4, <3>5
  <2>4. Books'
    <3>1. Outstanding' = requested /\ Outstanding = requested
      BY <2>1 DEF Outstanding
    <3> QED  BY <1>1, <2>1, <3>1 DEF Books
  <2>5. Windows'
    BY <1>1, <1>3, <2>1 DEF Windows, Using, Left
  <2> QED  BY <2>2, <2>3, <2>4, <2>5 DEF Accounts
<1>8. CASE PassEnds
  <2>1. /\ pc = "pass_end" /\ pc' = "pass" /\ requested = {} /\ requested' = {} /\ inflight_bytes' = 0
        /\ pf' = [pf EXCEPT !.unused = @ + Cardinality(requested)]
        /\ UNCHANGED <<i, d, reserved, window>>
    BY <1>1, <1>8 DEF PassEnds, Ahead
  <2>2. pf' = pf
    <3>1. Cardinality(requested) = 0
      BY <2>1, FS_EmptySet
    <3> QED  BY <2>1, <3>1, Locals DEF Totals
  <2>3. StreamTypeOK'
    BY <2>1, <2>2, Locals DEF StreamTypeOK
  <2>4. Ahead'
    BY <2>1 DEF Ahead, Using
  <2>5. Books'
    <3>1. Outstanding = {} /\ Outstanding' = {}
      BY <2>1 DEF Outstanding
    <3> QED  BY <1>1, <2>1, <2>2, <3>1, BytesOfEmpty DEF Books
  <2>6. Windows'
    BY <1>1, <1>3, <2>1 DEF Windows, Using, Left
  <2> QED  BY <2>3, <2>4, <2>5, <2>6 DEF Accounts
<1> QED  BY <1>4, <1>5, <1>6, <1>7, <1>8

\* The request for the slice in hand is met.
LEMMA ArrivalKeepsAccounts ==
    ASSUME RuntimeInv, UNCHANGED cfg, ArrivesUseful \/ ArrivesLate \/ KeepsLate
    PROVE  Accounts'
<1>1. Ahead /\ Books /\ Windows
  BY DEF RuntimeInv
<1>2. i \in requested /\ i \in Ids /\ i \in Nat /\ \A id \in requested : i <= id
  BY <1>1, Locals DEF Ahead, ArrivesUseful, ArrivesLate, KeepsLate
<1>3. WindowItems' = WindowItems /\ Adaptive' = Adaptive
  BY LimitsStay
<1>4. \A id \in requested \ {i} : id \in Nat /\ i < id
  BY <1>2, Locals
<1>5. /\ Cardinality(requested \ {i}) = Cardinality(requested) - 1 /\ Cardinality(requested) \in Nat
  BY <1>2, Requested, Locals
<1>6. CASE ArrivesUseful
  <2>1. /\ pc = "arrive" /\ pc' = "reserve"
        /\ pf' = [pf EXCEPT !.useful = @ + 1]
        /\ window' = [window EXCEPT !.useful = @ + 1, !.consumed = @ + 1]
        /\ Consumed
    BY <1>6 DEF ArrivesUseful
  <2>2. requested' = requested \ {i} /\ inflight_bytes' = BytesOf(requested') /\ UNCHANGED <<i, d, reserved>>
    BY <1>2, <2>1, ConsumedBooks DEF Consumed
  <2>3. StreamTypeOK'
    <3>1. pf' \in Totals
      BY <2>1, Locals DEF Totals
    <3>2. window' \in Counted
      BY <2>1, Locals, CountedUp
    <3> QED  BY <3>1, <3>2, <2>1, <2>2, Locals DEF StreamTypeOK
  <2>4. Ahead'
    BY <1>2, <1>4, <2>1, <2>2 DEF Ahead, Using
  <2>5. Books'
    <3>1. Outstanding = requested /\ Outstanding' = requested \ {i}
      BY <2>1, <2>2 DEF Outstanding
    <3> QED  BY <1>1, <1>5, <2>1, <2>2, <3>1, Locals DEF Books, Totals
  <2>6. Windows'
    BY <1>1, <1>3, <2>1, Locals DEF Windows, Counted, Using, Left
  <2> QED  BY <2>3, <2>4, <2>5, <2>6 DEF Accounts
<1>7. CASE ArrivesLate
  <2>1. /\ pc = "arrive" /\ pc' = "late"
        /\ pf' = [pf EXCEPT !.unused = @ + 1, !.late = @ + 1]
        /\ window' = [window EXCEPT !.late = @ + 1]
        /\ UNCHANGED <<i, d, requested, inflight_bytes, reserved>>
    BY <1>7 DEF ArrivesLate
  <2>2. StreamTypeOK'
    <3>1. pf' \in Totals
      BY <2>1, Locals, CountedUp
    <3>2. window' \in Counted
      BY <2>1, Locals DEF Counted
    <3> QED  BY <3>1, <3>2, <2>1, Locals DEF StreamTypeOK
  <2>3. Ahead'
    BY <1>2, <2>1 DEF Ahead, Using
  <2>4. Books'
    <3>1. Outstanding = requested /\ Outstanding' = requested \ {i}
      BY <2>1 DEF Outstanding
    <3> QED  BY <1>1, <1>5, <2>1, <3>1, Locals DEF Books, Totals
  <2>5. Windows'
    BY <1>1, <1>3, <2>1, Locals DEF Windows, Counted, Using, Left
  <2> QED  BY <2>2, <2>3, <2>4, <2>5 DEF Accounts
<1>8. CASE KeepsLate
  <2>1. /\ pc = "late" /\ pc' = "reserve" /\ pf' = pf
        /\ window' = [window EXCEPT !.consumed = @ + 1]
        /\ Consumed
    BY <1>8 DEF KeepsLate
  <2>2. requested' = requested \ {i} /\ inflight_bytes' = BytesOf(requested') /\ UNCHANGED <<i, d, reserved>>
    BY <1>2, <2>1, ConsumedBooks DEF Consumed
  <2>3. StreamTypeOK'
    BY <2>1, <2>2, Locals DEF StreamTypeOK, Counted
  <2>4. Ahead'
    BY <1>2, <1>4, <2>1, <2>2 DEF Ahead, Using
  <2>5. Books'
    <3>1. Outstanding = requested \ {i} /\ Outstanding' = requested \ {i}
      BY <2>1, <2>2 DEF Outstanding
    <3> QED  BY <1>1, <2>1, <2>2, <3>1 DEF Books
  <2>6. Windows'
    BY <1>1, <1>3, <2>1, Locals DEF Windows, Counted, Using, Left
  <2> QED  BY <2>3, <2>4, <2>5, <2>6 DEF Accounts
<1> QED  BY <1>6, <1>7, <1>8

\* A step that touches neither the slices nor the requests, and of a window
\* no more than the skips and the peak.
LEMMA AccountsMove ==
    ASSUME RuntimeInv, UNCHANGED cfg, UNCHANGED <<i, requested, inflight_bytes>>,
           pc \in Using, pc' \in Using,
           pc' \in {"advise", "request", "requesting"} => i' + d' \in requested,
           d' \in Nat \ {0}, reserved' \in Nat, pf' \in Totals, window' \in Counted,
           pf'.requests = pf.requests /\ pf'.useful = pf.useful /\ pf'.unused = pf.unused,
           /\ window'.items = window.items /\ window'.consumed = window.consumed
           /\ window'.useful = window.useful /\ window'.late = window.late
    PROVE  Accounts'
<1>1. Ahead /\ Books /\ Windows
  BY DEF RuntimeInv
<1>2. StreamTypeOK'
  BY Locals DEF StreamTypeOK
<1>3. Ahead'
  BY <1>1 DEF Ahead, Using
<1>4. Books'
  <2>1. Outstanding = requested /\ Outstanding' = requested
    BY DEF Outstanding, Using
  <2> QED  BY <1>1, <2>1 DEF Books
<1>5. Windows'
  <2>1. WindowItems' = WindowItems /\ Adaptive' = Adaptive
    BY LimitsStay
  <2>2. pc \notin {"late", "observe"} /\ pc' \notin {"late", "observe"}
    BY DEF Using
  <2> QED  BY <1>1, <2>1, <2>2 DEF Windows
<1> QED  BY <1>2, <1>3, <1>4, <1>5 DEF Accounts

\* Peaks are numbers, and all they change.
LEMMA PeakIs ==
    ASSUME NEW bytes \in Nat, Peak(bytes), window \in Counted, pf \in Totals
    PROVE  /\ reserved' = bytes
           /\ pf' \in Totals /\ pf'.requests = pf.requests
           /\ pf'.useful = pf.useful /\ pf'.unused = pf.unused
           /\ pf'.max_inflight = Larger(pf.max_inflight, bytes)
           /\ window' \in Counted
           /\ window'.items = window.items /\ window'.consumed = window.consumed
           /\ window'.useful = window.useful /\ window'.late = window.late
<1>1. Larger(pf.max_inflight, bytes) \in Nat /\ Larger(window.peak, bytes) \in Nat
  BY DEF Larger, Counted, Totals
<1> QED  BY <1>1 DEF Peak, Counted, Totals

\* A request is charged.
LEMMA ChargedKeepsAccounts ==
    ASSUME RuntimeInv, UNCHANGED cfg, Charged, pc \in {"advise", "requesting"}, pc' = "look"
    PROVE  Accounts'
<1>1. i + d \in Ids
  BY Locals DEF RuntimeInv, Ahead
<1> DEFINE charge == Smaller(reserved + Size[i + d], MaxU64)
<1>2. charge \in Nat
  <2>1. reserved \in Nat /\ Size[i + d] \in Nat /\ MaxU64 \in Nat
    BY <1>1, Locals, BytesAssumption
  <2> QED  BY <2>1 DEF Smaller
<1>3. Peak(charge) /\ d' = d + 1 /\ UNCHANGED <<i, requested, inflight_bytes>>
  BY DEF Charged
<1> HIDE DEF charge
<1>4. pc \in Using /\ pc' \in Using /\ pc' \notin {"advise", "request", "requesting"}
  BY DEF Using
<1>5. d' \in Nat \ {0}
  BY <1>3, Locals
<1>6. /\ reserved' \in Nat /\ pf' \in Totals /\ pf'.requests = pf.requests
      /\ pf'.useful = pf.useful /\ pf'.unused = pf.unused
      /\ window' \in Counted
      /\ window'.items = window.items /\ window'.consumed = window.consumed
      /\ window'.useful = window.useful /\ window'.late = window.late
  BY <1>2, <1>3, PeakIs, Locals
<1> QED  BY <1>3, <1>4, <1>5, <1>6, AccountsMove

\* The look-ahead.
LEMMA LookKeepsAccounts ==
    ASSUME RuntimeInv, UNCHANGED cfg,
           Reserves \/ LookEnds \/ LookSkips \/ LookOverBudget \/ LookAdmits \/ Advises
    PROVE  Accounts'
<1>1. CASE Reserves
  <2>1. (IF CopyCache THEN pending_bytes ELSE inflight_bytes) \in Nat
    BY Locals
  <2>2. Peak(IF CopyCache THEN pending_bytes ELSE inflight_bytes)
    BY <1>1, Zenon DEF Reserves
  <2>3. /\ pc = "reserve" /\ pc' = "look" /\ d' = 1 /\ UNCHANGED <<i, requested, inflight_bytes>>
    BY <1>1, Zenon DEF Reserves
  <2> QED  BY <2>1, <2>2, <2>3, PeakIs, Locals, AccountsMove DEF Using
<1>2. CASE LookEnds
  BY <1>2, StreamStays DEF LookEnds, Accounts
<1>3. CASE LookSkips
  <2>1. /\ pc = "look" /\ pc' = "look" /\ d' = d + 1
        /\ UNCHANGED <<i, requested, inflight_bytes, reserved, window, pf>>
    BY <1>3 DEF LookSkips, Looking
  <2> QED  BY <2>1, Locals, AccountsMove DEF Using
<1>4. CASE LookOverBudget
  <2>1. /\ pc = "look" /\ pc' = "look" /\ d' = d + 1
        /\ pf' = [pf EXCEPT !.eligible = @ + 1, !.skipped_budget = @ + 1]
        /\ window' = [window EXCEPT !.skips = @ + 1]
        /\ UNCHANGED <<i, requested, inflight_bytes, reserved>>
    BY <1>4 DEF LookOverBudget, Looking
  <2>2. /\ pf' \in Totals /\ pf'.requests = pf.requests
        /\ pf'.useful = pf.useful /\ pf'.unused = pf.unused
        /\ window' \in Counted
        /\ window'.items = window.items /\ window'.consumed = window.consumed
        /\ window'.useful = window.useful /\ window'.late = window.late
    <3>1. pf' \in Totals /\ pf'.requests = pf.requests /\ pf'.useful = pf.useful /\ pf'.unused = pf.unused
      <4>1. pf' \in Totals
        BY <2>1, Locals, CountedUp
      <4> QED  BY <2>1, <4>1, Locals DEF Totals
    <3> QED  BY <3>1, <2>1, Locals DEF Counted
  <2> QED  BY <2>1, <2>2, Locals, AccountsMove DEF Using
<1>5. CASE LookAdmits
  <2>1. /\ pc = "look" /\ pc' \in {"request", "advise"}
        /\ pf' = [pf EXCEPT !.eligible = @ + 1, !.requests = @ + 1]
        /\ UNCHANGED <<i, d, reserved, window>>
    BY <1>5 DEF LookAdmits, Looking
  <2>2. /\ i + d \in Ids /\ i + d > i
        /\ requested' = requested \cup {i + d}
        /\ inflight_bytes' = BytesOf(requested')
        /\ Cardinality(requested') = Cardinality(requested) + 1
        /\ Cardinality(requested) \in Nat
    BY <1>5, AdmittedBooks
  <2>3. Ahead /\ Books /\ Windows
    BY DEF RuntimeInv
  <2>4. StreamTypeOK'
    <3>1. pf' \in Totals
      BY <2>1, Locals, CountedUp
    <3>2. requested' \in SUBSET Ids
      BY <2>2, Locals
    <3> QED  BY <3>1, <3>2, <2>1, Locals DEF StreamTypeOK
  <2>5. Ahead'
    <3>1. i \in Ids /\ \A id \in requested : i < id
      BY <2>1, <2>3 DEF Ahead, Using
    <3> QED  BY <2>1, <2>2, <3>1 DEF Ahead, Using
  <2>6. Books'
    <3>1. Outstanding = requested /\ Outstanding' = requested'
      BY <2>1 DEF Outstanding
    <3> QED  BY <2>1, <2>2, <2>3, <3>1, Locals DEF Books, Totals
  <2>7. Windows'
    <3>1. WindowItems' = WindowItems /\ Adaptive' = Adaptive
      BY LimitsStay
    <3> QED  BY <2>1, <2>3, <3>1 DEF Windows, Using
  <2> QED  BY <2>4, <2>5, <2>6, <2>7 DEF Accounts
<1>6. CASE Advises
  <2>1. pc = "advise" /\ pc' = "look" /\ Charged
    BY <1>6 DEF Advises
  <2> QED  BY <2>1, ChargedKeepsAccounts DEF Using
<1> QED  BY <1>1, <1>2, <1>3, <1>4, <1>5, <1>6

\* A slice is read, and a window reported.
LEMMA ReadingKeepsAccounts ==
    ASSUME RuntimeInv, UNCHANGED cfg, Loads \/ Observes
    PROVE  Accounts'
<1>1. Ahead /\ Books /\ Windows
  BY DEF RuntimeInv
<1>2. WindowItems' = WindowItems /\ Adaptive' = Adaptive
  BY LimitsStay
<1>3. WindowItems \in Nat /\ WindowItems >= 1
  BY Locals, Limits
<1>4. CASE Loads
  <2>1. /\ pc = "load" /\ window' = [window EXCEPT !.items = @ + 1]
        /\ pc' = IF Adaptive /\ window.items + 1 >= WindowItems THEN "observe" ELSE "next"
        /\ UNCHANGED <<i, d, requested, inflight_bytes, reserved, pf>>
    BY <1>4 DEF Loads, ItemDone
  <2>2. /\ window' \in Counted /\ window'.items = window.items + 1
        /\ window'.consumed = window.consumed /\ window'.useful = window.useful
        /\ window'.late = window.late
    BY <2>1, Locals DEF Counted
  <2>3. StreamTypeOK'
    BY <2>1, <2>2, Locals DEF StreamTypeOK
  <2>4. Ahead'
    BY <1>1, <2>1 DEF Ahead, Using
  <2>5. Books'
    <3>1. Outstanding = requested /\ Outstanding' = requested
      BY <2>1 DEF Outstanding
    <3> QED  BY <1>1, <2>1, <3>1 DEF Books
  <2>6. Windows'
    <3>1. /\ window.items \in Nat /\ window.consumed \in Nat
          /\ window.useful \in Nat /\ window.late \in Nat
      BY Locals DEF Counted
    <3>2. /\ window.useful + window.late = window.consumed
          /\ window.consumed <= window.items + 1
          /\ Adaptive => window.items < WindowItems
      BY <1>1, <2>1, <3>1 DEF Windows, Using
    <3>3. pc' \notin {"late"} \cup Using \cup Left
      BY <2>1 DEF Using, Left
    <3>4. CASE Adaptive /\ window.items + 1 >= WindowItems
      <4>1. window.items + 1 = WindowItems /\ pc' = "observe"
        BY <1>3, <2>1, <3>1, <3>2, <3>4
      <4> QED  BY <1>2, <2>2, <3>1, <3>2, <3>3, <4>1 DEF Windows
    <3>5. CASE ~(Adaptive /\ window.items + 1 >= WindowItems)
      <4>1. pc' = "next" /\ (Adaptive => window.items + 1 < WindowItems)
        BY <1>3, <2>1, <3>1, <3>5
      <4> QED  BY <1>2, <2>2, <3>1, <3>2, <3>3, <4>1 DEF Windows
    <3> QED  BY <3>4, <3>5
  <2> QED  BY <2>3, <2>4, <2>5, <2>6 DEF Accounts
<1>5. CASE Observes
  <2>1. /\ pc = "observe" /\ pc' = "next" /\ window' = EmptyWindow
        /\ UNCHANGED <<i, d, requested, inflight_bytes, reserved, pf>>
    BY <1>5 DEF Observes
  <2>2. StreamTypeOK'
    BY <2>1, Locals DEF StreamTypeOK, EmptyWindow, Counted
  <2>3. Ahead'
    BY <1>1, <2>1 DEF Ahead, Using
  <2>4. Books'
    <3>1. Outstanding = requested /\ Outstanding' = requested
      BY <2>1 DEF Outstanding
    <3> QED  BY <1>1, <2>1, <3>1 DEF Books
  <2>5. Windows'
    BY <1>2, <1>3, <2>1 DEF Windows, EmptyWindow, Using, Left
  <2> QED  BY <2>2, <2>3, <2>4, <2>5 DEF Accounts
<1> QED  BY <1>4, <1>5

LEMMA AccountsKept ==
    ASSUME RuntimeInv, [RuntimeNext]_runtimeVars
    PROVE  Accounts'
<1>1. UNCHANGED cfg
  BY DEF RuntimeNext, runtimeVars
<1>2. CASE Alone
  <2>1. CASE LoadThrows \/ RunReturns \/ RequestThrows
    BY <1>1, <2>1, StreamStays DEF LoadThrows, RunReturns, RequestThrows, Accounts, Left
  <2>2. CASE ~(LoadThrows \/ RunReturns \/ RequestThrows)
    BY <1>1, <1>2, <2>2, LoopKeepsAccounts, ArrivalKeepsAccounts, LookKeepsAccounts,
       ReadingKeepsAccounts, Zenon DEF Alone
  <2> QED  BY <2>1, <2>2
<1>3. CASE RequestBegins
  BY <1>1, <1>3, StreamStays DEF RequestBegins, Accounts
<1>4. CASE RequestContinues
  <2>1. CASE call' = "none"
    BY <1>1, <1>4, <2>1, ChargedKeepsAccounts DEF RequestContinues
  <2>2. CASE call' # "none"
    BY <1>1, <1>4, <2>2, StreamStays DEF RequestContinues, Accounts
  <2> QED  BY <2>1, <2>2
<1>5. CASE Stopping
  <2>1. /\ UNCHANGED streamVars
        /\ pc \in {"stop", "stopping", "verdict", "returned", "unwind", "destroying"}
        /\ pc' \in {"stopping", "verdict", "returned", "unwind", "destroying", "destroyed"}
        /\ (pc \in Left => pc' \in Left)
    BY <1>5, StoppingIs DEF Left
  <2> QED  BY <1>1, <2>1, StreamStays DEF Accounts
<1>6. CASE Background \/ Spurious
  <2>1. pc' = pc /\ UNCHANGED streamVars
    BY <1>6, BackgroundIs DEF RuntimeInv
  <2> QED  BY <1>1, <2>1, StreamStays DEF Accounts
<1>7. CASE UNCHANGED runtimeVars
  <2>1. pc' = pc /\ UNCHANGED streamVars
    BY <1>7 DEF runtimeVars
  <2> QED  BY <1>1, <2>1, StreamStays DEF Accounts
<1> QED  BY <1>2, <1>3, <1>4, <1>5, <1>6, <1>7, NextIs

-----------------------------------------------------------------------------
\* A step that promises nothing new.
LEMMA BudgetStays ==
    ASSUME RuntimeInv, UNCHANGED cfg, pc' \notin {"look", "advise", "request", "requesting"},
           reserved' = reserved, pf'.max_inflight = pf.max_inflight,
           inflight_bytes' <= inflight_bytes, inflight_bytes' \in Nat,
           peak_pending_bytes' = peak_pending_bytes
    PROVE  Headroom' /\ PendingWithinBudget'
<1>1. /\ CopyCache' = CopyCache /\ InflightLimit' = InflightLimit
      /\ InflightLimit \in Nat /\ inflight_bytes \in Nat
  BY LimitsStay, Limits, Locals
<1>2. PendingWithinBudget /\ (~CopyCache => inflight_bytes <= InflightLimit)
  BY DEF RuntimeInv, Headroom
<1> QED  BY <1>1, <1>2 DEF Headroom, PendingWithinBudget

\* A charge keeps up with what was promised.
LEMMA ChargedKeepsBudget ==
    ASSUME RuntimeInv, UNCHANGED cfg, Charged, pc \in {"advise", "requesting"}, pc' = "look",
           UNCHANGED <<pending_bytes, peak_pending_bytes>>, Promised <= reserved + Size[i + d]
    PROVE  Headroom' /\ PendingWithinBudget'
<1>1. /\ CopyCache' = CopyCache /\ InflightLimit' = InflightLimit
      /\ InflightLimit \in Nat /\ InflightLimit <= MaxU64 /\ Unlimited = MaxU64 /\ MaxU64 \in Nat
  BY LimitsStay, Limits, Locals, BytesAssumption
<1>2. i + d \in Ids
  BY Locals DEF RuntimeInv, Ahead
<1> DEFINE size == Size[i + d]
<1> DEFINE charge == Smaller(reserved + size, MaxU64)
<1>3. /\ reserved \in Nat /\ size \in Nat /\ inflight_bytes \in Nat /\ pending_bytes \in Nat
      /\ pending_bytes <= MaxU64 /\ pf.max_inflight \in Nat
  BY <1>2, Locals DEF Totals
<1>4. /\ Fits(i + d) /\ PendingWithinBudget
      /\ ~CopyCache => inflight_bytes <= InflightLimit
  BY DEF RuntimeInv, Headroom
<1>5. Promised <= MaxU64 /\ Promised \in Nat
  BY <1>1, <1>3, <1>4 DEF Promised
<1>6. Promised <= charge /\ charge <= InflightLimit /\ charge \in Nat
  BY <1>1, <1>3, <1>4, <1>5 DEF Smaller, Fits
<1>7. Peak(charge) /\ inflight_bytes' = inflight_bytes
  BY DEF Charged
<1> HIDE DEF charge, size
<1>8. reserved' = charge /\ pf'.max_inflight = Larger(pf.max_inflight, charge)
  BY <1>6, <1>7, PeakIs, Locals
<1>9. pf'.max_inflight <= InflightLimit
  BY <1>1, <1>3, <1>4, <1>6, <1>8 DEF Larger, PendingWithinBudget
<1>10. Promised' = Promised
  BY <1>1, <1>7 DEF Promised
<1>11. Headroom'
  BY <1>1, <1>4, <1>6, <1>7, <1>8, <1>10 DEF Headroom
<1>12. PendingWithinBudget'
  BY <1>1, <1>4, <1>6, <1>8, <1>9 DEF PendingWithinBudget
<1> QED  BY <1>11, <1>12

\* The look-ahead promises only what fits.
LEMMA LookKeepsBudget ==
    ASSUME RuntimeInv, UNCHANGED cfg,
           Reserves \/ LookSkips \/ LookOverBudget \/ LookAdmits \/ Advises
    PROVE  Headroom' /\ PendingWithinBudget'
<1>1. /\ CopyCache' = CopyCache /\ InflightLimit' = InflightLimit
      /\ InflightLimit \in Nat /\ InflightLimit <= MaxU64 /\ Unlimited = MaxU64 /\ MaxU64 \in Nat
  BY LimitsStay, Limits, Locals, BytesAssumption
<1>2. UNCHANGED <<pending_bytes, peak_pending_bytes>>
  BY AloneIs DEF Alone, prefetcherVars, queueVars
<1>3. /\ reserved \in Nat /\ inflight_bytes \in Nat /\ pending_bytes \in Nat
      /\ peak_pending_bytes \in Nat /\ pending_bytes <= peak_pending_bytes
      /\ pending_bytes <= MaxU64 /\ pf.max_inflight \in Nat
  BY Locals DEF Totals
<1>4. PendingWithinBudget /\ Headroom
  BY DEF RuntimeInv
<1>5. CASE Reserves
  <2>1. Promised \in Nat /\ Promised <= InflightLimit
    BY <1>1, <1>3, <1>4 DEF Promised, PendingWithinBudget, Headroom
  <2>2. Peak(Promised) /\ pc' = "look" /\ inflight_bytes' = inflight_bytes
    BY <1>5, Zenon DEF Reserves, Promised
  <2>3. reserved' = Promised /\ pf'.max_inflight = Larger(pf.max_inflight, Promised)
    BY <2>1, <2>2, PeakIs, Locals
  <2>4. Promised' = Promised
    BY <1>1, <1>2, <2>2 DEF Promised
  <2>5. Headroom'
    BY <1>1, <1>4, <2>1, <2>2, <2>3, <2>4 DEF Headroom
  <2>6. PendingWithinBudget'
    BY <1>1, <1>2, <1>3, <1>4, <2>1, <2>3 DEF PendingWithinBudget, Larger
  <2> QED  BY <2>5, <2>6
<1>6. CASE LookSkips \/ LookOverBudget
  <2>1. pc = "look" /\ pc' = "look" /\ UNCHANGED <<reserved, inflight_bytes>>
    BY <1>6 DEF LookSkips, LookOverBudget, Looking
  <2>2. pf'.max_inflight = pf.max_inflight
    BY <1>6, Locals DEF LookSkips, LookOverBudget, Totals
  <2>3. Promised' = Promised
    BY <1>1, <1>2, <2>1 DEF Promised
  <2> QED  BY <1>1, <1>2, <1>4, <2>1, <2>2, <2>3 DEF Headroom, PendingWithinBudget
<1>7. CASE LookAdmits
  <2>1. /\ i + d \in Ids /\ UNCHANGED <<i, d, reserved>>
        /\ inflight_bytes' = inflight_bytes + Size[i + d] /\ inflight_bytes' <= MaxU64
        /\ pc = "look" /\ pc' = (IF CopyCache THEN "request" ELSE "advise")
        /\ ~OverBudget(i + d)
    BY <1>7, AdmittedBooks DEF LookAdmits, Looking
  <2>2. pf'.max_inflight = pf.max_inflight
    BY <1>7, Locals DEF LookAdmits, Totals
  <2>3. Size[i + d] \in Nat
    BY <2>1, Locals
  <2>4. Fits(i + d)
    BY <1>1, <1>3, <2>1, <2>3 DEF OverBudget, Fits
  <2>5. Fits(i + d)'
    BY <1>1, <2>1, <2>4 DEF Fits
  <2>6. Promised <= reserved
    BY <1>4, <2>1 DEF Headroom
  <2>7. CASE CopyCache
    <3>1. Promised' = Promised
      BY <1>1, <1>2, <2>7 DEF Promised
    <3> QED  BY <1>1, <1>2, <1>4, <2>1, <2>2, <2>5, <2>6, <2>7, <3>1
             DEF Headroom, PendingWithinBudget
  <2>8. CASE ~CopyCache
    <3>1. Promised' = inflight_bytes + Size[i + d] /\ Promised = inflight_bytes
      BY <1>1, <2>1, <2>8 DEF Promised
    <3>2. inflight_bytes' <= InflightLimit
      BY <1>1, <1>3, <2>1, <2>3, <2>4, <2>6, <3>1 DEF Fits
    <3>3. Promised' <= reserved + Size[i + d]
      BY <1>3, <2>3, <2>6, <3>1
    <3> QED  BY <1>1, <1>2, <1>4, <2>1, <2>2, <2>5, <2>8, <3>2, <3>3
             DEF Headroom, PendingWithinBudget
  <2> QED  BY <2>7, <2>8
<1>8. CASE Advises
  <2>1. pc = "advise" /\ pc' = "look" /\ Charged
    BY <1>8 DEF Advises
  <2>2. Promised <= reserved + Size[i + d]
    BY <1>4, <2>1 DEF Headroom
  <2> QED  BY <1>2, <2>1, <2>2, ChargedKeepsBudget
<1> QED  BY <1>5, <1>6, <1>7, <1>8

\* A request adds no more than was charged for it.
LEMMA RequestKeepsBudget ==
    ASSUME RuntimeInv, UNCHANGED cfg, RequestBegins \/ RequestContinues
    PROVE  Headroom' /\ PendingWithinBudget'
<1>1. /\ CopyCache' = CopyCache /\ InflightLimit' = InflightLimit
      /\ InflightLimit \in Nat /\ InflightLimit <= MaxU64 /\ Unlimited = MaxU64 /\ MaxU64 \in Nat
  BY LimitsStay, Limits, Locals, BytesAssumption
<1>2. /\ PendingWithinBudget /\ Headroom /\ Calling
      /\ pc \in {"request", "requesting"} => i + d \in Ids
  BY Locals DEF RuntimeInv, Ahead
<1>3. /\ reserved \in Nat /\ pending_bytes \in Nat
      /\ peak_pending_bytes \in Nat /\ pending_bytes <= MaxU64
  BY Locals
<1>4. CASE RequestBegins
  <2>1. /\ pc = "request" /\ pc' = "requesting" /\ call' = "filter"
        /\ UNCHANGED <<pending_bytes, peak_pending_bytes, i, d, reserved, inflight_bytes, pf>>
    BY <1>4 DEF RequestBegins, RequestEnters, queueVars, streamVars
  <2>2. Promised' = Promised /\ Fits(i + d)' /\ CopyCache /\ Promised <= reserved
    BY <1>1, <1>2, <2>1 DEF Promised, Fits, Headroom
  <2>3. Promised <= reserved + 0
    BY <1>3, <2>2 DEF Promised
  <2> QED  BY <1>1, <1>2, <2>1, <2>2, <2>3 DEF Headroom, PendingWithinBudget
<1>5. CASE RequestContinues
  <2>1. pc = "requesting" /\ arg = i + d /\ i + d \in Ids /\ Size[i + d] \in Nat
    BY <1>2, <1>5, Locals DEF RequestContinues, Calling
  <2>2. /\ CopyCache /\ Promised = pending_bytes /\ Fits(i + d)
        /\ pending_bytes <= reserved + (IF call = "notify" THEN Size[i + d] ELSE 0)
    BY <1>2, <2>1 DEF Headroom, Promised
  <2>3. CASE call' = "none"
    <3>1. UNCHANGED <<pending_bytes, peak_pending_bytes>>
      BY <1>5, <2>3 DEF RequestContinues, RequestFilters, RequestDropped, RequestEnqueues,
         EnqueuesIf, RequestNotifies, queueVars
    <3>2. Charged /\ pc' = "look"
      BY <1>5, <2>3 DEF RequestContinues
    <3>3. Promised <= reserved + Size[i + d]
      BY <1>3, <2>1, <2>2
    <3> QED  BY <2>1, <3>1, <3>2, <3>3, ChargedKeepsBudget
  <2>4. CASE call' # "none"
    <3>1. pc' = "requesting" /\ UNCHANGED <<i, d, reserved, inflight_bytes, pf>>
      BY <1>5, <2>1, <2>4 DEF RequestContinues, streamVars
    <3>2. Fits(i + d)' /\ CopyCache'
      BY <1>1, <2>2, <3>1 DEF Fits
    <3>3. CASE RequestEnqueues
      <4>1. /\ pending_bytes' = U64Plus(pending_bytes, Size[i + d])
            /\ Size[i + d] <= MaxU64 - pending_bytes
            /\ peak_pending_bytes' = Larger(peak_pending_bytes, pending_bytes')
            /\ call = "enqueue" /\ call' = "notify"
        BY <2>1, <3>3 DEF RequestEnqueues, EnqueuesIf
      <4>2. /\ pending_bytes' = pending_bytes + Size[i + d] /\ pending_bytes' <= MaxU64
        BY <1>1, <1>3, <2>1, <4>1 DEF U64Plus
      <4>3. pending_bytes' <= reserved + Size[i + d]
        BY <1>3, <2>1, <2>2, <4>1, <4>2
      <4>4. pending_bytes' <= InflightLimit
        BY <1>1, <1>3, <2>1, <2>2, <4>2, <4>3 DEF Fits
      <4>5. peak_pending_bytes' <= InflightLimit
        BY <1>2, <2>2, <4>1, <4>4 DEF Larger, PendingWithinBudget
      <4>6. Promised' <= (reserved + (IF call = "notify" THEN Size[i + d] ELSE 0))'
        BY <3>1, <3>2, <4>1, <4>3 DEF Promised
      <4> QED  BY <1>1, <1>2, <3>1, <3>2, <4>5, <4>6 DEF Headroom, PendingWithinBudget
    <3>4. CASE ~RequestEnqueues
      <4>1. call = "filter" /\ call' = "enqueue" /\ UNCHANGED <<pending_bytes, peak_pending_bytes>>
        BY <1>5, <2>4, <3>4 DEF RequestContinues, RequestFilters, RequestDropped,
           RequestNotifies, Return, queueVars
      <4>2. Promised' <= (reserved + (IF call = "notify" THEN Size[i + d] ELSE 0))'
        BY <1>3, <2>2, <3>1, <3>2, <4>1 DEF Promised
      <4> QED  BY <1>1, <1>2, <3>1, <3>2, <4>1, <4>2 DEF Headroom, PendingWithinBudget
    <3> QED  BY <3>3, <3>4
  <2> QED  BY <2>3, <2>4
<1> QED  BY <1>4, <1>5

LEMMA BudgetKept ==
    ASSUME RuntimeInv, [RuntimeNext]_runtimeVars
    PROVE  Headroom' /\ PendingWithinBudget'
<1>1. UNCHANGED cfg
  BY DEF RuntimeNext, runtimeVars
<1>2. inflight_bytes \in Nat /\ Calling /\ Ahead
  BY Locals DEF RuntimeInv
<1>3. CASE Reserves \/ LookSkips \/ LookOverBudget \/ LookAdmits \/ Advises
  BY <1>1, <1>3, LookKeepsBudget
<1>4. CASE Alone /\ ~(Reserves \/ LookSkips \/ LookOverBudget \/ LookAdmits \/ Advises)
  <2>1. peak_pending_bytes' = peak_pending_bytes
    BY <1>4, AloneIs DEF prefetcherVars, queueVars
  <2>2. CASE ArrivesUseful \/ KeepsLate
    <3>1. Consumed /\ i \in requested /\ reserved' = reserved
      BY <1>2, <2>2 DEF ArrivesUseful, KeepsLate, Consumed, Ahead
    <3>2. inflight_bytes' <= inflight_bytes /\ inflight_bytes' \in Nat
      <4>1. inflight_bytes' <= inflight_bytes /\ inflight_bytes' = BytesOf(requested') /\ requested' \in SUBSET Ids
        BY <3>1, ConsumedBooks
      <4> QED  BY <4>1, BytesOfType
    <3>3. pf'.max_inflight = pf.max_inflight /\ pc' = "reserve"
      BY <2>2, Locals DEF ArrivesUseful, KeepsLate, Totals
    <3> QED  BY <1>1, <2>1, <3>1, <3>2, <3>3, BudgetStays
  <2>3. CASE ArrivesLate \/ PassEnds \/ PassBegins
    <3>1. /\ reserved' = reserved /\ pc' \in {"late", "pass", "pass_end", "scan"}
          /\ inflight_bytes' \in {0, inflight_bytes}
      BY <2>3 DEF ArrivesLate, PassEnds, PassBegins
    <3>2. pf'.max_inflight = pf.max_inflight
      BY <2>3, Locals DEF ArrivesLate, PassEnds, PassBegins, Totals
    <3> QED  BY <1>1, <1>2, <2>1, <3>1, <3>2, BudgetStays
  <2>4. CASE ~(ArrivesUseful \/ KeepsLate \/ ArrivesLate \/ PassEnds \/ PassBegins)
    <3>1. UNCHANGED <<reserved, pf, inflight_bytes>>
      BY <1>4, <2>4, Zenon DEF Alone, PassesEnd, ScansLate, ScanEnds, LookEnds, RequestThrows,
         Loads, LoadThrows, Observes, NextItem, RunReturns, ItemDone, streamVars
    <3>2. pc' \notin {"look", "advise", "request", "requesting"}
      BY <1>4, <2>4 DEF Alone, PassesEnd, ScansLate, ScanEnds, LookEnds, RequestThrows,
         Loads, LoadThrows, Observes, NextItem, RunReturns, ItemDone
    <3> QED  BY <1>1, <1>2, <2>1, <3>1, <3>2, BudgetStays
  <2> QED  BY <2>2, <2>3, <2>4
<1>5. CASE RequestBegins \/ RequestContinues
  BY <1>1, <1>5, RequestKeepsBudget
<1>6. CASE Stopping
  <2>1. UNCHANGED <<reserved, pf, inflight_bytes>>
    BY <1>6, StoppingIs DEF streamVars
  <2>2. pc' \notin {"look", "advise", "request", "requesting"}
    BY <1>6, StoppingIs
  <2>3. peak_pending_bytes' = peak_pending_bytes
    BY <1>6, StoppingIs DEF StopBegins, StopNotifies, StopJoins, StopCancels, CancelAll, queueVars
  <2> QED  BY <1>1, <1>2, <2>1, <2>2, <2>3, BudgetStays
<1>7. CASE Background \/ Spurious
  <2>1. /\ UNCHANGED <<pc, i, d, reserved, pf, inflight_bytes, call>>
        /\ pending_bytes' <= pending_bytes /\ peak_pending_bytes' = peak_pending_bytes
    BY <1>7, BackgroundIs DEF RuntimeInv, streamVars
  <2>2. pending_bytes' \in Nat
    BY PrefetcherKept, SizeIsWord DEF PrefetchInv, PrefetcherTypeOK
  <2>3. CopyCache' = CopyCache /\ InflightLimit' = InflightLimit
    BY <1>1, LimitsStay
  <2>4. Promised' <= Promised /\ Promised \in Nat /\ Promised' \in Nat
    BY <1>2, <2>1, <2>2, <2>3, Locals DEF Promised
  <2>5. Headroom /\ PendingWithinBudget /\ reserved \in Nat
    BY Locals DEF RuntimeInv
  <2>6. Fits(i + d)' = Fits(i + d)
    BY <2>1, <2>3 DEF Fits
  <2>7. PendingWithinBudget'
    BY <2>1, <2>3, <2>5 DEF PendingWithinBudget
  <2>8. pc \in {"advise", "requesting"} => Size[i + d] \in Nat
    BY <1>2, Locals DEF Ahead
  <2>9. Headroom'
    BY <2>1, <2>3, <2>4, <2>5, <2>6, <2>8 DEF Headroom
  <2> QED  BY <2>7, <2>9
<1>8. CASE UNCHANGED runtimeVars
  BY <1>8, Zenon DEF RuntimeInv, Headroom, PendingWithinBudget, Promised, Fits, CopyCache,
     InflightLimit, ConfiguredBudget, PrefetchBudget, AdaptiveCacheLimit, Adaptive, runtimeVars,
     streamVars, prefetchVars, prefetcherVars, queueVars, callVars
<1> QED  BY <1>3, <1>4, <1>5, <1>6, <1>7, <1>8, NextIs

-----------------------------------------------------------------------------
LEMMA RuntimeStarts == RuntimeInit => RuntimeInv
<1> SUFFICES ASSUME RuntimeInit PROVE RuntimeInv
  OBVIOUS
<1>1. /\ cfg \in Configs /\ pc = "pass" /\ i = 0 /\ d = 1 /\ requested = {}
      /\ inflight_bytes = 0 /\ reserved = 0 /\ window = EmptyWindow
      /\ pf = [requests |-> 0, useful |-> 0, unused |-> 0, late |-> 0,
               eligible |-> 0, skipped_budget |-> 0, max_inflight |-> 0]
      /\ call = "none" /\ peak_pending_bytes = 0
  BY DEF RuntimeInit, PrefetchInit, PrefetcherInit
<1>2. PrefetchInv
  BY PrefetchStarts DEF RuntimeInit
<1>3. InflightLimit \in Nat /\ WindowItems \in Nat /\ WindowItems >= 1
  BY <1>1, Limits
<1>4. StreamTypeOK
  BY <1>1 DEF StreamTypeOK, EmptyWindow, Counted, Totals
<1>5. Ahead /\ Calling
  BY <1>1 DEF Ahead, Calling, Using
<1>6. Books
  <2>1. Cardinality(Outstanding) = 0 /\ BytesOf(requested) = 0
    BY <1>1, FS_EmptySet, BytesOfEmpty DEF Outstanding
  <2> QED  BY <1>1, <2>1 DEF Books
<1>7. Headroom /\ PendingWithinBudget
  BY <1>1, <1>3 DEF Headroom, PendingWithinBudget
<1>8. Windows
  BY <1>1, <1>3 DEF Windows, EmptyWindow, Using, Left
<1> QED  BY <1>2, <1>4, <1>5, <1>6, <1>7, <1>8 DEF RuntimeInv

LEMMA RuntimeKept == RuntimeInv /\ [RuntimeNext]_runtimeVars => RuntimeInv'
BY PrefetcherKept, CallingKept, AccountsKept, BudgetKept DEF RuntimeInv, Accounts

LEMMA RuntimeAlways == RuntimeSpec => []RuntimeInv
BY RuntimeStarts, RuntimeKept, PTL DEF RuntimeSpec

(***************************************************************************)
(* However many slices and passes, whatever the budget, and wherever the   *)
(* background thread is when the consumer reads pending_bytes(): what is   *)
(* queued or being copied, and what the consumer reports as reserved,      *)
(* stays within the limit that run_stream derives.                         *)
(***************************************************************************)
THEOREM BudgetHolds == RuntimeSpec => []PendingWithinBudget
BY RuntimeAlways, PTL DEF RuntimeInv

(***************************************************************************)
(* Every request is reported once, as useful or as unused, or outstanding; *)
(* none is left when a pass ends; and inflight_bytes is the size of those  *)
(* outstanding, so that the guarded subtraction never cuts anything off    *)
(* and the addition never wraps.                                           *)
(***************************************************************************)
THEOREM RequestsAreAccounted == RuntimeSpec => []EveryRequestAccounted
<1>1. RuntimeInv => EveryRequestAccounted
  BY DEF RuntimeInv, Ahead, Books, EveryRequestAccounted
<1> QED  BY <1>1, RuntimeAlways, PTL

(***************************************************************************)
(* The window reported to the controller is complete, every request met in *)
(* it useful or late, and no more of them than slices were read.           *)
(***************************************************************************)
THEOREM WindowsAreConsistent == RuntimeSpec => []WindowIsConsistent
<1>1. RuntimeInv => WindowIsConsistent
  <2> SUFFICES ASSUME RuntimeInv, pc = "observe"
               PROVE  /\ window.items = WindowItems
                      /\ window.useful + window.late = window.consumed
                      /\ window.consumed <= window.items
    BY DEF WindowIsConsistent
  <2>1. /\ window.useful \in Nat /\ window.late \in Nat /\ window.consumed \in Nat
        /\ window.items \in Nat
    BY Locals DEF Counted
  <2> QED  BY <2>1 DEF RuntimeInv, Windows, Using, Left
<1> QED  BY <1>1, RuntimeAlways, PTL

(***************************************************************************)
(* run_stream does not return normally once a background copy has failed,  *)
(* and the background thread is gone when the Runtime is, whichever way    *)
(* run_stream was left.                                                    *)
(***************************************************************************)
THEOREM RunsEndClean == RuntimeSpec => []RunEndsClean
<1>1. RuntimeInv => RunEndsClean
  BY DEF RuntimeInv, Calling, PrefetchInv, QuietAfterStop, RunEndsClean
<1> QED  BY <1>1, RuntimeAlways, PTL
=============================================================================
