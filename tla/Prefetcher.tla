----------------------------- MODULE Prefetcher -----------------------------
(***************************************************************************)
(* Prefetcher (src/src/prefetcher.cpp): a queue of slices to copy ahead,   *)
(* one background thread that copies them into the TensorCache, and the    *)
(* calls of the single thread that owns the object.                        *)
(*                                                                         *)
(* A critical section of mu_ (or of the cache's mutex) is one action; what *)
(* happens between two of them interleaves with the other thread.  The     *)
(* one section that is not atomic is cv_.wait: the thread evaluates its    *)
(* predicate and goes to sleep in two steps, holding mu_ in between.       *)
(***************************************************************************)
EXTENDS TensorCache

VARIABLES
    q,                    \* q_: front first
    pending,              \* keys of pending_ (id -> Size[id])
    pending_bytes,        \* pending_bytes_
    peak_pending_bytes,   \* peak_pending_bytes_
    stop,                 \* stop_
    error,                \* error_ # nullptr
    mu,                   \* who holds mu_ between two steps
    wpc,                  \* where the background thread is
    wid,                  \* its local id, NoSlice when out of scope
    call,                 \* where the owner's current call is
    arg                   \* the argument of that call, NoSlice without one

queueVars == <<q, pending, pending_bytes, peak_pending_bytes>>
workerVars == <<wpc, wid>>
callVars == <<call, arg>>
prefetcherVars ==
    <<queueVars, stop, error, mu, workerVars, callVars>>
prefetchVars == <<cacheVars, prefetcherVars>>

NoSlice == -1

PrefetcherInit ==
    /\ q = <<>>
    /\ pending = {}
    /\ pending_bytes = 0
    /\ peak_pending_bytes = 0
    /\ stop = FALSE
    /\ error = FALSE
    /\ mu = "free"
    /\ wpc = "check"
    /\ wid = NoSlice
    /\ call = "none"
    /\ arg = NoSlice

\* cv_.notify_one and cv_.notify_all: only the background thread waits.
Notify == wpc' = IF wpc = "waiting" THEN "check" ELSE wpc

\* The owner's call returns or throws.
Return == call' = "none" /\ arg' = NoSlice

CancelAll ==
    /\ q' = <<>>
    /\ pending' = {}
    /\ pending_bytes' = 0
    /\ UNCHANGED peak_pending_bytes

-----------------------------------------------------------------------------
(***************************************************************************)
(* request(id), called by the owner.                                       *)
(***************************************************************************)

\* rethrow_if_failed finds no error.
RequestEnters(id) ==
    /\ call = "none"
    /\ mu = "free"
    /\ ~error
    /\ call' = "filter"
    /\ arg' = id
    /\ UNCHANGED <<cacheVars, queueVars, stop, error, mu, workerVars>>

\* rethrow_if_failed finds an error: the call throws it.
RequestRethrows ==
    /\ call = "none"
    /\ mu = "free"
    /\ error
    /\ UNCHANGED prefetchVars

\* stop_.load() || cache_.contains(id), neither of them under mu_: stop_ may
\* have been read before the background thread set it.
RequestFilters ==
    /\ call = "filter"
    /\ \/ /\ stop \/ arg \in resident
          /\ Return
       \/ /\ arg \notin resident
          /\ call' = "enqueue"
          /\ UNCHANGED arg
    /\ UNCHANGED <<cacheVars, queueVars, stop, error, mu, workerVars>>

\* Under mu_, stopped or already pending: nothing to do.
RequestDropped ==
    /\ call = "enqueue"
    /\ mu = "free"
    /\ stop \/ arg \in pending
    /\ Return
    /\ UNCHANGED <<cacheVars, queueVars, stop, error, mu, workerVars>>

\* "prefetch pending-byte accounting overflow"
RequestOverflows ==
    /\ call = "enqueue"
    /\ mu = "free"
    /\ ~stop /\ arg \notin pending
    /\ Size[arg] > MaxU64 - pending_bytes
    /\ Return
    /\ UNCHANGED <<cacheVars, queueVars, stop, error, mu, workerVars>>

EnqueuesIf(admitted) ==
    /\ call = "enqueue"
    /\ mu = "free"
    /\ admitted
    /\ Size[arg] <= MaxU64 - pending_bytes
    /\ q' = Append(q, arg)
    /\ pending' = pending \cup {arg}
    /\ pending_bytes' = U64Plus(pending_bytes, Size[arg])
    /\ peak_pending_bytes' = Larger(peak_pending_bytes, pending_bytes')
    /\ call' = "notify"
    /\ UNCHANGED <<cacheVars, stop, error, mu, workerVars, arg>>

\* Mutant: no second look at stop_ under mu_.
EnqueuesStopped == EnqueuesIf(arg \notin pending)

RequestEnqueues == EnqueuesIf(~stop /\ arg \notin pending)

\* cv_.notify_one(), after mu_ has been released.
\* Mutant: the notification is forgotten.
RequestNotifiesNobody ==
    /\ call = "notify"
    /\ Return
    /\ UNCHANGED <<cacheVars, queueVars, stop, error, mu, workerVars>>

RequestNotifies ==
    /\ call = "notify"
    /\ Notify
    /\ Return
    /\ UNCHANGED <<cacheVars, queueVars, stop, error, mu, wid>>

-----------------------------------------------------------------------------
(***************************************************************************)
(* stop(), called by Runtime::run_stream and by the destructor.            *)
(***************************************************************************)
\* Mutant: stop_ is set without mu_.
StopBeginsUnlocked ==
    /\ call = "none"
    /\ stop' = TRUE
    /\ call' = "stop_notify"
    /\ UNCHANGED <<cacheVars, queueVars, error, mu, workerVars, arg>>

StopBegins ==
    /\ call = "none"
    /\ mu = "free"
    /\ stop' = TRUE
    /\ call' = "stop_notify"
    /\ UNCHANGED <<cacheVars, queueVars, error, mu, workerVars, arg>>

\* Mutant: the notification is forgotten.
StopNotifiesNobody ==
    /\ call = "stop_notify"
    /\ call' = "join"
    /\ UNCHANGED <<cacheVars, queueVars, stop, error, mu, workerVars, arg>>

StopNotifies ==
    /\ call = "stop_notify"
    /\ Notify
    /\ call' = "join"
    /\ UNCHANGED <<cacheVars, queueVars, stop, error, mu, wid, arg>>

\* Mutant: the thread is detached.
StopDetaches ==
    /\ call = "join"
    /\ call' = "cancel"
    /\ UNCHANGED <<cacheVars, queueVars, stop, error, mu, workerVars, arg>>

StopJoins ==
    /\ call = "join"
    /\ wpc = "done"
    /\ call' = "cancel"
    /\ UNCHANGED <<cacheVars, queueVars, stop, error, mu, workerVars, arg>>

StopCancels ==
    /\ call = "cancel"
    /\ mu = "free"
    /\ CancelAll
    /\ Return
    /\ UNCHANGED <<cacheVars, stop, error, mu, workerVars>>

-----------------------------------------------------------------------------
(***************************************************************************)
(* loop(), the background thread.                                          *)
(***************************************************************************)
WorkerReturns ==
    /\ wpc = "check"
    /\ mu = "free"
    /\ stop
    /\ wpc' = "done"
    /\ UNCHANGED <<cacheVars, queueVars, stop, error, mu, wid, callVars>>

WorkerTakes ==
    /\ wpc = "check"
    /\ mu = "free"
    /\ ~stop
    /\ q # <<>>
    /\ wid' = Head(q)
    /\ q' = Tail(q)
    /\ wpc' = "copy"
    /\ UNCHANGED <<cacheVars, pending, pending_bytes, peak_pending_bytes>>
    /\ UNCHANGED <<stop, error, mu, callVars>>

\* The predicate is false ...
WorkerFindsNothing ==
    /\ wpc = "check"
    /\ mu = "free"
    /\ ~stop
    /\ q = <<>>
    /\ mu' = "worker"
    /\ wpc' = "parking"
    /\ UNCHANGED <<cacheVars, queueVars, stop, error, wid, callVars>>

\* ... and the thread sleeps, releasing mu_ as it does.
WorkerSleeps ==
    /\ wpc = "parking"
    /\ mu' = "free"
    /\ wpc' = "waiting"
    /\ UNCHANGED <<cacheVars, queueVars, stop, error, wid, callVars>>

WorkerWakesSpuriously ==
    /\ wpc = "waiting"
    /\ wpc' = "check"
    /\ UNCHANGED <<cacheVars, queueVars, stop, error, mu, wid, callVars>>

\* store_.prefetch (advice to the kernel) and cache_.insert_prefetched,
\* without mu_.
WorkerCopies ==
    /\ wpc = "copy"
    /\ InsertSkipped(wid) \/ InsertCopied(wid)
    /\ wpc' = "settle"
    /\ UNCHANGED <<queueVars, stop, error, mu, wid, callVars>>

WorkerCopyThrows ==
    /\ wpc = "copy"
    /\ InsertAllocFails(wid)
    /\ wpc' = "failing"
    /\ UNCHANGED <<queueVars, stop, error, mu, wid, callVars>>

\* Mutant: the entry is erased, its bytes stay.
WorkerSettlesIdOnly ==
    /\ wpc = "settle"
    /\ mu = "free"
    /\ pending' = pending \ {wid}
    /\ wpc' = "check"
    /\ wid' = NoSlice
    /\ UNCHANGED <<cacheVars, q, pending_bytes, peak_pending_bytes, stop, error, mu>>
    /\ UNCHANGED callVars

WorkerSettles ==
    /\ wpc = "settle"
    /\ mu = "free"
    /\ pending' = pending \ {wid}
    /\ pending_bytes' = IF wid \in pending
                        THEN U64Minus(pending_bytes, Size[wid])
                        ELSE pending_bytes
    /\ wpc' = "check"
    /\ wid' = NoSlice
    /\ UNCHANGED <<cacheVars, q, peak_pending_bytes, stop, error, mu>>
    /\ UNCHANGED callVars

\* The catch block; nobody else waits on cv_, so its notify_all wakes nobody.
WorkerFails ==
    /\ wpc = "failing"
    /\ mu = "free"
    /\ error' = TRUE
    /\ CancelAll
    /\ stop' = TRUE
    /\ wpc' = "done"
    /\ wid' = NoSlice
    /\ UNCHANGED <<cacheVars, mu, callVars>>

-----------------------------------------------------------------------------
RequestSteps ==
    \/ RequestFilters \/ RequestDropped \/ RequestOverflows
    \/ RequestEnqueues \/ RequestNotifies
StopSteps == StopNotifies \/ StopJoins \/ StopCancels

\* The owner, inside a call it has begun.
OwnerContinues == RequestSteps \/ StopSteps

Worker ==
    \/ WorkerReturns \/ WorkerTakes \/ WorkerFindsNothing \/ WorkerSleeps
    \/ WorkerCopies \/ WorkerCopyThrows \/ WorkerSettles \/ WorkerFails

\* Between its calls the owner reads slices through the same cache.
OwnerLoads(id) ==
    /\ call = "none"
    /\ GetOrLoad(id)
    /\ UNCHANGED prefetcherVars

OwnerBegins ==
    \/ \E id \in Ids : RequestEnters(id) \/ OwnerLoads(id)
    \/ RequestRethrows
    \/ StopBegins

PrefetchInit == CacheInit /\ PrefetcherInit
PrefetchNext ==
    OwnerBegins \/ OwnerContinues \/ Worker \/ WorkerWakesSpuriously

(***************************************************************************)
(* Both threads run: the background thread is not starved, and the owner,  *)
(* once in a call, gets mu_ if mu_ is free again and again (strong         *)
(* fairness: a spuriously woken thread may hold it in between).  Nothing   *)
(* makes the owner begin a call, and nothing wakes a waiting thread but a  *)
(* notification.                                                           *)
(***************************************************************************)
PrefetchFairness == WF_prefetchVars(Worker) /\ SF_prefetchVars(OwnerContinues)

PrefetchSpec == PrefetchInit /\ [][PrefetchNext]_prefetchVars
PrefetchFairSpec == PrefetchSpec /\ PrefetchFairness
-----------------------------------------------------------------------------
(***************************************************************************)
(* Properties.                                                             *)
(***************************************************************************)
(***************************************************************************)
(* The background thread has a slice in hand exactly while it copies,      *)
(* settles or fails, and the owner an argument exactly inside request().   *)
(***************************************************************************)
PrefetcherTypeOK ==
    /\ q \in Seq(Ids)
    /\ pending \subseteq Ids
    /\ pending_bytes \in 0 .. MaxU64
    /\ peak_pending_bytes \in 0 .. MaxU64
    /\ stop \in BOOLEAN
    /\ error \in BOOLEAN
    /\ mu \in {"free", "worker"}
    /\ wpc \in {"check", "parking", "waiting", "copy", "settle", "failing",
                "done"}
    /\ wid \in IF wpc \in {"copy", "settle", "failing"}
              THEN Ids ELSE {NoSlice}
    /\ call \in {"none", "filter", "enqueue", "notify", "stop_notify", "join",
                 "cancel"}
    /\ arg \in IF call \in {"filter", "enqueue", "notify"}
              THEN Ids ELSE {NoSlice}

\* The slice the background thread has popped and not yet settled.
Active == IF wpc \in {"copy", "settle", "failing"} THEN {wid} ELSE {}

(***************************************************************************)
(* pending_ is exactly what is queued or being copied, each slice once:    *)
(* no slice is copied twice for one request, and none stays pending with   *)
(* nobody left to copy it.  pending_bytes_, which Runtime charges against  *)
(* the prefetch budget, is the size of pending_ at every release of mu_,   *)
(* across completion, failure and cancellation.                            *)
(***************************************************************************)
PendingIsExact ==
    /\ pending = ToSet(q) \cup Active
    /\ Active \cap ToSet(q) = {}
    /\ \A i, j \in 1 .. Len(q) : q[i] = q[j] => i = j
    /\ pending_bytes = BytesOf(pending)
    /\ pending_bytes <= peak_pending_bytes

(***************************************************************************)
(* Once the thread has failed, or stop() has returned, the thread is gone, *)
(* nothing is shown as pending, and nothing can be queued any more, even   *)
(* by a request() that passed both its early checks before the failure.    *)
(***************************************************************************)
QuietAfterStop ==
    error \/ (stop /\ call \notin {"stop_notify", "join", "cancel"}) =>
        /\ stop
        /\ wpc = "done"
        /\ q = <<>>
        /\ pending = {} /\ pending_bytes = 0

(***************************************************************************)
(* stop() returns: join() does not wait for a thread that sleeps.          *)
(***************************************************************************)
StopTerminates == call = "stop_notify" ~> call = "none"

(***************************************************************************)
(* Every requested copy is made, cancelled or failed in the end.           *)
(***************************************************************************)
PendingDrains == \A id \in Ids : id \in pending ~> id \notin pending
=============================================================================
