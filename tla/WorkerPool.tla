----------------------------- MODULE WorkerPool -----------------------------
(***************************************************************************)
(* WorkerPool (src/src/worker_pool.cpp): threads_ - 1 worker threads and   *)
(* the threads that call parallel_for, which run the first chunk           *)
(* themselves and wait for the others.                                     *)
(*                                                                         *)
(* A critical section of m_ is one action, except the two waits on         *)
(* condition variables, which evaluate their predicate and go to sleep in  *)
(* two steps holding m_.  `ran', `threw' and `result' are history: how     *)
(* often an index of the current call was handed to its function (a chunk  *)
(* that throws counts as handed over), whether the function threw, and how *)
(* each caller's last call ended.                                          *)
(***************************************************************************)
EXTENDS Integers, FiniteSets

CONSTANTS
    CfgThreads,   \* the constructor's arguments considered
    Callers,      \* threads that share the pool
    Lengths,      \* the n they call parallel_for with
    MaxCalls,     \* bound on the calls
    Nobody        \* neither a caller nor a worker

Indices == UNION {0 .. (len - 1) : len \in Lengths}

ASSUME PoolAssumption ==
    /\ CfgThreads # {} /\ IsFiniteSet(CfgThreads) /\ CfgThreads \subseteq Nat
    /\ Lengths # {} /\ Lengths \subseteq Nat \ {0}
    /\ MaxCalls \in Nat
    /\ Nobody \notin Callers
    /\ Callers \cap Nat = {}

VARIABLES
    threads,      \* threads_, set by the constructor
    generation,   \* generation_
    finished,     \* finished_
    error,        \* error_ # nullptr
    n,            \* n_ (fn_ travels with it)
    stop,         \* stop_
    m,            \* who holds m_ between two steps
    call_mu,      \* who holds call_mu_
    wpc,          \* where each worker is
    seen,         \* its local seen, and g
    wn,           \* its local n
    cpc,          \* where each caller is
    cn,           \* the argument of its call
    opc,          \* where the thread that destroys the pool is
    ran, threw, result

shared == <<generation, finished, error, n, stop>>
workerVars == <<wpc, seen, wn>>
callerVars == <<cpc, cn>>
history == <<ran, threw, result>>
poolVars == <<threads, shared, m, call_mu, workerVars, callerVars, opc, history>>

MaxThreads == CHOOSE k \in CfgThreads : \A j \in CfgThreads : j <= k
Workers == 1 .. (threads - 1)

PoolInit ==
    /\ threads \in {IF k < 1 THEN 1 ELSE k : k \in CfgThreads}
    /\ generation = 0 /\ finished = 0 /\ error = FALSE /\ n = 0 /\ stop = FALSE
    /\ m = Nobody /\ call_mu = Nobody
    /\ wpc = [t \in Workers |-> "check"]
    /\ seen = [t \in Workers |-> 0]
    /\ wn = [t \in Workers |-> 0]
    /\ cpc = [c \in Callers |-> "out"]
    /\ cn = [c \in Callers |-> 0]
    /\ opc = "alive"
    /\ ran = [x \in Indices |-> 0]
    /\ threw = FALSE
    /\ result = [c \in Callers |-> "none"]

-----------------------------------------------------------------------------
\* Chunk tid of a call over 0 .. len-1: [tid * step, min(len, tid * step + step)).
Step(len) == (len + threads - 1) \div threads

ChunkEnd(tid, len) ==
    IF tid * Step(len) + Step(len) < len THEN tid * Step(len) + Step(len) ELSE len
Chunk(tid, len) == {x \in 0 .. (len - 1) : tid * Step(len) <= x /\ x < ChunkEnd(tid, len)}

Process(tid, len) ==
    ran' = [x \in Indices |-> IF x \in Chunk(tid, len) THEN ran[x] + 1 ELSE ran[x]]

\* cv_.notify_all and done_.notify_one (only the caller inside waits on done_).
NotifyWorkers ==
    wpc' = [t \in Workers |-> IF wpc[t] = "waiting" THEN "check" ELSE wpc[t]]

\* Mutant: done_ is never notified.
NotifyNoCaller == UNCHANGED cpc

NotifyCaller ==
    cpc' = [c \in Callers |-> IF cpc[c] = "waiting" THEN "await" ELSE cpc[c]]

-----------------------------------------------------------------------------
(***************************************************************************)
(* worker(t).                                                              *)
(***************************************************************************)
WorkerExits(t) ==
    /\ wpc[t] = "check" /\ m = Nobody
    /\ stop
    /\ wpc' = [wpc EXCEPT ![t] = "exited"]
    /\ UNCHANGED <<shared, m, call_mu, seen, wn, callerVars, opc, history>>

WorkerTakes(t) ==
    /\ wpc[t] = "check" /\ m = Nobody
    /\ ~stop /\ generation # seen[t]
    /\ seen' = [seen EXCEPT ![t] = generation]
    /\ wn' = [wn EXCEPT ![t] = n]
    /\ wpc' = [wpc EXCEPT ![t] = "run"]
    /\ UNCHANGED <<shared, m, call_mu, callerVars, opc, history>>

WorkerFindsNothing(t) ==
    /\ wpc[t] = "check" /\ m = Nobody
    /\ ~stop /\ generation = seen[t]
    /\ m' = t
    /\ wpc' = [wpc EXCEPT ![t] = "parking"]
    /\ UNCHANGED <<shared, call_mu, seen, wn, callerVars, opc, history>>

WorkerSleeps(t) ==
    /\ wpc[t] = "parking"
    /\ m' = Nobody
    /\ wpc' = [wpc EXCEPT ![t] = "waiting"]
    /\ UNCHANGED <<shared, call_mu, seen, wn, callerVars, opc, history>>

WorkerWakesSpuriously(t) ==
    /\ wpc[t] = "waiting"
    /\ wpc' = [wpc EXCEPT ![t] = "check"]
    /\ UNCHANGED <<shared, m, call_mu, seen, wn, callerVars, opc, history>>

\* f(a, b) if a < b; an empty chunk does nothing.
WorkerRuns(t) ==
    /\ wpc[t] = "run"
    /\ Process(t, wn[t])
    /\ wpc' = [wpc EXCEPT ![t] = "finish"]
    /\ UNCHANGED <<shared, m, call_mu, seen, wn, callerVars, opc, threw, result>>

WorkerThrows(t) ==
    /\ wpc[t] = "run"
    /\ Chunk(t, wn[t]) # {}
    /\ Process(t, wn[t])
    /\ threw' = TRUE
    /\ wpc' = [wpc EXCEPT ![t] = "catch"]
    /\ UNCHANGED <<shared, m, call_mu, seen, wn, callerVars, opc, result>>

WorkerCatches(t) ==
    /\ wpc[t] = "catch" /\ m = Nobody
    /\ error' = (error \/ seen[t] = generation)
    /\ wpc' = [wpc EXCEPT ![t] = "finish"]
    /\ UNCHANGED <<generation, finished, n, stop>>
    /\ UNCHANGED <<m, call_mu, seen, wn, callerVars, opc, history>>

WorkerFinishes(t) ==
    /\ wpc[t] = "finish" /\ m = Nobody
    /\ finished' = IF seen[t] = generation THEN finished + 1 ELSE finished
    /\ IF seen[t] = generation /\ finished' = threads - 1
       THEN NotifyCaller ELSE UNCHANGED cpc
    /\ wpc' = [wpc EXCEPT ![t] = "check"]
    /\ UNCHANGED <<generation, error, n, stop>>
    /\ UNCHANGED <<m, call_mu, seen, wn, cn, opc, history>>

-----------------------------------------------------------------------------
(***************************************************************************)
(* parallel_for(len, fn), called by c.  (For len = 0 it returns at once.)  *)
(***************************************************************************)
CallerEnters(c, len) ==
    /\ cpc[c] = "out" /\ opc = "alive"
    /\ generation < MaxCalls
    /\ call_mu = Nobody
    /\ call_mu' = c
    /\ cn' = [cn EXCEPT ![c] = len]
    /\ cpc' = [cpc EXCEPT ![c] = IF threads <= 1 THEN "alone" ELSE "publish"]
    /\ ran' = [x \in Indices |-> 0]
    /\ threw' = FALSE
    /\ UNCHANGED <<shared, m, workerVars, opc, result>>

\* A pool of one thread: fn(0, n) ...
CallerRunsAlone(c) ==
    /\ cpc[c] = "alone"
    /\ ran' = [x \in Indices |-> IF x < cn[c] THEN ran[x] + 1 ELSE ran[x]]
    /\ threw' \in BOOLEAN
    /\ cpc' = [cpc EXCEPT ![c] = "leave"]
    /\ UNCHANGED <<shared, m, call_mu, workerVars, cn, opc, result>>

\* ... and whatever it throws.
CallerLeaves(c) ==
    /\ cpc[c] = "leave"
    /\ result' = [result EXCEPT ![c] = IF threw THEN "threw" ELSE "ok"]
    /\ cpc' = [cpc EXCEPT ![c] = "out"]
    /\ call_mu' = Nobody
    /\ UNCHANGED <<shared, m, workerVars, cn, opc, ran, threw>>

\* Mutant: the error of the call before is left in place.
CallerPublishesOldError(c) ==
    /\ cpc[c] = "publish" /\ m = Nobody
    /\ n' = cn[c]
    /\ finished' = 0
    /\ generation' = generation + 1
    /\ cpc' = [cpc EXCEPT ![c] = "notify"]
    /\ UNCHANGED <<error, stop, m, call_mu, workerVars, cn, opc, history>>

CallerPublishes(c) ==
    /\ cpc[c] = "publish" /\ m = Nobody
    /\ n' = cn[c]
    /\ finished' = 0
    /\ error' = FALSE
    /\ generation' = generation + 1
    /\ cpc' = [cpc EXCEPT ![c] = "notify"]
    /\ UNCHANGED <<stop, m, call_mu, workerVars, cn, opc, history>>

CallerNotifies(c) ==
    /\ cpc[c] = "notify"
    /\ NotifyWorkers
    /\ cpc' = [cpc EXCEPT ![c] = "own"]
    /\ UNCHANGED <<shared, m, call_mu, seen, wn, cn, opc, history>>

CallerRuns(c) ==
    /\ cpc[c] = "own"
    /\ Process(0, cn[c])
    /\ cpc' = [cpc EXCEPT ![c] = "await"]
    /\ UNCHANGED <<shared, m, call_mu, workerVars, cn, opc, threw, result>>

CallerThrows(c) ==
    /\ cpc[c] = "own"
    /\ Process(0, cn[c])
    /\ threw' = TRUE
    /\ cpc' = [cpc EXCEPT ![c] = "catch"]
    /\ UNCHANGED <<shared, m, call_mu, workerVars, cn, opc, result>>

CallerCatches(c) ==
    /\ cpc[c] = "catch" /\ m = Nobody
    /\ error' = TRUE
    /\ cpc' = [cpc EXCEPT ![c] = "await"]
    /\ UNCHANGED <<generation, finished, n, stop>>
    /\ UNCHANGED <<m, call_mu, workerVars, cn, opc, history>>

CallerWaits(c) ==
    /\ cpc[c] = "await" /\ m = Nobody
    /\ finished # threads - 1
    /\ m' = c
    /\ cpc' = [cpc EXCEPT ![c] = "parking"]
    /\ UNCHANGED <<shared, call_mu, workerVars, cn, opc, history>>

CallerSleeps(c) ==
    /\ cpc[c] = "parking"
    /\ m' = Nobody
    /\ cpc' = [cpc EXCEPT ![c] = "waiting"]
    /\ UNCHANGED <<shared, call_mu, workerVars, cn, opc, history>>

CallerWakesSpuriously(c) ==
    /\ cpc[c] = "waiting"
    /\ cpc' = [cpc EXCEPT ![c] = "await"]
    /\ UNCHANGED <<shared, m, call_mu, workerVars, cn, opc, history>>

\* Mutant: one worker is not waited for.
CallerReturnsEarly(c) ==
    /\ cpc[c] = "await" /\ m = Nobody
    /\ finished >= threads - 2
    /\ result' = [result EXCEPT ![c] = IF error THEN "threw" ELSE "ok"]
    /\ cpc' = [cpc EXCEPT ![c] = "out"]
    /\ call_mu' = Nobody
    /\ UNCHANGED <<shared, m, workerVars, cn, opc, ran, threw>>

CallerReturns(c) ==
    /\ cpc[c] = "await" /\ m = Nobody
    /\ finished = threads - 1
    /\ result' = [result EXCEPT ![c] = IF error THEN "threw" ELSE "ok"]
    /\ cpc' = [cpc EXCEPT ![c] = "out"]
    /\ call_mu' = Nobody
    /\ UNCHANGED <<shared, m, workerVars, cn, opc, ran, threw>>

-----------------------------------------------------------------------------
(***************************************************************************)
(* ~WorkerPool, when nobody is in a call.                                  *)
(***************************************************************************)
DestroyBegins ==
    /\ opc = "alive" /\ m = Nobody
    /\ \A c \in Callers : cpc[c] = "out"
    /\ stop' = TRUE
    /\ generation' = generation + 1
    /\ opc' = "notify"
    /\ UNCHANGED <<finished, error, n, m, call_mu, workerVars, callerVars, history>>

DestroyNotifies ==
    /\ opc = "notify"
    /\ NotifyWorkers
    /\ opc' = "join"
    /\ UNCHANGED <<shared, m, call_mu, seen, wn, callerVars, history>>

DestroyJoins ==
    /\ opc = "join"
    /\ \A t \in Workers : wpc[t] = "exited"
    /\ opc' = "gone"
    /\ UNCHANGED <<shared, m, call_mu, workerVars, callerVars, history>>

Gone == opc = "gone" /\ UNCHANGED poolVars

-----------------------------------------------------------------------------
WorkerStep(t) ==
    \/ WorkerExits(t) \/ WorkerTakes(t) \/ WorkerFindsNothing(t)
    \/ WorkerSleeps(t) \/ WorkerRuns(t) \/ WorkerThrows(t)
    \/ WorkerCatches(t) \/ WorkerFinishes(t)

CallerStep(c) ==
    \/ CallerRunsAlone(c) \/ CallerLeaves(c) \/ CallerPublishes(c) \/ CallerNotifies(c)
    \/ CallerRuns(c) \/ CallerThrows(c) \/ CallerCatches(c)
    \/ CallerWaits(c) \/ CallerSleeps(c) \/ CallerReturns(c)

Destroy == DestroyNotifies \/ DestroyJoins

PoolNext ==
    /\ \/ \E t \in Workers : WorkerStep(t) \/ WorkerWakesSpuriously(t)
       \/ \E c \in Callers :
             \/ CallerStep(c) \/ CallerWakesSpuriously(c)
             \/ \E len \in Lengths : CallerEnters(c, len)
       \/ DestroyBegins \/ Destroy \/ Gone
    /\ UNCHANGED threads

(***************************************************************************)
(* Every thread that can run does (strongly: m_ is held by another thread  *)
(* again and again, but never for good).  Nobody is forced to call or to   *)
(* destroy, and a sleeping thread is woken by a notification only.         *)
(***************************************************************************)
PoolFairness ==
    /\ \A t \in 1 .. (MaxThreads - 1) : SF_poolVars(t \in Workers /\ WorkerStep(t) /\ UNCHANGED threads)
    /\ \A c \in Callers : SF_poolVars(CallerStep(c) /\ UNCHANGED threads)
    /\ WF_poolVars(Destroy /\ UNCHANGED threads)

PoolSpec == PoolInit /\ [][PoolNext]_poolVars
PoolFairSpec == PoolSpec /\ PoolFairness

-----------------------------------------------------------------------------
(***************************************************************************)
(* Properties.                                                             *)
(***************************************************************************)
(***************************************************************************)
(* A worker that runs a chunk, or has yet to report one, does so for the   *)
(* call in progress: fn_ refers to locals of its caller, which must not    *)
(* have returned, and n_ must not have been overwritten by the next call.  *)
(***************************************************************************)
NoChunkOutlivesCall ==
    \A t \in Workers :
        wpc[t] \in {"run", "catch", "finish"} =>
            /\ call_mu # Nobody
            /\ cpc[call_mu] \notin {"publish", "out"}
            /\ seen[t] = generation
            /\ wn[t] = cn[call_mu]

(***************************************************************************)
(* parallel_for implements ParallelFor: when it returns every index has    *)
(* been processed, and none twice, however the n indices divide into       *)
(* chunks (concurrency_stress_tests.cpp only sees indices left out); and   *)
(* it throws exactly when its own function threw, in the caller's chunk or *)
(* in any worker's, never for an earlier call.                             *)
(***************************************************************************)
Pfor == INSTANCE ParallelFor WITH
    inside <- call_mu,
    left   <- IF call_mu = Nobody THEN {}
              ELSE {x \in 0 .. (cn[call_mu] - 1) : ran[x] # 1},
    failed <- call_mu # Nobody /\ threw

ImplementsParallelFor == Pfor!PforSpec

(***************************************************************************)
(* Every call returns, for neither side sleeps through the other's         *)
(* notification; and ~WorkerPool returns: no worker sleeps through the     *)
(* stop flag, whatever it was doing when the destructor began.             *)
(***************************************************************************)
EverybodyReturns ==
    /\ \A c \in Callers : cpc[c] # "out" ~> cpc[c] = "out"
    /\ opc = "notify" ~> opc = "gone"
=============================================================================
