------------------------------ MODULE Runtime ------------------------------
(***************************************************************************)
(* Runtime::run_stream (src/src/runtime.cpp): the consumer thread reads    *)
(* the slices of the store in order, pass after pass, asking the           *)
(* Prefetcher for the slices ahead of it within a byte budget, and lets    *)
(* the adaptive controller choose how far ahead.                           *)
(*                                                                         *)
(* One action per access to state shared with the background thread (one   *)
(* critical section of the prefetcher's or of the cache's mutex), with the *)
(* computation on the consumer's locals that follows it.  The checksum and *)
(* the bytes_* telemetry, which mirror the counters kept here, are left    *)
(* out; the latency of a window is any member of Latencies.                *)
(***************************************************************************)
EXTENDS Prefetcher, PrefetchPolicy

CONSTANT Configs      \* the RunConfigs considered

Count == Cardinality(Ids)

RunConfig ==
    [passes : Nat, copy_cache : BOOLEAN, adaptive_prefetch : BOOLEAN,
     prefetch_depth : Nat, adaptive_window : Nat, prefetch_budget_bytes : 0 .. MaxU64]

\* The slices tile a file (SlicesTileFile of TensorStore), whose size is a word.
ASSUME RuntimeAssumption ==
    /\ Ids = 0 .. (Count - 1)
    /\ BytesOf(Ids) <= MaxU64
    /\ \A c \in Configs : c \in RunConfig
    /\ Unlimited = MaxU64

VARIABLES
    cfg,            \* the RunConfig the caller gave
    pc,             \* where the consumer is
    pass, i, d,     \* loop counters: pass, slice, distance ahead
    requested,      \* keys of requested
    late_pending,   \* keys of late_pending
    scan,           \* keys of late_pending still to be looked at
    inflight_bytes,
    reserved,       \* budget_reserved_bytes
    window,         \* the window_* locals
    pf,             \* PrefetchStats
    evictions       \* cache_.stats().evictions

streamVars == <<pass, i, d, requested, late_pending, scan, inflight_bytes,
                reserved, window, pf>>
runtimeVars ==
    <<cfg, prefetchVars, policyVars, pc, streamVars, evictions>>

-----------------------------------------------------------------------------
(***************************************************************************)
(* The constructor's clamping and the limits run_stream derives from it.   *)
(***************************************************************************)
CopyCache == cfg.copy_cache
Adaptive == cfg.adaptive_prefetch

PrefetchBudget ==
    IF CopyCache THEN Smaller(cfg.prefetch_budget_bytes, Capacity)
    ELSE cfg.prefetch_budget_bytes
WindowItems == Larger(1, cfg.adaptive_window)

ConfiguredBudget ==
    IF PrefetchBudget # 0 THEN PrefetchBudget
    ELSE IF CopyCache THEN Capacity ELSE Unlimited

AdaptiveCacheLimit ==
    IF CopyCache THEN Larger(1, Capacity \div 2) ELSE ConfiguredBudget

InflightLimit ==
    IF Adaptive THEN Smaller(ConfiguredBudget, AdaptiveCacheLimit)
    ELSE ConfiguredBudget

Depth == IF Adaptive THEN ctl.depth ELSE cfg.prefetch_depth

EmptyWindow ==
    [items |-> 0, consumed |-> 0, useful |-> 0, late |-> 0, skips |-> 0,
     peak |-> 0]

RuntimeInit ==
    /\ cfg \in Configs
    /\ PrefetchInit
    /\ PolicyInit(cfg.prefetch_depth)
    /\ pc = "pass"
    /\ pass = 0 /\ i = 0 /\ d = 1
    /\ requested = {} /\ late_pending = {} /\ scan = {}
    /\ inflight_bytes = 0 /\ reserved = 0
    /\ window = EmptyWindow
    /\ pf = [requests |-> 0, useful |-> 0, unused |-> 0, late |-> 0,
             eligible |-> 0, skipped_budget |-> 0, max_inflight |-> 0]
    /\ evictions = 0

\* What only the consumer's own steps change, and what they leave to others.
OthersIdle == UNCHANGED <<prefetchVars, policyVars, evictions>>

-----------------------------------------------------------------------------
(***************************************************************************)
(* The loop over passes and slices.                                        *)
(***************************************************************************)
PassBegins ==
    /\ pc = "pass"
    /\ pass < cfg.passes
    /\ requested' = {}
    /\ inflight_bytes' = 0
    /\ i' = 0
    /\ scan' = IF CopyCache THEN late_pending ELSE {}
    /\ pc' = IF Count = 0 THEN "pass_end" ELSE "scan"
    /\ UNCHANGED <<pass, d, late_pending, reserved, window, pf>>
    /\ OthersIdle

PassesEnd ==
    /\ pc = "pass"
    /\ pass = cfg.passes
    /\ pc' = "stop"
    /\ UNCHANGED streamVars
    /\ OthersIdle

ScansLate(id) ==
    /\ pc = "scan"
    /\ id \in scan
    /\ mu = "free"
    /\ scan' = scan \ {id}
    /\ late_pending' = IF id \in pending THEN late_pending
                       ELSE late_pending \ {id}
    /\ UNCHANGED <<pc, pass, i, d, requested, inflight_bytes, reserved, window, pf>>
    /\ OthersIdle

ScanEnds ==
    /\ pc = "scan"
    /\ scan = {}
    /\ pc' = IF i \in requested THEN "arrive" ELSE "reserve"
    /\ UNCHANGED streamVars
    /\ OthersIdle

\* Mutant: the request stays outstanding.
ConsumedKeepsRequest ==
    /\ inflight_bytes' = inflight_bytes - Smaller(inflight_bytes, Size[i])
    /\ UNCHANGED <<requested, pass, i, d, scan, reserved>>

Consumed ==
    /\ inflight_bytes' = inflight_bytes - Smaller(inflight_bytes, Size[i])
    /\ requested' = requested \ {i}
    /\ UNCHANGED <<pass, i, d, scan, reserved>>

\* cache_.contains(i): the request was useful ...
ArrivesUseful ==
    /\ pc = "arrive"
    /\ CopyCache => i \in resident
    /\ pf' = [pf EXCEPT !.useful = @ + 1]
    /\ window' = [window EXCEPT !.useful = @ + 1, !.consumed = @ + 1]
    /\ Consumed
    /\ pc' = "reserve"
    /\ UNCHANGED late_pending
    /\ OthersIdle

\* ... or late, ...
ArrivesLate ==
    /\ pc = "arrive"
    /\ CopyCache /\ i \notin resident
    /\ pf' = [pf EXCEPT !.unused = @ + 1, !.late = @ + 1]
    /\ window' = [window EXCEPT !.late = @ + 1]
    /\ pc' = "late"
    /\ UNCHANGED <<pass, i, d, requested, late_pending, scan, inflight_bytes, reserved>>
    /\ OthersIdle

\* ... and then prefetcher_.pending(i) decides whether it stays reserved.
KeepsLate ==
    /\ pc = "late"
    /\ mu = "free"
    /\ late_pending' = IF i \in pending THEN late_pending \cup {i}
                       ELSE late_pending
    /\ window' = [window EXCEPT !.consumed = @ + 1]
    /\ Consumed
    /\ pc' = "reserve"
    /\ UNCHANGED pf
    /\ OthersIdle

Peak(bytes) ==
    /\ reserved' = bytes
    /\ window' = [window EXCEPT !.peak = Larger(@, bytes)]
    /\ pf' = [pf EXCEPT !.max_inflight = Larger(@, bytes)]

Reserves ==
    /\ pc = "reserve"
    /\ CopyCache => mu = "free"
    /\ Peak(IF CopyCache THEN pending_bytes ELSE inflight_bytes)
    /\ d' = 1
    /\ pc' = "look"
    /\ UNCHANGED <<pass, i, requested, late_pending, scan, inflight_bytes>>
    /\ OthersIdle

-----------------------------------------------------------------------------
(***************************************************************************)
(* The look-ahead loop.                                                    *)
(***************************************************************************)
Looking == pc = "look" /\ d <= Depth /\ i + d < Count

LookEnds ==
    /\ pc = "look"
    /\ ~Looking
    /\ pc' = "load"
    /\ UNCHANGED streamVars
    /\ OthersIdle

Covered(id) ==
    \/ id \in requested
    \/ CopyCache /\ (id \in resident \/ id \in late_pending)

\* Mutant: what is reserved already does not count.
OverBudgetAlone(id) == InflightLimit # Unlimited /\ Size[id] > InflightLimit

OverBudget(id) ==
    /\ InflightLimit # Unlimited
    /\ Size[id] > InflightLimit \/ reserved > InflightLimit - Size[id]

LookSkips ==
    /\ Looking
    /\ Covered(i + d)
    /\ d' = d + 1
    /\ UNCHANGED <<pc, pass, i, requested, late_pending, scan, inflight_bytes, reserved, window, pf>>
    /\ OthersIdle

LookOverBudget ==
    /\ Looking
    /\ ~Covered(i + d)
    /\ OverBudget(i + d)
    /\ pf' = [pf EXCEPT !.eligible = @ + 1, !.skipped_budget = @ + 1]
    /\ window' = [window EXCEPT !.skips = @ + 1]
    /\ d' = d + 1
    /\ UNCHANGED <<pc, pass, i, requested, late_pending, scan, inflight_bytes, reserved>>
    /\ OthersIdle

LookAdmits ==
    /\ Looking
    /\ ~Covered(i + d)
    /\ ~OverBudget(i + d)
    /\ requested' = requested \cup {i + d}
    /\ inflight_bytes' = U64Plus(inflight_bytes, Size[i + d])
    /\ pf' = [pf EXCEPT !.eligible = @ + 1, !.requests = @ + 1]
    /\ pc' = IF CopyCache THEN "request" ELSE "advise"
    /\ UNCHANGED <<pass, i, d, late_pending, scan, reserved, window>>
    /\ OthersIdle

\* After the request: charge it, saturating, and look one further.
Charged ==
    /\ Peak(Smaller(reserved + Size[i + d], MaxU64))
    /\ d' = d + 1
    /\ UNCHANGED <<pass, i, requested, late_pending, scan, inflight_bytes>>

\* mmap-only: store_.prefetch(id) is advice to the kernel.
Advises ==
    /\ pc = "advise"
    /\ Charged
    /\ pc' = "look"
    /\ OthersIdle

RequestBegins ==
    /\ pc = "request"
    /\ RequestEnters(i + d)
    /\ pc' = "requesting"
    /\ UNCHANGED <<policyVars, streamVars, evictions>>

RequestContinues ==
    /\ pc = "requesting"
    /\ RequestFilters \/ RequestDropped \/ RequestEnqueues \/ RequestNotifies
    /\ IF call' = "none"
       THEN Charged /\ pc' = "look"
       ELSE UNCHANGED <<pc, streamVars>>
    /\ UNCHANGED <<policyVars, evictions>>

\* The background thread has failed: request() rethrows its error.
RequestThrows ==
    /\ pc = "request"
    /\ RequestRethrows
    /\ pc' = "unwind"
    /\ UNCHANGED <<policyVars, streamVars, evictions>>

-----------------------------------------------------------------------------
(***************************************************************************)
(* Consuming slice i.                                                      *)
(***************************************************************************)
CountEvictions == evictions' = evictions + Cardinality(resident \ resident')

ItemDone ==
    /\ window' = [window EXCEPT !.items = @ + 1]
    /\ pc' = IF Adaptive /\ window.items + 1 >= WindowItems
             THEN "observe" ELSE "next"
    /\ UNCHANGED <<pass, i, d, requested, late_pending, scan, inflight_bytes, reserved, pf>>

Loads ==
    /\ pc = "load"
    /\ IF CopyCache THEN Hit(i) \/ LoadMiss(i) ELSE UNCHANGED cacheVars
    /\ CountEvictions
    /\ ItemDone
    /\ UNCHANGED <<prefetcherVars, policyVars>>

LoadThrows ==
    /\ pc = "load"
    /\ CopyCache
    /\ LoadRejected(i) \/ LoadAllocFails(i)
    /\ CountEvictions
    /\ pc' = "unwind"
    /\ UNCHANGED <<prefetcherVars, policyVars, streamVars>>

ObservedWindow(ms) ==
    [average_item_ms |-> ms, consumed |-> window.consumed,
     useful |-> window.useful, late |-> window.late,
     budget_skips |-> window.skips, evictions |-> evictions,
     peak_inflight_bytes |-> window.peak, inflight_limit |-> InflightLimit]

\* Mutant: one of the counters survives into the next window.
ObservesKeepingLate ==
    /\ pc = "observe"
    /\ \E ms \in Latencies : Observe(ObservedWindow(ms))
    /\ window' = [EmptyWindow EXCEPT !.late = window.late]
    /\ pc' = "next"
    /\ UNCHANGED <<pass, i, d, requested, late_pending, scan, inflight_bytes, reserved, pf>>
    /\ UNCHANGED <<prefetchVars, evictions>>

Observes ==
    /\ pc = "observe"
    /\ \E ms \in Latencies : Observe(ObservedWindow(ms))
    /\ window' = EmptyWindow
    /\ pc' = "next"
    /\ UNCHANGED <<pass, i, d, requested, late_pending, scan, inflight_bytes, reserved, pf>>
    /\ UNCHANGED <<prefetchVars, evictions>>

NextItem ==
    /\ pc = "next"
    /\ i' = i + 1
    /\ scan' = IF CopyCache /\ i + 1 < Count THEN late_pending ELSE {}
    /\ pc' = IF i + 1 < Count THEN "scan" ELSE "pass_end"
    /\ UNCHANGED <<pass, d, requested, late_pending, inflight_bytes, reserved, window, pf>>
    /\ OthersIdle

\* Requests nobody consumed in this pass.  (There are none, as
\* EveryRequestAccounted says; so it does not matter that the code asks
\* pending() of them one by one.)
PassEnds ==
    /\ pc = "pass_end"
    /\ pf' = [pf EXCEPT !.unused = @ + Cardinality(requested)]
    /\ late_pending' = IF CopyCache THEN late_pending \cup (requested \cap pending)
                       ELSE late_pending
    /\ requested' = {}
    /\ inflight_bytes' = 0
    /\ pass' = pass + 1
    /\ pc' = "pass"
    /\ UNCHANGED <<i, d, scan, reserved, window>>
    /\ OthersIdle

-----------------------------------------------------------------------------
(***************************************************************************)
(* The end of the run, of the exception, and of the object.                *)
(***************************************************************************)
CallsStop(from, to) ==
    /\ pc = from
    /\ StopBegins
    /\ pc' = to
    /\ UNCHANGED <<policyVars, streamVars, evictions>>

ContinuesStop(from, to) ==
    /\ pc = from
    /\ StopNotifies \/ StopJoins \/ StopCancels
    /\ pc' = IF call' = "none" THEN to ELSE from
    /\ UNCHANGED <<policyVars, streamVars, evictions>>

RunStops == CallsStop("stop", "stopping")
RunJoins == ContinuesStop("stopping", "verdict")

\* prefetcher_.rethrow_if_failed(), the last thing that can throw.
RunReturns ==
    /\ pc = "verdict"
    /\ mu = "free"
    /\ pc' = IF error THEN "unwind" ELSE "returned"
    /\ UNCHANGED streamVars
    /\ OthersIdle

\* A second run_stream: "Runtime::run_stream is single-shot".
SecondRunThrows ==
    /\ pc = "returned"
    /\ UNCHANGED runtimeVars

\* ~Runtime, after a return or an exception, runs ~Prefetcher and its stop().
Destroys == CallsStop("returned", "destroying") \/ CallsStop("unwind", "destroying")
DestroyJoins == ContinuesStop("destroying", "destroyed")

Destroyed ==
    /\ pc = "destroyed"
    /\ UNCHANGED runtimeVars

-----------------------------------------------------------------------------
Consumer ==
    \/ PassBegins \/ PassesEnd
    \/ \E id \in Ids : ScansLate(id)
    \/ ScanEnds \/ ArrivesUseful \/ ArrivesLate \/ KeepsLate \/ Reserves
    \/ LookEnds \/ LookSkips \/ LookOverBudget \/ LookAdmits
    \/ Advises \/ RequestBegins \/ RequestContinues \/ RequestThrows
    \/ Loads \/ LoadThrows \/ Observes \/ NextItem \/ PassEnds
    \/ RunStops \/ RunJoins \/ RunReturns \/ Destroys \/ DestroyJoins

Background ==
    /\ Worker
    /\ CountEvictions
    /\ UNCHANGED <<policyVars, pc, streamVars>>

Spurious ==
    /\ WorkerWakesSpuriously
    /\ UNCHANGED <<policyVars, pc, streamVars, evictions>>

RuntimeNext ==
    /\ Consumer \/ Background \/ Spurious \/ SecondRunThrows \/ Destroyed
    /\ UNCHANGED cfg

\* Both threads run; see PrefetchFairness for the strong fairness.
RuntimeFairness ==
    /\ WF_runtimeVars(Background /\ UNCHANGED cfg)
    /\ SF_runtimeVars(Consumer /\ UNCHANGED cfg)

RuntimeSpec == RuntimeInit /\ [][RuntimeNext]_runtimeVars
RuntimeFairSpec == RuntimeSpec /\ RuntimeFairness

-----------------------------------------------------------------------------
(***************************************************************************)
(* Properties.                                                             *)
(***************************************************************************)
(***************************************************************************)
(* What is queued or being copied never exceeds the budget, although the   *)
(* consumer reads pending_bytes() once per slice and then works from that  *)
(* copy while the background thread moves on.  tests.cpp checks the peaks  *)
(* of both against the budget.                                             *)
(***************************************************************************)
PendingWithinBudget ==
    /\ reserved <= InflightLimit
    /\ pf.max_inflight <= InflightLimit
    /\ CopyCache => peak_pending_bytes <= InflightLimit

(***************************************************************************)
(* Every request is reported once, as useful or as unused, or is still     *)
(* outstanding: none is lost or counted twice between slices and passes,   *)
(* and none is left when a pass ends, so that the loop there               *)
(* (runtime.cpp:247-255) has nothing to do.  inflight_bytes is the size of *)
(* the requests outstanding: the std::min that guards its subtraction      *)
(* never has to cut anything off.                                          *)
(***************************************************************************)
Outstanding == IF pc = "late" THEN requested \ {i} ELSE requested

EveryRequestAccounted ==
    /\ pf.requests = pf.useful + pf.unused + Cardinality(Outstanding)
    /\ pc = "pass_end" => requested = {}
    /\ pc \notin {"unwind", "destroying", "destroyed"}
        => inflight_bytes = BytesOf(requested)

(***************************************************************************)
(* What the controller is told about a window is about that window: every  *)
(* request met was either useful or late, and no more were met than slices *)
(* were read; what PolicyRun feeds the controller obeys it.                *)
(***************************************************************************)
WindowIsConsistent ==
    pc = "observe" => /\ window.items = WindowItems
                      /\ window.useful + window.late = window.consumed
                      /\ window.consumed <= window.items

(***************************************************************************)
(* A copy that failed in the background is never swallowed: run_stream     *)
(* does not return normally after it, not even when the failure comes      *)
(* after the last request.  And the background thread, which holds         *)
(* references to the store and the cache, is gone before the Runtime that  *)
(* owns them is, also when run_stream is left by an exception.             *)
(***************************************************************************)
RunEndsClean ==
    /\ pc = "returned" => ~error
    /\ pc = "destroyed" => wpc = "done"

(***************************************************************************)
(* run_stream ends, by return or by exception.                             *)
(***************************************************************************)
RunTerminates == <>(pc \in {"returned", "unwind"})

(***************************************************************************)
(* "Requests that were consumed before the worker finished stay reserved   *)
(* here until Prefetcher reports that the queued/active copy has actually  *)
(* ended" (runtime.cpp, of late_pending).                                  *)
(***************************************************************************)
ConsumedStaysReserved ==
    [][\A id \in requested \ requested' :
         CopyCache /\ id \in pending => id \in late_pending']_runtimeVars

(***************************************************************************)
(* runtime.hpp describes the budget as the "maximum bytes reserved by the  *)
(* look-ahead hot set": the slices requested ahead of the consumer whose   *)
(* copy is under way or waits in the cache for it, and the late ones until *)
(* the prefetcher has finished them.                                       *)
(***************************************************************************)
HotSet == {id \in requested : id \in pending \/ id \in resident}
            \cup (late_pending \cap pending)

HotSetWithinBudget == BytesOf(HotSet) <= InflightLimit
=============================================================================
