----------------------------- MODULE PolicyRun -----------------------------
(***************************************************************************)
(* The adaptive controller fed with windows one after the other, and what  *)
(* it promises about its decisions.  `last', `baseline', `refused' and     *)
(* `steady' are history: they only record what happened.                   *)
(***************************************************************************)
EXTENDS PrefetchPolicy

CONSTANTS
    CfgDepth,      \* the depth the controller is constructed with
    Feedback,      \* [consumed, useful, late] of a window (WindowIsConsistent)
    Peaks,         \* peak_inflight_bytes of a window
    Limit,         \* inflight_limit
    MaxEvictions,  \* bound on the cache's cumulative eviction counter
    MaxStable      \* bound on stable_windows_, except in a row of steady windows

ASSUME RunAssumption ==
    /\ CfgDepth \in Nat
    /\ Feedback \subseteq [consumed : Nat, useful : Nat, late : Nat]
    /\ \A f \in Feedback : f.useful + f.late = f.consumed
    /\ Peaks \subseteq Nat
    /\ Limit \in Nat
    /\ MaxEvictions \in Nat /\ MaxStable \in Nat

VARIABLES
    last,        \* the last window observed
    baseline,    \* latency of the last window that did not end a probe by a descent
    refused,     \* the depths from which a probe was rejected in this phase
    steady       \* steady windows in a row, counted up to Patience

runVars == <<policyVars, last, baseline, refused, steady>>

Window(f, ms, skips, evicted, peak) ==
    [average_item_ms |-> ms, consumed |-> f.consumed, useful |-> f.useful,
     late |-> f.late, budget_skips |-> skips,
     evictions |-> ctl.previous_evictions + evicted,
     peak_inflight_bytes |-> peak, inflight_limit |-> Limit]

Quiet == [average_item_ms |-> 0, consumed |-> 0, useful |-> 0, late |-> 0,
          budget_skips |-> 0, evictions |-> 0, peak_inflight_bytes |-> 0,
          inflight_limit |-> Limit]

RunInit ==
    /\ PolicyInit(CfgDepth)
    /\ last = Quiet
    /\ baseline = Infinite
    /\ refused = {}
    /\ steady = 0

Rejects(w) == ctl.probing_up /\ (HardPressure(w) \/ ~ProbeNonRegressive(w))

\* A window that asks for more, with room for it, at the stream's best latency,
\* and is not the first.
Steady(w) ==
    /\ ctl.previous_window_ms # Infinite
    /\ w.late > 0 /\ HighUsefulness(w)
    /\ w.budget_skips = 0
    /\ ByteHeadroom(w)
    /\ \A ms \in Latencies : w.average_item_ms <= ms

\* A step takes three windows (the probe is judged, then two of cooldown and
\* stability), the first one two.
Patience == IF MaxDepth = MinDepth THEN 0 ELSE 3 * (MaxDepth - MinDepth) - 1

ObserveWindow(w) ==
    /\ \/ ctl.stable_windows < MaxStable
       \/ steady \in 1 .. (Patience - 1) /\ Steady(w)
    /\ w.evictions <= MaxEvictions
    /\ Observe(w)
    /\ last' = w
    /\ baseline' = IF adjustment = "up" /\ adjustment' = "down"
                   THEN baseline ELSE w.average_item_ms
    /\ refused' = IF Rejects(w) THEN refused \cup {ctl.probe_from_depth}
                  ELSE IF Calm(w) /\ PhaseChanged(w) THEN {} ELSE refused
    /\ steady' = IF ~Steady(w) THEN 0 ELSE IF steady < Patience THEN steady + 1 ELSE steady

RunNext ==
    \E f \in Feedback, ms \in Latencies, skips \in {0, 1}, evicted \in {0, 1},
       peak \in Peaks : ObserveWindow(Window(f, ms, skips, evicted, peak))

RunSpec == RunInit /\ [][RunNext]_runVars

-----------------------------------------------------------------------------
(***************************************************************************)
(* Properties.                                                             *)
(***************************************************************************)
(***************************************************************************)
(* What one window after another says for giving a step up: the thresholds *)
(* of the code, on the windows alone and not on the controller's fields.   *)
(***************************************************************************)
UnderPressure(before, w) ==
    \/ w.budget_skips > 0
    \/ LowUsefulness(w)
    \/ /\ w.evictions > before.evictions
       /\ HaveUsefulness(w) /\ ~HighUsefulness(w)

TooSlow(reference, w, probe) ==
    /\ reference # Infinite
    /\ IF probe THEN 1000 * w.average_item_ms > 1005 * reference
                ELSE 100 * w.average_item_ms > 105 * reference

(***************************************************************************)
(* A step is given up exactly when a window asks for it: one under         *)
(* pressure, or one too slow beside the last window whose depth the        *)
(* controller stood by.  A rejected probe leaves nothing behind: neither   *)
(* its depth nor its latency counts in what comes after, so the window     *)
(* that follows is judged by the one from before the probe, and the        *)
(* look-ahead never goes below where the probe began on the strength of a  *)
(* probe that was fast but under pressure (prefetch_policy.cpp:57-67).     *)
(***************************************************************************)
DownIsEarned ==
    [][/\ ctl'.depth < ctl.depth <=>
             /\ ctl.depth > MinDepth
             /\ \/ UnderPressure(last, last')
                \/ TooSlow(baseline, last', adjustment = "up")
       /\ ctl'.depth < ctl.depth => ctl'.depth = ctl.depth - 1]_runVars

(***************************************************************************)
(* "If the probe is rejected, remember that exact transition so a          *)
(* homogeneous stream does not repeatedly pay for the same failed          *)
(* experiment."  The controller remembers one transition only; still no    *)
(* rejected one is tried again before a phase change.                      *)
(***************************************************************************)
NoRepeatedExperiment ==
    [][adjustment' = "up" /\ ctl'.depth > ctl.depth => ctl.depth \notin refused]_runVars

(***************************************************************************)
(* A deeper look-ahead is earned by two windows in a row: the last one and *)
(* the one before it each had a late request, were highly useful and were  *)
(* not slower by more than one percent than the one before, and neither    *)
(* changed the depth.  Memory has the last word: the last window skipped   *)
(* no request for the budget and stayed a quarter below the byte limit.    *)
(* A late request and a usefulness of 0.90 at once take ten requests met:  *)
(* with the default adaptive_window of 8 no stream ever deepens its        *)
(* look-ahead.                                                             *)
(***************************************************************************)
UpIsEarned ==
    [][ctl'.depth > ctl.depth =>
         /\ adjustment = "none"
         /\ last.late > 0 /\ HighUsefulness(last)
         /\ last'.late > 0 /\ HighUsefulness(last')
         /\ HighPct >= 90 => last.consumed >= 10 /\ last'.consumed >= 10
         /\ 100 * last'.average_item_ms <= 101 * last.average_item_ms
         /\ last'.budget_skips = 0
         /\ Limit = Unlimited \/ last'.peak_inflight_bytes < Limit - (Limit \div 4)]_runVars

(***************************************************************************)
(* When the stream settles into windows that keep reporting late requests  *)
(* at high usefulness, a steady latency and headroom, then after Patience  *)
(* of them, whatever came before (a probe in flight, a cooldown, a blocked *)
(* step), the controller is at its maximum depth or at a depth whose next  *)
(* step it has refused: no combination of its counters holds it longer.    *)
(***************************************************************************)
SteadyDemandIsServed ==
    steady = Patience => ctl.depth = MaxDepth \/ ctl.depth \in refused
=============================================================================
