--------------------------- MODULE PrefetchPolicy ---------------------------
(***************************************************************************)
(* AdaptivePrefetchController (src/src/prefetch_policy.cpp): from one      *)
(* observation window at a time it decides how many slices to look ahead.  *)
(*                                                                         *)
(* Latencies are integers in an arbitrary unit, ratios are percentages (in *)
(* tenths of a percent for the 0.5% band), and Infinite stands for the     *)
(* infinity the doubles start from.  Rounding of doubles is not modelled.  *)
(***************************************************************************)
EXTENDS Integers

CONSTANTS
    CfgMinDepth,    \* config.min_depth, as the caller gives it
    CfgMaxDepth,    \* config.max_depth, as the caller gives it
    LowPct,         \* config.low_useful_ratio
    HighPct,        \* config.high_useful_ratio
    Unlimited,      \* numeric_limits<uint64_t>::max() as a byte limit
    Latencies       \* average_item_ms of a window

ASSUME PolicyAssumption ==
    /\ CfgMinDepth \in Nat /\ CfgMaxDepth \in Nat
    /\ LowPct \in 0 .. 100 /\ HighPct \in LowPct .. 100
    /\ Unlimited \in Nat /\ Latencies \subseteq Nat

Infinite == -1      \* a latency nobody has measured

\* The constructor's clamping.
MinDepth == IF CfgMinDepth = 0 THEN 1 ELSE CfgMinDepth
MaxDepth == IF CfgMaxDepth < MinDepth THEN MinDepth ELSE CfgMaxDepth
Clamped(d) == IF d < MinDepth THEN MinDepth
              ELSE IF d > MaxDepth THEN MaxDepth ELSE d

VARIABLES
    ctl,           \* the controller's fields
    adjustment     \* the adjustment of its last decision

policyVars == <<ctl, adjustment>>

PolicyInit(initial_depth) ==
    /\ ctl = [depth                       |-> Clamped(initial_depth),
              stable_windows              |-> 0,
              cooldown_windows            |-> 0,
              probe_from_depth            |-> Clamped(initial_depth),
              rejected_probe_from_depth   |-> 0,
              previous_evictions          |-> 0,
              previous_window_ms          |-> Infinite,
              probe_reference_ms          |-> 0,
              rejected_probe_reference_ms |-> Infinite,
              probing_up                  |-> FALSE,
              rejected_probe_blocked      |-> FALSE]
    /\ adjustment = "none"

-----------------------------------------------------------------------------
(***************************************************************************)
(* What a window w says.                                                   *)
(***************************************************************************)
HaveUsefulness(w) == w.consumed >= 2
LowUsefulness(w)  == HaveUsefulness(w) /\ 100 * w.useful < LowPct * w.consumed
HighUsefulness(w) == HaveUsefulness(w) /\ 100 * w.useful >= HighPct * w.consumed

NeedsMoreLookahead(w) == w.late > 0

EvictionPressure(w) ==
    /\ w.evictions > ctl.previous_evictions
    /\ HaveUsefulness(w)
    /\ ~HighUsefulness(w)

HardPressure(w) ==
    EvictionPressure(w) \/ w.budget_skips > 0 \/ LowUsefulness(w)

Slower(w) ==
    /\ ctl.previous_window_ms # Infinite
    /\ 100 * w.average_item_ms > 105 * ctl.previous_window_ms

Stable(w) ==
    /\ ctl.previous_window_ms # Infinite
    /\ 100 * w.average_item_ms <= 101 * ctl.previous_window_ms

ProbeNonRegressive(w) ==
    1000 * w.average_item_ms <= 1005 * ctl.probe_reference_ms

\* 25% headroom, with the integer division of the code.
ByteHeadroom(w) ==
    \/ w.inflight_limit = Unlimited
    \/ /\ w.inflight_limit > 0
       /\ w.peak_inflight_bytes < w.inflight_limit - (w.inflight_limit \div 4)

-----------------------------------------------------------------------------
(***************************************************************************)
(* observe(w): exactly one of the five actions below.                      *)
(***************************************************************************)
\* Mutant: the rejected probe's latency stays the one to compare with.
ProbeRejectedInPart(w) ==
    /\ ctl.probing_up
    /\ HardPressure(w) \/ ~ProbeNonRegressive(w)
    /\ ctl' = [ctl EXCEPT
                 !.depth = IF @ > ctl.probe_from_depth
                           THEN ctl.probe_from_depth ELSE @,
                 !.previous_window_ms = w.average_item_ms,
                 !.rejected_probe_from_depth = ctl.probe_from_depth,
                 !.rejected_probe_reference_ms = ctl.probe_reference_ms,
                 !.rejected_probe_blocked = TRUE,
                 !.cooldown_windows = 2,
                 !.probing_up = FALSE,
                 !.stable_windows = 0,
                 !.previous_evictions = w.evictions]
    /\ adjustment' = IF ctl.depth > ctl.probe_from_depth THEN "down" ELSE "none"

ProbeRejected(w) ==
    /\ ctl.probing_up
    /\ HardPressure(w) \/ ~ProbeNonRegressive(w)
    /\ ctl' = [ctl EXCEPT
                 !.depth = IF @ > ctl.probe_from_depth
                           THEN ctl.probe_from_depth ELSE @,
                 !.previous_window_ms = ctl.probe_reference_ms,
                 !.rejected_probe_from_depth = ctl.probe_from_depth,
                 !.rejected_probe_reference_ms = ctl.probe_reference_ms,
                 !.rejected_probe_blocked = TRUE,
                 !.cooldown_windows = 2,
                 !.probing_up = FALSE,
                 !.stable_windows = 0,
                 !.previous_evictions = w.evictions]
    /\ adjustment' = IF ctl.depth > ctl.probe_from_depth THEN "down" ELSE "none"

ProbeKept(w) ==
    /\ ctl.probing_up
    /\ ~HardPressure(w) /\ ProbeNonRegressive(w)
    /\ ctl' = [ctl EXCEPT
                 !.previous_window_ms = w.average_item_ms,
                 !.cooldown_windows = 2,
                 !.probing_up = FALSE,
                 !.stable_windows = 0,
                 !.previous_evictions = w.evictions]
    /\ adjustment' = "none"

BacksOff(w) ==
    /\ ~ctl.probing_up
    /\ HardPressure(w) \/ Slower(w)
    /\ ctl' = [ctl EXCEPT
                 !.depth = IF @ > MinDepth THEN @ - 1 ELSE @,
                 !.previous_window_ms = w.average_item_ms,
                 !.stable_windows = 0,
                 !.cooldown_windows = 2,
                 !.previous_evictions = w.evictions]
    /\ adjustment' = IF ctl.depth > MinDepth THEN "down" ELSE "none"

Calm(w) == ~ctl.probing_up /\ ~HardPressure(w) /\ ~Slower(w)

\* The proven lower depth has become materially slower since the rejection.
PhaseChanged(w) ==
    /\ ctl.rejected_probe_blocked
    /\ ctl.depth = ctl.rejected_probe_from_depth
    /\ ctl.rejected_probe_reference_ms # Infinite
    /\ 100 * w.average_item_ms > 105 * ctl.rejected_probe_reference_ms

\* Mutant: the cooldown is not counted down.
CalmedFrozen(w) ==
    [ctl EXCEPT
       !.previous_window_ms = w.average_item_ms,
       !.stable_windows = IF Stable(w) /\ HighUsefulness(w) /\ NeedsMoreLookahead(w)
                          THEN @ + 1 ELSE 0,
       !.previous_evictions = w.evictions]

\* The controller after a calm window, before it considers a probe.
Calmed(w) ==
    LET cooled == IF ctl.cooldown_windows > 0 THEN ctl.cooldown_windows - 1 ELSE 0
        steady == Stable(w) /\ HighUsefulness(w) /\ NeedsMoreLookahead(w)
    IN  [ctl EXCEPT
           !.previous_window_ms = w.average_item_ms,
           !.cooldown_windows = IF PhaseChanged(w) /\ cooled < 2 THEN 2 ELSE cooled,
           !.stable_windows = IF steady /\ ~PhaseChanged(w) THEN @ + 1 ELSE 0,
           !.rejected_probe_blocked = @ /\ ~PhaseChanged(w),
           !.previous_evictions = w.evictions]

\* Mutants: one stable window is enough; a rejected transition is tried again.
MayProbeEarly(c, w) ==
    /\ c.stable_windows >= 1
    /\ c.cooldown_windows = 0
    /\ HighUsefulness(w) /\ NeedsMoreLookahead(w) /\ ByteHeadroom(w)
    /\ ~(c.rejected_probe_blocked /\ c.depth = c.rejected_probe_from_depth)
    /\ c.depth < MaxDepth
MayProbeAgain(c, w) ==
    /\ c.stable_windows >= 2
    /\ c.cooldown_windows = 0
    /\ HighUsefulness(w) /\ NeedsMoreLookahead(w) /\ ByteHeadroom(w)
    /\ c.depth < MaxDepth

MayProbe(c, w) ==
    /\ c.stable_windows >= 2
    /\ c.cooldown_windows = 0
    /\ HighUsefulness(w)
    /\ NeedsMoreLookahead(w)
    /\ ByteHeadroom(w)
    /\ ~(c.rejected_probe_blocked /\ c.depth = c.rejected_probe_from_depth)
    /\ c.depth < MaxDepth

Holds(w) ==
    /\ Calm(w)
    /\ ~MayProbe(Calmed(w), w)
    /\ ctl' = Calmed(w)
    /\ adjustment' = "none"

ProbesUp(w) ==
    /\ Calm(w)
    /\ MayProbe(Calmed(w), w)
    /\ ctl' = [Calmed(w) EXCEPT
                 !.probe_reference_ms = w.average_item_ms,
                 !.probe_from_depth = ctl.depth,
                 !.depth = @ + 1,
                 !.probing_up = TRUE,
                 !.stable_windows = 0]
    /\ adjustment' = "up"

Observe(w) ==
    \/ ProbeRejected(w) \/ ProbeKept(w) \/ BacksOff(w) \/ Holds(w) \/ ProbesUp(w)
=============================================================================
