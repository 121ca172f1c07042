--------------------------- MODULE OnlineCalibration ---------------------------
(***************************************************************************)
(* Level C calibration (personalization/calibration.py,                    *)
(* BoundedOnlineCalibration): a user's neutral and range drift from the    *)
(* baseline profile in small steps, on explicit evidence of high           *)
(* confidence that was held long enough, and can be rolled back some steps *)
(* or reset.  Numbers are integers: a step of the code is a unit here.     *)
(***************************************************************************)
EXTENDS Integers, Sequences, SequencesExt, FiniteSetsExt

CONSTANTS Baseline,        \* [neutral, negative, positive] of each signal
          Observed,        \* values a signal may show
          MaxNeutralDrift, \* maximum_neutral_drift
          SpanFraction,    \* a span may change by one SpanFraction-th of its baseline
          MaxStep,         \* maximum_step
          MinSpan,         \* the least span there may be
          RollbackDepth,   \* rollback_depth
          MaxUpdates       \* bound

Signals == DOMAIN Baseline

VARIABLES current,  \* the profile in use
          history,  \* snapshots, the newest last
          trail,    \* ghost: every profile the present one was reached through
          updates

vars == <<current, history, trail, updates>>

Init == current = Baseline /\ history = <<>> /\ trail = <<>> /\ updates = 0

-----------------------------------------------------------------------------

Clip(x, low, high) == IF x < low THEN low ELSE IF x > high THEN high ELSE x

\* One bounded step of x, within the drift of its baseline.
Towards(x, target, base, drift) ==
    Clip(x + Clip(target - x, -MaxStep, MaxStep), base - drift, base + drift)

Neutral(s, value) ==
    [current[s] EXCEPT !.neutral = Towards(@, value, Baseline[s].neutral, MaxNeutralDrift)]

\* The side of the neutral on which the value lies.
Spans(s, value) ==
    LET centered == value - current[s].neutral
        side == IF centered < 0 THEN "negative" ELSE "positive"
        target == IF centered < 0 THEN -centered ELSE centered
        base == Baseline[s][side]
    IN  [current[s] EXCEPT ![side] = Max({MinSpan, Towards(@, target, base, base \div SpanFraction)})]

\* Variant: the snapshot is what the update has made of the profile.
PushUpdated(h, before, after) == Append(h, after)

\* A deque that forgets its oldest snapshot.
Push(h, before, after) ==
    LET grown == Append(h, before)
    IN  IF Len(grown) > RollbackDepth THEN Tail(grown) ELSE grown

\* confident: the signals whose confidence is high enough.  Held too short a time, or
\* with no confident signal, an update does nothing.
Update(values, confident, evidence) ==
    LET after == [s \in Signals |->
                    IF s \notin confident THEN current[s]
                    ELSE IF evidence = "neutral" THEN Neutral(s, values[s]) ELSE Spans(s, values[s])]
    IN  /\ updates < MaxUpdates /\ updates' = updates + 1
        /\ confident # {}
        /\ current' = after /\ history' = Push(history, current, after)
        /\ trail' = Append(trail, current)

Rollback ==
    /\ history # <<>>
    /\ current' = Last(history) /\ history' = Front(history) /\ trail' = Front(trail)
    /\ UNCHANGED updates

Reset ==
    /\ current' = Baseline /\ history' = <<>> /\ trail' = <<>>
    /\ UNCHANGED updates

Next ==
    \/ \E values \in [Signals -> Observed], confident \in SUBSET Signals,
          evidence \in {"neutral", "range"} : Update(values, confident, evidence)
    \/ Rollback \/ Reset

Spec == Init /\ [][Next]_vars

-----------------------------------------------------------------------------
(* Properties *)

TypeOK ==
    /\ \A s \in Signals : current[s].neutral \in Int /\ current[s].negative \in Nat \ {0}
                          /\ current[s].positive \in Nat \ {0}
    /\ Len(history) <= RollbackDepth

Near(x, base, drift) == x - base \in -drift .. drift

\* However it was updated, rolled back and reset, the profile stays within the drift
\* of its baseline, and rolling back goes through the profiles it had before, newest
\* first, as far as the depth reaches.  A baseline span below the least span is
\* raised to it by the first update of that side: only such a span may leave its drift.
RollsBackWithinDrift ==
    /\ \A s \in Signals :
          /\ Near(current[s].neutral, Baseline[s].neutral, MaxNeutralDrift)
          /\ \A side \in {"negative", "positive"} :
                \/ Near(current[s][side], Baseline[s][side], Baseline[s][side] \div SpanFraction)
                \/ Baseline[s][side] < MinSpan /\ current[s][side] = MinSpan
    /\ IsSuffix(history, trail)
    /\ Len(history) < Len(trail) => Len(trail) > RollbackDepth \/ updates > RollbackDepth
=============================================================================
