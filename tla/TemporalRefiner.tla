---------------------------- MODULE TemporalRefiner ----------------------------
(***************************************************************************)
(* CausalTemporalRefiner (runtime/temporal.py) behind FaceBasicProducer    *)
(* (runtime/face_basic.py): the samples of one signal are smoothed while   *)
(* it is seen, extrapolated for a while when it is hidden, and lost after  *)
(* that.  A value is abstracted to the capture time of the observation it  *)
(* comes from; confidence is left out.                                     *)
(***************************************************************************)
EXTENDS Integers, Sequences

CONSTANTS Scopes,             \* (session, generation, camera, calibration) tuples
          InputStates,        \* of "Observed", "Fused", "Predicted", "Occluded",
                              \*   "OutOfFrame", "TrackingLost"
          HistoryFrames,      \* history_frames
          MaximumPrediction,  \* maximum_prediction_ns
          MaxCapture          \* bound: capture timestamps

VARIABLES history,  \* _history: the refined samples, each at its capture time
          scope,    \* _scope
          given,    \* history: the state of the sample processed last
          seen      \* history: the observation given last, and the samples since

vars == <<history, scope, given, seen>>

NoValue == [carries |-> FALSE]
ValueFrom(time) == [carries |-> TRUE, from |-> time]
Sample(value, state, time, horizon) ==
    [value |-> value, state |-> state, time |-> time, horizon |-> horizon]

Seen(state) == state \in {"Observed", "Fused"}
Hidden(state) == state \in {"Occluded", "OutOfFrame"}

NotSeen == [time |-> -1, samples |-> 0]

\* The first sample sets the scope.
Init ==
    /\ history = <<>> /\ scope = CHOOSE s \in Scopes : TRUE
    /\ given = "Occluded" /\ seen = NotSeen

-----------------------------------------------------------------------------

\* The frames that _last_two_observations looks through, up to a lost one.
AfterLoss(h) ==
    {i \in DOMAIN h : \A j \in i .. Len(h) : h[j].sample.state # "TrackingLost"}
Observations(h) == {i \in AfterLoss(h) : Seen(h[i].sample.state)}

LastObservation(h) == h[CHOOSE i \in Observations(h) : \A j \in Observations(h) : j <= i].sample

\* The hidden signal's branch of _refine_one.
Extrapolate(last, now) ==
    IF now - last.time \in 1 .. MaximumPrediction
    THEN Sample(last.value, "Predicted", last.time, now - last.time)
    ELSE Sample(NoValue, "TrackingLost", last.time, 0)

\* _refine_one of a sample that passes its checks.
Refined(sample, h, now) ==
    CASE Seen(sample.state) \/ sample.state = "Predicted" -> sample
      [] sample.state = "TrackingLost" -> Sample(NoValue, "TrackingLost", now, 0)
      [] Hidden(sample.state) /\ Observations(h) = {} -> sample
      [] OTHER -> Extrapolate(LastObservation(h), now)

\* Variant: a change of scope keeps the past.
HistoryOfAny(s) == history

\* A scope of its own starts without a past.
HistoryIn(s) == IF s = scope THEN history ELSE <<>>

\* The samples _refine_one accepts at a capture time.  A fused one may be older.
Accepted(sample, now) ==
    /\ sample.time \in 0 .. now
    /\ sample.value = IF Seen(sample.state) \/ sample.state = "Predicted"
                      THEN ValueFrom(sample.time) ELSE NoValue
    /\ sample.horizon = IF sample.state = "Predicted" THEN now - sample.time ELSE 0
    /\ sample.state = "Predicted" => sample.horizon > 0

\* Variant: the history is not limited.
RememberAll(h, f) == Append(h, f)

\* deque.append under maxlen
Remember(h, f) == IF Len(h) < HistoryFrames THEN Append(h, f) ELSE Append(Tail(h), f)

LastCapture(h) == IF h = <<>> THEN -1 ELSE h[Len(h)].at

\* process
Process(s, sample, now) ==
    /\ now > LastCapture(HistoryIn(s))
    /\ Accepted(sample, now)
    /\ scope' = s
    /\ LET refined == Refined(sample, HistoryIn(s), now)
       IN  /\ history' = Remember(HistoryIn(s), [at |-> now, sample |-> refined])
           /\ given' = sample.state
           /\ seen' = CASE Seen(sample.state) -> [time |-> sample.time, samples |-> 0]
                        [] refined.state = "TrackingLost" -> NotSeen
                        [] OTHER -> IF s = scope /\ seen # NotSeen
                                    THEN [seen EXCEPT !.samples = @ + 1] ELSE NotSeen

\* A capture that is not newer, or a sample that is refused: process raises, and
\* a change of scope has taken place by then.
ProcessRaises(s) ==
    /\ scope' = s
    /\ history' = HistoryIn(s)
    /\ seen' = IF s = scope THEN seen ELSE NotSeen
    /\ UNCHANGED given

\* What the producer and its evaluation pass: the capture's own observation, a
\* fused or predicted one of the tick before, or none.
Inputs(now) ==
    LET Of(state, time) ==
            Sample(IF Seen(state) \/ state = "Predicted" THEN ValueFrom(time) ELSE NoValue,
                   state, time, IF state = "Predicted" THEN now - time ELSE 0)
    IN  {Of(state, IF state \in {"Fused", "Predicted"} THEN now - 1 ELSE now) :
            state \in InputStates}

-----------------------------------------------------------------------------
(* FaceBasicProducer.produce: the slots are refined, the head's pose is not *)

Unsupported == Sample(NoValue, "Unsupported", 0, 0)

\* What the model has seen of one signal.
ModelSample(visibility, now) ==
    Sample(IF visibility = "Observed" THEN ValueFrom(now) ELSE NoValue, visibility, now, 0)

\* A slot of the 36 the model has and one of the others.
Slots(refined) == [basic |-> refined, other |-> Unsupported]

\* The head's pose and the quality of the face, beside the slots.
ResultOf(visibility, refined, now) ==
    [slots |-> Slots(refined), headPose |-> ModelSample(visibility, now), face |-> refined.state]

-----------------------------------------------------------------------------

Next == \E s \in Scopes :
           \/ \E now \in 1 .. MaxCapture : \E sample \in Inputs(now) : Process(s, sample, now)
           \/ ProcessRaises(s)

Spec == Init /\ [][Next]_vars

-----------------------------------------------------------------------------
(* Properties *)

TypeOK ==
    /\ scope \in Scopes
    /\ Len(history) <= HistoryFrames
    /\ \A i \in DOMAIN history :
          /\ history[i].at \in 1 .. MaxCapture
          /\ Accepted(history[i].sample, history[i].at)
    /\ given \in InputStates \union {"Occluded"}
    /\ seen \in [time : -1 .. MaxCapture, samples : Nat]

Last == history[Len(history)].sample
LastAt == history[Len(history)].at

\* A hidden signal has a value exactly while the observation it comes from is
\* one of this scope, was made since tracking was lost, is at most
\* maximum_prediction_ns old and is within the last history_frames samples; and
\* the value is that observation's.  (The last limit is the code's, not the
\* configuration's: at a high frame rate a short history ends the extrapolation
\* before its time, and tracking is then not declared lost either.)
ExtrapolatesLastObservation ==
    history # <<>> /\ Hidden(given) =>
        /\ Last.state = "Predicted" <=>
              /\ seen # NotSeen /\ LastAt - seen.time \in 1 .. MaximumPrediction
              /\ seen.samples <= HistoryFrames
        /\ Last.state = "Predicted" => Last.time = seen.time /\ Last.value = ValueFrom(seen.time)

\* The receiver refuses a frame with one sample that breaks the rules of the protocol's
\* validator: whatever the refiner has made of the samples, slots and pose carry a value
\* exactly if their state says so, and a horizon exactly if they are predicted.
Conforms(t, now) ==
    /\ t.value.carries <=> t.state \in {"Observed", "Fused", "Predicted"}
    /\ t.state = "Predicted" <=> t.horizon > 0
    /\ t.state = "Unsupported" => t.time = 0
    /\ t.time <= now
ResultConforms ==
    history # <<>> /\ given \in {"Observed", "Occluded", "OutOfFrame"} =>
        LET result == ResultOf(given, Last, LastAt)
        IN  \A t \in {result.slots.basic, result.slots.other, result.headPose} : Conforms(t, LastAt)
=============================================================================
