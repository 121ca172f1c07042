-------------------------------- MODULE FullSet --------------------------------
(***************************************************************************)
(* The producers of NTP results: FaceSpatialProducer (runtime/             *)
(* face_spatial.py) makes a result of every frame, and FullSetProducer     *)
(* (runtime/full_set.py) adds the body, which it infers at a lower rate    *)
(* and reuses in between.                                                  *)
(*                                                                         *)
(* Values are abstracted to whether there is one.  The signals and         *)
(* structures whose state is computed alike are one class; left and right  *)
(* are alike.  What remains of a tracked value is what the protocol's      *)
(* validator (crates/nana-tracking-protocol/src/validate.rs) looks at.     *)
(***************************************************************************)
EXTENDS Integers

CONSTANTS FaceStates,     \* "Observed", "Occluded", "OutOfFrame", or some of them
          Visibility,     \* what the body model can say of a region, or some of it:
                          \*   "Observed", "PartiallyOccluded", "SelfOccluded",
                          \*   "OutOfFrame", "Predicted", "TrackingLost"
          Streams,        \* (session, generation) pairs
          MaxTime,        \* bound: capture timestamps
          MaxSequence,    \* bound: sequence numbers
          Interval,       \* body_inference_interval
          MaximumAge      \* maximum_body_age_ns

Regions == {"torso", "limb"}

\* The classes: signals 1-40 and the head pose; the visible tongue (41); the
\* torso (42-47) and its pose; the head relative to it (48-53); the tongue's
\* direction (54-56); auricles, arms and the skeleton's limbs (57-76).
FaceClasses == {"face", "tongue"}
BodyClasses == {"torso", "headTorso", "tongueDirection", "limb"}

\* The structures: head pose and look-at with the eyes; torso and limb poses.
FaceStructures == {"head", "eyes"}
Skeleton == {"torsoPose", "limbPose"}

Carries(state) == state \in {"Observed", "Fused", "Predicted"}

\* _tracked: every producer of the two reports a horizon of zero.
Tracked(value, state, time) ==
    [value |-> value, state |-> state, time |-> time, horizon |-> 0]
Unsupported == Tracked(FALSE, "Unsupported", 0)

VARIABLES frame,     \* the frame just produced, with what the face model saw
          body,      \* _latest
          refresh    \* _needs_refresh

vars == <<frame, body, refresh>>

NoBody == [seen |-> FALSE]
Input ==
    {f \in [face : FaceStates, tongueVisible : BOOLEAN, bodyVisible : BOOLEAN,
              time : 0 .. MaxTime, sequence : 0 .. MaxSequence, stream : Streams] :
        f.tongueVisible => f.face = "Observed"}

-----------------------------------------------------------------------------
(* FaceSpatialProducer *)

TongueState(f) ==
    IF f.face # "Observed" THEN f.face
    ELSE IF f.tongueVisible THEN "Observed" ELSE "Occluded"

FaceSlots(f) ==
    [c \in FaceClasses \union BodyClasses |->
        CASE c = "face" -> Tracked(f.face = "Observed", f.face, f.time)
          [] c = "tongue" -> Tracked(TongueState(f) = "Observed", TongueState(f), f.time)
          [] OTHER -> Unsupported]

FaceGeometry(f) == [c \in FaceStructures |-> Tracked(f.face = "Observed", f.face, f.time)]

EmptySkeleton == [c \in Skeleton |-> Unsupported]

\* What is written into a frame, which keeps the rest of what it held.
Over(written, held) ==
    [c \in DOMAIN written \union DOMAIN held |->
        IF c \in DOMAIN written THEN written[c] ELSE held[c]]

FaceResult(f) == Over(FaceSlots(f), Over(FaceGeometry(f), EmptySkeleton))

-----------------------------------------------------------------------------
(* FullSetProducer *)

\* Variant: cadence is the divisibility of the sequence number.
InferenceDueByModulus(f) ==
    refresh \/ body = NoBody \/ f.sequence % Interval = 0

InferenceDue(f) ==
    \/ refresh \/ body = NoBody
    \/ body # NoBody /\ body.stream # f.stream
    \/ body # NoBody /\ (f.sequence < body.sequence \/ f.sequence - body.sequence >= Interval)

\* Whether the body's sample may be shown in frame f.
Fresh(f, b) == b # NoBody /\ f.time - b.time \in 0 .. MaximumAge

\* produce; a call that raises ends the worker (LatestFrame).
Produce(f) ==
    /\ frame' = f
    /\ \/ /\ f.bodyVisible /\ InferenceDue(f)
          /\ \E v \in [Regions -> Visibility] :
                body' = [seen |-> TRUE, visibility |-> v, time |-> f.time,
                         sequence |-> f.sequence, stream |-> f.stream]
       \/ ~(f.bodyVisible /\ InferenceDue(f)) /\ UNCHANGED body
    /\ refresh' = (~f.bodyVisible \/ ~Fresh(f, body'))

Init ==
    /\ frame = [face |-> "Occluded", tongueVisible |-> FALSE, bodyVisible |-> FALSE,
                time |-> 0, sequence |-> 0, stream |-> CHOOSE s \in Streams : TRUE]
    /\ body = NoBody
    /\ refresh = TRUE

\* Within a stream frames come in order, though not without gaps; a new stream
\* starts wherever it likes.  Captures are never older than the last one.
Follows(f) ==
    /\ f.time >= frame.time
    /\ f.stream = frame.stream => f.sequence > frame.sequence

Next == \E f \in Input : Follows(f) /\ Produce(f)

Spec == Init /\ [][Next]_vars

\* _WIRE_STATE, and Fused instead of Observed when the sample is reused.
WireState(v) ==
    CASE v \in {"PartiallyOccluded", "SelfOccluded"} -> "Occluded"
      [] OTHER -> v
RegionState(f, r) ==
    LET state == WireState(body.visibility[r])
    IN  IF state = "Observed" /\ body.time # f.time THEN "Fused" ELSE state

\* Variant: a head that is not seen is taken for one that is.
HeadTorsoOfAny(f) ==
    LET torso == RegionState(f, "torso")
    IN  IF Carries(torso) THEN Tracked(TRUE, f.face, body.time) ELSE Tracked(FALSE, torso, body.time)

\* _write_head_relative: the head in the torso's space needs both.
HeadTorso(f) ==
    LET torso == RegionState(f, "torso")
    IN  CASE ~Carries(torso) -> Tracked(FALSE, torso, body.time)
          [] Carries(torso) /\ f.face # "Observed" -> Tracked(FALSE, f.face, body.time)
          [] OTHER -> Tracked(TRUE, "Fused", body.time)

\* _write_skeleton
SkeletonOf(f) ==
    [c \in Skeleton |->
        LET state == RegionState(f, IF c = "torsoPose" THEN "torso" ELSE "limb")
        IN  Tracked(Carries(state), state, body.time)]

\* _write_prediction
BodyResult(f) ==
    Over(SkeletonOf(f),
         [c \in BodyClasses |->
            CASE c = "headTorso" -> HeadTorso(f)
              [] c = "tongueDirection" -> Tracked(Carries(f.face), f.face, body.time)
              [] OTHER -> Tracked(Carries(RegionState(f, c)), RegionState(f, c), body.time)])

\* _write_unavailable
Unavailable(state, time) == [c \in BodyClasses \union Skeleton |-> Tracked(FALSE, state, time)]

\* The result of the call that has produced frame.
Result ==
    LET written == CASE ~frame.bodyVisible \/ body = NoBody ->
                          Unavailable("OutOfFrame", frame.time)
                     [] frame.bodyVisible /\ body # NoBody /\ ~Fresh(frame, body) ->
                          Unavailable("TrackingLost", body.time)
                     [] OTHER -> BodyResult(frame)
    IN  Over(written, FaceResult(frame))

-----------------------------------------------------------------------------
(* Properties *)

TypeOK ==
    /\ frame \in Input
    /\ body = NoBody \/
       body \in [seen : {TRUE}, visibility : [Regions -> Visibility],
                 time : 0 .. MaxTime, sequence : 0 .. MaxSequence, stream : Streams]
    /\ refresh \in BOOLEAN

\* validate_state_shell, validate_signal_sample and validate_tracked; a result
\* is produced no earlier than its capture and its body's.
Conforms(t) ==
    /\ t.value <=> Carries(t.state)
    /\ t.state = "Unsupported" => t.time = 0 /\ t.horizon = 0
    /\ t.state = "Predicted" <=> t.horizon > 0
    /\ t.time <= frame.time

\* The receiver refuses a frame with one signal that breaks its rules.  Every
\* result conforms, except where the body model itself calls a visible region
\* Predicted: the producer has no horizon to report with it.
ResultConforms ==
    \/ /\ frame.bodyVisible /\ body # NoBody
       /\ \E r \in Regions : body.visibility[r] = "Predicted"
    \/ \A c \in DOMAIN Result : Conforms(Result[c])

\* A body value that is shown was captured in the frame's own stream at most
\* maximum_body_age_ns before it, and less than body_inference_interval sequence numbers
\* before it, whatever frames were dropped, streams restarted or bodies lost in between.
BodyIsCurrent ==
    /\ \A c \in BodyClasses \union Skeleton : Result[c].value =>
          body.stream = frame.stream /\ frame.time - body.time \in 0 .. MaximumAge
    /\ frame.bodyVisible =>
          /\ body # NoBody /\ frame.sequence - body.sequence \in 0 .. Interval - 1
          /\ body.stream = frame.stream

\* A reused sample is Fused or carries no value: nothing old is shown as Observed.
ReusedIsFused ==
    \A c \in BodyClasses \union Skeleton :
        Result[c].value /\ Result[c].time # frame.time => Result[c].state # "Observed"
=============================================================================
