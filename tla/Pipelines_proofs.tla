------------------------------ MODULE Pipelines_proofs ------------------------------
(***************************************************************************)
(* The properties of the composition, for every value of the parameters.   *)
(* A component's steps are its own whatever takes part beside it, so what  *)
(* its own module's theorems say of it holds in the composition; the       *)
(* components that have no such module are proved here.                    *)
(***************************************************************************)
EXTENDS Pipelines, FunctionTheorems, FiniteSetTheorems, SequenceTheorems, TLAPS

-----------------------------------------------------------------------------
(* Components whose theorems are their own modules' *)

LEMMA LFStep == [Next]_vars => [LF!Next]_(LF!vars)
<1> SUFFICES ASSUME [Next]_vars PROVE [LF!Next]_(LF!vars)
  OBVIOUS
<1>1. UNCHANGED LFvars => UNCHANGED LF!vars
  BY DEF LF!vars, LFvars
<1>2. CASE UNCHANGED vars
  BY <1>1, <1>2 DEF vars
<1>3. CASE Next
  BY <1>1, <1>3, Zenon DEF Next
<1> QED BY <1>2, <1>3

LEMMA FSStep == [Next]_vars => [FS!Next]_(FS!vars)
<1> SUFFICES ASSUME [Next]_vars PROVE [FS!Next]_(FS!vars)
  OBVIOUS
<1>1. UNCHANGED FSvars => UNCHANGED FS!vars
  BY DEF FS!vars, FSvars
<1>2. CASE UNCHANGED vars
  BY <1>1, <1>2 DEF vars
<1>3. CASE Next
  BY <1>1, <1>3, Zenon DEF Next
<1> QED BY <1>2, <1>3

LEMMA TRStep == [Next]_vars => [TR!Next]_(TR!vars)
<1> SUFFICES ASSUME [Next]_vars PROVE [TR!Next]_(TR!vars)
  OBVIOUS
<1>1. UNCHANGED TRvars => UNCHANGED TR!vars
  BY DEF TR!vars, TRvars
<1>2. CASE UNCHANGED vars
  BY <1>1, <1>2 DEF vars
<1>3. CASE Next
  BY <1>1, <1>3, Zenon DEF Next
<1> QED BY <1>2, <1>3

LEMMA FCStep == [Next]_vars => [FC!Next]_(FC!vars)
<1> SUFFICES ASSUME [Next]_vars PROVE [FC!Next]_(FC!vars)
  OBVIOUS
<1>1. UNCHANGED FCvars => UNCHANGED FC!vars
  BY DEF FC!vars, FCvars
<1>2. CASE UNCHANGED vars
  BY <1>1, <1>2 DEF vars
<1>3. CASE Next
  BY <1>1, <1>3, Zenon DEF Next
<1> QED BY <1>2, <1>3

LEMMA SAStep == [Next]_vars => [SA!Next]_(SA!vars)
<1> SUFFICES ASSUME [Next]_vars PROVE [SA!Next]_(SA!vars)
  OBVIOUS
<1>1. UNCHANGED SAvars => UNCHANGED SA!vars
  BY DEF SA!vars, SAvars
<1>2. CASE UNCHANGED vars
  BY <1>1, <1>2 DEF vars
<1>3. CASE Next
  BY <1>1, <1>3, Zenon DEF Next
<1> QED BY <1>2, <1>3

LEMMA LBStep == [Next]_vars => [LB!Next]_(LB!vars)
<1> SUFFICES ASSUME [Next]_vars PROVE [LB!Next]_(LB!vars)
  OBVIOUS
<1>1. UNCHANGED LBvars => UNCHANGED LB!vars
  BY DEF LB!vars, LBvars
<1>2. CASE UNCHANGED vars
  BY <1>1, <1>2 DEF vars
<1>3. CASE Next
  BY <1>1, <1>3, Zenon DEF Next
<1> QED BY <1>2, <1>3

LEMMA OCStep == [Next]_vars => [OC!Next]_(OC!vars)
<1> SUFFICES ASSUME [Next]_vars PROVE [OC!Next]_(OC!vars)
  OBVIOUS
<1>1. UNCHANGED OCvars => UNCHANGED OC!vars
  BY DEF OC!vars, OCvars
<1>2. CASE UNCHANGED vars
  BY <1>1, <1>2 DEF vars
<1>3. CASE Next
  BY <1>1, <1>3, Zenon DEF Next
<1> QED BY <1>2, <1>3

LEMMA PKStep == [Next]_vars => [PK!Next]_(PK!vars)
<1> SUFFICES ASSUME [Next]_vars PROVE [PK!Next]_(PK!vars)
  OBVIOUS
<1>1. UNCHANGED PKvars => UNCHANGED PK!vars
  BY DEF PK!vars, PKvars
<1>2. CASE UNCHANGED vars
  BY <1>1, <1>2 DEF vars
<1>3. CASE Next
  BY <1>1, <1>3, Zenon DEF Next
<1> QED BY <1>2, <1>3

LEMMA RCStep == [Next]_vars => [RC!Next]_(RC!vars)
<1> SUFFICES ASSUME [Next]_vars PROVE [RC!Next]_(RC!vars)
  OBVIOUS
<1>1. UNCHANGED RCvars => UNCHANGED RC!vars
  BY DEF RC!vars, RCvars
<1>2. CASE UNCHANGED vars
  BY <1>1, <1>2 DEF vars
<1>3. CASE Next
  BY <1>1, <1>3, Zenon DEF Next
<1> QED BY <1>2, <1>3

LEMMA ISStep == [Next]_vars => [IS!Next]_(IS!vars)
<1> SUFFICES ASSUME [Next]_vars PROVE [IS!Next]_(IS!vars)
  OBVIOUS
<1>1. UNCHANGED ISvars => UNCHANGED IS!vars
  BY DEF IS!vars, ISvars
<1>2. CASE UNCHANGED vars
  BY <1>1, <1>2 DEF vars
<1>3. CASE Next
  BY <1>1, <1>3, Zenon DEF Next
<1> QED BY <1>2, <1>3

LEMMA TNStep == [Next]_vars => [TN!Next]_(TN!vars)
<1> SUFFICES ASSUME [Next]_vars PROVE [TN!Next]_(TN!vars)
  OBVIOUS
<1>1. UNCHANGED TNvars => UNCHANGED TN!vars
  BY DEF TN!vars, TNvars
<1>2. CASE UNCHANGED vars
  BY <1>1, <1>2 DEF vars
<1>3. CASE Next
  BY <1>1, <1>3, Zenon DEF Next
<1> QED BY <1>2, <1>3

LEMMA CSStep == [Next]_vars => [CS!Next]_(CS!vars)
<1> SUFFICES ASSUME [Next]_vars PROVE [CS!Next]_(CS!vars)
  OBVIOUS
<1>1. UNCHANGED CSvars => UNCHANGED CS!vars
  BY DEF CS!vars, CSvars
<1>2. CASE UNCHANGED vars
  BY <1>1, <1>2 DEF vars
<1>3. CASE Next
  BY <1>1, <1>3, Zenon DEF Next
<1> QED BY <1>2, <1>3

LEMMA CaptureStep ==
    [Next]_vars =>
       /\ part' = part
       /\ part = "capture calls" => [CPcalls!Next]_(CPcalls!vars)
       /\ part = "capture frames" => [CPfollow!Next]_(CPfollow!vars)
       /\ part = "capture runs" => [CPrestart!Next]_(CPrestart!vars)
<1> SUFFICES ASSUME [Next]_vars
             PROVE  /\ part' = part
                    /\ part = "capture calls" => [CPcalls!Next]_(CPcalls!vars)
                    /\ part = "capture frames" => [CPfollow!Next]_(CPfollow!vars)
                    /\ part = "capture runs" => [CPrestart!Next]_(CPrestart!vars)
  BY Zenon
<1>1. /\ UNCHANGED CPvars => UNCHANGED CPcalls!vars
      /\ UNCHANGED CPvars => UNCHANGED CPfollow!vars
      /\ UNCHANGED CPvars => UNCHANGED CPrestart!vars
  BY DEF CPcalls!vars, CPfollow!vars, CPrestart!vars, CPvars
<1>2. CASE UNCHANGED vars
  BY <1>1, <1>2 DEF vars
<1>3. CASE Next
  BY <1>1, <1>3, Zenon DEF Next
<1> QED BY Zenon, <1>2, <1>3

(***************************************************************************)
(* Beside the other components, too, nobody sleeps in wait_latest past what *)
(* would wake it, for any number of clients, timeouts and frames.          *)
(***************************************************************************)
THEOREM NobodyEverOversleeps == Spec => []NobodyOversleeps
<1>1. Init => LF!Init
  BY Zenon DEF Init
<1>2. Spec => LF!Spec
  BY <1>1, LFStep, PTL DEF Spec, LF!Spec
<1>3. LF!Spec => []LF!NobodyOversleeps
  BY FrameParameters, LF!NobodyEverOversleeps DEF LF!RoiParameters
<1>4. LF!NobodyOversleeps => NobodyOversleeps
  BY Zenon DEF NobodyOversleeps
<1> QED BY <1>2, <1>3, <1>4, PTL

(***************************************************************************)
(* And without drops the producer is given no box that the detector has    *)
(* not confirmed within the misses allowed to it.                          *)
(***************************************************************************)
THEOREM RoiIsAlwaysConfirmed == Spec => []RoiIsConfirmed
<1>1. Init => LF!Init
  BY Zenon DEF Init
<1>2. Spec => LF!Spec
  BY <1>1, LFStep, PTL DEF Spec, LF!Spec
<1>3. LF!Spec => []LF!RoiIsConfirmed
  BY FrameParameters, LF!RoiIsAlwaysConfirmed
<1>4. LF!RoiIsConfirmed => RoiIsConfirmed
  BY Zenon DEF RoiIsConfirmed
<1> QED BY <1>2, <1>3, <1>4, PTL

(***************************************************************************)
(* A training run that was interrupted and resumed, however often, has     *)
(* trained on what an uninterrupted one would have trained on.             *)
(***************************************************************************)
THEOREM ResumeIsAlwaysExact == Spec => []ResumeIsExact
<1>1. Init => TN!Init
  BY Zenon DEF Init
<1>2. Spec => TN!Spec
  BY <1>1, TNStep, PTL DEF Spec, TN!Spec
<1>3. TN!Spec => []TN!ResumeIsExact
  BY TrainingParameters, TN!ResumeIsAlwaysExact
<1>4. TN!ResumeIsExact => ResumeIsExact
  BY DEF ResumeIsExact
<1> QED BY <1>2, <1>3, <1>4, PTL

(***************************************************************************)
(* And its summary names the best of the models that were validated.       *)
(***************************************************************************)
THEOREM SummaryAlwaysNamesBest == Spec => []SummaryNamesBest
<1>1. Init => TN!Init
  BY Zenon DEF Init
<1>2. Spec => TN!Spec
  BY <1>1, TNStep, PTL DEF Spec, TN!Spec
<1>3. TN!Spec => []TN!SummaryNamesBest
  BY TrainingParameters, TN!SummaryAlwaysNamesBest
<1>4. TN!SummaryNamesBest => SummaryNamesBest
  BY DEF SummaryNamesBest
<1> QED BY <1>2, <1>3, <1>4, PTL

(***************************************************************************)
(* The compact stream accepts frames once, in order and in time, and       *)
(* decodes and records them in the layout they were encoded in.            *)
(***************************************************************************)
THEOREM FramesAreAlwaysSound == Spec => []FramesAreSound
<1>1. Init => CS!Init
  BY Zenon DEF Init
<1>2. Spec => CS!Spec
  BY <1>1, CSStep, PTL DEF Spec, CS!Spec
<1>3. CS!Spec => []CS!FramesAreSound
  BY CompactParameters, CS!FramesAreAlwaysSound
<1>4. CS!FramesAreSound => FramesAreSound
  BY DEF FramesAreSound
<1> QED BY <1>2, <1>3, <1>4, PTL

(***************************************************************************)
(* The ARKit pipeline records frames under their take, whichever calls     *)
(* overlap, however many frames follow and however often the app restarts. *)
(***************************************************************************)
THEOREM CaptureIsAlwaysSound == Spec => []CaptureIsSound
<1> DEFINE AtCalls == part = "capture calls"
           AtFrames == part = "capture frames"
           AtRuns == part = "capture runs"
<1>1. Init => /\ AtCalls => CPcalls!Init
              /\ AtFrames => CPfollow!Init
              /\ AtRuns => CPrestart!Init
  BY Zenon DEF Init
<1>2. [Next]_vars => /\ AtCalls' <=> AtCalls
                     /\ AtFrames' <=> AtFrames
                     /\ AtRuns' <=> AtRuns
  BY Zenon, CaptureStep
<1>3. [Next]_vars => /\ AtCalls => [CPcalls!Next]_(CPcalls!vars)
                     /\ AtFrames => [CPfollow!Next]_(CPfollow!vars)
                     /\ AtRuns => [CPrestart!Next]_(CPrestart!vars)
  BY Zenon, CaptureStep
<1>4. /\ CPcalls!Spec => []CPcalls!CaptureIsSound
      /\ CPfollow!Spec => []CPfollow!CaptureIsSound
      /\ CPrestart!Spec => []CPrestart!CaptureIsSound
  BY CaptureParameters, CPcalls!CaptureIsAlwaysSound, CPfollow!CaptureIsAlwaysSound,
     CPrestart!CaptureIsAlwaysSound
<1>5. /\ AtCalls => CPcalls!CaptureIsSound
      /\ AtFrames => CPfollow!CaptureIsSound
      /\ AtRuns => CPrestart!CaptureIsSound
      => CaptureIsSound
  BY Zenon DEF CaptureIsSound
<1> HIDE DEF AtCalls, AtFrames, AtRuns
<1>6. Spec => /\ AtCalls => CPcalls!Spec
              /\ AtFrames => CPfollow!Spec
              /\ AtRuns => CPrestart!Spec
  BY <1>1, <1>2, <1>3, PTL DEF Spec, CPcalls!Spec, CPfollow!Spec, CPrestart!Spec
<1>7. Spec => /\ AtCalls \/ []~AtCalls
              /\ AtFrames \/ []~AtFrames
              /\ AtRuns \/ []~AtRuns
  BY <1>2, PTL DEF Spec
<1> QED BY <1>4, <1>5, <1>6, <1>7, PTL

-----------------------------------------------------------------------------
(* FullSetProducer and FaceSpatialProducer *)

\* A body is never newer than the frame; where a body is visible it is of the frame's
\* stream and less than an interval behind.
FullSetInv ==
    /\ FS!TypeOK
    /\ body # FS!NoBody => body.time <= frame.time
    /\ frame.bodyVisible =>
          /\ body # FS!NoBody /\ body.stream = frame.stream
          /\ frame.sequence - body.sequence \in 0 .. FSp.interval - 1

LEMMA FullSetStep == FullSetInv /\ [FS!Next]_(FS!vars) => FullSetInv'
<1> SUFFICES ASSUME FullSetInv, [FS!Next]_(FS!vars) PROVE FullSetInv'
  OBVIOUS
<1>1. CASE UNCHANGED FS!vars
  BY <1>1 DEF FullSetInv, FS!TypeOK, FS!vars
<1>2. ASSUME NEW f \in FS!Input, FS!Follows(f), FS!Produce(f) PROVE FullSetInv'
  <2>1. /\ frame' = f /\ f.time \in 0 .. FSp.time /\ f.sequence \in 0 .. FSp.sequence
        /\ f.stream \in FSp.streams /\ f.bodyVisible \in BOOLEAN
        /\ frame.time \in 0 .. FSp.time /\ f.time >= frame.time
    BY <1>2 DEF FS!Input, FS!Follows, FS!Produce, FullSetInv, FS!TypeOK
  <2>2. refresh' \in BOOLEAN
    BY <1>2 DEF FS!Produce
  <2>3. CASE f.bodyVisible /\ FS!InferenceDue(f)
    <3>1. PICK v \in [FS!Regions -> FSp.visibility] :
             body' = [seen |-> TRUE, visibility |-> v, time |-> f.time,
                      sequence |-> f.sequence, stream |-> f.stream]
      BY <1>2, <2>3 DEF FS!Produce
    <3>2. body'.seen # FS!NoBody.seen
      BY <3>1 DEF FS!NoBody
    <3>3. FS!TypeOK'
      BY <1>2, <2>1, <2>2, <3>1 DEF FS!TypeOK
    <3>4. f.sequence - f.sequence \in 0 .. FSp.interval - 1
      BY <2>1, FullSetParameters
    <3>5. body'.time = f.time /\ body'.stream = f.stream /\ body'.sequence = f.sequence
      BY <3>1
    <3>6. body'.time <= frame'.time
      BY <2>1, <3>5
    <3>7. body' # FS!NoBody
      BY <3>2
    <3> QED BY <2>1, <3>3, <3>4, <3>5, <3>6, <3>7 DEF FullSetInv, FS!NoBody
  <2>4. CASE ~(f.bodyVisible /\ FS!InferenceDue(f))
    <3>1. body' = body
      BY <1>2, <2>4 DEF FS!Produce
    <3>2. FS!TypeOK'
      BY <1>2, <2>1, <2>2, <3>1 DEF FS!TypeOK, FullSetInv
    <3>3. body # FS!NoBody => body.time \in 0 .. FSp.time /\ body.sequence \in 0 .. FSp.sequence
      BY DEF FullSetInv, FS!TypeOK
    <3>4. body # FS!NoBody => body.time <= f.time
      BY <2>1, <3>3, FullSetParameters DEF FullSetInv
    <3>5. ASSUME f.bodyVisible
          PROVE  /\ body # FS!NoBody /\ body.stream = f.stream
                 /\ f.sequence - body.sequence \in 0 .. FSp.interval - 1
      <4>1. /\ body # FS!NoBody /\ body.stream = f.stream
            /\ ~(f.sequence < body.sequence) /\ ~(f.sequence - body.sequence >= FSp.interval)
        BY <2>4, <3>5 DEF FS!InferenceDue
      <4> QED BY <2>1, <3>3, <4>1, FullSetParameters
    <3> QED BY <2>1, <3>1, <3>2, <3>4, <3>5 DEF FullSetInv, FS!NoBody
  <2> QED BY <2>3, <2>4
<1> QED BY <1>1, <1>2 DEF FS!Next

LEMMA FullSetInit == Init => FullSetInv
<1> SUFFICES ASSUME FS!Init PROVE FullSetInv
  BY Zenon DEF Init
<1>1. (CHOOSE s \in FSp.streams : TRUE) \in FSp.streams
  BY FullSetParameters
<1>2. frame \in FS!Input
  BY <1>1, FullSetParameters DEF FS!Init, FS!Input
<1> QED BY <1>2 DEF FS!Init, FullSetInv, FS!TypeOK

\* What a class of the body is reported as.
LEMMA BodySlot ==
    ASSUME NEW c \in FS!BodyClasses \union FS!Skeleton
    PROVE  /\ c \in DOMAIN FS!Result
           /\ \/ /\ ~frame.bodyVisible \/ body = FS!NoBody
                 /\ FS!Result[c] = FS!Tracked(FALSE, "OutOfFrame", frame.time)
              \/ /\ frame.bodyVisible /\ body # FS!NoBody
                 /\ FS!Result[c] = FS!Tracked(FALSE, "TrackingLost", body.time)
              \/ /\ frame.bodyVisible /\ FS!Fresh(frame, body)
                 /\ FS!Result[c] = FS!BodyResult(frame)[c]
<1> DEFINE lost == frame.bodyVisible /\ body # FS!NoBody /\ ~FS!Fresh(frame, body)
           hidden == ~frame.bodyVisible \/ body = FS!NoBody
           written == CASE hidden -> FS!Unavailable("OutOfFrame", frame.time)
                        [] lost -> FS!Unavailable("TrackingLost", body.time)
                        [] OTHER -> FS!BodyResult(frame)
<1>1. FS!Result = FS!Over(written, FS!FaceResult(frame))
  BY Zenon DEF FS!Result
<1>2. c \in DOMAIN FS!BodyResult(frame)
  BY DEF FS!BodyResult, FS!SkeletonOf, FS!Over
<1>3. c \in DOMAIN written
  BY <1>2 DEF FS!Unavailable
<1>4. c \in DOMAIN FS!Result /\ FS!Result[c] = written[c]
  BY <1>1, <1>3 DEF FS!Over
<1>5. CASE hidden
  BY <1>4, <1>5, Zenon DEF FS!Unavailable
<1>6. CASE lost
  BY <1>4, <1>6 DEF FS!Unavailable
<1>7. CASE ~hidden /\ ~lost
  BY Zenon, <1>4, <1>7
<1> QED BY <1>4, <1>5, <1>6, <1>7

\* What a class of the face is reported as.
LEMMA FaceSlot ==
    ASSUME FullSetInv, NEW c \in FS!FaceClasses \union FS!FaceStructures
    PROVE  \E state \in {"Observed", "Occluded", "OutOfFrame"} :
              FS!Result[c] = FS!Tracked(state = "Observed", state, frame.time)
<1> DEFINE lost == frame.bodyVisible /\ body # FS!NoBody /\ ~FS!Fresh(frame, body)
           hidden == ~frame.bodyVisible \/ body = FS!NoBody
           written == CASE hidden -> FS!Unavailable("OutOfFrame", frame.time)
                        [] lost -> FS!Unavailable("TrackingLost", body.time)
                        [] OTHER -> FS!BodyResult(frame)
<1>1. FS!Result = FS!Over(written, FS!FaceResult(frame))
  BY Zenon DEF FS!Result
<1>2. DOMAIN FS!BodyResult(frame) = FS!BodyClasses \union FS!Skeleton
  BY DEF FS!BodyResult, FS!SkeletonOf, FS!Over
<1>3. DOMAIN written = FS!BodyClasses \union FS!Skeleton
  BY <1>2 DEF FS!Unavailable
<1>4. c \notin DOMAIN written
  BY <1>3 DEF FS!BodyClasses, FS!Skeleton, FS!FaceClasses, FS!FaceStructures
<1>5. c \in DOMAIN FS!FaceResult(frame)
  BY DEF FS!FaceResult, FS!Over, FS!FaceSlots, FS!FaceGeometry
<1>6. FS!Result[c] = FS!FaceResult(frame)[c]
  BY <1>1, <1>4, <1>5 DEF FS!Over
<1>7. frame.face \in {"Observed", "Occluded", "OutOfFrame"}
  BY FullSetParameters DEF FullSetInv, FS!TypeOK, FS!Input
<1> HIDE DEF written
<1>8. CASE c = "face"
  <2>1. FS!FaceResult(frame)[c] = FS!Tracked(frame.face = "Observed", frame.face, frame.time)
    BY <1>8 DEF FS!FaceResult, FS!Over, FS!FaceSlots, FS!FaceClasses, FS!BodyClasses
  <2> QED BY <1>6, <1>7, <2>1
<1>9. CASE c = "tongue"
  <2> DEFINE state == FS!TongueState(frame)
  <2>1. FS!FaceResult(frame)[c] = FS!Tracked(state = "Observed", state, frame.time)
    BY <1>9 DEF FS!FaceResult, FS!Over, FS!FaceSlots, FS!FaceClasses, FS!BodyClasses
  <2>2. state \in {"Observed", "Occluded", "OutOfFrame"}
    BY <1>7 DEF FS!TongueState
  <2> QED BY <1>6, <2>1, <2>2
<1>10. CASE c \in FS!FaceStructures
  <2>1. FS!FaceResult(frame)[c] = FS!Tracked(frame.face = "Observed", frame.face, frame.time)
    BY <1>10 DEF FS!FaceResult, FS!Over, FS!FaceSlots, FS!FaceGeometry, FS!FaceStructures,
       FS!FaceClasses, FS!BodyClasses
  <2> QED BY <1>6, <1>7, <2>1
<1> QED BY <1>8, <1>9, <1>10 DEF FS!FaceClasses

\* A slot as the protocol wants it.
Sound(t) ==
    /\ t.state \in {"Observed", "Fused", "Occluded", "OutOfFrame", "TrackingLost"}
    /\ t.value <=> FS!Carries(t.state)
    /\ t.horizon = 0 /\ t.time <= frame.time

LEMMA SoundConforms == ASSUME NEW t, Sound(t) PROVE FS!Conforms(t)
BY DEF Sound, FS!Conforms

LEMMA TrackedIsSound ==
    ASSUME NEW state \in {"Observed", "Fused", "Occluded", "OutOfFrame", "TrackingLost"},
           NEW value, value <=> FS!Carries(state), NEW time, time <= frame.time
    PROVE  Sound(FS!Tracked(value, state, time))
BY DEF Sound, FS!Tracked

\* Nothing the body writes is worse than what its model says.
LEMMA BodyConforms ==
    ASSUME FullSetInv, frame.bodyVisible, body # FS!NoBody,
           ~\E r \in FS!Regions : body.visibility[r] = "Predicted",
           NEW c \in FS!BodyClasses \union FS!Skeleton
    PROVE  Sound(FS!BodyResult(frame)[c])
<1> DEFINE States == {"Observed", "Fused", "Occluded", "OutOfFrame", "TrackingLost"}
<1>1. body.time <= frame.time
  BY DEF FullSetInv
<1>2. ASSUME NEW r \in FS!Regions PROVE FS!RegionState(frame, r) \in States
  <2>1. body.visibility[r] \in FSp.visibility \ {"Predicted"}
    BY DEF FullSetInv, FS!TypeOK
  <2>2. FS!WireState(body.visibility[r]) \in States
    BY <2>1, FullSetParameters DEF FS!WireState
  <2> QED BY <2>2 DEF FS!RegionState
<1>3. "torso" \in FS!Regions /\ "limb" \in FS!Regions
  BY DEF FS!Regions
<1>4. frame.face \in {"Observed", "Occluded", "OutOfFrame"}
  BY FullSetParameters DEF FullSetInv, FS!TypeOK, FS!Input
<1>5. CASE c \in FS!Skeleton
  <2> DEFINE region == IF c = "torsoPose" THEN "torso" ELSE "limb"
             state == FS!RegionState(frame, region)
  <2>1. FS!BodyResult(frame)[c] = FS!Tracked(FS!Carries(state), state, body.time)
    BY <1>5 DEF FS!BodyResult, FS!Over, FS!SkeletonOf
  <2>2. state \in States
    BY <1>2, <1>3
  <2> HIDE DEF state
  <2> QED BY <1>1, <2>1, <2>2, TrackedIsSound
<1>6. CASE c = "headTorso"
  <2>1. FS!BodyResult(frame)[c] = FS!HeadTorso(frame)
    BY <1>6 DEF FS!BodyResult, FS!Over, FS!SkeletonOf, FS!Skeleton, FS!BodyClasses
  <2> DEFINE torso == FS!RegionState(frame, "torso")
  <2>2. torso \in States
    BY <1>2, <1>3
  <2>3. CASE ~FS!Carries(torso)
    <3>1. FS!HeadTorso(frame) = FS!Tracked(FALSE, torso, body.time)
      BY <2>3 DEF FS!HeadTorso
    <3> HIDE DEF torso
    <3> QED BY <1>1, <2>1, <2>2, <2>3, <3>1, TrackedIsSound
  <2>4. CASE FS!Carries(torso) /\ frame.face # "Observed"
    <3>1. FS!HeadTorso(frame) = FS!Tracked(FALSE, frame.face, body.time)
      BY <2>4 DEF FS!HeadTorso
    <3>2. ~FS!Carries(frame.face)
      BY <1>4, <2>4 DEF FS!Carries
    <3> QED BY <1>1, <1>4, <2>1, <3>1, <3>2, TrackedIsSound
  <2>5. CASE FS!Carries(torso) /\ frame.face = "Observed"
    <3>1. FS!HeadTorso(frame) = FS!Tracked(TRUE, "Fused", body.time)
      BY <2>5 DEF FS!HeadTorso
    <3>2. FS!Carries("Fused")
      BY DEF FS!Carries
    <3> QED BY Zenon, <1>1, <2>1, <3>1, <3>2, TrackedIsSound
  <2> QED BY <2>3, <2>4, <2>5
<1>7. CASE c = "tongueDirection"
  <2>1. FS!BodyResult(frame)[c] = FS!Tracked(FS!Carries(frame.face), frame.face, body.time)
    BY <1>7 DEF FS!BodyResult, FS!Over, FS!SkeletonOf, FS!Skeleton, FS!BodyClasses
  <2> QED BY <1>1, <1>4, <2>1, TrackedIsSound
<1>8. CASE c \in FS!Regions
  <2> DEFINE state == FS!RegionState(frame, c)
  <2>1. FS!BodyResult(frame)[c] = FS!Tracked(FS!Carries(state), state, body.time)
    BY <1>8 DEF FS!BodyResult, FS!Over, FS!SkeletonOf, FS!Skeleton, FS!BodyClasses, FS!Regions
  <2>2. state \in States
    BY <1>2, <1>8
  <2> HIDE DEF state
  <2> QED BY <1>1, <2>1, <2>2, TrackedIsSound
<1> QED BY <1>5, <1>6, <1>7, <1>8 DEF FS!BodyClasses, FS!Regions

LEMMA FullSetConforms == FullSetInv => FS!ResultConforms
<1> SUFFICES ASSUME FullSetInv,
                    ~(/\ frame.bodyVisible /\ body # FS!NoBody
                      /\ \E r \in FS!Regions : body.visibility[r] = "Predicted"),
                    NEW c \in DOMAIN FS!Result
             PROVE  FS!Conforms(FS!Result[c])
  BY DEF FS!ResultConforms
<1>1. frame.time \in Nat
  BY FullSetParameters DEF FullSetInv, FS!TypeOK, FS!Input
<1>2. c \in (FS!BodyClasses \union FS!Skeleton) \union (FS!FaceClasses \union FS!FaceStructures)
  BY DEF FS!Result, FS!Over, FS!FaceResult, FS!FaceSlots, FS!FaceGeometry, FS!EmptySkeleton,
     FS!Unavailable, FS!BodyResult, FS!SkeletonOf
<1>3. CASE c \in FS!FaceClasses \union FS!FaceStructures
  <2>1. PICK state \in {"Observed", "Occluded", "OutOfFrame"} :
           FS!Result[c] = FS!Tracked(state = "Observed", state, frame.time)
    BY <1>3, FaceSlot
  <2>2. (state = "Observed") <=> FS!Carries(state)
    BY DEF FS!Carries
  <2>3. frame.time <= frame.time
    BY <1>1
  <2>4. /\ FS!Result[c].state = state /\ FS!Result[c].value = (state = "Observed")
        /\ FS!Result[c].horizon = 0 /\ FS!Result[c].time = frame.time
    BY <2>1 DEF FS!Tracked
  <2>5. FS!Result[c].value <=> FS!Carries(FS!Result[c].state)
    BY <2>2, <2>4, Zenon
  <2>6. Sound(FS!Result[c])
    BY <2>3, <2>4, <2>5 DEF Sound
  <2> QED BY <2>6, SoundConforms
<1>4. CASE c \in FS!BodyClasses \union FS!Skeleton
  <2>1. ~FS!Carries("OutOfFrame") /\ ~FS!Carries("TrackingLost")
    BY DEF FS!Carries
  <2>2. CASE FS!Result[c] = FS!Tracked(FALSE, "OutOfFrame", frame.time)
    <3>1. frame.time <= frame.time
      BY <1>1
    <3>2. Sound(FS!Result[c])
      BY <2>1, <2>2, <3>1 DEF Sound, FS!Tracked
    <3> QED BY <3>2, SoundConforms
  <2>3. CASE body # FS!NoBody /\ FS!Result[c] = FS!Tracked(FALSE, "TrackingLost", body.time)
    BY <2>1, <2>3, TrackedIsSound, SoundConforms DEF FullSetInv
  <2>4. CASE /\ frame.bodyVisible /\ FS!Fresh(frame, body)
             /\ FS!Result[c] = FS!BodyResult(frame)[c]
    BY <1>4, <2>4, BodyConforms, SoundConforms DEF FS!Fresh
  <2> QED BY Zenon, <1>4, <2>2, <2>3, <2>4, BodySlot
<1> QED BY <1>2, <1>3, <1>4

(***************************************************************************)
(* Whatever frames are dropped, streams restart and bodies are lost, a     *)
(* body value that is shown is of the frame's own stream and no older than *)
(* the configured age and interval.                                        *)
(***************************************************************************)
THEOREM BodyIsAlwaysCurrent == Spec => []BodyIsCurrent
<1>1. FullSetInv => BodyIsCurrent
  <2> SUFFICES ASSUME FullSetInv PROVE FS!BodyIsCurrent
    BY Zenon DEF BodyIsCurrent
  <2>1. ASSUME NEW c \in FS!BodyClasses \union FS!Skeleton, FS!Result[c].value
        PROVE  body.stream = frame.stream /\ frame.time - body.time \in 0 .. FSp.age
    <3>1. frame.bodyVisible /\ FS!Fresh(frame, body)
      BY <2>1, BodySlot DEF FS!Tracked
    <3> QED BY <3>1 DEF FS!Fresh, FullSetInv
  <2> QED BY <2>1 DEF FS!BodyIsCurrent, FullSetInv
<1> QED BY <1>1, FullSetInit, FSStep, FullSetStep, PTL DEF Spec

-----------------------------------------------------------------------------
(* CausalTemporalRefiner *)

RefinerStates == {"Observed", "Fused", "Predicted", "Occluded", "OutOfFrame", "TrackingLost"}
Values == {TR!NoValue} \union {TR!ValueFrom(t) : t \in 0 .. TRp.capture}
SampleSet ==
    [value : Values, state : RefinerStates, time : 0 .. TRp.capture, horizon : 0 .. TRp.capture]
Entry == {e \in [at : 1 .. TRp.capture, sample : SampleSet] : TR!Accepted(e.sample, e.at)}

StateAt(h, i) == h[i].sample.state

\* What seen says of the history: the observation is so many samples back, and nothing
\* was seen or lost since; or it has left a full history; or there is none.
SeenIn(h, m) ==
    \/ m = TR!NotSeen /\ TR!Observations(h) = {}
    \/ /\ m \in [time : 0 .. TRp.capture, samples : Nat] /\ m.samples < Len(h)
       /\ TR!Seen(StateAt(h, Len(h) - m.samples))
       /\ h[Len(h) - m.samples].sample.time = m.time
       /\ \A j \in Len(h) - m.samples + 1 .. Len(h) :
             ~TR!Seen(StateAt(h, j)) /\ StateAt(h, j) # "TrackingLost"
    \/ /\ m \in [time : 0 .. TRp.capture, samples : Nat] /\ m.samples >= Len(h)
       /\ Len(h) = TRp.frames
       /\ \A j \in 1 .. Len(h) : ~TR!Seen(StateAt(h, j))

RefinerInv ==
    /\ scope \in TRp.scopes
    /\ history \in Seq(Entry) /\ Len(history) <= TRp.frames
    /\ \A i \in 1 .. Len(history) : history[i].at <= history[Len(history)].at
    /\ given \in TRp.states \union {"Occluded"}
    /\ SeenIn(history, seen)
    /\ TR!ExtrapolatesLastObservation

\* A deque of bounded length: what it held moves one back when it is full.
LEMMA RememberEffect ==
    ASSUME NEW h \in Seq(Entry), Len(h) <= TRp.frames, NEW f \in Entry
    PROVE  LET g == TR!Remember(h, f)
           IN  /\ g \in Seq(Entry) /\ Len(g) \in 1 .. TRp.frames /\ g[Len(g)] = f
               /\ \E d \in {0, 1} :
                     /\ Len(g) = Len(h) + 1 - d /\ (d = 1 => Len(g) = TRp.frames)
                     /\ \A i \in 1 .. Len(g) - 1 : g[i] = h[i + d]
<1> DEFINE g == TR!Remember(h, f)
<1>1. CASE Len(h) < TRp.frames
  <2>1. g = Append(h, f)
    BY <1>1 DEF TR!Remember
  <2>2. g \in Seq(Entry) /\ Len(g) = Len(h) + 1 /\ g[Len(g)] = f
    BY <2>1
  <2>3. \A i \in 1 .. Len(g) - 1 : g[i] = h[i + 0]
    BY <2>1
  <2> QED BY <1>1, <2>2, <2>3, RefinerParameters
<1>2. CASE Len(h) = TRp.frames
  <2>1. g = Append(Tail(h), f)
    BY <1>2 DEF TR!Remember
  <2>2. /\ h # <<>> /\ Tail(h) \in Seq(Entry) /\ Len(Tail(h)) = Len(h) - 1
        /\ \A i \in 1 .. Len(h) - 1 : Tail(h)[i] = h[i + 1]
    BY <1>2, RefinerParameters
  <2>3. g \in Seq(Entry) /\ Len(g) = Len(h) /\ g[Len(g)] = f
    BY <2>1, <2>2
  <2>4. \A i \in 1 .. Len(g) - 1 : g[i] = h[i + 1]
    BY <2>1, <2>2, <2>3
  <2> QED BY <1>2, <2>3, <2>4, RefinerParameters
<1> QED BY <1>1, <1>2, RefinerParameters

\* The frame that _last_two_observations finds is the one seen names.
LEMMA ObservationFound ==
    ASSUME NEW h \in Seq(Entry), NEW m, SeenIn(h, m)
    PROVE  /\ TR!Observations(h) = {} <=> (m = TR!NotSeen \/ m.samples >= Len(h))
           /\ TR!Observations(h) # {} =>
                 /\ TR!LastObservation(h) = h[Len(h) - m.samples].sample
                 /\ Len(h) - m.samples \in 1 .. Len(h)
<1>1. CASE m = TR!NotSeen /\ TR!Observations(h) = {}
  BY <1>1
<1>2. CASE /\ m \in [time : 0 .. TRp.capture, samples : Nat] /\ m.samples < Len(h)
           /\ TR!Seen(StateAt(h, Len(h) - m.samples))
           /\ \A j \in Len(h) - m.samples + 1 .. Len(h) :
                 ~TR!Seen(StateAt(h, j)) /\ StateAt(h, j) # "TrackingLost"
  <2> DEFINE k == Len(h) - m.samples
  <2>1. k \in 1 .. Len(h) /\ DOMAIN h = 1 .. Len(h) /\ Len(h) \in Nat
    BY <1>2
  <2>2. \A j \in k .. Len(h) : StateAt(h, j) # "TrackingLost"
    BY <1>2, <2>1 DEF TR!Seen
  <2>3. k \in TR!Observations(h)
    BY <1>2, <2>1, <2>2 DEF TR!Observations, TR!AfterLoss, StateAt
  <2>4. \A j \in TR!Observations(h) : j \in 1 .. Len(h) /\ j <= k
    BY <1>2, <2>1 DEF TR!Observations, TR!AfterLoss, StateAt
  <2>5. (CHOOSE i \in TR!Observations(h) : \A j \in TR!Observations(h) : j <= i) = k
    BY <2>1, <2>3, <2>4
  <2>6. m # TR!NotSeen
    BY <1>2 DEF TR!NotSeen
  <2>7. TR!LastObservation(h) = h[k].sample
    BY <2>5 DEF TR!LastObservation
  <2>8. m.samples \in Nat /\ ~(m.samples >= Len(h))
    BY <1>2, <2>1
  <2> QED BY <2>1, <2>3, <2>6, <2>7, <2>8
<1>3. CASE /\ m \in [time : 0 .. TRp.capture, samples : Nat] /\ m.samples >= Len(h)
           /\ \A j \in 1 .. Len(h) : ~TR!Seen(StateAt(h, j))
  BY <1>3 DEF TR!Observations, TR!AfterLoss, StateAt
<1> QED BY <1>1, <1>2, <1>3 DEF SeenIn

\* Appending a sample that was not seen keeps the bookkeeping, one further back.
LEMMA SeenRemembered ==
    ASSUME NEW h \in Seq(Entry), Len(h) <= TRp.frames, NEW m, SeenIn(h, m), NEW f \in Entry
    PROVE  LET g == TR!Remember(h, f)
           IN  /\ TR!Seen(f.sample.state) =>
                     SeenIn(g, [time |-> f.sample.time, samples |-> 0])
               /\ f.sample.state = "TrackingLost" => SeenIn(g, TR!NotSeen)
               /\ ~TR!Seen(f.sample.state) /\ f.sample.state # "TrackingLost" =>
                     SeenIn(g, IF m = TR!NotSeen THEN m
                               ELSE [time |-> m.time, samples |-> m.samples + 1])
<1> DEFINE g == TR!Remember(h, f)
<1> HIDE DEF g
<1>1. /\ g \in Seq(Entry) /\ Len(g) \in 1 .. TRp.frames /\ g[Len(g)] = f
      /\ \E d \in {0, 1} :
            /\ Len(g) = Len(h) + 1 - d /\ (d = 1 => Len(g) = TRp.frames)
            /\ \A i \in 1 .. Len(g) - 1 : g[i] = h[i + d]
  BY RememberEffect, Zenon DEF g
<1>2. PICK d \in {0, 1} :
         /\ Len(g) = Len(h) + 1 - d /\ (d = 1 => Len(g) = TRp.frames)
         /\ \A i \in 1 .. Len(g) - 1 : g[i] = h[i + d]
  BY <1>1
<1>3. DOMAIN g = 1 .. Len(g) /\ DOMAIN h = 1 .. Len(h) /\ Len(h) \in Nat /\ TRp.frames \in Nat
  BY <1>1, RefinerParameters
<1>4. f.sample.time \in 0 .. TRp.capture
  BY DEF Entry, SampleSet
<1>5. ASSUME TR!Seen(f.sample.state)
      PROVE  SeenIn(g, [time |-> f.sample.time, samples |-> 0])
  <2> DEFINE new == [time |-> f.sample.time, samples |-> 0]
  <2>1. new \in [time : 0 .. TRp.capture, samples : Nat] /\ new.samples < Len(g)
    BY <1>1, <1>4
  <2>2. Len(g) - new.samples = Len(g)
    BY <1>1
  <2>3. TR!Seen(StateAt(g, Len(g))) /\ g[Len(g)].sample.time = new.time
    BY <1>1, <1>5 DEF StateAt
  <2>4. \A j \in Len(g) - new.samples + 1 .. Len(g) : FALSE
    BY <1>1
  <2> QED BY <2>1, <2>2, <2>3, <2>4 DEF SeenIn
<1>6. ASSUME f.sample.state = "TrackingLost" PROVE SeenIn(g, TR!NotSeen)
  <2>1. \A i \in 1 .. Len(g) : Len(g) \in i .. Len(g)
    BY <1>1
  <2>2. TR!AfterLoss(g) = {}
    BY <1>1, <1>3, <1>6, <2>1 DEF TR!AfterLoss
  <2> QED BY <2>2 DEF SeenIn, TR!Observations
<1>7. ASSUME ~TR!Seen(f.sample.state), f.sample.state # "TrackingLost"
      PROVE  SeenIn(g, IF m = TR!NotSeen THEN m
                       ELSE [time |-> m.time, samples |-> m.samples + 1])
  <2>1. CASE m = TR!NotSeen /\ TR!Observations(h) = {}
    <3>1. ASSUME NEW i \in TR!Observations(g) PROVE FALSE
      <4>1. /\ i \in 1 .. Len(g) /\ TR!Seen(g[i].sample.state)
            /\ \A j \in i .. Len(g) : g[j].sample.state # "TrackingLost"
        BY <1>3, <3>1 DEF TR!Observations, TR!AfterLoss
      <4>2. i \in 1 .. Len(g) - 1
        BY <1>1, <1>7, <4>1
      <4>3. i + d \in 1 .. Len(h) /\ h[i + d] = g[i]
        <5>1. h[i + d] = g[i]
          BY <1>2, <4>2
        <5>2. i + d \in 1 .. Len(h)
          BY <1>1, <1>2, <1>3, <4>2
        <5> QED BY <5>1, <5>2
      <4>4. ASSUME NEW j \in i + d .. Len(h) PROVE h[j].sample.state # "TrackingLost"
        <5>1. j - d \in i .. Len(g) /\ j - d \in 1 .. Len(g) - 1 /\ (j - d) + d = j
          BY <1>2, <1>3, <4>2, <4>4
        <5> QED BY <1>2, <4>1, <5>1
      <4>5. i + d \in TR!Observations(h)
        BY <1>3, <4>1, <4>3, <4>4 DEF TR!Observations, TR!AfterLoss
      <4> QED BY <2>1, <4>5
    <3> QED BY <2>1, <3>1 DEF SeenIn
  <2>2. CASE /\ m \in [time : 0 .. TRp.capture, samples : Nat] /\ m.samples < Len(h)
             /\ TR!Seen(StateAt(h, Len(h) - m.samples))
             /\ h[Len(h) - m.samples].sample.time = m.time
             /\ \A j \in Len(h) - m.samples + 1 .. Len(h) :
                   ~TR!Seen(StateAt(h, j)) /\ StateAt(h, j) # "TrackingLost"
    <3> DEFINE new == [time |-> m.time, samples |-> m.samples + 1]
               back == Len(h) - m.samples
    <3>1. new \in [time : 0 .. TRp.capture, samples : Nat] /\ m # TR!NotSeen
      BY <2>2 DEF TR!NotSeen
    <3>2. back \in 1 .. Len(h) /\ m.samples \in Nat
      BY <1>3, <2>2
    <3>3. ASSUME NEW j \in 1 .. Len(g), j + d > back
          PROVE  ~TR!Seen(StateAt(g, j)) /\ StateAt(g, j) # "TrackingLost"
      <4>1. CASE j = Len(g)
        BY <1>1, <1>7, <4>1 DEF StateAt
      <4>2. CASE j # Len(g)
        <5>1. Len(g) \in Nat /\ Len(h) \in Nat
          BY <1>1, <1>3
        <5>2. j \in 1 .. Len(g) - 1
          BY <3>3, <4>2, <5>1
        <5>3. j + d \in 1 .. Len(h)
          BY <1>2, <5>2
        <5>4. j + d \in back + 1 .. Len(h)
          BY <1>2, <3>2, <3>3, <5>2, <5>3
        <5>5. g[j] = h[j + d]
          BY <1>2, <5>2
        <5> QED BY <2>2, <5>2, <5>4, <5>5 DEF StateAt
      <4> QED BY <4>1, <4>2
    <3>4. CASE new.samples < Len(g)
      <4>1. /\ Len(g) - new.samples = back - d /\ back - d \in 1 .. Len(g) - 1
            /\ (back - d) + d = back
        BY <1>2, <1>3, <3>2, <3>4
      <4>2. g[back - d] = h[back]
        BY <1>2, <4>1
      <4>3. \A j \in (back - d) + 1 .. Len(g) : j \in 1 .. Len(g) /\ j + d > back
        <5> SUFFICES ASSUME NEW j \in (back - d) + 1 .. Len(g)
                     PROVE  j \in 1 .. Len(g) /\ j + d > back
          OBVIOUS
        <5>1. d \in Nat /\ Len(g) \in Nat
          BY <1>1, <1>2
        <5>2. back \in Nat
          BY <1>3, <3>2
        <5>3. back - d >= 1
          BY <4>1, <5>1
        <5> HIDE DEF back
        <5> QED BY <5>1, <5>2, <5>3
      <4> HIDE DEF new
      <4>4. new.time = m.time
        BY DEF new
      <4> QED BY <2>2, <3>1, <3>3, <3>4, <4>1, <4>2, <4>3, <4>4 DEF SeenIn, StateAt, new
    <3>5. CASE new.samples >= Len(g)
      <4>1. d = 1 /\ back = 1
        BY <1>2, <1>3, <2>2, <3>2, <3>5
      <4>2. \A j \in 1 .. Len(g) : ~TR!Seen(StateAt(g, j))
        BY <3>3, <4>1
      <4> QED BY <1>2, <3>1, <3>5, <4>1, <4>2 DEF SeenIn
    <3> QED BY <1>1, <3>1, <3>2, <3>4, <3>5
  <2>3. CASE /\ m \in [time : 0 .. TRp.capture, samples : Nat] /\ m.samples >= Len(h)
             /\ Len(h) = TRp.frames
             /\ \A j \in 1 .. Len(h) : ~TR!Seen(StateAt(h, j))
    <3> DEFINE new == [time |-> m.time, samples |-> m.samples + 1]
    <3>1. new \in [time : 0 .. TRp.capture, samples : Nat] /\ m # TR!NotSeen
      BY <2>3 DEF TR!NotSeen
    <3>2. d = 1 /\ Len(g) = TRp.frames /\ new.samples >= Len(g)
      BY <1>1, <1>2, <1>3, <2>3
    <3>3. ASSUME NEW j \in 1 .. Len(g) PROVE ~TR!Seen(StateAt(g, j))
      <4>1. CASE j = Len(g)
        BY <1>1, <1>7, <4>1 DEF StateAt
      <4>2. CASE j # Len(g)
        <5>1. g[j] = h[j + 1] /\ j + 1 \in 1 .. Len(h)
          BY <1>2, <1>3, <2>3, <3>2, <4>2
        <5> QED BY <2>3, <5>1 DEF StateAt
      <4> QED BY <4>1, <4>2
    <3> QED BY <3>1, <3>2, <3>3 DEF SeenIn
  <2> QED BY <2>1, <2>2, <2>3 DEF SeenIn
<1> QED BY <1>5, <1>6, <1>7 DEF g

\* What _refine_one makes of a sample, in terms of what was seen last.
LEMMA RefinedSample ==
    ASSUME NEW h \in Seq(Entry), Len(h) <= TRp.frames,
           \A i \in 1 .. Len(h) : h[i].at <= h[Len(h)].at,
           NEW m, SeenIn(h, m), NEW now \in 1 .. TRp.capture, now > TR!LastCapture(h),
           NEW sample \in SampleSet, TR!Accepted(sample, now)
    PROVE  LET r == TR!Refined(sample, h, now)
           IN  /\ [at |-> now, sample |-> r] \in Entry
               /\ TR!Seen(sample.state) => r = sample
               /\ TR!Seen(r.state) <=> TR!Seen(sample.state)
               /\ TR!Hidden(sample.state) =>
                    \/ m = TR!NotSeen /\ r = sample
                    \/ m # TR!NotSeen /\ m.samples >= TRp.frames /\ r = sample
                    \/ /\ m # TR!NotSeen /\ m.samples < TRp.frames
                       /\ now - m.time \in 1 .. TRp.prediction
                       /\ r = TR!Sample(TR!ValueFrom(m.time), "Predicted", m.time, now - m.time)
                    \/ /\ m # TR!NotSeen /\ now - m.time \notin 1 .. TRp.prediction
                       /\ r.state = "TrackingLost"
<1> DEFINE r == TR!Refined(sample, h, now)
<1>1. /\ sample.state \in RefinerStates /\ sample.time \in 0 .. TRp.capture
      /\ sample.horizon \in 0 .. TRp.capture /\ sample.value \in Values
      /\ now \in Nat /\ TRp.capture \in Nat /\ Len(h) \in Nat
  BY RefinerParameters DEF SampleSet
<1>2. [at |-> now, sample |-> sample] \in Entry
  BY DEF Entry
<1>3. CASE TR!Seen(sample.state) \/ sample.state = "Predicted"
  <2>1. r = sample
    BY <1>3 DEF TR!Refined, TR!Seen, TR!Hidden
  <2>2. ~TR!Hidden(sample.state)
    BY <1>3 DEF TR!Seen, TR!Hidden
  <2> QED BY <1>2, <2>1, <2>2
<1>4. CASE sample.state = "TrackingLost"
  <2>1. r = TR!Sample(TR!NoValue, "TrackingLost", now, 0)
    BY <1>4 DEF TR!Refined, TR!Seen, TR!Hidden
  <2>2. /\ r.value = TR!NoValue /\ r.state = "TrackingLost" /\ r.time = now /\ r.horizon = 0
        /\ r = [value |-> r.value, state |-> r.state, time |-> r.time, horizon |-> r.horizon]
    BY <2>1 DEF TR!Sample
  <2>3. r \in SampleSet
    BY <1>1, <2>1 DEF SampleSet, TR!Sample, Values, RefinerStates
  <2>4. TR!Accepted(r, now)
    BY <1>1, <2>2 DEF TR!Accepted, TR!Seen
  <2>5. ~TR!Seen(r.state) /\ ~TR!Seen(sample.state) /\ ~TR!Hidden(sample.state)
    BY <1>4, <2>2 DEF TR!Seen, TR!Hidden
  <2> HIDE DEF r
  <2>6. [at |-> now, sample |-> r] \in Entry
    BY <2>3, <2>4 DEF Entry
  <2> QED BY <2>5, <2>6 DEF r
<1>5. CASE TR!Hidden(sample.state) /\ TR!Observations(h) = {}
  <2>1. r = sample
    BY <1>5 DEF TR!Refined, TR!Seen, TR!Hidden
  <2>2. m = TR!NotSeen \/ m.samples >= Len(h)
    BY <1>5, ObservationFound
  <2>3. m # TR!NotSeen => m.samples >= TRp.frames
    <3>1. m # TR!NotSeen => m.samples \in Nat
      BY DEF SeenIn
    <3> QED BY <1>1, <2>2, <3>1 DEF SeenIn
  <2>4. ~TR!Seen(sample.state)
    BY <1>5 DEF TR!Seen, TR!Hidden
  <2> QED BY <1>2, <2>1, <2>3, <2>4
<1>6. CASE TR!Hidden(sample.state) /\ TR!Observations(h) # {}
  <2> DEFINE k == Len(h) - m.samples
             last == h[k].sample
  <2>1. /\ TR!LastObservation(h) = last /\ k \in 1 .. Len(h)
        /\ m # TR!NotSeen /\ ~(m.samples >= Len(h))
    BY <1>6, ObservationFound
  <2>2. /\ m \in [time : 0 .. TRp.capture, samples : Nat] /\ m.samples < TRp.frames
        /\ TR!Seen(last.state) /\ last.time = m.time
    BY <1>1, <2>1, RefinerParameters DEF SeenIn, StateAt
  <2>3. /\ h[k] \in Entry /\ h[k].at <= h[Len(h)].at /\ h[Len(h)] \in Entry
        /\ Len(h) # 0
    BY <1>1, <2>1
  <2>4. h[Len(h)].at < now
    BY <2>3 DEF TR!LastCapture
  <2>5. last.value = TR!ValueFrom(m.time) /\ m.time \in Nat /\ m.time <= h[k].at
    BY <2>2, <2>3 DEF Entry, TR!Accepted
  <2>6. h[k].at \in Nat /\ h[Len(h)].at \in Nat
    BY <2>3 DEF Entry
  <2>7. m.time < now
    BY <1>1, <2>3, <2>4, <2>5, <2>6
  <2>8. r = TR!Extrapolate(last, now)
    BY <1>6, <2>1 DEF TR!Refined, TR!Seen, TR!Hidden
  <2>9. ~TR!Seen(sample.state)
    BY <1>6 DEF TR!Seen, TR!Hidden
  <2>10. CASE now - m.time \in 1 .. TRp.prediction
    <3>1. r = TR!Sample(TR!ValueFrom(m.time), "Predicted", m.time, now - m.time)
      BY <2>2, <2>5, <2>8, <2>10 DEF TR!Extrapolate
    <3>2. now - m.time \in 0 .. TRp.capture /\ now - m.time > 0 /\ m.time \in 0 .. now
          /\ m.time \in 0 .. TRp.capture
      BY <1>1, <2>5, <2>7
    <3>3. r \in SampleSet
      BY <3>1, <3>2 DEF SampleSet, TR!Sample, Values, RefinerStates
    <3>4. /\ r.value = TR!ValueFrom(m.time) /\ r.state = "Predicted" /\ r.time = m.time
          /\ r.horizon = now - m.time
      BY <3>1 DEF TR!Sample
    <3>5. TR!Accepted(r, now) /\ ~TR!Seen(r.state)
      BY <3>2, <3>4 DEF TR!Accepted, TR!Seen
    <3> HIDE DEF r
    <3>6. [at |-> now, sample |-> r] \in Entry
      BY <3>3, <3>5 DEF Entry
    <3> QED BY <2>1, <2>2, <2>9, <2>10, <3>1, <3>5, <3>6 DEF r
  <2>11. CASE now - m.time \notin 1 .. TRp.prediction
    <3>1. r = TR!Sample(TR!NoValue, "TrackingLost", m.time, 0)
      BY <2>2, <2>5, <2>8, <2>11 DEF TR!Extrapolate
    <3>2. m.time \in 0 .. now /\ m.time \in 0 .. TRp.capture
      BY <1>1, <2>5, <2>7
    <3>3. r \in SampleSet
      BY <1>1, <3>1, <3>2 DEF SampleSet, TR!Sample, Values, RefinerStates
    <3>4. r.value = TR!NoValue /\ r.state = "TrackingLost" /\ r.time = m.time /\ r.horizon = 0
      BY <3>1 DEF TR!Sample
    <3>5. TR!Accepted(r, now) /\ ~TR!Seen(r.state)
      BY <3>2, <3>4 DEF TR!Accepted, TR!Seen
    <3> HIDE DEF r
    <3>6. [at |-> now, sample |-> r] \in Entry
      BY <3>3, <3>5 DEF Entry
    <3> QED BY <2>1, <2>9, <2>11, <3>4, <3>5, <3>6 DEF r
  <2> QED BY <2>10, <2>11
<1> QED BY <1>1, <1>3, <1>4, <1>5, <1>6 DEF RefinerStates, TR!Seen, TR!Hidden

LEMMA HistoryKept ==
    ASSUME RefinerInv, NEW s \in TRp.scopes
    PROVE  LET h == TR!HistoryIn(s)
           IN  /\ h \in Seq(Entry) /\ Len(h) <= TRp.frames
               /\ \A i \in 1 .. Len(h) : h[i].at <= h[Len(h)].at
               /\ SeenIn(h, IF s = scope THEN seen ELSE TR!NotSeen)
<1>1. CASE s = scope
  BY <1>1 DEF TR!HistoryIn, RefinerInv
<1>2. CASE s # scope
  <2>1. <<>> \in Seq(Entry) /\ Len(<<>>) = 0 /\ TR!Observations(<<>>) = {}
    BY DEF TR!Observations, TR!AfterLoss
  <2> QED BY <1>2, <2>1, RefinerParameters DEF TR!HistoryIn, SeenIn
<1> QED BY <1>1, <1>2

LEMMA InputIsSample ==
    ASSUME NEW now \in 1 .. TRp.capture, NEW sample \in TR!Inputs(now)
    PROVE  sample \in SampleSet /\ sample.state \in TRp.states
<1>1. PICK state \in TRp.states :
         LET time == IF state \in {"Fused", "Predicted"} THEN now - 1 ELSE now
         IN  sample = TR!Sample(IF TR!Seen(state) \/ state = "Predicted"
                                THEN TR!ValueFrom(time) ELSE TR!NoValue,
                                state, time, IF state = "Predicted" THEN now - time ELSE 0)
  BY DEF TR!Inputs
<1> DEFINE time == IF state \in {"Fused", "Predicted"} THEN now - 1 ELSE now
<1>2. time \in 0 .. TRp.capture /\ now - time \in 0 .. TRp.capture /\ 0 \in 0 .. TRp.capture
  BY RefinerParameters
<1> HIDE DEF time
<1>3. /\ TR!ValueFrom(time) \in Values /\ TR!NoValue \in Values /\ state \in RefinerStates
  BY <1>2, RefinerParameters DEF Values, RefinerStates
<1>4. /\ sample = TR!Sample(IF TR!Seen(state) \/ state = "Predicted"
                            THEN TR!ValueFrom(time) ELSE TR!NoValue,
                            state, time, IF state = "Predicted" THEN now - time ELSE 0)
  BY <1>1 DEF time
<1> QED BY <1>2, <1>3, <1>4 DEF SampleSet, TR!Sample

LEMMA ProcessKeeps ==
    ASSUME RefinerInv, NEW s \in TRp.scopes, NEW now \in 1 .. TRp.capture,
           NEW sample \in TR!Inputs(now), TR!Process(s, sample, now)
    PROVE  RefinerInv'
<1> DEFINE h == TR!HistoryIn(s)
           m == IF s = scope THEN seen ELSE TR!NotSeen
           r == TR!Refined(sample, h, now)
           e == [at |-> now, sample |-> r]
           g == TR!Remember(h, e)
<1>1. /\ h \in Seq(Entry) /\ Len(h) <= TRp.frames /\ SeenIn(h, m)
      /\ \A i \in 1 .. Len(h) : h[i].at <= h[Len(h)].at
  BY HistoryKept
<1>2. sample \in SampleSet /\ sample.state \in TRp.states
  BY InputIsSample
<1>3. /\ now > TR!LastCapture(h) /\ TR!Accepted(sample, now) /\ scope' = s
      /\ history' = g /\ given' = sample.state
      /\ seen' = CASE TR!Seen(sample.state) -> [time |-> sample.time, samples |-> 0]
                   [] r.state = "TrackingLost" -> TR!NotSeen
                   [] OTHER -> IF s = scope /\ seen # TR!NotSeen
                               THEN [seen EXCEPT !.samples = @ + 1] ELSE TR!NotSeen
  BY DEF TR!Process
<1> HIDE DEF h
<1>4. /\ e \in Entry
      /\ TR!Seen(sample.state) => r = sample
      /\ TR!Seen(r.state) <=> TR!Seen(sample.state)
      /\ TR!Hidden(sample.state) =>
           \/ m = TR!NotSeen /\ r = sample
           \/ m # TR!NotSeen /\ m.samples >= TRp.frames /\ r = sample
           \/ /\ m # TR!NotSeen /\ m.samples < TRp.frames
              /\ now - m.time \in 1 .. TRp.prediction
              /\ r = TR!Sample(TR!ValueFrom(m.time), "Predicted", m.time, now - m.time)
           \/ /\ m # TR!NotSeen /\ now - m.time \notin 1 .. TRp.prediction
              /\ r.state = "TrackingLost"
  BY <1>1, <1>2, <1>3, RefinedSample
<1> HIDE DEF r
<1>5. e.sample = r /\ e.at = now
  OBVIOUS
<1> HIDE DEF e, m
<1>6. /\ g \in Seq(Entry) /\ Len(g) \in 1 .. TRp.frames /\ g[Len(g)] = e
      /\ \E d \in {0, 1} :
            /\ Len(g) = Len(h) + 1 - d /\ (d = 1 => Len(g) = TRp.frames)
            /\ \A i \in 1 .. Len(g) - 1 : g[i] = h[i + d]
  BY Zenon, <1>1, <1>4, RememberEffect
<1>7. /\ TR!Seen(r.state) => SeenIn(g, [time |-> r.time, samples |-> 0])
      /\ r.state = "TrackingLost" => SeenIn(g, TR!NotSeen)
      /\ ~TR!Seen(r.state) /\ r.state # "TrackingLost" =>
            SeenIn(g, IF m = TR!NotSeen THEN m
                      ELSE [time |-> m.time, samples |-> m.samples + 1])
  BY Zenon, <1>1, <1>4, <1>5, SeenRemembered
<1> HIDE DEF g
<1>8. m \in [time : 0 .. TRp.capture, samples : Nat] \/ m = TR!NotSeen
  BY <1>1 DEF SeenIn
<1>9. /\ TR!Seen(r.state) => seen' = [time |-> r.time, samples |-> 0]
      /\ r.state = "TrackingLost" => seen' = TR!NotSeen
      /\ ~TR!Seen(r.state) /\ r.state # "TrackingLost" =>
            seen' = IF m = TR!NotSeen THEN m ELSE [time |-> m.time, samples |-> m.samples + 1]
  <2>1. CASE TR!Seen(r.state)
    <3>1. r.state # "TrackingLost"
      BY <2>1 DEF TR!Seen
    <3> QED BY <1>3, <1>4, <2>1, <3>1
  <2>2. CASE r.state = "TrackingLost"
    <3>1. ~TR!Seen(r.state)
      BY <2>2 DEF TR!Seen
    <3> QED BY <1>3, <1>4, <2>2, <3>1
  <2>3. CASE ~TR!Seen(r.state) /\ r.state # "TrackingLost"
    <3>1. seen' = IF s = scope /\ seen # TR!NotSeen
                  THEN [seen EXCEPT !.samples = @ + 1] ELSE TR!NotSeen
      BY <1>3, <1>4, <2>3
    <3>2. CASE s = scope /\ seen # TR!NotSeen
      <4>1. m = seen /\ m \in [time : 0 .. TRp.capture, samples : Nat]
        BY <1>8, <3>2 DEF m
      <4>2. [m EXCEPT !.samples = @ + 1] = [time |-> m.time, samples |-> m.samples + 1]
        BY <4>1
      <4> QED BY <2>3, <3>1, <3>2, <4>1, <4>2
    <3>3. CASE ~(s = scope /\ seen # TR!NotSeen)
      BY <2>3, <3>1, <3>3 DEF m
    <3> QED BY <3>2, <3>3
  <2> QED BY <2>1, <2>2, <2>3
<1>10. SeenIn(g, seen')
  BY <1>7, <1>9
<1>11. \A i \in 1 .. Len(g) : g[i].at <= g[Len(g)].at
  <2> SUFFICES ASSUME NEW i \in 1 .. Len(g) PROVE g[i].at <= now
    BY <1>5, <1>6
  <2>1. CASE i = Len(g)
    BY <1>5, <1>6, <2>1
  <2>2. CASE i # Len(g)
    <3>1. PICK d \in {0, 1} : /\ Len(g) = Len(h) + 1 - d
                              /\ \A j \in 1 .. Len(g) - 1 : g[j] = h[j + d]
      BY <1>6
    <3>2. i \in 1 .. Len(g) - 1 /\ Len(g) \in Nat /\ Len(h) \in Nat
      BY <1>1, <1>6, <2>2
    <3>3. g[i] = h[i + d]
      BY <3>1, <3>2
    <3>4. i + d \in 1 .. Len(h) /\ Len(h) # 0
      BY <3>1, <3>2
    <3>5. h[i + d] \in Entry /\ h[Len(h)] \in Entry /\ h[i + d].at <= h[Len(h)].at
      BY <1>1, <3>2, <3>4
    <3>6. h[i + d].at \in Nat /\ h[Len(h)].at \in Nat
      BY <3>5 DEF Entry
    <3>7. h[Len(h)].at < now
      BY <1>3, <3>4, <3>6 DEF TR!LastCapture
    <3> QED BY <3>3, <3>5, <3>6, <3>7
  <2> QED BY <2>1, <2>2
<1>12. TR!ExtrapolatesLastObservation'
  <2> SUFFICES ASSUME TR!Hidden(sample.state)
               PROVE  /\ r.state = "Predicted" <=>
                           /\ seen' # TR!NotSeen /\ now - seen'.time \in 1 .. TRp.prediction
                           /\ seen'.samples <= TRp.frames
                      /\ r.state = "Predicted" =>
                            r.time = seen'.time /\ r.value = TR!ValueFrom(seen'.time)
    BY <1>3, <1>5, <1>6 DEF TR!ExtrapolatesLastObservation, TR!Last, TR!LastAt
  <2>1. ~TR!Seen(r.state) /\ sample.state # "TrackingLost" /\ sample.state # "Predicted"
    BY <1>4 DEF TR!Seen, TR!Hidden
  <2>2. CASE m = TR!NotSeen /\ r = sample
    BY <1>9, <2>1, <2>2
  <2>3. CASE m # TR!NotSeen /\ m.samples >= TRp.frames /\ r = sample
    <3>1. seen' = [time |-> m.time, samples |-> m.samples + 1] /\ m.samples \in Nat
      BY <1>8, <1>9, <2>1, <2>3
    <3>2. ~(seen'.samples <= TRp.frames)
      BY <2>3, <3>1, RefinerParameters
    <3> QED BY <2>1, <2>3, <3>2
  <2>4. CASE /\ m # TR!NotSeen /\ m.samples < TRp.frames
             /\ now - m.time \in 1 .. TRp.prediction
             /\ r = TR!Sample(TR!ValueFrom(m.time), "Predicted", m.time, now - m.time)
    <3>1. /\ r.state = "Predicted" /\ r.time = m.time /\ r.value = TR!ValueFrom(m.time)
      BY <2>4 DEF TR!Sample
    <3>2. seen' = [time |-> m.time, samples |-> m.samples + 1] /\ m.samples \in Nat
          /\ m.time \in Nat
      BY <1>8, <1>9, <2>1, <2>4, <3>1
    <3>3. seen' # TR!NotSeen /\ seen'.time = m.time /\ seen'.samples <= TRp.frames
      BY <2>4, <3>2, RefinerParameters DEF TR!NotSeen
    <3> QED BY <2>4, <3>1, <3>3
  <2>5. CASE /\ m # TR!NotSeen /\ now - m.time \notin 1 .. TRp.prediction
             /\ r.state = "TrackingLost"
    BY <1>9, <2>5
  <2> QED BY <1>4, <2>2, <2>3, <2>4, <2>5
<1> QED BY <1>2, <1>3, <1>6, <1>10, <1>11, <1>12 DEF RefinerInv

LEMMA RefinerStep == RefinerInv /\ [TR!Next]_(TR!vars) => RefinerInv'
<1> SUFFICES ASSUME RefinerInv, [TR!Next]_(TR!vars) PROVE RefinerInv'
  OBVIOUS
<1>1. CASE UNCHANGED TR!vars
  BY <1>1 DEF TR!vars, RefinerInv, TR!ExtrapolatesLastObservation, TR!Last, TR!LastAt
<1>2. ASSUME NEW s \in TRp.scopes, TR!ProcessRaises(s) PROVE RefinerInv'
  <2>1. /\ history' = TR!HistoryIn(s) /\ scope' = s /\ given' = given
        /\ seen' = IF s = scope THEN seen ELSE TR!NotSeen
    BY <1>2 DEF TR!ProcessRaises
  <2>2. TR!ExtrapolatesLastObservation'
    <3>1. CASE s = scope
      BY <2>1, <3>1 DEF RefinerInv, TR!HistoryIn, TR!ExtrapolatesLastObservation, TR!Last,
         TR!LastAt
    <3>2. CASE s # scope
      BY <2>1, <3>2 DEF TR!HistoryIn, TR!ExtrapolatesLastObservation
    <3> QED BY <3>1, <3>2
  <2>3. /\ TR!HistoryIn(s) \in Seq(Entry) /\ Len(TR!HistoryIn(s)) <= TRp.frames
        /\ \A i \in 1 .. Len(TR!HistoryIn(s)) :
              TR!HistoryIn(s)[i].at <= TR!HistoryIn(s)[Len(TR!HistoryIn(s))].at
        /\ SeenIn(TR!HistoryIn(s), IF s = scope THEN seen ELSE TR!NotSeen)
    BY HistoryKept
  <2> QED BY <2>1, <2>2, <2>3 DEF RefinerInv
<1> QED BY <1>1, <1>2, ProcessKeeps DEF TR!Next

LEMMA RefinerInit == Init => RefinerInv
<1> SUFFICES ASSUME TR!Init PROVE RefinerInv
  BY Zenon DEF Init
<1>1. (CHOOSE s \in TRp.scopes : TRUE) \in TRp.scopes
  BY RefinerParameters
<1>2. <<>> \in Seq(Entry) /\ Len(<<>>) = 0 /\ TR!Observations(<<>>) = {}
  BY DEF TR!Observations, TR!AfterLoss
<1> QED BY <1>1, <1>2, RefinerParameters
        DEF TR!Init, RefinerInv, SeenIn, TR!ExtrapolatesLastObservation

LEMMA RefinerConforms == RefinerInv => TR!ResultConforms
<1> SUFFICES ASSUME RefinerInv, history # <<>>, given \in {"Observed", "Occluded", "OutOfFrame"}
             PROVE  /\ TR!Conforms(TR!Last, TR!LastAt)
                    /\ TR!Conforms(TR!Unsupported, TR!LastAt)
                    /\ TR!Conforms(TR!ModelSample(given, TR!LastAt), TR!LastAt)
  BY DEF TR!ResultConforms, TR!ResultOf, TR!Slots
<1>1. history[Len(history)] \in Entry
  BY DEF RefinerInv
<1>2. /\ TR!LastAt \in Nat /\ TR!Accepted(TR!Last, TR!LastAt) /\ TR!Last \in SampleSet
  BY <1>1 DEF Entry, TR!Last, TR!LastAt
<1>3. TR!Last.state \in RefinerStates /\ TR!Last.time \in Nat /\ TR!Last.horizon \in Nat
  BY <1>2 DEF SampleSet
<1>4. TR!Conforms(TR!Last, TR!LastAt)
  BY <1>2, <1>3 DEF TR!Conforms, TR!Accepted, TR!Seen, TR!NoValue, TR!ValueFrom, RefinerStates
<1>5. TR!Conforms(TR!Unsupported, TR!LastAt)
  BY <1>2 DEF TR!Conforms, TR!Unsupported, TR!Sample, TR!NoValue
<1>6. TR!Conforms(TR!ModelSample(given, TR!LastAt), TR!LastAt)
  BY <1>2 DEF TR!Conforms, TR!ModelSample, TR!Sample, TR!NoValue, TR!ValueFrom
<1> QED BY <1>4, <1>5, <1>6

(***************************************************************************)
(* A hidden signal keeps the value of the observation made last in its     *)
(* scope, and only as long as prediction and history allow, whatever is    *)
(* seen, hidden and lost and however the scope changes.                    *)
(***************************************************************************)
THEOREM AlwaysExtrapolatesLastObservation == Spec => []ExtrapolatesLastObservation
<1>1. RefinerInv => ExtrapolatesLastObservation
  BY DEF RefinerInv, ExtrapolatesLastObservation
<1> QED BY <1>1, RefinerInit, TRStep, RefinerStep, PTL DEF Spec

(***************************************************************************)
(* What the producers publish obeys the rules of the receiver's validator: *)
(* of the face, of the body and of the samples the refiner has made.       *)
(***************************************************************************)
THEOREM ResultAlwaysConforms == Spec => []ResultConforms
<1>1. FullSetInv /\ RefinerInv => ResultConforms
  BY FullSetConforms, RefinerConforms DEF ResultConforms
<1> QED BY <1>1, FullSetInit, FSStep, FullSetStep, RefinerInit, TRStep, RefinerStep, PTL
        DEF Spec

-----------------------------------------------------------------------------
(* Level C calibration *)

\* A span of a side, as the drift and the least span allow it.
SpanAllowed(x, base) ==
    \/ OC!Near(x, base, base \div OCp.fraction)
    \/ base < OCp.span /\ x = OCp.span

SignalProfile(base) ==
    {p \in [neutral : Int, negative : Nat \ {0}, positive : Nat \ {0}] :
        /\ OC!Near(p.neutral, base.neutral, OCp.drift)
        /\ SpanAllowed(p.negative, base.negative) /\ SpanAllowed(p.positive, base.positive)}

Profile ==
    {p \in [OC!Signals -> [neutral : Int, negative : Nat \ {0}, positive : Nat \ {0}]] :
        \A s \in OC!Signals : p[s] \in SignalProfile(OCp.baseline[s])}

\* h is the end of t.
Ends(h, t) ==
    /\ Len(h) <= Len(t)
    /\ \A i \in 1 .. Len(h) : h[i] = t[Len(t) - Len(h) + i]

CalibrationInv ==
    /\ current \in Profile /\ snapshots \in Seq(Profile) /\ trail \in Seq(Profile)
    /\ updates \in Nat /\ Len(snapshots) <= OCp.depth /\ Len(snapshots) <= updates
    /\ Ends(snapshots, trail)
    /\ Len(snapshots) < Len(trail) => updates > OCp.depth

LEMMA TowardsIsNear ==
    ASSUME NEW x \in Int, NEW target \in Int, NEW base \in Int, NEW drift \in Nat
    PROVE  /\ OC!Towards(x, target, base, drift) \in Int
           /\ OC!Near(OC!Towards(x, target, base, drift), base, drift)
BY CalibrationParameters DEF OC!Towards, OC!Clip, OC!Near

\* The greater of the least span and a value near the baseline.
LEMMA SpanStaysAllowed ==
    ASSUME NEW x \in Int, NEW base \in Nat \ {0},
           OC!Near(x, base, base \div OCp.fraction)
    PROVE  /\ OC!Max({OCp.span, x}) \in Nat \ {0}
           /\ SpanAllowed(OC!Max({OCp.span, x}), base)
<1> DEFINE greater == IF x >= OCp.span THEN x ELSE OCp.span
<1>1. OCp.span \in Nat \ {0} /\ base \div OCp.fraction \in Nat
  BY CalibrationParameters
<1>2. OC!Max({OCp.span, x}) = greater
  BY <1>1 DEF OC!Max
<1>3. CASE x >= OCp.span
  BY <1>1, <1>2, <1>3 DEF SpanAllowed
<1>4. CASE x < OCp.span /\ base < OCp.span
  BY <1>1, <1>2, <1>4 DEF SpanAllowed
<1>5. CASE x < OCp.span /\ base >= OCp.span
  <2>1. OC!Near(OCp.span, base, base \div OCp.fraction)
    BY <1>1, <1>5 DEF OC!Near
  <2> QED BY <1>1, <1>2, <1>5, <2>1 DEF SpanAllowed
<1> QED BY <1>1, <1>3, <1>4, <1>5

LEMMA AdjustedProfile ==
    ASSUME CalibrationInv, NEW s \in OC!Signals, NEW value \in Int
    PROVE  /\ OC!Neutral(s, value) \in SignalProfile(OCp.baseline[s])
           /\ OC!Spans(s, value) \in SignalProfile(OCp.baseline[s])
<1> DEFINE base == OCp.baseline[s]
           p == current[s]
<1>1. base \in [neutral : Int, negative : Nat \ {0}, positive : Nat \ {0}]
  BY CalibrationParameters DEF OC!Signals
<1>2. /\ p \in [neutral : Int, negative : Nat \ {0}, positive : Nat \ {0}]
      /\ OC!Near(p.neutral, base.neutral, OCp.drift)
      /\ SpanAllowed(p.negative, base.negative) /\ SpanAllowed(p.positive, base.positive)
  BY DEF CalibrationInv, Profile, SignalProfile
<1>3. OCp.drift \in Nat
  BY CalibrationParameters
<1> HIDE DEF base, p
<1>4. OC!Neutral(s, value) \in SignalProfile(base)
  <2> DEFINE x == OC!Towards(p.neutral, value, base.neutral, OCp.drift)
  <2>1. x \in Int /\ OC!Near(x, base.neutral, OCp.drift)
    BY <1>1, <1>2, <1>3, TowardsIsNear
  <2> HIDE DEF x
  <2>2. OC!Neutral(s, value) = [p EXCEPT !.neutral = x]
    BY DEF OC!Neutral, base, p, x
  <2> QED BY <1>1, <1>2, <2>1, <2>2 DEF SignalProfile
<1>5. OC!Spans(s, value) \in SignalProfile(base)
  <2> DEFINE centered == value - p.neutral
             side == IF centered < 0 THEN "negative" ELSE "positive"
             target == IF centered < 0 THEN -centered ELSE centered
             drift == base[side] \div OCp.fraction
             x == OC!Towards(p[side], target, base[side], drift)
             y == OC!Max({OCp.span, x})
  <2>1. OC!Spans(s, value) = [p EXCEPT ![side] = y]
    BY DEF OC!Spans, base, p
  <2>2. side \in {"negative", "positive"}
    OBVIOUS
  <2>3. target \in Int
    BY <1>2
  <2> HIDE DEF side, target
  <2>4. p[side] \in Int /\ base[side] \in Nat \ {0}
    BY <1>1, <1>2, <2>2
  <2>10. base[side] \in Int
    BY <2>4
  <2>5. drift \in Nat
    BY <2>4, CalibrationParameters
  <2> HIDE DEF drift
  <2>6. x \in Int /\ OC!Near(x, base[side], drift)
    BY <2>3, <2>4, <2>10, <2>5, TowardsIsNear, Zenon
  <2> HIDE DEF x
  <2>7. y \in Nat \ {0} /\ SpanAllowed(y, base[side])
    BY <2>4, <2>6, SpanStaysAllowed DEF drift
  <2> HIDE DEF y
  <2>8. CASE side = "negative"
    BY <1>2, <2>1, <2>7, <2>8 DEF SignalProfile
  <2>9. CASE side = "positive"
    BY <1>2, <2>1, <2>7, <2>9 DEF SignalProfile
  <2> QED BY <2>2, <2>8, <2>9
<1> QED BY <1>4, <1>5 DEF base

\* The ends of sequences, as they grow and shrink.
LEMMA EndsAreSuffixes ==
    ASSUME NEW h \in Seq(Profile), NEW t \in Seq(Profile), Ends(h, t)
    PROVE  OC!IsSuffix(h, t)
<1> DEFINE rh == OC!Reverse(h)
           rt == OC!Reverse(t)
<1>1. Len(h) \in Nat /\ Len(t) \in Nat /\ Len(h) <= Len(t)
  BY DEF Ends
<1>2. /\ rh \in Seq(Profile) /\ Len(rh) = Len(h)
      /\ \A i \in 1 .. Len(h) : rh[i] = h[(Len(h) - i) + 1]
  BY <1>1 DEF OC!Reverse
<1>3. /\ rt \in Seq(Profile) /\ Len(rt) = Len(t)
      /\ \A i \in 1 .. Len(t) : rt[i] = t[(Len(t) - i) + 1]
  BY <1>1 DEF OC!Reverse
<1>4. ASSUME NEW i \in 1 .. Len(h) PROVE rh[i] = rt[i]
  <2>1. (Len(h) - i) + 1 \in 1 .. Len(h) /\ i \in 1 .. Len(t)
        /\ Len(t) - Len(h) + ((Len(h) - i) + 1) = (Len(t) - i) + 1
    BY <1>1
  <2>2. h[(Len(h) - i) + 1] = t[Len(t) - Len(h) + ((Len(h) - i) + 1)]
    BY <2>1 DEF Ends
  <2> QED BY <1>2, <1>3, <2>1, <2>2
<1> HIDE DEF rh, rt
<1>5. SubSeq(rh, 1, Len(rh)) = SubSeq(rt, 1, Len(rh))
  <2>1. /\ SubSeq(rh, 1, Len(rh)) \in Seq(Profile) /\ SubSeq(rt, 1, Len(rh)) \in Seq(Profile)
        /\ Len(SubSeq(rh, 1, Len(rh))) = Len(h) /\ Len(SubSeq(rt, 1, Len(rh))) = Len(h)
    BY <1>1, <1>2, <1>3
  <2>2. \A i \in 1 .. Len(h) : SubSeq(rh, 1, Len(rh))[i] = SubSeq(rt, 1, Len(rh))[i]
    BY <1>1, <1>2, <1>3, <1>4
  <2> QED BY <2>1, <2>2, SeqEqual
<1> QED BY <1>1, <1>2, <1>3, <1>5 DEF OC!IsSuffix, OC!IsPrefix, rh, rt

LEMMA PushedEnds ==
    ASSUME NEW h \in Seq(Profile), NEW t \in Seq(Profile), Ends(h, t), Len(h) <= OCp.depth,
           NEW before \in Profile, NEW after
    PROVE  LET g == OC!Push(h, before, after)
           IN  /\ g \in Seq(Profile) /\ Ends(g, Append(t, before)) /\ Len(g) <= OCp.depth
               /\ Len(g) <= Len(h) + 1
               /\ Len(g) # Len(h) + 1 => Len(h) = OCp.depth
<1> DEFINE g == OC!Push(h, before, after)
           a == Append(h, before)
           u == Append(t, before)
<1>1. Len(h) \in Nat /\ Len(t) \in Nat /\ Len(h) <= Len(t) /\ OCp.depth \in Nat
  BY CalibrationParameters DEF Ends
<1>2. a \in Seq(Profile) /\ Len(a) = Len(h) + 1 /\ u \in Seq(Profile) /\ Len(u) = Len(t) + 1
  BY <1>1
<1>3. ASSUME NEW i \in 1 .. Len(a) PROVE a[i] = u[Len(u) - Len(a) + i]
  <2>1. CASE i = Len(h) + 1
    <3>1. Len(u) - Len(a) + i = Len(t) + 1
      BY <1>1, <1>2, <2>1
    <3>2. a[Len(h) + 1] = before /\ u[Len(t) + 1] = before
      BY <1>1
    <3> QED BY <2>1, <3>1, <3>2
  <2>2. CASE i # Len(h) + 1
    <3>1. i \in 1 .. Len(h) /\ Len(u) - Len(a) + i = Len(t) - Len(h) + i
          /\ Len(t) - Len(h) + i \in 1 .. Len(t)
      BY <1>1, <1>2, <2>2
    <3>2. a[i] = h[i] /\ u[Len(t) - Len(h) + i] = t[Len(t) - Len(h) + i]
      BY <3>1
    <3> QED BY <3>1, <3>2 DEF Ends
  <2> QED BY <2>1, <2>2
<1> SUFFICES /\ g \in Seq(Profile) /\ Ends(g, u) /\ Len(g) <= OCp.depth
             /\ Len(g) <= Len(h) + 1 /\ (Len(g) # Len(h) + 1 => Len(h) = OCp.depth)
  OBVIOUS
<1>4. g = IF Len(a) > OCp.depth THEN Tail(a) ELSE a
  BY DEF OC!Push
<1> HIDE DEF a, u, g
<1>5. CASE Len(a) > OCp.depth
  <2>1. g = Tail(a)
    BY <1>4, <1>5
  <2>2. g \in Seq(Profile) /\ Len(g) = Len(a) - 1 /\ \A i \in 1 .. Len(a) - 1 : g[i] = a[i + 1]
    BY <1>1, <1>2, <2>1
  <2> DEFINE la == Len(a)
             lu == Len(u)
             lg == Len(g)
  <2>6. la \in Nat /\ lu \in Nat /\ lg \in Nat /\ lg = la - 1
    BY <1>1, <1>2, <2>2
  <2>3. ASSUME NEW i \in 1 .. Len(g) PROVE g[i] = u[Len(u) - Len(g) + i]
    <3>1. i + 1 \in 1 .. la /\ lu - la + (i + 1) = lu - lg + i /\ i \in 1 .. la - 1
      <4> HIDE DEF la, lu
      <4> QED BY <2>6
    <3>2. a[i + 1] = u[Len(u) - Len(a) + (i + 1)]
      BY <1>3, <3>1
    <3> QED BY <2>2, <3>1, <3>2
  <2>4. Len(g) = Len(h) /\ Len(h) = OCp.depth /\ Len(g) <= Len(u)
    BY <1>1, <1>2, <1>5, <2>2, CalibrationParameters
  <2>5. Ends(g, u)
    BY <2>3, <2>4 DEF Ends
  <2> QED BY <1>1, <2>2, <2>4, <2>5
<1>6. CASE ~(Len(a) > OCp.depth)
  <2>1. g = a
    BY <1>4, <1>6
  <2>2. Ends(a, u)
    BY <1>1, <1>2, <1>3 DEF Ends
  <2> QED BY <1>1, <1>2, <1>6, <2>1, <2>2
<1> QED BY <1>5, <1>6

LEMMA UpdateKeeps ==
    ASSUME CalibrationInv, NEW values \in [OC!Signals -> OCp.observed],
           NEW confident \in SUBSET OC!Signals, NEW pose,
           OC!Update(values, confident, pose)
    PROVE  CalibrationInv'
<1> DEFINE after == [s \in OC!Signals |->
                       IF s \notin confident THEN current[s]
                       ELSE IF pose = "neutral" THEN OC!Neutral(s, values[s])
                            ELSE OC!Spans(s, values[s])]
           g == OC!Push(snapshots, current, after)
<1>1. /\ updates' = updates + 1 /\ current' = after /\ snapshots' = g
      /\ trail' = Append(trail, current)
  BY DEF OC!Update
<1>2. ASSUME NEW s \in OC!Signals PROVE after[s] \in SignalProfile(OCp.baseline[s])
  <2>1. values[s] \in Int
    BY CalibrationParameters
  <2>2. current[s] \in SignalProfile(OCp.baseline[s])
    BY DEF CalibrationInv, Profile
  <2> QED BY <2>1, <2>2, AdjustedProfile
<1>3. after \in Profile
  BY <1>2 DEF Profile, SignalProfile
<1> HIDE DEF after
<1>4. /\ g \in Seq(Profile) /\ Ends(g, Append(trail, current)) /\ Len(g) <= OCp.depth
      /\ Len(g) <= Len(snapshots) + 1
      /\ Len(g) # Len(snapshots) + 1 => Len(snapshots) = OCp.depth
  BY PushedEnds DEF CalibrationInv
<1> HIDE DEF g
<1>5. Append(trail, current) \in Seq(Profile) /\ Len(Append(trail, current)) = Len(trail) + 1
  BY DEF CalibrationInv
<1>6. /\ Len(snapshots) \in Nat /\ Len(trail) \in Nat /\ Len(g) \in Nat /\ updates \in Nat
      /\ OCp.depth \in Nat
  BY <1>4, CalibrationParameters DEF CalibrationInv
<1>7. Len(g) < Len(trail) + 1 => updates + 1 > OCp.depth
  BY <1>4, <1>6 DEF CalibrationInv
<1> QED BY <1>1, <1>3, <1>4, <1>5, <1>6, <1>7 DEF CalibrationInv

LEMMA FrontOf ==
    ASSUME NEW h \in Seq(Profile), Len(h) \in Nat \ {0}
    PROVE  LET f == SubSeq(h, 1, Len(h) - 1)
           IN  /\ f \in Seq(Profile) /\ Len(f) = Len(h) - 1
               /\ \A i \in 1 .. Len(h) - 1 : f[i] = h[i]
<1> DEFINE n == Len(h) - 1
<1>1. n \in 0 .. Len(h)
  OBVIOUS
<1> HIDE DEF n
<1>2. /\ SubSeq(h, 1, n) \in Seq(Profile) /\ Len(SubSeq(h, 1, n)) = n
      /\ \A i \in 1 .. n : SubSeq(h, 1, n)[i] = h[i]
  BY <1>1
<1> QED BY <1>2 DEF n

LEMMA RollbackKeeps == ASSUME CalibrationInv, OC!Rollback PROVE CalibrationInv'
<1>1. /\ snapshots # <<>> /\ current' = snapshots[Len(snapshots)] /\ updates' = updates
      /\ snapshots' = SubSeq(snapshots, 1, Len(snapshots) - 1)
      /\ trail' = SubSeq(trail, 1, Len(trail) - 1)
  BY DEF OC!Rollback, OC!Last, OC!Front
<1>2. /\ snapshots \in Seq(Profile) /\ trail \in Seq(Profile) /\ Len(snapshots) <= Len(trail)
      /\ Len(snapshots) \in Nat \ {0} /\ Len(trail) \in Nat \ {0} /\ OCp.depth \in Nat
  BY <1>1, CalibrationParameters DEF CalibrationInv, Ends
<1>3. /\ snapshots' \in Seq(Profile) /\ Len(snapshots') = Len(snapshots) - 1
      /\ \A i \in 1 .. Len(snapshots) - 1 : snapshots'[i] = snapshots[i]
  BY <1>1, <1>2, FrontOf
<1>4. /\ trail' \in Seq(Profile) /\ Len(trail') = Len(trail) - 1
      /\ \A i \in 1 .. Len(trail) - 1 : trail'[i] = trail[i]
  BY <1>1, <1>2, FrontOf
<1>5. current' \in Profile
  BY <1>1, <1>2
<1>6. Ends(snapshots', trail')
  <2>1. ASSUME NEW i \in 1 .. Len(snapshots')
        PROVE  snapshots'[i] = trail'[Len(trail') - Len(snapshots') + i]
    <3>1. /\ i \in 1 .. Len(snapshots) - 1 /\ i \in 1 .. Len(snapshots)
          /\ Len(trail') - Len(snapshots') + i = Len(trail) - Len(snapshots) + i
          /\ Len(trail) - Len(snapshots) + i \in 1 .. Len(trail) - 1
      BY <1>2, <1>3, <1>4
    <3>2. snapshots[i] = trail[Len(trail) - Len(snapshots) + i]
      BY <3>1 DEF CalibrationInv, Ends
    <3> QED BY <1>3, <1>4, <3>1, <3>2
  <2> QED BY <1>2, <1>3, <1>4, <2>1 DEF Ends
<1> QED BY <1>1, <1>2, <1>3, <1>4, <1>5, <1>6 DEF CalibrationInv

LEMMA BaselineIsProfile == OCp.baseline \in Profile
<1>1. ASSUME NEW s \in OC!Signals
      PROVE  OCp.baseline[s] \in SignalProfile(OCp.baseline[s])
  <2> DEFINE base == OCp.baseline[s]
  <2>1. base \in [neutral : Int, negative : Nat \ {0}, positive : Nat \ {0}]
    BY CalibrationParameters DEF OC!Signals
  <2> HIDE DEF base
  <2>2. base.negative \div OCp.fraction \in Nat /\ base.positive \div OCp.fraction \in Nat
    BY <2>1, CalibrationParameters
  <2>3. /\ OC!Near(base.neutral, base.neutral, OCp.drift)
        /\ SpanAllowed(base.negative, base.negative) /\ SpanAllowed(base.positive, base.positive)
    BY <2>1, <2>2, CalibrationParameters DEF OC!Near, SpanAllowed
  <2> QED BY <2>1, <2>3 DEF SignalProfile, base
<1> QED BY <1>1, CalibrationParameters DEF Profile, OC!Signals, SignalProfile

LEMMA Emptied == /\ <<>> \in Seq(Profile) /\ Len(<<>>) = 0 /\ Ends(<<>>, <<>>)
BY DEF Ends

LEMMA CalibrationStep == CalibrationInv /\ [OC!Next]_(OC!vars) => CalibrationInv'
<1> SUFFICES ASSUME CalibrationInv, [OC!Next]_(OC!vars) PROVE CalibrationInv'
  OBVIOUS
<1>1. CASE UNCHANGED OC!vars
  BY <1>1 DEF OC!vars, CalibrationInv
<1>2. CASE OC!Reset
  BY <1>2, BaselineIsProfile, Emptied, CalibrationParameters DEF OC!Reset, CalibrationInv
<1> QED BY <1>1, <1>2, RollbackKeeps, UpdateKeeps DEF OC!Next

LEMMA CalibrationInit == Init => CalibrationInv
<1> SUFFICES ASSUME OC!Init PROVE CalibrationInv
  BY Zenon DEF Init
<1> QED BY BaselineIsProfile, Emptied, CalibrationParameters DEF OC!Init, CalibrationInv

(***************************************************************************)
(* However it is updated, rolled back and reset, a user's profile stays    *)
(* within the drift of its baseline, and rollback goes through the         *)
(* profiles it had before: for any signals, drifts, steps and depth.       *)
(***************************************************************************)
THEOREM AlwaysRollsBackWithinDrift == Spec => []RollsBackWithinDrift
<1>1. CalibrationInv => RollsBackWithinDrift
  <2> SUFFICES ASSUME CalibrationInv PROVE OC!RollsBackWithinDrift
    BY DEF RollsBackWithinDrift
  <2>1. ASSUME NEW s \in OC!Signals
        PROVE  /\ OC!Near(current[s].neutral, OCp.baseline[s].neutral, OCp.drift)
               /\ \A side \in {"negative", "positive"} :
                     \/ OC!Near(current[s][side], OCp.baseline[s][side],
                                OCp.baseline[s][side] \div OCp.fraction)
                     \/ OCp.baseline[s][side] < OCp.span /\ current[s][side] = OCp.span
    <3>1. current[s] \in SignalProfile(OCp.baseline[s])
      BY DEF CalibrationInv, Profile
    <3> QED BY <3>1 DEF SignalProfile, SpanAllowed
  <2>2. OC!IsSuffix(snapshots, trail)
    BY EndsAreSuffixes DEF CalibrationInv
  <2> QED BY <2>1, <2>2 DEF OC!RollsBackWithinDrift, CalibrationInv
<1> QED BY <1>1, CalibrationInit, OCStep, CalibrationStep, PTL DEF Spec

-----------------------------------------------------------------------------
(* Packages and adapters *)

\* The model is written first, the metadata last.
LEMMA FilesOrdered ==
    /\ Len(PK!FilesInOrder) \in {3, 4}
    /\ \A i \in 1 .. Len(PK!FilesInOrder) :
          /\ PK!FilesInOrder[i] = "model" <=> i = 1
          /\ PK!FilesInOrder[i] = "metadata" <=> i = Len(PK!FilesInOrder)
<1>1. CASE kind = "model"
  BY <1>1 DEF PK!FilesInOrder
<1>2. CASE kind # "model"
  BY <1>2 DEF PK!FilesInOrder
<1> QED BY <1>1, <1>2

\* No file is of an export that is still to come, and the metadata are never of a later one
\* than the model.
FilesAreOf(files) ==
    /\ \A f \in DOMAIN files : files[f].number \in Nat /\ files[f].number <= exports
    /\ "metadata" \in DOMAIN files =>
          "model" \in DOMAIN files /\ files["metadata"].number <= files["model"].number

\* The export that runs is the last one; its model is there once it has written a file.
ExportingInv ==
    /\ DOMAIN exporting = {"running", "export", "next"}
    /\ exporting.export.number = exports
    /\ exporting.next \in 1 .. Len(PK!FilesInOrder)
    /\ exporting.next = 1 => \A f \in DOMAIN package : package[f].number < exports
    /\ exporting.next # 1 => "model" \in DOMAIN package /\ package["model"] = exporting.export

\* What a consumer has read is no later than what is there; while the model is the one it
\* found, the metadata are those it verified or the model's own.
LoadingInv ==
    /\ DOMAIN loading = {"running", "step", "user", "verified", "metadata", "found"}
    /\ "metadata" \in DOMAIN package
    /\ loading.verified.number \in Nat /\ loading.metadata.number \in Nat
    /\ loading.verified.number <= loading.metadata.number
    /\ loading.metadata.number <= package["metadata"].number
    /\ loading.found \in Nat /\ loading.found <= package["model"].number
    /\ package["model"].number = loading.found =>
          /\ package["metadata"] = loading.verified \/ package["metadata"] = package["model"]
          /\ loading.metadata = loading.verified \/ loading.metadata = package["model"]
          /\ loading.step # "digest" => package["model"].model = loading.verified.model

PackagesInv ==
    /\ exports \in Nat
    /\ FilesAreOf(package)
    /\ exporting.running => ExportingInv
    /\ loading.running => LoadingInv
    /\ PK!ModelIsDescribedOrNewer

LEMMA PackagesStep == PackagesInv /\ [PK!Next]_(PK!vars) => PackagesInv'
<1> SUFFICES ASSUME PackagesInv, [PK!Next]_(PK!vars) PROVE PackagesInv'
  OBVIOUS
<1>a. /\ exports \in Nat /\ FilesAreOf(package)
      /\ exporting.running => ExportingInv
      /\ loading.running => LoadingInv
      /\ PK!ModelIsDescribedOrNewer
  BY DEF PackagesInv
<1>1. ASSUME NEW e \in PK!Export, PK!BeginExport(e) PROVE PackagesInv'
  <2>1. /\ exports' = exports + 1 /\ e.number = exports'
        /\ exporting' = [running |-> TRUE, export |-> e, next |-> 1]
        /\ UNCHANGED <<kind, package, loading, opened>>
    BY <1>1 DEF PK!BeginExport
  <2>2. FilesAreOf(package)'
    BY <1>a, <2>1 DEF FilesAreOf
  <2>3. exporting'.export.number = exports' /\ exporting'.next = 1
    BY <2>1
  <2>4. DOMAIN exporting' = {"running", "export", "next"}
    BY <2>1
  <2>5. PK!FilesInOrder' = PK!FilesInOrder
    BY <2>1 DEF PK!FilesInOrder
  <2>6. \A f \in DOMAIN package' : package'[f].number < exports'
    BY <1>a, <2>1 DEF FilesAreOf
  <2>7. ExportingInv'
    BY <2>3, <2>4, <2>5, <2>6, FilesOrdered DEF ExportingInv
  <2>8. loading'.running => LoadingInv'
    BY <1>a, <2>1 DEF LoadingInv
  <2> QED BY <1>a, <2>1, <2>2, <2>7, <2>8 DEF PackagesInv, PK!ModelIsDescribedOrNewer
<1>2. CASE PK!WriteFile
  <2> DEFINE file == PK!FilesInOrder[exporting.next]
  <2>1. /\ exporting.running /\ ExportingInv
        /\ package' = [f \in DOMAIN package \union {file} |->
                         IF f = file THEN exporting.export ELSE package[f]]
        /\ exporting' = IF exporting.next = Len(PK!FilesInOrder) THEN PK!Idle
                        ELSE [exporting EXCEPT !.next = exporting.next + 1]
        /\ UNCHANGED <<kind, loading, opened, exports>>
    BY <1>2, <1>a DEF PK!WriteFile
  <2>2. /\ file = "model" <=> exporting.next = 1
        /\ file = "metadata" <=> exporting.next = Len(PK!FilesInOrder)
        /\ Len(PK!FilesInOrder) \in {3, 4}
    BY <2>1, FilesOrdered DEF ExportingInv
  <2>3. PK!FilesInOrder' = PK!FilesInOrder
    BY <2>1 DEF PK!FilesInOrder
  <2> HIDE DEF file
  <2>4. /\ DOMAIN package' = DOMAIN package \union {file}
        /\ package'[file] = exporting.export
        /\ \A f \in DOMAIN package : f # file => package'[f] = package[f]
    BY <2>1
  <2>5. "model" \in DOMAIN package' /\ package'["model"] = exporting.export
    BY <2>1, <2>2, <2>4 DEF ExportingInv
  <2>6. FilesAreOf(package)'
    <3>1. \A f \in DOMAIN package' : package'[f].number \in Nat /\ package'[f].number <= exports
      BY <1>a, <2>1, <2>4 DEF FilesAreOf, ExportingInv
    <3>2. "metadata" \in DOMAIN package' => package'["metadata"].number <= package'["model"].number
      BY <2>1, <2>5, <3>1 DEF ExportingInv
    <3> QED BY <2>1, <2>5, <3>1, <3>2 DEF FilesAreOf
  <2>7. exporting'.running => ExportingInv'
    <3>1. CASE exporting.next = Len(PK!FilesInOrder)
      BY <2>1, <3>1 DEF PK!Idle
    <3>2. CASE exporting.next # Len(PK!FilesInOrder)
      <4>1. /\ DOMAIN exporting' = {"running", "export", "next"}
            /\ exporting'.export = exporting.export
            /\ exporting'.next = exporting.next + 1
        BY <2>1, <3>2 DEF ExportingInv
      <4>2. exporting'.next \in 1 .. Len(PK!FilesInOrder) /\ exporting'.next # 1
        BY <2>1, <2>2, <3>2, <4>1 DEF ExportingInv
      <4> QED BY <2>1, <2>3, <2>5, <4>1, <4>2 DEF ExportingInv
    <3> QED BY <3>1, <3>2
  <2>8. ASSUME loading.running PROVE LoadingInv'
    <3>1. /\ LoadingInv /\ "model" \in DOMAIN package /\ "metadata" \in DOMAIN package
          /\ package["model"].number \in Nat /\ package["metadata"].number \in Nat
          /\ package["metadata"].number <= package["model"].number
          /\ package["model"].number <= exports
      BY <1>a, <2>8 DEF LoadingInv, FilesAreOf
    <3>2. CASE file = "model"
      <4>1. /\ package'["model"].number = exports /\ package["model"].number < exports
            /\ package'["metadata"] = package["metadata"]
        BY <2>1, <2>2, <2>4, <3>1, <3>2 DEF ExportingInv
      <4>2. loading.found \in Nat /\ loading.found <= package["model"].number
        BY <3>1 DEF LoadingInv
      <4>3. exports \in Nat /\ loading.found < exports
        BY <1>a, <3>1, <4>1, <4>2
      <4>4. package'["model"].number # loading.found /\ loading.found <= package'["model"].number
        BY <4>1, <4>2, <4>3
      <4> QED BY <2>1, <2>4, <3>1, <4>1, <4>4 DEF LoadingInv
    <3>3. CASE file = "metadata"
      <4>1. /\ package'["model"] = package["model"]
            /\ package'["metadata"] = package["model"]
        BY <2>1, <2>2, <2>4, <3>1, <3>3 DEF ExportingInv
      <4>2. loading.metadata.number <= package'["metadata"].number
        BY <3>1, <4>1 DEF LoadingInv
      <4> QED BY <2>1, <2>4, <3>1, <4>1, <4>2 DEF LoadingInv
    <3>4. CASE file # "model" /\ file # "metadata"
      <4>1. /\ package'["model"] = package["model"]
            /\ package'["metadata"] = package["metadata"]
        BY <2>4, <3>1, <3>4
      <4> QED BY <2>1, <2>4, <3>1, <4>1 DEF LoadingInv
    <3> QED BY <3>2, <3>3, <3>4
  <2>9. PK!ModelIsDescribedOrNewer'
    BY <1>a, <2>1 DEF PK!ModelIsDescribedOrNewer
  <2> QED BY <1>a, <2>1, <2>6, <2>7, <2>8, <2>9 DEF PackagesInv
<1>3. CASE PK!ExportDies
  BY <1>3, <1>a DEF PK!ExportDies, PK!Idle, PackagesInv, FilesAreOf, LoadingInv,
     PK!ModelIsDescribedOrNewer
<1>4. ASSUME NEW user, PK!BeginVerification(user) PROVE PackagesInv'
  <2>1. /\ "model" \in DOMAIN package /\ "metadata" \in DOMAIN package
        /\ loading' = [running |-> TRUE, step |-> "digest", user |-> user,
                       verified |-> package["metadata"], metadata |-> package["metadata"],
                       found |-> package["model"].number]
        /\ UNCHANGED <<kind, package, exporting, opened, exports>>
    BY <1>4 DEF PK!BeginVerification, PK!Complete, PK!AllFiles, PK!FilesInOrder
  <2>2. /\ package["model"].number \in Nat /\ package["metadata"].number \in Nat
        /\ package["metadata"].number <= package["model"].number
    BY <1>a, <2>1 DEF FilesAreOf
  <2>3. /\ loading'.verified = package["metadata"] /\ loading'.metadata = package["metadata"]
        /\ loading'.found = package["model"].number /\ loading'.step = "digest"
    BY <2>1
  <2>4. DOMAIN loading' = {"running", "step", "user", "verified", "metadata", "found"}
    BY <2>1
  <2>5. LoadingInv'
    BY <2>1, <2>2, <2>3, <2>4 DEF LoadingInv
  <2> QED BY <1>a, <2>1, <2>5 DEF PackagesInv, FilesAreOf, ExportingInv, PK!FilesInOrder,
          PK!ModelIsDescribedOrNewer
<1>5. CASE PK!CheckDigest \/ PK!CheckVectors \/ PK!ReadMetadata
  <2>1. /\ loading.running /\ LoadingInv
        /\ UNCHANGED <<kind, package, exporting, opened, exports>>
    BY <1>5, <1>a DEF PK!CheckDigest, PK!CheckVectors, PK!ReadMetadata
  <2>2. /\ DOMAIN loading' = {"running", "step", "user", "verified", "metadata", "found"}
        /\ loading'.verified = loading.verified /\ loading'.found = loading.found
        /\ loading'.metadata = loading.metadata \/ loading'.metadata = package["metadata"]
    BY <1>5, <2>1 DEF PK!CheckDigest, PK!CheckVectors, PK!ReadMetadata, LoadingInv
  <2>3. loading.step = "digest" => package["model"].model = loading.verified.model
    BY <1>5 DEF PK!CheckDigest, PK!CheckVectors, PK!ReadMetadata
  <2>4. package["metadata"].number \in Nat
    BY <1>a, <2>1 DEF FilesAreOf, LoadingInv
  <2>5. LoadingInv'
    BY <2>1, <2>2, <2>3, <2>4 DEF LoadingInv
  <2> QED BY <1>a, <2>1, <2>5 DEF PackagesInv, FilesAreOf, ExportingInv, PK!FilesInOrder,
          PK!ModelIsDescribedOrNewer
<1>6. CASE PK!GiveUp
  BY <1>6, <1>a DEF PK!GiveUp, PK!Idle, PackagesInv, FilesAreOf, ExportingInv,
     PK!FilesInOrder, PK!ModelIsDescribedOrNewer
<1>7. CASE PK!OpenModel
  <2>1. /\ loading.step = "model" /\ LoadingInv
        /\ opened' = [running |-> TRUE, verified |-> loading.verified, found |-> loading.found,
                      metadata |-> loading.metadata, model |-> package["model"]]
        /\ loading' = PK!Idle
        /\ UNCHANGED <<kind, package, exporting, exports>>
    BY <1>7, <1>a DEF PK!OpenModel
  <2>2. /\ opened'.verified = loading.verified /\ opened'.found = loading.found
        /\ opened'.metadata = loading.metadata /\ opened'.model = package["model"]
    BY <2>1
  <2>3. /\ package["metadata"].number \in Nat /\ package["model"].number \in Nat
        /\ package["metadata"].number <= package["model"].number
    BY <1>a, <2>1 DEF FilesAreOf, LoadingInv
  <2>4. package["model"].model # loading.metadata.model => package["model"].number > loading.found
    BY <2>1, <2>3 DEF LoadingInv
  <2>5. PK!ModelIsDescribedOrNewer'
    BY <2>1, <2>2, <2>3, <2>4 DEF LoadingInv, PK!ModelIsDescribedOrNewer
  <2> QED BY <1>a, <2>1, <2>5 DEF PackagesInv, FilesAreOf, ExportingInv, PK!FilesInOrder, PK!Idle
<1>8. CASE PK!Close
  BY <1>8, <1>a DEF PK!Close, PK!Idle, PackagesInv, FilesAreOf, ExportingInv, LoadingInv,
     PK!FilesInOrder, PK!ModelIsDescribedOrNewer
<1>9. CASE UNCHANGED PK!vars
  BY <1>9, <1>a DEF PK!vars, PackagesInv, FilesAreOf, ExportingInv, LoadingInv,
     PK!FilesInOrder, PK!ModelIsDescribedOrNewer
<1> QED BY <1>1, <1>2, <1>3, <1>4, <1>5, <1>6, <1>7, <1>8, <1>9 DEF PK!Next

(***************************************************************************)
(* Whatever exports begin, write and die in the directory while a consumer *)
(* verifies and opens it: it never runs a model older than the metadata    *)
(* that describes it, and runs one the metadata does not describe only if  *)
(* an export has written it since the consumer began.  For any number of   *)
(* exports, models and users.                                              *)
(***************************************************************************)
THEOREM ModelIsAlwaysDescribedOrNewer == Spec => []ModelIsDescribedOrNewer
<1>1. Init => PackagesInv
  <2>1. Init => PK!Init
    BY Zenon DEF Init
  <2> QED BY <2>1 DEF PK!Init, PackagesInv, FilesAreOf, PK!ModelIsDescribedOrNewer, PK!Idle
<1>2. PackagesInv => ModelIsDescribedOrNewer
  BY DEF PackagesInv, ModelIsDescribedOrNewer
<1> QED BY <1>1, <1>2, PKStep, PackagesStep, PTL DEF Spec

-----------------------------------------------------------------------------
(* Frozen captures *)

Registries == [version : Nat, approved : BOOLEAN, stages : SUBSET FC!Stages, text : BOOLEAN]

\* While nobody edits, what a freeze has written is what it has checked.
FreezingInv ==
    /\ edits \in Nat /\ registry \in Registries
    /\ stage \in {"records written", "index written"} =>
          /\ records = [exists |-> TRUE, content |-> input.records]
          /\ edits = 0 => FC!Freezable(input.sessions, input.records, input.mappings)
    /\ stage = "index written" /\ edits = 0 =>
          /\ index = FC!IndexOf(input)
          /\ FC!Splittable(input.records) /\ FC!Admitted
    /\ FC!TrainingInputIsSafe

\* A record has one split, and a held-out device is in the test split.
LEMMA SplitOfRecord ==
    ASSUME NEW rs, FC!Splittable(rs), NEW r \in rs
    PROVE  LET splits == FC!Splits(rs)
           IN  \E name \in DOMAIN splits :
                  /\ r.identity \in splits[name].identities
                  /\ r.device \in splits[name].devices
                  /\ \A other \in DOMAIN splits \ {name} :
                        r.identity \notin splits[other].identities
                  /\ r.device \in FCp.heldOut \union splits.test.devices => name = "test"
<1> DEFINE test == FC!TestIdentities(rs)
           development == FC!IdentitiesOf(rs) \ test
           validation == FC!FirstOf(development, FCp.identities)
           train == development \ validation
           splits == FC!Splits(rs)
<1>1. splits = [train |-> FC!SplitOf(rs, train), validation |-> FC!SplitOf(rs, validation),
                test |-> FC!SplitOf(rs, test)]
  BY DEF FC!Splits
<1>2. validation \subseteq development
  BY DEF FC!FirstOf
<1>3. r.identity \in FC!IdentitiesOf(rs)
  BY DEF FC!IdentitiesOf
<1>4. r.device \in FCp.heldOut => r.identity \in test
  BY DEF FC!TestIdentities
<1> HIDE DEF test, validation, splits
<1>5. /\ DOMAIN splits = {"train", "validation", "test"}
      /\ splits["train"] = FC!SplitOf(rs, train)
      /\ splits["validation"] = FC!SplitOf(rs, validation)
      /\ splits["test"] = FC!SplitOf(rs, test)
  BY <1>1
<1>6. \A ids : /\ FC!SplitOf(rs, ids).identities = ids
               /\ r.identity \in ids => r.device \in FC!SplitOf(rs, ids).devices
  BY DEF FC!SplitOf, FC!DevicesOf
<1>7. splits["test"].devices \intersect
        (splits["train"].devices \union splits["validation"].devices) = {}
  BY <1>1 DEF FC!Splittable, splits
<1>8. CASE r.identity \in test
  <2>1. r.identity \notin train /\ r.identity \notin validation
    BY <1>2, <1>8
  <2> QED BY <1>5, <1>6, <1>8, <2>1 DEF splits
<1>9. CASE r.identity \in validation
  <2>1. r.identity \notin train /\ r.identity \notin test
    BY <1>2, <1>9
  <2>2. r.device \notin FCp.heldOut \union splits["test"].devices
    BY <1>4, <1>5, <1>6, <1>7, <1>9, <2>1
  <2> QED BY <1>5, <1>6, <1>9, <2>1, <2>2 DEF splits
<1>10. CASE r.identity \in train
  <2>1. r.identity \notin validation /\ r.identity \notin test
    BY <1>2, <1>10
  <2>2. r.device \notin FCp.heldOut \union splits["test"].devices
    BY <1>4, <1>5, <1>6, <1>7, <1>10, <2>1
  <2> QED BY <1>5, <1>6, <1>10, <2>1, <2>2 DEF splits
<1> QED BY <1>3, <1>8, <1>9, <1>10

\* What Train is given once index and manifest have been verified.
LEMMA TrainIsSafe ==
    ASSUME FreezingInv, NEW revision, FC!Train(revision)
    PROVE  FC!TrainingInputIsSafe'
<1> DEFINE rs == records.content
           ss == DOMAIN index.sessions
           splits == FC!Splits(rs)
<1>1. /\ FC!Intact(ss) /\ FC!RecordsMatch(rs, ss)
      /\ FC!MappingsFit(rs, index.mappings, ss) /\ FC!ImagesFound(rs)
      /\ FC!Splittable(rs) /\ splits = index.splits /\ FC!Admitted
  BY DEF FC!Train, FC!Verifies
<1>2. manifest.splits = splits /\ manifest.teachers = FC!ToSet(index.mappings)
  BY <1>1 DEF FC!Train, FC!Matches
<1>3. trained' = [exists |-> TRUE, revision |-> revision, records |-> rs,
                  splits |-> manifest.splits, teachers |-> manifest.teachers,
                  sessions |-> sessions, registry |-> registry]
  BY DEF FC!Train
<1>4. /\ trained'.records = rs /\ trained'.splits = splits /\ trained'.sessions = sessions
      /\ trained'.teachers = FC!ToSet(index.mappings) /\ trained'.registry = registry
  BY <1>2, <1>3
<1>5. registry.approved /\ registry.text /\ registry.stages = FC!Stages
  <2>1. "teacher-labeling" \in FC!Stages /\ FC!Stages \subseteq registry.stages
    BY <1>1 DEF FC!Admitted, FC!AdmittedFor, FC!Stages
  <2> QED BY <1>1, <2>1, Zenon DEF FC!Admitted, FC!AdmittedFor, FreezingInv, Registries
<1>6. ASSUME NEW r \in rs
      PROVE  /\ sessions[r.session] # 0
             /\ r.identity = FCp.subject[r.session] /\ r.device = FCp.device[r.session]
             /\ r.image = r.session /\ r.mapping \in FC!ToSet(index.mappings)
  <2>1. r.session \in ss
    BY <1>1 DEF FC!RecordsMatch
  <2> QED BY <1>1, <2>1 DEF FC!RecordsMatch, FC!Intact, FC!MappingsFit, FC!ImagesFound
<1>7. ASSUME NEW r \in rs
      PROVE  \E name \in DOMAIN splits :
                /\ r.identity \in splits[name].identities
                /\ r.device \in splits[name].devices
                /\ \A other \in DOMAIN splits \ {name} :
                      r.identity \notin splits[other].identities
                /\ r.device \in FCp.heldOut \union splits.test.devices => name = "test"
  BY <1>1, SplitOfRecord
<1> HIDE DEF rs, splits
<1>8. /\ trained'.registry.approved /\ trained'.registry.text
      /\ trained'.registry.stages = FC!Stages
  BY <1>4, <1>5
<1>9. ASSUME NEW r \in trained'.records
      PROVE  /\ trained'.sessions[r.session] # 0
             /\ r.identity = FCp.subject[r.session] /\ r.device = FCp.device[r.session]
             /\ r.image = r.session /\ r.mapping \in trained'.teachers
             /\ \E name \in DOMAIN trained'.splits :
                   /\ r.identity \in trained'.splits[name].identities
                   /\ r.device \in trained'.splits[name].devices
                   /\ \A other \in DOMAIN trained'.splits \ {name} :
                         r.identity \notin trained'.splits[other].identities
                   /\ r.device \in FCp.heldOut \union trained'.splits.test.devices =>
                         name = "test"
  BY <1>4, <1>6, <1>7, <1>9
<1> QED BY <1>8, <1>9 DEF FC!TrainingInputIsSafe

LEMMA TrainedKept ==
    ASSUME FC!TrainingInputIsSafe, trained' = trained PROVE FC!TrainingInputIsSafe'
BY DEF FC!TrainingInputIsSafe

LEMMA FreezingStep == FreezingInv /\ [FC!Next]_(FC!vars) => FreezingInv'
<1> SUFFICES ASSUME FreezingInv, [FC!Next]_(FC!vars) PROVE FreezingInv'
  OBVIOUS
<1>1. CASE UNCHANGED FC!vars
  BY <1>1, ZenonT(60) DEF FC!vars, FreezingInv, FC!Freezable, FC!Intact, FC!IndexOf, FC!Admitted,
     FC!AdmittedFor, FC!TrainingInputIsSafe
<1>2. ASSUME NEW ss, NEW rs, NEW ms, FC!BeginFreeze(ss, rs, ms) PROVE FreezingInv'
  <2>1. /\ records' = [exists |-> TRUE, content |-> rs] /\ stage' = "records written"
        /\ FC!Freezable(ss, rs, ms)
        /\ UNCHANGED <<sessions, registry, index, manifest, trained, edits>>
    BY <1>2, Zenon DEF FC!BeginFreeze
  <2>2. PICK byName, r : input' = [exists |-> TRUE, sessions |-> ss, records |-> rs,
                                  mappings |-> ms, byName |-> byName, revision |-> r]
    BY <1>2, Zenon DEF FC!BeginFreeze
  <2>3. input'.sessions = ss /\ input'.records = rs /\ input'.mappings = ms
    BY <2>2, Zenon
  <2>4. FC!Freezable(ss, rs, ms)'
    BY <2>1, Zenon DEF FC!Freezable, FC!Intact
  <2>5. FC!TrainingInputIsSafe'
    BY <2>1, TrainedKept, Zenon DEF FreezingInv
  <2>6. FC!Freezable(input.sessions, input.records, input.mappings)'
    BY <2>3, <2>4 DEF FC!Freezable, FC!Intact
  <2> QED BY <2>1, <2>2, <2>3, <2>5, <2>6, Zenon DEF FreezingInv
<1>3. CASE FC!WriteIndex
  <2>1. /\ stage = "records written" /\ stage' = "index written" /\ index' = FC!IndexOf(input)
        /\ FC!Splittable(input.records) /\ FC!Admitted
        /\ UNCHANGED <<sessions, registry, input, records, manifest, trained, freezes, edits>>
    BY <1>3, Zenon DEF FC!WriteIndex
  <2>2. FC!IndexOf(input)' = FC!IndexOf(input)
    BY <2>1, Zenon DEF FC!IndexOf
  <2>3. FC!Admitted' /\ FC!TrainingInputIsSafe'
    BY <2>1, ZenonT(60) DEF FC!Admitted, FC!AdmittedFor, FC!TrainingInputIsSafe, FreezingInv
  <2>4. edits = 0 => FC!Freezable(input.sessions, input.records, input.mappings)'
    BY <2>1, Zenon DEF FC!Freezable, FC!Intact, FreezingInv
  <2> QED BY <2>1, <2>2, <2>3, <2>4, Zenon DEF FreezingInv
<1>4. CASE FC!FreezeEnds
  BY <1>4, Zenon DEF FC!FreezeEnds, FC!EndFreeze, FreezingInv, FC!TrainingInputIsSafe
<1>5. CASE FC!BuildManifest
  BY <1>5, Zenon DEF FC!BuildManifest, FreezingInv, FC!Freezable, FC!Intact, FC!IndexOf,
     FC!Admitted, FC!AdmittedFor, FC!TrainingInputIsSafe
<1>6. ASSUME NEW s, FC!SessionChanges(s) PROVE FreezingInv'
  <2>1. /\ edits' = edits + 1 /\ edits' # 0 /\ edits' \in Nat
        /\ UNCHANGED <<registry, stage, input, records, index, manifest, trained, freezes>>
    <3>1. edits \in Nat
      BY Zenon DEF FreezingInv
    <3> QED BY <1>6, <3>1 DEF FC!SessionChanges
  <2>2. FC!TrainingInputIsSafe'
    BY <2>1, TrainedKept, Zenon DEF FreezingInv
  <2> QED BY <2>1, <2>2, Zenon DEF FreezingInv
<1>7. CASE FC!RegistryChanges
  <2>1. /\ edits' = edits + 1 /\ edits' # 0 /\ edits' \in Nat
        /\ UNCHANGED <<sessions, stage, input, records, index, manifest, trained, freezes>>
    <3>1. edits \in Nat
      BY Zenon DEF FreezingInv
    <3> QED BY <1>7, <3>1 DEF FC!RegistryChanges
  <2>2. PICK r \in {[registry EXCEPT !.approved = FALSE], [registry EXCEPT !.text = FALSE],
                    [registry EXCEPT !.stages = {"teacher-labeling"}]} :
           registry' = [r EXCEPT !.version = registry.version + 1]
    BY <1>7 DEF FC!RegistryChanges
  <2>3. registry \in Registries /\ r \in Registries
    BY <2>2, Zenon DEF FreezingInv, Registries, FC!Stages
  <2>5. registry' \in Registries
    BY <2>2, <2>3 DEF Registries
  <2>6. FC!TrainingInputIsSafe'
    BY <2>1, TrainedKept, Zenon DEF FreezingInv
  <2> QED BY <2>1, <2>5, <2>6, Zenon DEF FreezingInv
<1>8. ASSUME NEW r, FC!Train(r) PROVE FreezingInv'
  <2>1. UNCHANGED <<sessions, registry, stage, input, records, index, manifest, freezes, edits>>
    BY <1>8 DEF FC!Train
  <2>2. FC!TrainingInputIsSafe'
    BY <1>8, TrainIsSafe
  <2> QED BY <2>1, <2>2, Zenon DEF FreezingInv, FC!Freezable, FC!Intact, FC!IndexOf, FC!Admitted,
          FC!AdmittedFor
<1> QED BY <1>1, <1>2, <1>3, <1>4, <1>5, <1>6, <1>7, <1>8 DEF FC!Next

LEMMA FreezingInit == Init => FreezingInv
<1> SUFFICES ASSUME FC!Init PROVE FreezingInv
  BY Zenon DEF Init
<1> QED BY DEF FC!Init, FreezingInv, Registries, FC!Nothing, FC!InitialRegistry, FC!Stages,
        FC!TrainingInputIsSafe

(***************************************************************************)
(* Whatever was frozen, interrupted, frozen over or edited before, what    *)
(* training is given is whole, licensed and split without overlap; and a   *)
(* freeze that nobody disturbs has written what verifies: for any          *)
(* sessions, records and mappings.                                         *)
(***************************************************************************)
THEOREM FrozenCapturesAreAlwaysSound == Spec => []FrozenCapturesAreSound
<1>1. FreezingInv => FC!FreezeVerifies
  <2> SUFFICES ASSUME FreezingInv, stage = "index written", edits = 0,
                      index.mappings = input.mappings
               PROVE  FC!Verifies(index)
    BY Zenon DEF FC!FreezeVerifies
  <2>1. /\ records.exists /\ records.content = input.records
        /\ FC!Freezable(input.sessions, input.records, input.mappings)
        /\ index = FC!IndexOf(input) /\ FC!Splittable(input.records) /\ FC!Admitted
    <3>1. /\ records = [exists |-> TRUE, content |-> input.records]
          /\ FC!Freezable(input.sessions, input.records, input.mappings)
          /\ index = FC!IndexOf(input) /\ FC!Splittable(input.records) /\ FC!Admitted
      BY Zenon DEF FreezingInv
    <3> QED BY Zenon, <3>1
  <2>2. /\ index.exists /\ index.records = input.records
        /\ index.sessions = [s \in input.sessions |-> sessions[s]]
        /\ index.registry = registry.version /\ index.splits = FC!Splits(input.records)
    BY <2>1, Zenon DEF FC!IndexOf
  <2>3. DOMAIN index.sessions = input.sessions /\ FC!ReferencesHold(index)
    BY <2>1, <2>2, Zenon DEF FC!ReferencesHold
  <2> QED BY <2>1, <2>2, <2>3, Zenon DEF FC!Verifies, FC!Freezable
<1>2. FreezingInv => FrozenCapturesAreSound
  BY <1>1, Zenon DEF FrozenCapturesAreSound, FreezingInv
<1> QED BY <1>2, FreezingInit, FCStep, FreezingStep, PTL DEF Spec

-----------------------------------------------------------------------------
(* Stage A labels *)

\* A group as materializing makes it: if it is accepted every view has its landmarks and
\* its pose.
Made(group) ==
    /\ {"status", "views", "config"} \subseteq DOMAIN group
    /\ group.status = "accepted" =>
          \A i \in 1 .. 3 : group.views[i].landmarks.available /\ group.views[i].pose.available

\* The groups of a shard are those its review has accepted, made with this configuration.
BuiltFrom(groups, reviewed, configuration) ==
    /\ configuration.approved
    /\ \A g \in DOMAIN groups :
          /\ groups[g].config = configuration /\ reviewed.actions[g] = "accepted"
          /\ [reviewed.groups[g] EXCEPT !.approved = TRUE] = groups[g]

StageAInv ==
    /\ edited \in Nat /\ captures \in [SA!Groups -> SAp.captures]
    /\ candidates.exists => \A g \in SA!Groups : Made(candidates.groups[g])
    /\ review.exists => DOMAIN review.actions \subseteq SA!Groups
    /\ shard.exists => \A g \in DOMAIN shard.groups : Made(shard.groups[g])
    /\ job.step = "manifest" =>
          /\ shard.exists /\ job.edited \in Nat /\ job.edited <= edited
          /\ job.edited = edited => BuiltFrom(shard.groups, review, config)
    /\ trainingManifest.exists =>
          /\ trainingManifest.shard.exists
          /\ ~trainingManifest.raced =>
                BuiltFrom(trainingManifest.shard.groups, trainingManifest.review,
                          trainingManifest.config)
    /\ SA!ReviewedBeforeTraining

LEMMA GroupIsMade ==
    ASSUME NEW c \in SAp.captures, NEW solution, SA!GroupValid(SA!GroupOf(c, solution))
    PROVE  Made(SA!GroupOf(c, solution))
<1> DEFINE group == SA!GroupOf(c, solution)
           code == SA!FailureCode(c, solution)
<1>1. CASE code = "none"
  <2>1. group = [status |-> "accepted", failure |-> "none", views |-> SA!AcceptedViews(c),
                 geometry |-> SA!Label("none"), fps |-> c.fps, config |-> config,
                 approved |-> FALSE]
    BY <1>1 DEF SA!GroupOf, SA!Accepted
  <2>2. Len(SA!AcceptedViews(c)) = 3
    BY <2>1 DEF SA!GroupValid
  <2>3. c.roles \in Seq(SA!Roles)
    BY StageAParameters
  <2>4. DOMAIN c.roles = 1 .. Len(c.roles) /\ Len(c.roles) \in Nat
    BY <2>3
  <2>5. Len(SA!AcceptedViews(c)) = Len(c.roles)
    BY <2>4 DEF SA!AcceptedViews, SA!Sources
  <2>6. ASSUME NEW i \in 1 .. 3
        PROVE  /\ SA!AcceptedViews(c)[i].landmarks.available
               /\ SA!AcceptedViews(c)[i].pose.available
    BY <2>2, <2>4, <2>5, Zenon DEF SA!AcceptedViews, SA!Sources, SA!View, SA!Label
  <2> QED BY <2>1, <2>6 DEF Made
<1>2. CASE code # "none"
  <2>1. group = [status |-> "rejected", failure |-> code, views |-> SA!RejectedViews(c, code),
                 geometry |-> SA!Label(code), fps |-> c.fps, config |-> config,
                 approved |-> FALSE]
    BY <1>2 DEF SA!GroupOf, SA!Rejected
  <2> QED BY <2>1 DEF Made
<1> QED BY <1>1, <1>2

LEMMA ApprovedIsMade ==
    ASSUME NEW group, Made(group)
    PROVE  /\ Made([group EXCEPT !.approved = TRUE])
           /\ [group EXCEPT !.approved = TRUE].config = group.config
           /\ [group EXCEPT !.approved = TRUE].status = group.status
<1> DEFINE approved == [group EXCEPT !.approved = TRUE]
<1>1. DOMAIN approved = DOMAIN group
  OBVIOUS
<1>2. /\ approved.status = group.status /\ approved.views = group.views
      /\ approved.config = group.config
  BY DEF Made
<1> HIDE DEF approved
<1>3. Made(approved)
  BY <1>1, <1>2 DEF Made
<1> QED BY <1>2, <1>3 DEF approved

LEMMA BuildIsBound ==
    ASSUME StageAInv, SA!BeginBuild
    PROVE  /\ shard'.exists /\ \A g \in DOMAIN shard'.groups : Made(shard'.groups[g])
           /\ BuiltFrom(shard'.groups, review, config)
<1>1. /\ shard' = [exists |-> TRUE, groups |-> [g \in SA!Promoted |-> SA!Approved(g)]]
      /\ candidates.exists /\ review.exists /\ SA!BindsReview /\ SA!Usable
      /\ SA!ProvenanceHolds /\ \A g \in SA!Promoted : SA!Approvable(g)
  BY DEF SA!BeginBuild
<1>2. /\ shard'.exists /\ DOMAIN shard'.groups = SA!Promoted
      /\ \A g \in SA!Promoted : shard'.groups[g] = SA!Approved(g)
  BY <1>1
<1>3. ASSUME NEW g \in SA!Promoted
      PROVE  /\ Made(shard'.groups[g]) /\ shard'.groups[g].config = config
             /\ review.actions[g] = "accepted"
             /\ [review.groups[g] EXCEPT !.approved = TRUE] = shard'.groups[g]
  <2>1. g \in SA!Groups
    BY <1>1 DEF SA!Promoted, StageAInv
  <2>2. Made(candidates.groups[g])
    BY <1>1, <2>1 DEF StageAInv
  <2>3. candidates.groups[g].config = config
    BY <1>1, <2>1 DEF SA!ProvenanceHolds
  <2>4. review.actions[g] = "accepted"
    BY <1>1 DEF SA!Approvable
  <2>5. shard'.groups[g] = [candidates.groups[g] EXCEPT !.approved = TRUE]
    BY <1>2 DEF SA!Approved
  <2>6. review.groups = candidates.groups
    BY <1>1 DEF SA!BindsReview
  <2> QED BY <2>2, <2>3, <2>4, <2>5, <2>6, ApprovedIsMade
<1> QED BY <1>1, <1>2, <1>3 DEF BuiltFrom, SA!Usable

LEMMA ValidatedWasReviewed ==
    ASSUME StageAInv, SA!Validate PROVE SA!ReviewedBeforeTraining'
<1>1. /\ validated' = [exists |-> TRUE, shard |-> shard, review |-> review, config |-> config,
                       raced |-> trainingManifest.raced]
      /\ trainingManifest.exists /\ trainingManifest.shard = shard
      /\ trainingManifest.review = review /\ trainingManifest.config = config
      /\ SA!ShardAdmissible
  BY DEF SA!Validate, SA!ManifestVerifies
<1>2. /\ validated'.shard = shard /\ validated'.review = review /\ validated'.config = config
      /\ validated'.raced = trainingManifest.raced
  BY <1>1
<1>3. shard.exists /\ \A g \in DOMAIN shard.groups : Made(shard.groups[g])
  BY <1>1 DEF StageAInv
<1>4. \A g \in DOMAIN shard.groups : shard.groups[g].status = "accepted"
  BY <1>1 DEF SA!ShardAdmissible
<1>5. ~trainingManifest.raced => BuiltFrom(shard.groups, review, config)
  BY <1>1 DEF StageAInv
<1>6. ~validated'.raced => ~trainingManifest.raced
  BY <1>2, Zenon
<1> SUFFICES ASSUME ~validated'.raced
             PROVE  /\ config.approved
                    /\ \A g \in DOMAIN shard.groups :
                         /\ \A i \in 1 .. 3 : /\ shard.groups[g].views[i].landmarks.available
                                              /\ shard.groups[g].views[i].pose.available
                         /\ shard.groups[g].config = config
                         /\ review.actions[g] = "accepted"
                         /\ [review.groups[g] EXCEPT !.approved = TRUE] = shard.groups[g]
  BY <1>2 DEF SA!ReviewedBeforeTraining
<1>7. BuiltFrom(shard.groups, review, config)
  BY <1>5, <1>6
<1> QED BY <1>3, <1>4, <1>7 DEF BuiltFrom, Made

LEMMA ValidatedKept ==
    ASSUME SA!ReviewedBeforeTraining, validated' = validated
    PROVE  SA!ReviewedBeforeTraining'
BY DEF SA!ReviewedBeforeTraining

LEMMA StageAInit == SA!Init => StageAInv
BY DEF SA!Init, StageAInv, SA!ReviewedBeforeTraining, SA!Absent, SA!Idle

\* The review is of groups that exist, and a person's edit is seen by a build under way.
LEMMA EditIsSeen ==
    ASSUME StageAInv, edited' = edited + 1, job' = job,
           shard' = shard, trainingManifest' = trainingManifest
    PROVE  /\ edited' \in Nat
           /\ job'.step = "manifest" =>
                 /\ shard'.exists /\ job'.edited \in Nat /\ job'.edited <= edited'
                 /\ job'.edited # edited'
BY DEF StageAInv

LEMMA StageAStep == StageAInv /\ [SA!Next]_(SA!vars) => StageAInv'
<1> SUFFICES ASSUME StageAInv, [SA!Next]_(SA!vars) PROVE StageAInv'
  OBVIOUS
<1>1. CASE \E solutions \in [SA!Groups -> SAp.solutions], selection \in SUBSET SA!Groups :
              SA!Materialize(solutions, selection)
  <2>1. PICK solutions \in [SA!Groups -> SAp.solutions], selection \in SUBSET SA!Groups :
           SA!Materialize(solutions, selection)
    BY <1>1
  <2> DEFINE groups == [g \in SA!Groups |-> SA!GroupOf(captures[g], solutions[g])]
  <2>2. /\ \A g \in SA!Groups : SA!GroupValid(groups[g])
        /\ candidates' = [exists |-> TRUE, groups |-> groups]
        /\ job' = [step |-> "render", groups |-> groups, selection |-> selection]
        /\ UNCHANGED <<captures, config, review, shard, trainingManifest, validated, edited>>
    BY <2>1 DEF SA!Materialize
  <2>3. ASSUME NEW g \in SA!Groups PROVE Made(groups[g])
    <3>1. captures[g] \in SAp.captures
      BY DEF StageAInv
    <3>2. groups[g] = SA!GroupOf(captures[g], solutions[g])
      OBVIOUS
    <3>3. SA!GroupValid(SA!GroupOf(captures[g], solutions[g]))
      BY <2>2, <3>2
    <3> QED BY <3>1, <3>2, <3>3, GroupIsMade
  <2>4. candidates'.groups = groups /\ job'.step = "render"
    BY <2>2
  <2>5. SA!ReviewedBeforeTraining'
    BY <2>2, ValidatedKept DEF StageAInv
  <2> HIDE DEF groups
  <2> QED BY <2>2, <2>3, <2>4, <2>5 DEF StageAInv
<1>2. CASE SA!RenderOverlays
  <2>1. /\ job.step = "render" /\ job' = [job EXCEPT !.step = "index"]
        /\ UNCHANGED <<captures, config, candidates, review, shard, trainingManifest,
                       validated, edited>>
    BY <1>2, Zenon DEF SA!RenderOverlays
  <2>2. job'.step # "manifest"
    BY <2>1
  <2>3. SA!ReviewedBeforeTraining'
    BY <2>1, ValidatedKept DEF StageAInv
  <2> QED BY <2>1, <2>2, <2>3 DEF StageAInv
<1>3. CASE SA!WriteOverlayIndex
  <2>1. /\ job' = SA!Idle
        /\ UNCHANGED <<captures, config, candidates, review, shard, trainingManifest,
                       validated, edited>>
    BY <1>3 DEF SA!WriteOverlayIndex
  <2>2. job'.step # "manifest"
    BY <2>1 DEF SA!Idle
  <2>3. SA!ReviewedBeforeTraining'
    BY <2>1, ValidatedKept DEF StageAInv
  <2> QED BY <2>1, <2>2, <2>3 DEF StageAInv
<1>4. CASE SA!JobEnds
  <2>1. /\ job' = SA!Idle
        /\ UNCHANGED <<captures, config, candidates, review, shard, trainingManifest,
                       validated, edited>>
    BY <1>4 DEF SA!JobEnds
  <2>2. job'.step # "manifest"
    BY <2>1 DEF SA!Idle
  <2>3. SA!ReviewedBeforeTraining'
    BY <2>1, ValidatedKept DEF StageAInv
  <2> QED BY <2>1, <2>2, <2>3 DEF StageAInv
<1>5. CASE \E reviewed \in SUBSET SA!Groups :
              \E actions \in [reviewed -> {"accepted", "corrected", "rejected"}] :
                 SA!ReviewOverlays(actions)
  <2>1. PICK reviewed \in SUBSET SA!Groups :
           \E actions \in [reviewed -> {"accepted", "corrected", "rejected"}] :
              SA!ReviewOverlays(actions)
    BY <1>5
  <2>2. PICK actions \in [reviewed -> {"accepted", "corrected", "rejected"}] :
           SA!ReviewOverlays(actions)
    BY <2>1
  <2>3. /\ edited' = edited + 1
        /\ review' = [exists |-> TRUE, groups |-> candidates.groups,
                      artifacts |-> overlayIndex.artifacts, actions |-> actions]
        /\ UNCHANGED <<captures, config, candidates, shard, trainingManifest, job, validated>>
    BY <2>2 DEF SA!ReviewOverlays
  <2>4. DOMAIN review'.actions \subseteq SA!Groups
    BY <2>3
  <2>5. SA!ReviewedBeforeTraining'
    BY <2>3, ValidatedKept DEF StageAInv
  <2>6. /\ edited' \in Nat
        /\ job'.step = "manifest" =>
              /\ shard'.exists /\ job'.edited \in Nat /\ job'.edited <= edited'
              /\ job'.edited # edited'
    BY <2>3, EditIsSeen
  <2> QED BY <2>3, <2>4, <2>5, <2>6 DEF StageAInv
<1>6. CASE SA!Recalibrate
  <2>1. /\ edited' = edited + 1
        /\ UNCHANGED <<captures, candidates, review, shard, trainingManifest, job, validated>>
    BY <1>6 DEF SA!Recalibrate
  <2>2. SA!ReviewedBeforeTraining'
    BY <2>1, ValidatedKept DEF StageAInv
  <2>3. /\ edited' \in Nat
        /\ job'.step = "manifest" =>
              /\ shard'.exists /\ job'.edited \in Nat /\ job'.edited <= edited'
              /\ job'.edited # edited'
    BY <2>1, EditIsSeen
  <2> QED BY <2>1, <2>2, <2>3 DEF StageAInv
<1>7. CASE SA!BeginBuild
  <2>1. /\ job' = [step |-> "manifest", edited |-> edited]
        /\ UNCHANGED <<captures, config, candidates, review, trainingManifest, validated,
                       edited>>
    BY <1>7 DEF SA!BeginBuild
  <2>2. /\ shard'.exists /\ \A g \in DOMAIN shard'.groups : Made(shard'.groups[g])
        /\ BuiltFrom(shard'.groups, review, config)
    BY <1>7, BuildIsBound
  <2>3. SA!ReviewedBeforeTraining'
    BY <2>1, ValidatedKept DEF StageAInv
  <2>4. job'.edited = edited
    BY <2>1
  <2>5. edited \in Nat /\ edited <= edited
    BY DEF StageAInv
  <2>6. BuiltFrom(shard'.groups, review', config')
    BY <2>1, <2>2
  <2> QED BY <2>1, <2>2, <2>3, <2>4, <2>5, <2>6 DEF StageAInv
<1>8. CASE SA!WriteTrainingManifest
  <2>1. /\ job.step = "manifest" /\ job' = SA!Idle
        /\ trainingManifest' = [exists |-> TRUE, shard |-> shard, review |-> review,
                                config |-> config, raced |-> edited # job.edited]
        /\ UNCHANGED <<captures, config, candidates, review, shard, validated, edited>>
    BY <1>8 DEF SA!WriteTrainingManifest
  <2>2. job'.step # "manifest"
    BY <2>1 DEF SA!Idle
  <2>3. SA!ReviewedBeforeTraining'
    BY <2>1, ValidatedKept DEF StageAInv
  <2>4. /\ trainingManifest'.shard = shard /\ trainingManifest'.review = review
        /\ trainingManifest'.config = config
    BY <2>1
  <2>5. trainingManifest'.raced <=> edited # job.edited
    BY <2>1, Zenon
  <2>6. shard.exists /\ (job.edited = edited => BuiltFrom(shard.groups, review, config))
    BY <2>1 DEF StageAInv
  <2>7. trainingManifest'.shard.exists
    BY <2>4, <2>6
  <2>8. ~trainingManifest'.raced =>
           BuiltFrom(trainingManifest'.shard.groups, trainingManifest'.review,
                     trainingManifest'.config)
    BY <2>4, <2>5, <2>6
  <2> QED BY <2>1, <2>2, <2>3, <2>7, <2>8 DEF StageAInv
<1>9. CASE SA!Validate
  <2>1. UNCHANGED <<captures, config, candidates, review, shard, trainingManifest, job, edited>>
    BY <1>9 DEF SA!Validate
  <2>2. SA!ReviewedBeforeTraining'
    BY <1>9, ValidatedWasReviewed
  <2> QED BY <2>1, <2>2 DEF StageAInv
<1>10. CASE UNCHANGED SA!vars
  <2>1. UNCHANGED <<captures, config, candidates, review, shard, trainingManifest, job,
                    validated, edited>>
    BY <1>10 DEF SA!vars
  <2>2. SA!ReviewedBeforeTraining'
    BY <2>1, ValidatedKept DEF StageAInv
  <2> QED BY <2>1, <2>2 DEF StageAInv
<1> QED BY <1>1, <1>2, <1>3, <1>4, <1>5, <1>6, <1>7, <1>8, <1>9, <1>10 DEF SA!Next

\* Whatever the captures and the geometry of the groups, and however edits and commands
\* interleave: a group of a validated manifest whose build nobody disturbed has its
\* landmarks and poses in all three views, was made with the approved configuration the
\* manifest names, and was accepted as it is by the review it names.
THEOREM AlwaysReviewedBeforeTraining == Spec => []ReviewedBeforeTraining
<1>1. Init => StageAInv
  BY StageAInit, Zenon DEF Init
<1>2. StageAInv /\ [Next]_vars => StageAInv'
  BY SAStep, StageAStep
<1>3. StageAInv => ReviewedBeforeTraining
  BY Zenon DEF StageAInv, ReviewedBeforeTraining
<1> QED BY <1>1, <1>2, <1>3, PTL DEF Spec

=============================================================================
