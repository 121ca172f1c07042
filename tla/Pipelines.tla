--------------------------------- MODULE Pipelines ---------------------------------
(***************************************************************************)
(* The components of the toolchain that share no state, side by side: part *)
(* says which one a behaviour is about, and the variables of the others    *)
(* keep the values they have in some initial state.  The parameters of a   *)
(* component are the fields of one constant.                               *)
(***************************************************************************)
EXTENDS Integers, Sequences, FiniteSets, TLC

CONSTANTS LFp, FSp, TRp, TNp, FCp, SAp, RCp, LBp, OCp, PKp, ISp, CSp,
          \* ARKit capture: calls that overlap; frames that follow each other; an
          \* app that starts again
          Calls, Follow, Restart

VARIABLE part

VARIABLES pending, latest, closed, error, sequence, dropped, waiters, at, working,
          tracker, done, taken, stolen
VARIABLES frame, body, refresh
VARIABLES history, scope, given, seen
VARIABLES doing, settings, model, gradients, position, step, best, log, checkpoints, summary,
          resumes, crashes, rewound
VARIABLES sessions, registry, stage, input, records, index, manifest, trained, freezes, edits
VARIABLES captures, config, candidates, overlays, overlayIndex, review, shard,
          trainingManifest, job, validated, runs, edited
VARIABLES expected, received, refused
VARIABLES raw, teachers, depths
VARIABLES current, snapshots, trail, updates
VARIABLES kind, package, exporting, loading, opened, exports
VARIABLES evidence, blocks, place, steps
VARIABLES accepting, take, pipelineTake, nextSequence, callback, slot, running, sleepers, task,
          handlers, chunks, run, overlapped, quiet
VARIABLES clock, producer, confirms, frames, accepts, negotiator, guard, recorder, accepted

LF == INSTANCE LatestFrame_proofs WITH
        Threads <- LFp.threads, Worker <- LFp.worker, MaxFrames <- LFp.frames,
        DetectionInterval <- LFp.interval, MaximumMissed <- LFp.missed
FS == INSTANCE FullSet WITH
        FaceStates <- FSp.face, Visibility <- FSp.visibility, Streams <- FSp.streams,
        MaxTime <- FSp.time, MaxSequence <- FSp.sequence, Interval <- FSp.interval,
        MaximumAge <- FSp.age
TR == INSTANCE TemporalRefiner WITH
        Scopes <- TRp.scopes, InputStates <- TRp.states, HistoryFrames <- TRp.frames,
        MaximumPrediction <- TRp.prediction, MaxCapture <- TRp.capture
TN == INSTANCE TrainingRun_proofs WITH
        config <- settings,
        BatchesPerEpoch <- TNp.batches, Stages <- TNp.stages,
        Accumulations <- TNp.accumulations, StepLimits <- TNp.limits,
        ValidationInterval <- TNp.validation, CheckpointInterval <- TNp.checkpoint,
        ValidationLoss <- TNp.loss, MaxStarts <- TNp.starts
FC == INSTANCE FrozenCapture WITH
        Subject <- FCp.subject, Device <- FCp.device, MappingOf <- FCp.mapping,
        HeldOutDevices <- FCp.heldOut, ValidationIdentities <- FCp.identities,
        RecordSets <- FCp.records, MappingLists <- FCp.lists, Revisions <- FCp.revisions,
        MaxFreezes <- FCp.freezes, MaxEdits <- FCp.edits
SA == INSTANCE StageA WITH
        Captures <- SAp.captures, Solutions <- SAp.solutions, Owner <- SAp.owner,
        SampledCount <- SAp.sampled, MaxRuns <- SAp.runs, MaxEdits <- SAp.edits
RC == INSTANCE Reconciliation WITH
        Takes <- RCp.takes, MaxFrame <- RCp.frame, MaxExpected <- RCp.expected,
        MaxReceived <- RCp.received
LB == INSTANCE Labelling WITH
        Subject <- LBp.subject, MaxRaw <- LBp.raw, MaxTeachers <- LBp.teachers,
        MaxSequence <- LBp.sequence, MaxTime <- LBp.time, Contents <- LBp.contents,
        RuleMinimum <- LBp.minimum, RuleMaximum <- LBp.maximum,
        Observations <- LBp.observations, Depths <- LBp.depths, MaxSkew <- LBp.skew,
        Low <- LBp.low, High <- LBp.high, DisagreementLimit <- LBp.disagreement
OC == INSTANCE OnlineCalibration WITH
        history <- snapshots,
        Baseline <- OCp.baseline, Observed <- OCp.observed, MaxNeutralDrift <- OCp.drift,
        SpanFraction <- OCp.fraction, MaxStep <- OCp.step, MinSpan <- OCp.span,
        RollbackDepth <- OCp.depth, MaxUpdates <- OCp.updates
PK == INSTANCE Packages WITH
        Kinds <- PKp.kinds, Models <- PKp.models, Users <- PKp.users,
        MaxExports <- PKp.exports
IS == INSTANCE Isotonic WITH
        index <- place, Bins <- ISp.bins, MaxMass <- ISp.mass, Thresholds <- ISp.thresholds
CS == INSTANCE CompactStream_proofs WITH
        Layouts <- CSp.layouts, LayoutIds <- CSp.ids, MaxU64 <- CSp.u64,
        MaxPending <- CSp.pending, MinInterval <- CSp.interval, MaxAge <- CSp.age,
        MaxSkew <- CSp.skew, MaxUncertainty <- CSp.uncertainty, MaxGap <- CSp.gap,
        MaxJump <- CSp.jump, MaxGeneration <- CSp.generation, MaxSequence <- CSp.sequence,
        MaxTime <- CSp.time, MaxDelay <- CSp.delay
CPcalls == INSTANCE CapturePipeline_proofs WITH
        pending <- slot, waiters <- sleepers,
        Takes <- Calls.takes, Handlers <- Calls.handlers, Kinds <- Calls.kinds,
        MaxSequence <- Calls.frames, MaxRuns <- Calls.runs
CPfollow == INSTANCE CapturePipeline_proofs WITH
        pending <- slot, waiters <- sleepers,
        Takes <- Follow.takes, Handlers <- Follow.handlers, Kinds <- Follow.kinds,
        MaxSequence <- Follow.frames, MaxRuns <- Follow.runs
CPrestart == INSTANCE CapturePipeline_proofs WITH
        pending <- slot, waiters <- sleepers,
        Takes <- Restart.takes, Handlers <- Restart.handlers, Kinds <- Restart.kinds,
        MaxSequence <- Restart.frames, MaxRuns <- Restart.runs

\* What the code's configurations promise of the parameters, as the proofs of the
\* components need it.
ASSUME FrameParameters == LF!RoiParameters
ASSUME TrainingParameters == TN!Parameters
ASSUME CompactParameters == CS!Parameters
ASSUME CaptureParameters ==
    CPcalls!Parameters /\ CPfollow!Parameters /\ CPrestart!Parameters

ASSUME FullSetParameters ==
    /\ FSp.face \subseteq {"Observed", "Occluded", "OutOfFrame"} /\ "Occluded" \in FSp.face
    /\ FSp.visibility \subseteq {"Observed", "PartiallyOccluded", "SelfOccluded",
                                 "OutOfFrame", "Predicted", "TrackingLost"}
    /\ FSp.streams # {} /\ FSp.time \in Nat /\ FSp.sequence \in Nat
    /\ FSp.interval \in Nat \ {0} /\ FSp.age \in Nat
ASSUME RefinerParameters ==
    /\ TRp.scopes # {} /\ TRp.frames \in Nat \ {0}
    /\ TRp.states \subseteq {"Observed", "Fused", "Predicted", "Occluded", "OutOfFrame",
                             "TrackingLost"}
    /\ TRp.prediction \in Nat /\ TRp.capture \in Nat
ASSUME CalibrationParameters ==
    /\ \A s \in DOMAIN OCp.baseline :
          OCp.baseline[s] \in [neutral : Int, negative : Nat \ {0}, positive : Nat \ {0}]
    /\ OCp.baseline = [s \in DOMAIN OCp.baseline |-> OCp.baseline[s]]
    /\ OCp.observed \subseteq Int
    /\ OCp.drift \in Nat /\ OCp.step \in Nat /\ OCp.fraction \in Nat \ {0}
    /\ OCp.span \in Nat \ {0} /\ OCp.depth \in Nat
ASSUME StageAParameters == \A c \in SAp.captures : c.roles \in Seq(SA!Roles)

LFvars == <<pending, latest, closed, error, sequence, dropped, waiters, at, working,
            tracker, done, taken, stolen>>
FSvars == <<frame, body, refresh>>
TRvars == <<history, scope, given, seen>>
TNvars == <<doing, settings, model, gradients, position, step, best, log, checkpoints,
            summary, resumes, crashes, rewound>>
FCvars == <<sessions, registry, stage, input, records, index, manifest, trained, freezes, edits>>
SAvars == <<captures, config, candidates, overlays, overlayIndex, review, shard,
            trainingManifest, job, validated, runs, edited>>
RCvars == <<expected, received, refused>>
LBvars == <<raw, teachers, depths>>
OCvars == <<current, snapshots, trail, updates>>
PKvars == <<kind, package, exporting, loading, opened, exports>>
ISvars == <<evidence, blocks, place, steps>>
CPvars == <<accepting, take, pipelineTake, nextSequence, callback, slot, running, sleepers,
            task, handlers, chunks, run, overlapped, quiet>>
CSvars == <<clock, producer, confirms, frames, accepts, negotiator, guard, recorder, accepted>>

vars == <<part, LFvars, FSvars, TRvars, TNvars, FCvars, SAvars, RCvars, LBvars, OCvars,
          PKvars, ISvars, CSvars, CPvars>>

Parts == {"latest frame", "full set", "refiner", "training", "frozen", "stage a",
          "reconciliation", "labelling", "calibration", "packages", "isotonic", "compact",
          "capture calls", "capture frames", "capture runs"}

Init ==
    /\ part \in Parts
    /\ LF!Init /\ FS!Init /\ TR!Init /\ TN!Init /\ FC!Init /\ SA!Init /\ RC!Init
    /\ LB!Init /\ OC!Init /\ PK!Init /\ IS!Init /\ CS!Init
    /\ \/ part \notin {"capture frames", "capture runs"} /\ CPcalls!Init
       \/ part = "capture frames" /\ CPfollow!Init
       \/ part = "capture runs" /\ CPrestart!Init

Next ==
    \/ /\ part = "latest frame" /\ LF!Next
       /\ UNCHANGED <<part, FSvars, TRvars, TNvars, FCvars, SAvars, RCvars, LBvars,
                      OCvars, PKvars, ISvars, CSvars, CPvars>>
    \/ /\ part = "full set" /\ FS!Next
       /\ UNCHANGED <<part, LFvars, TRvars, TNvars, FCvars, SAvars, RCvars, LBvars,
                      OCvars, PKvars, ISvars, CSvars, CPvars>>
    \/ /\ part = "refiner" /\ TR!Next
       /\ UNCHANGED <<part, LFvars, FSvars, TNvars, FCvars, SAvars, RCvars, LBvars,
                      OCvars, PKvars, ISvars, CSvars, CPvars>>
    \/ /\ part = "training" /\ TN!Next
       /\ UNCHANGED <<part, LFvars, FSvars, TRvars, FCvars, SAvars, RCvars, LBvars,
                      OCvars, PKvars, ISvars, CSvars, CPvars>>
    \/ /\ part = "frozen" /\ FC!Next
       /\ UNCHANGED <<part, LFvars, FSvars, TRvars, TNvars, SAvars, RCvars, LBvars,
                      OCvars, PKvars, ISvars, CSvars, CPvars>>
    \/ /\ part = "stage a" /\ SA!Next
       /\ UNCHANGED <<part, LFvars, FSvars, TRvars, TNvars, FCvars, RCvars, LBvars,
                      OCvars, PKvars, ISvars, CSvars, CPvars>>
    \/ /\ part = "reconciliation" /\ RC!Next
       /\ UNCHANGED <<part, LFvars, FSvars, TRvars, TNvars, FCvars, SAvars, LBvars,
                      OCvars, PKvars, ISvars, CSvars, CPvars>>
    \/ /\ part = "labelling" /\ LB!Next
       /\ UNCHANGED <<part, LFvars, FSvars, TRvars, TNvars, FCvars, SAvars, RCvars,
                      OCvars, PKvars, ISvars, CSvars, CPvars>>
    \/ /\ part = "calibration" /\ OC!Next
       /\ UNCHANGED <<part, LFvars, FSvars, TRvars, TNvars, FCvars, SAvars, RCvars, LBvars,
                      PKvars, ISvars, CSvars, CPvars>>
    \/ /\ part = "packages" /\ PK!Next
       /\ UNCHANGED <<part, LFvars, FSvars, TRvars, TNvars, FCvars, SAvars, RCvars, LBvars,
                      OCvars, ISvars, CSvars, CPvars>>
    \/ /\ part = "isotonic" /\ IS!Next
       /\ UNCHANGED <<part, LFvars, FSvars, TRvars, TNvars, FCvars, SAvars, RCvars, LBvars,
                      OCvars, PKvars, CSvars, CPvars>>
    \/ /\ part = "compact" /\ CS!Next
       /\ UNCHANGED <<part, LFvars, FSvars, TRvars, TNvars, FCvars, SAvars, RCvars, LBvars,
                      OCvars, PKvars, ISvars, CPvars>>
    \/ /\ \/ part = "capture calls" /\ CPcalls!Next
          \/ part = "capture frames" /\ CPfollow!Next
          \/ part = "capture runs" /\ CPrestart!Next
       /\ UNCHANGED <<part, LFvars, FSvars, TRvars, TNvars, FCvars, SAvars, RCvars, LBvars,
                      OCvars, PKvars, ISvars, CSvars>>

\* The fairness of LatestFrame, whose steps leave everything else alone.
LatestFrameStep(A) ==
    /\ part = "latest frame" /\ A
    /\ UNCHANGED <<part, FSvars, TRvars, TNvars, FCvars, SAvars, RCvars, LBvars, OCvars,
                   PKvars, ISvars, CSvars, CPvars>>

Fairness ==
    /\ WF_vars(LatestFrameStep(LF!WorkerStep))
    /\ \A t \in LFp.threads : WF_vars(LatestFrameStep(LF!Continues(t)))

Spec == Init /\ [][Next]_vars /\ Fairness

-----------------------------------------------------------------------------
(* The properties, each of its component *)

\* Each component's variables keep to their types and bounds.
TypesOK ==
    /\ part = "latest frame" => LF!TypeOK
    /\ part = "full set" => FS!TypeOK
    /\ part = "refiner" => TR!TypeOK
    /\ part = "training" => TN!TypeOK
    /\ part = "frozen" => FC!TypeOK
    /\ part = "stage a" => SA!TypeOK
    /\ part = "reconciliation" => RC!TypeOK
    /\ part = "labelling" => LB!TypeOK
    /\ part = "calibration" => OC!TypeOK
    /\ part = "packages" => PK!TypeOK
    /\ part = "isotonic" => IS!TypeOK
    /\ part = "compact" => CS!TypeOK
    /\ part = "capture calls" => CPcalls!TypeOK
    /\ part = "capture frames" => CPfollow!TypeOK
    /\ part = "capture runs" => CPrestart!TypeOK

\* Latest-frame runtime: nobody sleeps past a result, a close, an error or, unless its
\* notify went to somebody else, a frame.
NobodyOversleeps == part = "latest frame" => LF!NobodyOversleeps

\* Its tracker: without drops no box outlives the misses allowed to it.
RoiIsConfirmed == part = "latest frame" => LF!RoiIsConfirmed

\* Its worker ends after a close.
CloseStopsWorker == LF!CloseStopsWorker

\* The producers and the temporal refiner: every result obeys the rules of the protocol.
ResultConforms ==
    /\ part = "full set" => FS!ResultConforms
    /\ part = "refiner" => TR!ResultConforms

\* FullSetProducer: a body that is shown is of this stream and recent.
BodyIsCurrent == part = "full set" => FS!BodyIsCurrent

\* CausalTemporalRefiner: a hidden signal is the last observation's, and only for a time.
ExtrapolatesLastObservation == part = "refiner" => TR!ExtrapolatesLastObservation

\* train: interrupted and resumed runs train on what an uninterrupted one does.
ResumeIsExact == part = "training" => TN!ResumeIsExact

\* train: the summary's best checkpoint is the best model validated.
SummaryNamesBest == part = "training" => TN!SummaryNamesBest

\* Frozen captures: what training is given is whole, disjoint and licensed, and a freeze
\* that nobody disturbs verifies.
FrozenCapturesAreSound ==
    part = "frozen" => FC!TrainingInputIsSafe /\ FC!FreezeVerifies

\* Stage A labels: what is trained on was seen and accepted by its reviewer.
ReviewedBeforeTraining == part = "stage a" => SA!ReviewedBeforeTraining

\* Conversion and labelling: the two agree on what is taken, and on what is labelled.
ConvertedIsLabelled == part = "labelling" => LB!ConvertedIsLabelled

\* Level C calibration: bounded drift, and rollback through the profiles before.
RollsBackWithinDrift == part = "calibration" => OC!RollsBackWithinDrift

\* Packages and adapters: a consumer runs the model its metadata describes, or one an export
\* has written since; never an older one.
ModelIsDescribedOrNewer == part = "packages" => PK!ModelIsDescribedOrNewer

\* Reconciliation's ranges are the frames to be sent again, each once; pooling ends in the
\* isotonic regression; labels and depths are resolved from the reliable observations alone,
\* in whatever order these are listed.
AlgorithmsAreExact ==
    /\ part = "reconciliation" => RC!RangesAreExact
    /\ part = "isotonic" => IS!FitIsIsotonic
    /\ part = "labelling" => LB!LabelIsOfReliableTeachers /\ LB!DepthIsDirect

\* Compact stream: frames are accepted once, in order and in time, and decoded and recorded
\* in the layout they were encoded in.
FramesAreSound == part = "compact" => CS!FramesAreSound

\* ARKit capture: frames are recorded under their take, records name their files, and a
\* pause ends what was under way.
CaptureIsSound ==
    /\ part = "capture calls" => CPcalls!CaptureIsSound
    /\ part = "capture frames" => CPfollow!CaptureIsSound
    /\ part = "capture runs" => CPrestart!CaptureIsSound
=============================================================================
