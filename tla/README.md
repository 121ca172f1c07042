# NanaTracking: TLA+ verification

TLA+ specifications of NanaTracking (a face-capture archive, its studio, the
tracking protocol and its runtimes), TLC runs that check them on small
instances, and TLAPS proofs for every value of the constants. `PROJECT.json`
lists the components, the runs, the lines each definition translates, the
hazards of the code, the findings and the theorems. Paths below are relative to
the repository.

## 1. The system

| component | code | state | operations |
|---|---|---|---|
| journals | `data/journal.py`, `LocalChunkRecorder.swift` | append-only JSON lines | append and fsync, load with repair of the tail |
| chunk recorder (iOS) | `LocalChunkRecorder.swift` (actor) | chunk files, `chunks.jsonl`, `acknowledged.jsonl`, their indexes | `writeChunk`, `receiveChunk`, `acknowledge`, `pendingChunks`, `synchronizePending` |
| chunk receiver | `LocalChunkStore` in `data/capture.py`, `data/studio.py` | chunk files, `chunks.jsonl`, index | `receive_chunk_stream`, `acknowledgements`, `finalize` |
| studio session control | `data/studio.py`, `data/studio_server.py`, `cli.py` | `commands.jsonl`, `command-acks.jsonl`, session definition | `issue_control`, `commands_after`, `acknowledge_command`, `state` |
| studio quality and preview | `data/studio.py` | latest quality sample, latest preview (two files) | `publish_quality`, `publish_preview` |
| device control | `StudioTransport.swift`, `ARKitCapturePipeline.swift` | `StudioCaptureLifecycle`, the session controller's gate and identity | `applyPendingCommands`, `apply`, `start`, `pause`, `stop` |
| capture pipeline | `ARKitCapturePipeline.swift`, `NTPAsyncLatestFrameWorker` | one pending frame, the worker, sequence, identity | `session(didUpdate)`, `submit`, `flush`, `capture` |
| reconciliation, conversion, freeze | `data/capture.py`, `data/manifest.py`, `data/strategy.py` | session, records, frozen index, training manifest | `reconcile_chunks`, `convert_arkit_frames`, `freeze_captures`, verify |
| Stage A labels | `data/stage_a.py` | candidates, overlays, review, shard, manifest | materialize, review, build, validate |
| label resolution | `data/labeling.py` | records with teacher and depth observations | check, resolve, materialize |
| capture link | `crates/nana-capture-link` | control, sync and preview outboxes, negotiated mode | `poll_control`, `try_send_*`, `poll_data` |
| compact protocol | `crates/nana-tracking-protocol/src/compact.rs` | pending layouts, generation, last sequence and timestamp, recording | propose, confirm, `switch_layout`, `accept`, `record_frame` |
| latest-frame runtime | `runtime/face_basic.py` | one pending slot, one result slot, worker thread, ROI tracker | `submit`, `poll_latest`, `wait_latest`, `close` |
| producers and refiner | `runtime/face_spatial.py`, `runtime/full_set.py`, `runtime/temporal.py` | last body sample, history of refined frames | `produce`, `refine` |
| training | `training/engine.py`, `training/checkpoint.py`, `training/method.py` | checkpoints, `metrics.jsonl`, summary | train, save, resume |
| personalization | `personalization/*.py` | calibration phases, online profile and its snapshots, adapter package | collect, fit, update, roll back, export, verify |
| export | `export/package.py` | a directory of files | export, verify, open |
| confidence | `evaluation/confidence.py` | bins and blocks | fit, apply |
| fusion, semantics, codecs, conformance | Rust crates, Swift codec | mostly none | pure functions |
| executors, models, other evaluation | `data/executors.py`, `models/`, `evaluation/` | files, tensors | batch programs |

### How they interact

The camera's delegate callback gives a frame to a one-slot worker, which encodes
it and writes several chunks with the recorder. The recorder uploads them
(`PUT /api/chunks/...`) to the studio server, a `ThreadingHTTPServer` whose
handler threads share one `CaptureStudio` object with one re-entrant lock. The
operator controls takes with `POST /api/control`; the app polls
`GET /api/commands`, lets its handler act on the camera, applies the command to
its own lifecycle and posts `POST /api/command-ack`. `studio control` and
`studio finalize` of the command line open the same directory from another
process. Everything durable on either side is a file renamed into place or a
line appended to a journal.

After the capture everything goes through files: sessions are reconciled,
converted and frozen; frozen records are labelled by teachers, Stage A labels
are reviewed by a person; `train` takes a manifest of either and leaves
checkpoints; an export makes a package of a checkpoint; a runtime verifies the
package and opens it. Each of these tools is a batch program that may be
interrupted, repeated into the same directory, or run while another tool
changes its input.

### What is hard

- *Crashes inside a write.* Both ends have a file and a journal per chunk, and
  the control plane has two journals; each may stop between any two of its steps.
- *Repetition.* Uploads and acknowledgements are retried after timeouts whose
  request may have been executed, and after restarts.
- *Await points.* The Swift actors are re-entrant, so `synchronizePending` and
  `applyPendingCommands` may overlap with themselves.
- *More than one owner.* `POST /api/session` replaces the studio object while
  handler threads use the old one; the command line tool opens a further one.
- *Check, then use.* Frozen captures, Stage A reviews and packages are verified
  by digests and read again later; between the two somebody may write.
- *Memory between frames.* ROI tracker, body cache, temporal history, stream
  guard and online profile each decide about a frame by what earlier ones left,
  across dropped frames, restarts of streams and changes of layout.
- *One condition for two purposes.* The runtime's worker and its clients sleep
  on one condition variable, and `submit` wakes one sleeper.
- *Two state machines for one thing.* The take lifecycle is written in Python
  (validated and replayed) and in Swift (checked and applied).

### What makes each part correct

- Journals: a journal that was interrupted opens again; a complete record is
  never dropped; a torn one is never extended.
- Recorder and receiver: an acknowledged chunk is durable at the receiver and
  listed there; an upload never meets other bytes under its id; a recorded
  chunk is acknowledged in the end; a manifest verifies for ever.
- Control: the session can be opened again; a delivered command stays; device
  and studio agree on the take after every command; frames are taken for the
  current take only; every command is applied in the end.
- Capture pipeline: every frame is recorded under the take it was taken in; at
  most one frame waits; `flush` returns after what was submitted before it.
- Capture link: sync messages are neither lost nor reordered, queues are
  bounded, a stale preview is never sent after a newer one.
- Compact stream: a frame is accepted at most once, in order, in time and in the
  layout it was encoded in; what is recorded can be read again.
- Latest-frame runtime: results come in order, nobody sleeps past what he waits
  for, `close` ends, every frame is counted; no face box outlives its face.
- Producers and refiner: a result obeys the rules of the protocol's validator,
  a reused body is recent and of this stream, an extrapolated value is the last
  observation's.
- Frozen captures, Stage A: what is used is what was checked, although writers
  were interrupted, repeated or went on meanwhile.
- Packages: a consumer never runs a model with newer metadata, nor one its
  metadata do not describe unless an export wrote it meanwhile.
- Labelling: conversion and labelling accept the same files; of a converted frame
  label and depth are judged each by its own observation; a label is owed to
  reliable teachers only and does not depend on their order.
- Training: a resumed run trains on what an uninterrupted one does; the summary
  names the best validated model.
- Online calibration: bounded drift, rollback through the profiles before.
- Reconciliation, isotonic fit: the result meets its definition.

## 2. Modules

### `Journal`
A JSON-lines file as what a reader finds in it: the sequence of its lines (a line
that does not parse is `Corrupt`) and what follows the last newline (nothing, a
fragment, or a whole record without its newline). `AppendRecord` is
`append_jsonl` (the Swift recorder's `append` does the same), which never looks at
the existing end of the file: appending to a torn tail glues the two records into
one corrupt line. `InterruptedAppend` is the set of files an append may leave
when it stops half-way. `Repaired` and `Readable` are `load_jsonl`.

### `ChunkSync` and `Replication`
`ChunkSync` is the device's recorder, the network and the studio's receiver.

| model | code |
|---|---|
| `dDisk`, `dIndex`, `dAcked` | the recorder's directory, `chunkList`, `acknowledgementsByID` |
| `todo[s]` | the rest of the list one `synchronizePending` call goes through |
| `rDisk`, `rIndex[g]`, `upload[g]` | `receiver/`, `_chunks_by_id` and the locked body stream of studio object `g` |
| `current` | `server.studio` |
| `requests`, `replies` | sent uploads (kept: each may arrive any number of times, at any time), answers |
| `RecordChunk`, `RecordChunkFails` | `writeChunk` and `receiveChunk`, with the append throwing |
| `StartSync`, `UploadChunk`, `AcceptAck`, `AcceptAckFails`, `UploadFails` | `synchronizePending`, its calls and its error paths |
| `BeginReceive`, `FinishReceive`, `RejectBody`, `FinishReceiveFails` | `do_PUT` with `receive_chunk` under the studio's lock |
| `DeviceCrash`, `StudioCrash`, `DeviceReopen`, `StudioReopen` | death between any two writes; the constructors |
| `ReplaceStudio` | `POST /api/session` repeated while the server runs |
| `FinalizeReceiver` | `LocalChunkStore.finalize` |

Keeping `requests` for ever over-approximates duplication and delay. A file
rename and its directory's fsync are one step, so losing a completed rename in a
power failure is not modelled. `ReplaceStudio` does not happen in the middle of
another object's append; between the rename and the append it reads the same
journal as before the rename.

`Replication` is the abstract promise: a chunk is recorded once, replicated only
from the source and released only after it has been replicated. `ChunkSync` with
its durable files (`Records` of the three journals) implements it.

### `StudioControl`
The take control from the studio's journal to the camera and back.

| model | code |
|---|---|
| `log`, `ackLog`, `commands`, `acks` | `commands.jsonl`, `command-acks.jsonl` and the lists of the server's `CaptureStudio` |
| `tool` | a `CaptureStudio` of the `studio control` process |
| `lifecycle` | `StudioCaptureLifecycle` |
| `camera` | `identity.takeID` and `acceptingFrames` of `ARKitCaptureSessionController` |
| `calls[k]` | one call of `applyPendingCommands` and where it awaits |
| `posts` | acknowledgements under way |
| `run` | the app's run; acknowledgements of different runs carry different times |
| `StateAfter`, `Allowed`, `Opens` | `state`, `_validate_transition`, `_validate_history` with `load_jsonl` |
| `IssueControl(Fails)`, `RecordAck(Fails)`, `StudioCrash`, `StudioReopen` | the server |
| `ToolOpens`, `ToolIssues` | the command line tool |
| `Poll`, `Answer`, `Handle`, `HandlerThrows`, `ApplyCommand`, `ApplyRefused`, `RequestFails` | `applyPendingCommands` step by step |
| `CameraInterrupted`, `AppCrash`, `AppRestart` | the device's environment |

A request names a script and a resumed take the same one, so scripts are left
out; the session definition exists from the start; a handler runs in one step
(its awaits, and the frames behind its gate, are in `CapturePipeline`). The repository
contains no caller of `applyPendingCommands`; the documentation of
`ARKitCaptureSessionController` (`ARKitCapturePipeline.swift:334`) names its
`apply` as the handler, and the model combines them so. The replacement of the
studio object by `POST /api/session` is modelled in `ChunkSync` only; for
control it has the effect of the tool: a second object that numbers commands
from what it has loaded.

### `CaptureLink`
The Rust adapter of both ends over one transport session and its successors.

| model | code |
|---|---|
| `link[p]` | one `CaptureLink`: mode, `remote_ready`, two outboxes, the preview slot, the two replay guards, whether a replay was counted |
| `wire[p]` | what the transport carries from `p`: two bounded streams, and a set of datagrams that only grows (loss, repetition, reordering) |
| `session[p]`, `broken` | the authenticated session of each end; transports that failed |
| `history[p]` | what the properties compare: the sync messages queued and received |
| `FlushControl`, `FlushData` | `flush_control`, `flush_data` as functions of a link and its wire; every caller below includes its flush |
| `TrySendHello`, `TrySendControl`, `TrySendSync`, `TrySendPreview` | `try_send_*` (three sync operations are one) |
| `PollControl`, `PollData`, `PollOutbound`, `Reconnect` | the polls and `reconnect` |
| `Break` | the transport's failure |

Each end may create its link in either mode, as its trust record and connection
decide. A stream answers `WouldBlock` exactly when it holds `StreamCap`
messages; every other transport error is the end of the session. What a broken
connection still delivers is allowed, never assumed. The roles are fixed and
different, and a stream belongs to one session, so the checks of role and session
field never fire and are left out with digests and sizes.

### `CapturePipeline`
From the camera's delegate callback to the recorder, behind the handler that
`StudioControl` takes as one step.

| model | code |
|---|---|
| `accepting`, `take`, `nextSequence` | the controller's gate, identity and counter, under its lock |
| `callback` | a frame that has its number and is not submitted yet |
| `pending`, `running`, `waiters`, `task` | `NTPAsyncLatestFrameWorker` and the frame in process |
| `pipelineTake` | the identity of the `ARKitCapturePipeline` actor |
| `handlers[h]` | one call of `apply` and where it awaits |
| `chunks` | the recorder's index, by sequence and kind |
| `NumberFrame`, `SubmitFrame` | `session(_:didUpdate:)`: one critical section and the `submit` after it |
| `TakeFrame`, `DrainEnds`, `BeginCapture`, `WriteChunk`, `FrameFails` | `drain`, `process`, `capture` and each of its writes |
| `BeginStart`, `Flush`, `SetIdentity`, `StartReturns`, `BeginPause`, `PauseReturns` | `start` and `pause` between their awaits |

A frame's chunks are a parameter (with or without depth). Two histories mark
what the code does not promise: a callback that is overtaken by a flush between
its number and its `submit`, and two starts that overlap; without either
exception `FramesKeepTheirTake` is violated, and its frame is recorded under the
next take.

### `LatestFrame`
`LatestFrameRuntime` and `FaceRoiTracker`. A step is one critical section of the
condition, or the worker's work between two. `waiters` is the queue of
`threading.Condition`: `notify` wakes its head, and a thread whose timeout
expires stays in the queue until it has the lock again. `Submit`, `PollLatest`,
`WaitSleeps`, `WaitEnds`, `Timeout`, `WaitGivesUp`, `Close`, `CloseReturns` are
the clients; `WorkerWaits`, `WorkerTakes`, `Produce`, `Publish`, `WorkerFails`,
`WorkerStops` the worker. `tracker` is the box and its misses: a box is looked
for again only at frames whose number is a multiple of the interval, so a frame
that is dropped there is a look that does not happen. A region given by the
caller bypasses the tracker and is left out; so is the telemetry, whose deques
the worker appends to without the condition.

### `FullSet` and `TemporalRefiner`
`FullSet` is `FaceSpatialProducer` with `FullSetProducer`: a frame, what the
face model saw of it, and the body sample in `_latest`, which is reused until it
is too old, too many frames away or of another stream. A result is its classes
of signals and structures with value, state, time and horizon: what the
protocol's validator (`validate.rs`) looks at. `TemporalRefiner` is
`CausalTemporalRefiner` behind `FaceBasicProducer`: a value is the time of the
observation it comes from, `history` the bounded deque. Three things the model
shows are worth knowing. A body model that calls a visible region `Predicted`
makes a result the validator refuses, as the producer reports no horizon
(`ResultConforms` names the case). A history shorter than the prediction time
evicts the last observation, after which a hidden signal is neither predicted
nor declared lost (`ExtrapolatesLastObservation` states that limit). And a
frame whose capture time does not increase makes the refiner raise, which ends
the worker of `LatestFrame`.

### `CompactStream`
A producer that follows ADR 0003, a network that loses, repeats, delays and
reorders everything, and a consumer: `ReceiveProposal`, `RefuseProposal` and
`Confirm` are `LayoutNegotiator`, `Accept` is `CompactStreamGuard.accept`,
`Confirm` with `switch_layout` its change of generation, `BeginLayout` and the
recording in `Accept` are `CompactRecorder`, whose sink may fail. `MaxU64` is the
largest integer, so that saturation happens within the bounds. What a frame was
encoded in and when it was produced is kept beside it, for the properties to
compare with what decoded it and when.

### `TrainingRun`
`train` with resume, gradient accumulation, validation, checkpoints, `best.pt`,
summary, and `Crash` between any two writes and inside one (`Torn`, a cut log
line). A model is the sequence of the batches it was trained on, each with its
learning-rate schedule; losses are a function of the step. Three consequences of
the code are visible in it: a crash between the logged validation and `best.pt`
leaves a best loss that no checkpoint holds (`engine.py:574`), so
`SummaryNamesBest` excludes crashes; a checkpoint is overwritten in place
(`checkpoint.py:36`), so a crash may lose the old and the new one; a torn
line of the log stops every later resume.

### `FrozenCapture`, `Reconciliation`, `Labelling`
`FrozenCapture` is `freeze_captures` step by step (records, index,
verification, each may fail), the training manifest built from a frozen index,
and `train` verifying both, while sessions and registry change and a second
freeze writes over the first. Digests are the content they stand for. A freeze
whose mapping files do not sort in the order of their revisions never verifies
(the index lists them by path, the verification expects them by revision), and a
failing second freeze replaces the records that the first one's index names:
training then refuses, which is what `TrainingInputIsSafe` needs, but the first
dataset is lost. `Train` verifies and takes what it verified in one step: that
the loader reads the records once more (`engine.py:378` and after) is not
modelled, so only what changed before that verification is covered.
`Reconciliation` is `reconcile_chunks` with its ranges over every small session
and every order of acknowledgements.

`Labelling` is `convert_arkit_frames`, the checks of `labeling.py` and the
resolution of one signal and of one depth from what several sources observed.
A frame may have lost tracking, lack the blendshape of the rule, map to a value
beyond the rule's range (the conversion raises) or only beyond the limits of the
signal's type (the label is refused); its depth keeps its own time, which may be
too far from the image's, and its own confidence. Evidence (`teacher_label`) and
method (revision and blendshape) of a derived label are its rule's, so one truth
value, over which `ConvertedIsLabelled` quantifies, says if the strategy of the
catalog takes them. The checked-in
`configs/data/ntp-v1-label-catalog.json` approves neither, so with it every
converted label ends as `unapproved_provenance`.

### `StageA`
Groups of three views become candidates with overlays, the overlays are
reviewed, a shard and a manifest are built of what was accepted, and the
manifest is validated. `Materialize`, `RenderOverlays`, `WriteOverlayIndex`,
`BeginBuild` and `WriteTrainingManifest` are the writes of two tools that may
stop after each and be repeated after `Recalibrate`; `ReviewOverlays` is the
person. `ReviewedBeforeTraining` excludes a file that changes between its
reading and its digest (`stage_a.py` reads twice). Of the failures a group can
have, two stop everything: a repeated role makes a group of more views than the
contract allows, so the whole materialization raises, and two views of one
camera share an overlay file, so their build always fails.

### `OnlineCalibration`, `Packages`, `Isotonic`
`OnlineCalibration` is Level C: bounded steps, a deque of snapshots, rollback
and reset; the model's integers are the code's smallest steps, so the run also
meets the spans that are smaller than the least span.

`Packages` is the export of a model package or of a personal adapter, file by
file over whatever an earlier export left, and a consumer that goes through the
files one by one too: it finds them complete, reads the metadata, compares the
digest of the model, runs the test vectors, and then reads metadata and model
once more to open them. An export may begin, write and die between any two of
these reads. Exports are numbered, which is what `ModelIsDescribedOrNewer`
compares: as the model is written first and the metadata last, and the consumer
reads them the other way round, what it runs is never older than the metadata it
runs it with, and it is the model they describe unless an export has written it
since the consumer began. This is all the code gives: an export between
verification and opening is opened unverified, even one for another user,
although `docs/model/temporal-personalization-runtime-v1.md:43` says the adapter
refuses a different user slot. Neither declarations nor vectors are bound to the
model by a digest. A file is written in one step (a torn one is refused by the
digest or the parsers), and exports into one directory run one at a time.

`Isotonic` is the loop of
`_pav` (an iteration is a step) and the merging of equal predictions, against
the max-min definition of isotonic regression.

### `Pipelines`, `MCPipelines` and the other MC modules
The components from `CapturePipeline` to `Isotonic` share no state. `Pipelines`
instantiates all of them side by side, each with the fields of one constant as
its parameters, and `part` says which one a behaviour is about; the variables of
the others stay in one of their initial states. Each property is that of its
component under its `part`. Its assumptions (`FrameParameters` to
`StageAParameters`) say what the configurations of the code promise of the
parameters. `MCPipelines` has the values for TLC, and `PinnedSpec`: the same
specification where a component that takes no part has one initial state, so
that TLC does not multiply them.
`MCChunkSync`, `MCStudioControl`, `MCCaptureLink` hold symmetry sets and values
for TLC. Safety runs use the symmetry; runs with liveness do not.
Definitions commented *Variant* in the modules are plausible mistakes; each
property has one that breaks it (`PROJECT.json`, `mutants`), and no
specification uses them.

## 3. Runs

| run | bounds | question |
|---|---|---|
| `chunk_sync` | 2 ids, 2 contents, 2 syncers, 2 faults, 1 failed append, 1 replaced studio | all safety properties of `ChunkSync` |
| `chunk_replication` | 2 ids, 1 content, 2 syncers, 2 faults | `ImplementsReplication`, and `EventuallyAcked` under fairness |
| `chunk_append_error` | 1 failed append, 1 fault | *violated*: a store opens again after any failure |
| `chunk_studio_reopened` | 1 replaced studio | *violated*: the receiver index covers every acknowledgement |
| `studio_control` | 3 commands, 2 takes, 2 overlapping calls, 2 faults | all safety properties of `StudioControl` |
| `studio_catches_up` | 2 commands, 1 take, 1 call, 2 faults, 1 failed append, 1 use of the tool | `EventuallyApplied` under fairness; acknowledgements with failures and tool |
| `studio_tool` | 3 commands, 1 use of the tool | *violated*: the session opens again |
| `studio_replayed_take` | 3 commands, 1 fault | *violated*: a stopped take stays stopped |
| `capture_link` | 2 sessions, 2 frames of two generations, 2 sync messages and the previews from the device, queues and streams of 1 | all properties of `CaptureLink`, with `SyncArrives` and `LatestPreviewArrives` under fairness |
| `pipelines` | per part, below | the properties of the thirteen components that `Pipelines` holds, and `CloseStopsWorker` under fairness |
| `latest_frame` | 2 clients, 2 frames | *violated*: a submitted frame is taken or replaced, or the runtime closes |
| `full_set` | times 0..2, sequences 0..3, a body every 2 frames, age at most 1 | *violated*: a reused body sample is never shown as `Observed` |

The parts of `pipelines`:

| part | bounds | property |
|---|---|---|
| capture calls, frames, runs | 2 overlapping calls and 1 frame; 1 call and 2 frames; 2 runs of the app and 1 frame each; 2 takes | `CaptureIsSound` |
| latest frame | 2 clients, 3 frames, detection every 2, no miss allowed | `NobodyOversleeps`, `RoiIsConfirmed`, `CloseStopsWorker` |
| full set | 2 streams, times and sequences 0..2, a body every 2 frames, age at most 1 | `ResultConforms`, `BodyIsCurrent` |
| refiner | 2 scopes, 4 input states, history 4, prediction 5, times to 6 | `ExtrapolatesLastObservation`, `ResultConforms` |
| compact | 2 layouts, 1 identifier, 2 generations, 2 sequences, times 0..2, u64 of 0..2, 1 pending | `FramesAreSound` |
| training | 3 batches an epoch, 2 stages, accumulation 1 or 2, 2 or 4 steps, validation after every step, checkpoint every 2, 2 resumes | `ResumeIsExact`, `SummaryNamesBest` |
| frozen | 4 sessions of 3 identities on 2 devices, one device held out, 2 freezes, 1 edit | `FrozenCapturesAreSound` |
| stage a | 2 groups in 2 splits, one of 4 kinds of capture, 2 solutions, 2 runs, 2 edits | `ReviewedBeforeTraining` |
| reconciliation | 2 takes, frames 0..2, 3 chunks, 2 acknowledgements | `AlgorithmsAreExact` |
| labelling | 3 frames of 2 sessions and 5 contents; 3 observations of 13 kinds; 3 depths of 6 kinds | `ConvertedIsLabelled`, `AlgorithmsAreExact` |
| calibration | 2 signals, 3 observed values, 3 updates, rollback depth 2 | `RollsBackWithinDrift` |
| packages | 2 kinds, 2 models, 2 users, 3 exports | `ModelIsDescribedOrNewer` |
| isotonic | 2 to 4 bins, masses 2 and 3, 2 predictions | `AlgorithmsAreExact` |

*Why these bounds.* Two chunks are needed for an append that follows a torn one,
for a pending list with an order, and for a manifest that misses one; two
contents for a conflict on an id; two syncers or calls for an overlap. Two
faults give a crash inside the recovery from another, a crash and a lost answer,
and a crash of each side. Three commands over two takes give pause and resume, a
second take, a retake and the end of a session; a fourth would repeat a
transition the state machine already made. Queues and streams of one message make
every queue full after one step, so that each flush is refused, retried by a
later call and overtaken by the other kind of message; a second sync message is
what may be reordered. One side sends data: the two directions share no state but
the handshake, which both sides take part in. In the parts of `pipelines` two is what
a hazard needs: a second stream, generation or scope for what must not be carried
over, a second freeze over the first, a second resume from an older checkpoint,
a frame in hand beside one that waits. Three frames are dropped,
taken and waiting at once; three exports leave an old file, interrupt one
another and run beside a consumer; four bins pool to the left of a pooled block; with
four steps and an interval of two a resume goes back behind a logged validation.
The compact part has an exact clock estimate and no jump beyond the policy; its
theorem covers every policy and width. The bounds `MaxFaults`, `MaxErrors`,
`MaxReopens`, `MaxTools`, `MaxCommands`, `MaxSession`, `MaxSync`, `MaxFrames`,
`MaxStarts`, `MaxFreezes`, `MaxEdits`, `MaxRuns`, `MaxUpdates`, `MaxExports` and
the largest times and sequences stand in the guards of the actions they bound, or
in the sets their inputs come from. Deadlock checking is off: once everything is acknowledged, or the
bounds are used up, the system may rightly stop.

*What the six violations show.* (1) An append that raises under a living
process (a full disk) leaves its fragment; the next append is glued to it and
the store never opens again. (2) A repeated `POST /api/session` during an upload
leaves an acknowledged chunk out of the receiver's index. (3) `studio control`
beside the running server reuses a revision, after which nobody can open the
session. (4) An app that is restarted replays the session and starts the camera
for stopped takes once more; of its frames the recorder takes those whose chunk
ids the take has left free. (5) The one `notify` of `submit` may wake a client of
`wait_latest` instead of the worker (the client re-checks the result slot and
sleeps again), and the frame stays in the slot until somebody submits, closes or
is notified by chance. (6) The tongue's direction comes from the body model and
takes its state from the face: of a reused body sample it is shown as
`Observed`, with the old time. The properties of the passing runs state the conditions under
which each promise holds (`errors = 0`, `reopens = 0`, `tools = 0`): those are
exactly the disturbances of the violations. For (5), `NobodyOversleeps` says
that this is the only way the worker sleeps beside a pending frame.

*Fairness.* Weak fairness is assumed of the steps of a running process and of
restarting a dead one: an upload that is sent, an answer that is computed, a
call that goes on. The owner repeats `synchronizePending` and
`applyPendingCommands` when they return; the library leaves that loop to the
app. `BeginReceive` is strongly fair, because the studio's lock may be taken by
other requests in between while a client waits for its own request before it
repeats it. Nothing forces the operator to issue commands, the user to record,
or a fault to happen or not to happen, and faults are finite in number by their
bound. `EventuallyApplied` excludes overlapping calls: one of them may run the
handler for a stale command, which leaves the camera on another take, and the
next pause or stop is then refused by `validateTake` every time. Of the capture
link only the polls of a working session are fair: the crate has no thread, and
its host drives it by polling. `LatestPreviewArrives` holds because the sync
messages are finitely many; `flush_data` sends them first, so an endless stream
of them would keep the preview back for ever. Of the latest-frame runtime the
worker's steps and those of a client inside a call are fair (threads run,
timeouts expire); nobody is made to call `submit` or `close`. The other parts
have no liveness property and no fairness.

## 4. Proofs

Eight modules hold the proofs: seven are about a component and have its name and
`_proofs`, the eighth, `Pipelines_proofs`, is about the composition. Every
theorem is about a specification (`Spec`), for every value of the constants that
its assumptions allow. Where a component is only checked inside `pipelines`, its
assumptions are a definition (`Parameters`) that its theorems name as their
hypothesis, and that `Pipelines` assumes of its parameters; TLC evaluates these
assumptions for the values of the run.

| component | theorem | states |
|---|---|---|
| `ChunkSync` | `TypeCorrect` | `TypeOK` |
| | `AckedBytesAreDurable` | `AckedBytesDurable` |
| | `NoIdConflicts` | `NoIdConflict` |
| | `ManifestVerifies` | `ManifestHoldsBytes` |
| | `DeviceIsAuthoritative` | `LocalFirst` |
| | `AcknowledgedIsIndexed` | `AckedIndexed` |
| | `JournalsAlwaysReopen` | `JournalsReopen` |
| | `ReplicationRefined` | `[](errors = 0) => ImplementsReplication` |
| `StudioControl` | `ControlTyped` | `TypeOK` |
| | `StudioReopens` | `HistoryReopens` |
| | `DeliveredIsKept` | `DeliveredStays` |
| | `DeviceFollowsStudio` | `LifecycleFollowsStudio` |
| | `FramesBelong` | `FramesBelongToTake` |
| | `AcknowledgedIsApplied` | `AckedWereApplied` |
| `CaptureLink` | `QueuesAreBounded` | `TypeOK` |
| | `PreviewPathIsShared` | `NoOneWayPreview` |
| | `SyncIsExactlyOnce` | `SyncInOrder` |
| | `ReliableModeKeepsOrder` | `ReliablePreviewsInOrder` |
| | `PreviewsOnlyGetNewer` | `PreviewsNeverGoBack`, an action property |
| `CapturePipeline` | `TypesAreRight`, `CaptureIsAlwaysSound` | `TypeOK`, `CaptureIsSound` |
| `CompactStream` | `TypesAreRight`, `FramesAreAlwaysSound` | `TypeOK`, `FramesAreSound` |
| `LatestFrame` | `TypesAreRight`, `NobodyEverOversleeps` | `TypeOK`, `NobodyOversleeps` |
| | `FramesAreCounted`, `ResultsGetNewer` | `EveryFrameCounted`, `ResultsAreNewer` |
| | `RoiIsAlwaysConfirmed` | `RoiIsConfirmed` |
| `TrainingRun` | `TypesAreRight` | `TypeOK` |
| | `ResumeIsAlwaysExact` | `ResumeIsExact` |
| | `SummaryAlwaysNamesBest` | `SummaryNamesBest` |
| `Pipelines` | `CaptureIsAlwaysSound`, `FramesAreAlwaysSound` | `CaptureIsSound`, `FramesAreSound` |
| | `NobodyEverOversleeps`, `RoiIsAlwaysConfirmed` | `NobodyOversleeps`, `RoiIsConfirmed` |
| | `ResumeIsAlwaysExact`, `SummaryAlwaysNamesBest` | `ResumeIsExact`, `SummaryNamesBest` |
| | `ResultAlwaysConforms`, `BodyIsAlwaysCurrent` | `ResultConforms`, `BodyIsCurrent` |
| | `AlwaysExtrapolatesLastObservation` | `ExtrapolatesLastObservation` |
| | `FrozenCapturesAreAlwaysSound` | `FrozenCapturesAreSound` |
| | `AlwaysReviewedBeforeTraining` | `ReviewedBeforeTraining` |
| | `AlwaysRollsBackWithinDrift` | `RollsBackWithinDrift` |
| | `ModelIsAlwaysDescribedOrNewer` | `ModelIsDescribedOrNewer` |

### Journals

`ChunkSync_proofs` and `StudioControl_proofs` begin with the lemmas about
journals they rest on: the elements of an append, of `Front`, the types of every
operation, and what an append, an interrupted append and a repair may change in
the set of readable records.

### `ChunkSync_proofs`

The theorems rest on the assumptions of the module alone (the bounds are naturals,
the sentinels are not values). `AckedBytesDurable` is not inductive: that an
acknowledgement implies durable bytes depends on what is in flight. The
invariant `Inv` says, for each end, where a descriptor may be found. On the
device, everything in the index, in an acknowledgement, in a request or in a
reply was recorded under an id that names it alone, whichever append failed
since; at the receiver, a descriptor in the journal, in an index, in a reply or
in the manifest has its bytes in place; and every upload and every request
names the one descriptor its id ever had. With the last part, storing a chunk
can only overwrite a file with the same bytes, which is why bytes once there
stay there although a file may be written again after a failed append or by a
second studio object. `InvStep` has a step for every action.

Three promises hold on a condition, and `CalmInv` adds a conjunct for each.
`DeviceCalm` (no append has failed): the recorder's memory is what its journals
say, no journal of the device names a chunk twice or has a torn end while its
process runs, and the bytes of every recorded chunk are in place. `OneStudio` (no second
studio object): the object indexes whatever it promised, and its journal holds
it or is spoilt by a failed append for good, so that no reopened studio can run
without it. `ReceiverCalm` (both conditions, or the first alone): the journal of the
receiver parses and is what the object indexes. The condition of each part is
the condition of its property; `chunk_append_error` and `chunk_studio_reopened`
show what happens to `JournalsReopen` and `AckedIndexed` without theirs.

`ReplicationRefined` shows that `Init` maps to the initial state of
`Replication` and that every step is a step or a stutter there
(`ReplicationStep`): a record of a chunk is `Record`, of the receiver's journal
`Replicate`, of an acknowledgement `Release`, and a crash that loses a torn
tail changes no `Records`. It assumes `[](errors = 0)`, as `chunk_replication`
does with `MaxErrors = 0`: the append after a failed one makes a corrupt line of
two records, and a record that disappears is no step of `Replication`.

### `StudioControl_proofs`

`StateAfter` replays a journal by recursion. That its equations hold, and that
the state after `n` commands depends on these commands only, is proved by a
least counterexample (a non-empty set of naturals has a least element, from the
well-foundedness of `<`), since an induction theorem of the library cannot be
instantiated. All six theorems then rest on `ControlInv`, with four parts.
`TypeInv` is `TypeOK` and what it needs: an app is started once for every time
it died, and once before. `StudioInv` says that the lists of server and tool are
lawful histories, and that the journal begins with each of them as long as its
lines are numbered (after an append that failed, or one beside a running server,
they may not be, and then nobody opens it again). `HistoryInv` is the heart: there is one sequence of
commands, `Given`, that the journal holds in the same way, the server's list
begins with, the lifecycle has followed up to its revision, and every pending
command of every call is in. Polls with an old answer, repeated answers and
overlapping calls all take their commands from it, so that applying one in
order is always what the studio replays. `CalmInv` has what is undisturbed: the
server's lists are the lines of its journals, and they open.

`FramesBelong` adds `FrameInv`: as long as calls did not overlap there is at
most one, and where that call awaits says which of camera and lifecycle is
ahead (`Paced`). `AcknowledgedIsApplied` adds `AckInv`: an acknowledgement on
its way, in memory or in the journal is of an earlier run or at most at the
lifecycle's revision. `studio_tool` shows what becomes of the session without
`Undisturbed`; section 3 says what overlapping calls do to the camera.

### `CaptureLink_proofs`

For any set of previews, any capacities and any number of sessions. `ModeInv`
says of each side what its hellos, in its outbox or on the stream, may still
say: a side that announced the reliable mode is in it, a side that has a newer
session than its peer has heard nothing in it, and a hello that says datagram
while its sender has been lowered since is on its way to a peer that is already in
reliable mode. This gives `NoOneWayPreview`, of which the property alone is not
inductive: it does not see the hellos. `FlowInv` has the two orders: sync
messages got, on the stream and in the outbox are one sequence of numbers
(`SyncsInOrder`); where previews do not travel as datagrams, those received, on
the stream and in the slot are each newer than the one before (`PreviewsOrdered`).
The flushes are functions of a link and its wire, so a lemma about each
(what it may move) serves all actions that end in it. `PreviewsNeverGoBack` is
proved for every step.

### `CapturePipeline_proofs`

For any takes, any overlapping calls of `apply`, any number of chunks a frame,
of sequences and of starts of the app; kinds of chunks are distinct. `GateInv`
says that while a call shuts the gate and its flush has returned, only frames
that the flush outran are left (`Clear`), because a frame enters through the
gate and the flush waits for what is pending and in process. `TakeInv`: while
starts take turns, such frames apart, each frame on its way is of the
controller's take, and the pipeline's take differs from it only between the
rename and the gate's opening, when there is no such frame. `WriteInv`: a frame in
process has written its first chunks and nobody overwrote them. `CaptureIsSound`
is then a consequence of the parts.

### `CompactStream_proofs`

For any layouts, identifiers, widths, limits and bounds (`Parameters`: they are
naturals). `FramesAreSound` speaks of accepted frames; the invariant `Inv` adds
what makes it inductive. The producer's messages carry one confirmation per
generation, and a frame is encoded as the confirmation of its generation says;
guard and recorder are on layouts that were confirmed; the last accepted frame
is the one the guard remembers, so every accepted frame is at or behind it;
recorded headers are confirmed ones, so two of a generation are equal.
`AcceptIsSound` has the arithmetic of `AcceptedInTime`: a limit that saturates
only becomes tighter.

### `LatestFrame_proofs`

For any clients, any number of frames and any tracker. The invariant has three
parts: every sleeper is in the condition's queue, so that a notify reaches it;
the slots and the worker's hand are ordered and counted, and the worker holds a
frame exactly while it works; the tracker has seen no more frames than the
worker. The lemmas say what `notify`, `notify_all` and leaving the queue do to
these. `Parameters` says that the worker is no client and the bounds are
naturals. `RoiIsAlwaysConfirmed` needs an interval of at least 1 besides, as
`FaceRoiTracker.__init__` demands. Its bound is not inductive; `RoiInv` counts
exactly: the frames since the last face are at most the missed multiples of the
interval and the frames after the last multiple, and a box that is kept has
missed no more than it may.

### `TrainingRun_proofs`

For any stages, accumulations, step limits, intervals and batches per epoch, any
losses (integers below `Infinity`), and any number of crashes and resumes
(`Parameters`). `RunInv` says that the run is the uninterrupted one up to its
step and its open gradients: the model is the batches of the steps before, the
gradients are the batches after these, and the position counts both
(`OneBatchMore`, where epochs and accumulation do not fall together).
`CheckpointsInv` says so of every checkpoint that can be read, and
`CompatibleTrainAlike` that two compatible configurations train on the same
batches, which makes a resume exact. `LogInv`: while no process died and no
resume went back the log is the uninterrupted run's. `BestInv`: while no process
died the best loss is the least that was logged and `best.pt` has it, or will
have it by the step in progress. What `FlattenSeq` of the log is, is
shown by a least counterexample again.

### `Pipelines_proofs`

For every component a lemma (`LFStep`, `FSStep`, ...) says that a step of the
composition is one of the component or leaves it alone. With it the theorems of
`LatestFrame_proofs`, `TrainingRun_proofs`, `CompactStream_proofs` and
`CapturePipeline_proofs` hold of the composition as they stand. The other six
components are proved here.

- `FullSetInv`: the body sample is never newer than the frame, and a body that is
  visible is of the frame's stream and less than an interval behind it. That a
  result conforms (`FullSetConforms`) is then a case analysis over the kinds of
  signals.
- `RefinerInv`: every sample in the history is one the validator accepts, and
  `seen`, the time of the last observation and how many samples ago it was, is
  where the history says (`SeenIn`), or has left a full history. That the deque
  moves by one when it is full is what makes this a proof.
- `CalibrationInv`: every profile that is, was or is kept lies within drift and
  spans of the baseline, and the snapshots are the end of the sequence of all
  profiles since the last reset.
- `PackagesInv`: no metadata are of a later export than the model beside them,
  and as long as the model is the one a consumer has found, the metadata it has
  read are those it verified or that model's own.
- `FreezingInv`: while nobody edits, a freeze in progress has checked what it has
  written. `TrainIsSafe` derives the input's safety from what `train` verifies
  alone, whoever has written before.
- `StageAInv`: what is in candidates and shard was made by materializing, and as
  long as nothing was edited while it was read, what is built is what its review
  had accepted.

### Only model-checked

- Liveness (`EventuallyAcked`, `EventuallyApplied`, `SyncArrives`,
  `LatestPreviewArrives`, `CloseStopsWorker`) is outside the provers' reach, as
  `ENABLED` is.
- `ConvertedIsLabelled` and `AlgorithmsAreExact` (`Labelling`, `Reconciliation`,
  `Isotonic`): their results are folds over their input, or compared with a
  definition over all its intervals. What they compute for every input needs
  induction over data. (A least counterexample does for a recursive function of
  one number, as in `StudioControl_proofs`; for folds with an operator parameter
  it does not.)
- `TypesOK` of the composition: the types of the components that have theorems
  are proved there, and what the proofs of the others need is in their
  invariants.

## 5. Plan

What is left, in this order:

1. `FrozenCapture`: the loader's reading after `_verify_frozen_capture_input` as
   a step of its own, with what then may be trained on.
2. `StudioControl`: the gap behind `acknowledged_revision`.
3. `TypesOK` of the composition, for the components of `Pipelines_proofs`.

## 6. Not modelled

- Networks, losses, metrics, evaluation reports and acceptance gates
  (`models/`, `training/stage_a.py`, `evaluation/` but for the isotonic fit), and
  the fitting of Level A ranges: numeric, no state that outlives a call.
- Codecs, validation of layouts and the canonical hash, FFI, semantics tables,
  ONNX runtime wrapper, Swift codec and contract: pure functions of bytes.
- `ResultStreamGuard` and the one-slot `LatestFrame<T>` of the Rust crate: the
  first has the ordering rules of `CompactStreamGuard` without its layouts, the
  second replaces one value.
- `NTPSpatialProducer` and the dispatch-queue worker of the Swift package: the
  numbering of one counter, and the asynchronous worker's synchronous twin; the
  package has no caller of either that shares state with the capture.
- Executors and readiness reports (`data/executors.py`, `data/stage_a_smoke.py`,
  `data/synthetic.py`): they run external programs and read back their files.
- Quality samples and previews of the studio: shown to the operator, nothing is
  decided from them. The preview's two files are replaced one after the other
  while a handler thread may read them (`studio.py:316`).
- Command line and configuration: argument parsing; the commands that open a
  studio are in the component they open. Authentication, body limits and the web
  page of the studio, real ARKit and AVFoundation.

Noticed beside the models, in code they abstract from: `load_compatible` of a
calibration profile compares neither the user slot nor the normalization nor the
calibration revision, though `docs/model/face-basic-v1.md:90` says profiles bind
to them; a frozen record may carry labels of another frozen mapping than its
session's (`capture.py:1161`); a crash in `write_text` of the training manifest
leaves half a file (`manifest.py:237`).
