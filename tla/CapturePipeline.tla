---------------------------- MODULE CapturePipeline ----------------------------
(***************************************************************************)
(* From the camera to the recorder: the delegate callback of               *)
(* ARKitCaptureSessionController, NTPAsyncLatestFrameWorker with its one   *)
(* slot, ARKitCapturePipeline, and the studio's commands, whose handlers   *)
(* (apply) await and may overlap.                                          *)
(*                                                                         *)
(* A step is a critical section of the controller's or the worker's lock,  *)
(* or what an actor does between two awaits.  ARKit may call with a frame  *)
(* whenever it likes, one call at a time (its queue is serial).  A chunk   *)
(* that a failed or interrupted write leaves half-way is not there, as     *)
(* ChunkSync says.                                                         *)
(***************************************************************************)
EXTENDS Integers, Sequences

CONSTANTS Takes,
          Handlers,     \* calls of apply that may overlap
          Kinds,        \* of a frame's chunks in the order of writing, the record last
          MaxSequence,  \* the largest sequence number (2^64 - 1)
          MaxRuns       \* bound: starts of the app

VARIABLES accepting,    \* acceptingFrames
          take,         \* identity.takeID of the controller
          pipelineTake, \* identity.takeID of the pipeline
          nextSequence,
          callback,     \* the frame that has a sequence number and is not submitted
          pending, running, waiters,  \* of the worker
          task,         \* the frame in process, and its chunks still to be written
          handlers,     \* where each call of apply awaits
          chunks,       \* the recorder's chunks: by sequence and kind
          run,
          overlapped,   \* history: a start began during another
          quiet         \* history: a pause has returned and no start has begun

vars == <<accepting, take, pipelineTake, nextSequence, callback, pending, running, waiters,
          task, handlers, chunks, run, overlapped, quiet>>
workerVars == <<pending, running, waiters, task>>

NoFrame == [there |-> FALSE]
NoTask == [at |-> "none"]
Returned == [at |-> "returned"]

\* A new controller has the take it is given; its sequences start at 0.
Init ==
    /\ accepting = FALSE /\ take \in Takes /\ pipelineTake = take /\ nextSequence = 0
    /\ callback = NoFrame /\ pending = NoFrame /\ running = FALSE /\ waiters = {}
    /\ task = NoTask /\ handlers = [h \in Handlers |-> Returned]
    /\ chunks = <<>> /\ run = 1 /\ overlapped = FALSE /\ quiet = TRUE

-----------------------------------------------------------------------------
(* session(_:didUpdate:) *)

\* Under the lock the frame gets its number; at the last one the gate closes.
NumberFrame ==
    /\ accepting /\ ~callback.there
    /\ IF nextSequence < MaxSequence
       THEN /\ callback' = [there |-> TRUE, sequence |-> nextSequence, run |-> run,
                            take |-> take, late |-> FALSE]
            /\ nextSequence' = nextSequence + 1
            /\ UNCHANGED accepting
       ELSE /\ accepting' = FALSE
            /\ UNCHANGED <<callback, nextSequence>>
    /\ UNCHANGED <<take, pipelineTake, workerVars, handlers, chunks, run, overlapped, quiet>>

\* submit replaces a frame that waits.
SubmitFrame ==
    /\ callback.there
    /\ pending' = callback /\ running' = TRUE
    /\ callback' = NoFrame
    /\ UNCHANGED <<accepting, take, pipelineTake, nextSequence, waiters, task, handlers,
                   chunks, run, overlapped, quiet>>

\* sessionWasInterrupted, session(_:didFailWithError:)
Interrupted ==
    /\ accepting /\ accepting' = FALSE
    /\ UNCHANGED <<take, pipelineTake, nextSequence, callback, workerVars, handlers, chunks,
                   run, overlapped, quiet>>

\* A flush is over: a frame that is submitted from now on comes after it.
Outrun(frame) == IF frame.there THEN [frame EXCEPT !.late = TRUE] ELSE frame

-----------------------------------------------------------------------------
(* The worker: drain, process and capture *)

TakeFrame ==
    /\ running /\ task.at = "none" /\ pending.there
    /\ task' = [at |-> "taken", frame |-> pending]
    /\ pending' = NoFrame
    /\ UNCHANGED <<accepting, take, pipelineTake, nextSequence, callback, running, waiters,
                   handlers, chunks, run, overlapped, quiet>>

\* takeNext finds nothing: the drain ends and resumes every flush that waits.
DrainEnds ==
    /\ running /\ task.at = "none" /\ ~pending.there
    /\ running' = FALSE /\ waiters' = {}
    /\ handlers' = [h \in Handlers |-> IF h \in waiters THEN [handlers[h] EXCEPT !.at = "flushed"]
                                       ELSE handlers[h]]
    /\ callback' = IF waiters = {} THEN callback ELSE Outrun(callback)
    /\ UNCHANGED <<accepting, take, pipelineTake, nextSequence, pending, task, chunks, run,
                   overlapped, quiet>>

\* capture begins in the pipeline's actor: it takes the identity once for all chunks.
BeginCapture ==
    /\ task.at = "taken"
    /\ task' = [at |-> "writing", frame |-> task.frame, take |-> pipelineTake, next |-> 1]
    /\ UNCHANGED <<accepting, take, pipelineTake, nextSequence, callback, pending, running,
                   waiters, handlers, chunks, run, overlapped, quiet>>

\* No face, no exposure or depth data, no JPEG; or the recorder throws.
FrameFails ==
    /\ task.at \in {"taken", "writing"}
    /\ task' = NoTask
    /\ UNCHANGED <<accepting, take, pipelineTake, nextSequence, callback, pending, running,
                   waiters, handlers, chunks, run, overlapped, quiet>>

ChunkId == <<task.frame.sequence, Kinds[task.next]>>
Chunk == [frame |-> task.frame, take |-> task.take]
Last == Len(Kinds)

\* receiveChunk throws for an id it has with other contents (another frame's always are).
IdIsFree == ChunkId \notin DOMAIN chunks

\* One call of writeChunk and the await after it.
WriteChunk ==
    /\ task.at = "writing" /\ IdIsFree
    /\ chunks' = [id \in DOMAIN chunks \union {ChunkId} |->
                    IF id \in DOMAIN chunks THEN chunks[id] ELSE Chunk]
    /\ task' = IF task.next = Last THEN NoTask
               ELSE [task EXCEPT !.next = @ + 1]
    /\ UNCHANGED <<accepting, take, pipelineTake, nextSequence, callback, pending, running,
                   waiters, handlers, run, overlapped, quiet>>

-----------------------------------------------------------------------------
(* apply: start (and retake), pause (and stop, end) *)

InProgress(h) == handlers[h].at # "returned"
Starts(h) == InProgress(h) /\ handlers[h].start

\* Camera access is granted and the gate is closed.
BeginStart(h, t) ==
    /\ ~InProgress(h)
    /\ accepting' = FALSE
    /\ handlers' = [g \in Handlers |->
                      IF g = h THEN [at |-> "closed", start |-> TRUE, take |-> t, alone |-> TRUE]
                      ELSE IF InProgress(g) THEN [handlers[g] EXCEPT !.alone = FALSE]
                      ELSE handlers[g]]
    /\ overlapped' = (overlapped \/ \E g \in Handlers : Starts(g))
    /\ quiet' = FALSE
    /\ UNCHANGED <<take, pipelineTake, nextSequence, callback, workerVars, chunks, run>>

\* pause and stop of the controller's take; end has none.
BeginPause(h) ==
    /\ ~InProgress(h)
    /\ accepting' = FALSE
    /\ handlers' = [handlers EXCEPT ![h] =
                      [at |-> "closed", start |-> FALSE,
                       alone |-> \A g \in Handlers : ~Starts(g)]]
    /\ UNCHANGED <<take, pipelineTake, nextSequence, callback, workerVars, chunks, run,
                   overlapped, quiet>>

\* Variant: a flush looks at the slot alone.
SlotIsEmpty == ~pending.there

WorkerIsIdle == ~running /\ ~pending.there

\* await worker.flush(): returns at once, or waits for the end of the drain.
Flush(h) ==
    /\ handlers[h].at = "closed"
    /\ IF WorkerIsIdle
       THEN /\ handlers' = [handlers EXCEPT ![h].at = "flushed"]
            /\ callback' = Outrun(callback)
            /\ UNCHANGED waiters
       ELSE /\ handlers' = [handlers EXCEPT ![h].at = "flushing"]
            /\ waiters' = waiters \union {h}
            /\ UNCHANGED callback
    /\ UNCHANGED <<accepting, take, pipelineTake, nextSequence, pending, running, task,
                   chunks, run, overlapped, quiet>>

\* await pipeline.setIdentity(updated)
SetIdentity(h) ==
    /\ handlers[h].at = "flushed" /\ handlers[h].start
    /\ pipelineTake' = handlers[h].take
    /\ handlers' = [handlers EXCEPT ![h].at = "renamed"]
    /\ UNCHANGED <<accepting, take, nextSequence, callback, workerVars, chunks, run,
                   overlapped, quiet>>

\* The controller's identity, and the gate opens.
StartReturns(h) ==
    /\ handlers[h].at = "renamed"
    /\ take' = handlers[h].take /\ accepting' = TRUE
    /\ handlers' = [handlers EXCEPT ![h] = Returned]
    /\ UNCHANGED <<pipelineTake, nextSequence, callback, workerVars, chunks, run, overlapped,
                   quiet>>

PauseReturns(h) ==
    /\ handlers[h].at = "flushed" /\ ~handlers[h].start
    /\ handlers' = [handlers EXCEPT ![h] = Returned]
    /\ quiet' = (quiet \/ handlers[h].alone)
    /\ UNCHANGED <<accepting, take, pipelineTake, nextSequence, callback, workerVars, chunks,
                   run, overlapped>>

-----------------------------------------------------------------------------
\* The app dies and starts again; the recorder's chunks stay.
AppRestarts ==
    /\ run < MaxRuns /\ run' = run + 1
    /\ accepting' = FALSE /\ take' \in Takes /\ pipelineTake' = take' /\ nextSequence' = 0
    /\ callback' = NoFrame /\ pending' = NoFrame /\ running' = FALSE /\ waiters' = {}
    /\ task' = NoTask /\ handlers' = [h \in Handlers |-> Returned] /\ quiet' = TRUE
    /\ UNCHANGED <<chunks, overlapped>>

Next ==
    \/ NumberFrame \/ SubmitFrame \/ Interrupted
    \/ TakeFrame \/ DrainEnds \/ BeginCapture \/ FrameFails \/ WriteChunk
    \/ \E h \in Handlers :
          \/ \E t \in Takes : BeginStart(h, t)
          \/ BeginPause(h) \/ Flush(h) \/ SetIdentity(h) \/ StartReturns(h) \/ PauseReturns(h)
    \/ AppRestarts

Spec == Init /\ [][Next]_vars

-----------------------------------------------------------------------------
(* Properties *)

Frame == [there : {TRUE}, sequence : 0 .. MaxSequence - 1, run : 1 .. MaxRuns, take : Takes,
          late : BOOLEAN]

TypeOK ==
    /\ {accepting, running, overlapped, quiet} \subseteq BOOLEAN
    /\ {take, pipelineTake} \subseteq Takes
    /\ nextSequence \in 0 .. MaxSequence /\ run \in 1 .. MaxRuns
    /\ {callback, pending} \subseteq Frame \union {NoFrame}
    /\ task.at # "none" => task.frame \in Frame
    /\ waiters \subseteq Handlers
    /\ DOMAIN chunks \subseteq (0 .. MaxSequence - 1) \X {Kinds[i] : i \in 1 .. Last}
    /\ \A id \in DOMAIN chunks : chunks[id].frame \in Frame /\ chunks[id].take \in Takes

\* Every chunk is recorded under the take its frame was accepted in: start waits for the
\* frames of the take before.  Two kinds of frames escape it: one whose callback has its
\* number and submits it only after the flush, and any frame once two starts overlapped.
FramesKeepTheirTake ==
    \A id \in DOMAIN chunks :
        chunks[id].take = chunks[id].frame.take \/ chunks[id].frame.late \/ overlapped

\* A record names files of its own frame, which are there: although the numbers start
\* again with the app, and a frame that fails half-way leaves its first chunks behind.
RecordsNameTheirFiles ==
    \A id \in DOMAIN chunks : id[2] = Kinds[Last] =>
        \A i \in 1 .. Last :
            LET file == <<id[1], Kinds[i]>>
            IN  file \in DOMAIN chunks /\ chunks[file] = chunks[id]

\* Once a pause has returned nothing is written until the next start, but for a frame
\* whose callback submits it after the flush.
PausedIsQuiet ==
    quiet =>
        /\ ~accepting
        /\ pending.there => pending.late
        /\ task.at # "none" => task.frame.late

CaptureIsSound == FramesKeepTheirTake /\ RecordsNameTheirFiles /\ PausedIsQuiet
=============================================================================
