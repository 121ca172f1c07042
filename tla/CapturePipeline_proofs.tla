------------------------- MODULE CapturePipeline_proofs -------------------------
(***************************************************************************)
(* Theorems about CapturePipeline, for any takes, any calls of apply that  *)
(* overlap, any number of chunks per frame, of sequences and of starts of  *)
(* the app.  Inv is the inductive invariant they follow from: while a call *)
(* shuts the gate and has flushed, no frame is left that its callback has  *)
(* not outlived, and a frame in process has written its first chunks.      *)
(***************************************************************************)
EXTENDS CapturePipeline, TLAPS

Parameters ==
    /\ MaxSequence \in Nat /\ MaxRuns \in Nat \ {0}
    /\ Len(Kinds) \in Nat \ {0}
    /\ \A i, j \in 1 .. Len(Kinds) : Kinds[i] = Kinds[j] => i = j

-----------------------------------------------------------------------------
(* The inductive invariant *)

StartCall == [at : {"closed", "flushing", "flushed", "renamed"}, start : {TRUE}, take : Takes,
              alone : BOOLEAN]
PauseCall == [at : {"closed", "flushing", "flushed"}, start : {FALSE}, alone : BOOLEAN]
Call == StartCall \union PauseCall \union {Returned}
Taken == [at : {"taken"}, frame : Frame]
Writing == [at : {"writing"}, frame : Frame, take : Takes, next : 1 .. Last]

\* A call awaits the end of the drain only while it is flushing.
WorkerInv ==
    /\ handlers \in [Handlers -> Call]
    /\ task \in Taken \union Writing \union {NoTask}
    /\ task.at # "none" => running
    /\ \A h \in waiters : handlers[h].at = "flushing"

\* Every frame on its way was outrun by a flush.
Outrunning(frame) == frame.there => frame.late
Clear ==
    /\ Outrunning(callback) /\ Outrunning(pending)
    /\ task.at # "none" => task.frame.late

\* A call that keeps the gate shut until it returns: a start in its take's turn, a pause
\* that no start accompanies.
Shuts(h) == InProgress(h) /\ IF handlers[h].start THEN ~overlapped ELSE handlers[h].alone
OnlyStart(h) == \A g \in Handlers : Starts(g) => g = h

GateInv ==
    /\ \A h \in Handlers : Shuts(h) =>
          ~accepting /\ OnlyStart(h) /\ (handlers[h].at \in {"flushed", "renamed"} => Clear)
    /\ quiet => ~accepting /\ Clear /\ \A h \in Handlers : ~Starts(h)

\* While starts take turns, a frame that no flush outran is of the controller's take, and
\* the pipeline changes its take only when there is no such frame.
Renamed(h) == handlers[h].at = "renamed"
Current(frame) == frame.there /\ ~frame.late => frame.take = take

TakeInv ==
    ~overlapped =>
        /\ \A h \in Handlers : Renamed(h) => pipelineTake = handlers[h].take
        /\ (\A h \in Handlers : ~Renamed(h)) => pipelineTake = take
        /\ Current(callback) /\ Current(pending)
        /\ task.at = "taken" => Current(task.frame)
        /\ task.at = "writing" => task.take = task.frame.take \/ task.frame.late

\* A frame in process has written its chunks up to the next.
FirstChunks ==
    \A i \in 1 .. task.next - 1 :
        LET id == <<task.frame.sequence, Kinds[i]>>
        IN  id \in DOMAIN chunks /\ chunks[id] = Chunk
WriteInv == RecordsNameTheirFiles /\ (task.at = "writing" => FirstChunks)

Inv == TypeOK /\ WorkerInv /\ GateInv /\ TakeInv /\ FramesKeepTheirTake /\ WriteInv

-----------------------------------------------------------------------------
(* The calls of apply *)

\* A call goes on to another await: nothing else about it changes.
LEMMA CallGoesOn ==
  ASSUME NEW c \in Call, c.at # "returned", NEW p \in {"flushing", "flushed"}
  PROVE  LET d == [c EXCEPT !.at = p]
         IN  /\ d \in Call /\ d.at = p /\ d.start = c.start /\ d.alone = c.alone
             /\ c.start => d.take = c.take
<1>1. CASE c \in StartCall
  BY <1>1 DEF Call, StartCall
<1>2. CASE c \in PauseCall
  BY <1>2 DEF Call, PauseCall
<1> QED BY <1>1, <1>2 DEF Call, Returned

\* What a call has, by where it is.
LEMMA CallFields ==
  ASSUME NEW c \in Call
  PROVE  /\ c.at = "returned" => c = Returned
         /\ c.at # "returned" => c.start \in BOOLEAN /\ c.alone \in BOOLEAN
         /\ c.at # "returned" /\ c.start => c \in StartCall /\ c.take \in Takes
         /\ c.at = "renamed" => c.start
<1>1. CASE c \in StartCall
  BY <1>1 DEF StartCall
<1>2. CASE c \in PauseCall
  BY <1>2 DEF PauseCall
<1>3. CASE c = Returned
  BY <1>3 DEF Returned
<1> QED BY <1>1, <1>2, <1>3 DEF Call

\* What a step of a call does to the calls.
LEMMA CallsMove ==
  ASSUME WorkerInv, NEW h \in Handlers
  PROVE  /\ \A t \in Takes : BeginStart(h, t) =>
               /\ handlers' \in [Handlers -> Call]
               /\ handlers'[h] = [at |-> "closed", start |-> TRUE, take |-> t, alone |-> TRUE]
               /\ \A g \in Handlers \ {h} :
                     /\ handlers'[g].at = handlers[g].at
                     /\ handlers'[g].start = handlers[g].start
                     /\ handlers[g].start => handlers'[g].take = handlers[g].take
                     /\ InProgress(g) => ~handlers'[g].alone
         /\ BeginPause(h) =>
               /\ handlers' \in [Handlers -> Call]
               /\ handlers'[h].at = "closed" /\ ~handlers'[h].start
               /\ handlers'[h].alone => \A g \in Handlers : ~Starts(g)
         /\ SetIdentity(h) =>
               /\ handlers' \in [Handlers -> Call]
               /\ handlers'[h].at = "renamed" /\ handlers'[h].start = handlers[h].start
               /\ handlers'[h].take = handlers[h].take /\ handlers[h].take \in Takes
         /\ Flush(h) =>
               /\ handlers' \in [Handlers -> Call]
               /\ handlers'[h].at \in {"flushed", "flushing"}
               /\ handlers'[h].start = handlers[h].start
               /\ handlers'[h].alone = handlers[h].alone
               /\ handlers[h].start => handlers'[h].take = handlers[h].take
<1>0. handlers \in [Handlers -> Call]
  BY DEF WorkerInv
<1>1. ASSUME NEW t \in Takes, BeginStart(h, t)
      PROVE  /\ handlers' \in [Handlers -> Call]
             /\ handlers'[h] = [at |-> "closed", start |-> TRUE, take |-> t, alone |-> TRUE]
             /\ \A g \in Handlers \ {h} :
                   /\ handlers'[g].at = handlers[g].at
                   /\ handlers'[g].start = handlers[g].start
                   /\ handlers[g].start => handlers'[g].take = handlers[g].take
                   /\ InProgress(g) => ~handlers'[g].alone
  <2> DEFINE new == [at |-> "closed", start |-> TRUE, take |-> t, alone |-> TRUE]
  <2>1. new \in Call
    BY DEF Call, StartCall
  <2>2. \A c \in Call : c.at # "returned" =>
            LET d == [c EXCEPT !.alone = FALSE]
            IN  /\ d \in Call /\ ~d.alone /\ d.at = c.at /\ d.start = c.start
                /\ c.start => d.take = c.take
    <3>1. \A c \in StartCall :
            LET d == [c EXCEPT !.alone = FALSE]
            IN  /\ d \in StartCall /\ ~d.alone /\ d.at = c.at /\ d.start = c.start
                /\ c.start => d.take = c.take
      BY DEF StartCall
    <3>2. \A c \in PauseCall :
            LET d == [c EXCEPT !.alone = FALSE]
            IN  /\ d \in PauseCall /\ ~d.alone /\ d.at = c.at /\ d.start = c.start
                /\ c.start => d.take = c.take
      BY DEF PauseCall
    <3> QED BY <3>1, <3>2 DEF Call, Returned
  <2>3. handlers' = [g \in Handlers |->
                      IF g = h THEN new
                      ELSE IF InProgress(g) THEN [handlers[g] EXCEPT !.alone = FALSE]
                      ELSE handlers[g]]
    BY <1>1 DEF BeginStart
  <2> HIDE DEF new
  <2>4. \A g \in Handlers : handlers'[g] \in Call
    BY <1>0, <2>1, <2>2, <2>3 DEF InProgress
  <2>5. \A g \in Handlers \ {h} :
                   /\ handlers'[g].at = handlers[g].at
                   /\ handlers'[g].start = handlers[g].start
                   /\ handlers[g].start => handlers'[g].take = handlers[g].take
                   /\ InProgress(g) => ~handlers'[g].alone
    BY <1>0, <2>2, <2>3 DEF InProgress
  <2> QED BY <2>3, <2>4, <2>5 DEF new
<1>2. ASSUME BeginPause(h)
      PROVE  /\ handlers' \in [Handlers -> Call]
             /\ handlers'[h].at = "closed" /\ ~handlers'[h].start
             /\ handlers'[h].alone => \A g \in Handlers : ~Starts(g)
  <2> DEFINE new == [at |-> "closed", start |-> FALSE, alone |-> \A g \in Handlers : ~Starts(g)]
  <2>1. new \in Call
    BY DEF Call, PauseCall
  <2>2. handlers' = [handlers EXCEPT ![h] = new]
    BY <1>2 DEF BeginPause
  <2>3. new.at = "closed" /\ ~new.start /\ (new.alone => \A g \in Handlers : ~Starts(g))
    OBVIOUS
  <2> HIDE DEF new
  <2> QED BY <1>0, <2>1, <2>2, <2>3
<1>3. ASSUME SetIdentity(h)
      PROVE  /\ handlers' \in [Handlers -> Call]
             /\ handlers'[h].at = "renamed" /\ handlers'[h].start = handlers[h].start
             /\ handlers'[h].take = handlers[h].take /\ handlers[h].take \in Takes
  <2>0. \A c \in Call : c.at = "flushed" /\ c.start => c \in StartCall
    <3>1. \A c \in PauseCall : ~c.start
      BY DEF PauseCall
    <3> QED BY <3>1 DEF Call, Returned
  <2>1. handlers[h] \in StartCall
    BY <1>0, <1>3, <2>0 DEF SetIdentity
  <2>2. /\ [handlers[h] EXCEPT !.at = "renamed"] \in StartCall
        /\ [handlers[h] EXCEPT !.at = "renamed"].start = handlers[h].start
        /\ [handlers[h] EXCEPT !.at = "renamed"].take = handlers[h].take
        /\ [handlers[h] EXCEPT !.at = "renamed"].at = "renamed"
        /\ handlers[h].take \in Takes
    BY <2>1 DEF StartCall
  <2>3. handlers' = [handlers EXCEPT ![h] = [handlers[h] EXCEPT !.at = "renamed"]]
    BY <1>3 DEF SetIdentity
  <2> QED BY <1>0, <2>2, <2>3 DEF Call
<1>4. ASSUME Flush(h)
      PROVE  /\ handlers' \in [Handlers -> Call]
             /\ handlers'[h].at \in {"flushed", "flushing"}
             /\ handlers'[h].start = handlers[h].start
             /\ handlers'[h].alone = handlers[h].alone
             /\ handlers[h].start => handlers'[h].take = handlers[h].take
  <2>1. PICK p \in {"flushing", "flushed"} :
           handlers' = [handlers EXCEPT ![h] = [handlers[h] EXCEPT !.at = p]]
    BY <1>4 DEF Flush
  <2>2. handlers[h] \in Call /\ handlers[h].at # "returned"
    BY <1>0, <1>4 DEF Flush
  <2> QED BY <1>0, <2>1, <2>2, CallGoesOn
<1> QED BY <1>1, <1>2, <1>3, <1>4

\* What the end of a drain does to the calls that wait for it.
LEMMA DrainMoves ==
  ASSUME TypeOK, WorkerInv, DrainEnds
  PROVE  /\ handlers' \in [Handlers -> Call]
         /\ \A h \in Handlers :
               /\ handlers'[h].at = IF h \in waiters THEN "flushed" ELSE handlers[h].at
               /\ handlers'[h].start = handlers[h].start
               /\ handlers'[h].alone = handlers[h].alone
               /\ handlers[h].start => handlers'[h].take = handlers[h].take
<1>1. /\ handlers \in [Handlers -> Call]
      /\ \A h \in waiters : handlers[h].at = "flushing"
  BY DEF WorkerInv
<1>2. handlers' = [h \in Handlers |-> IF h \in waiters THEN [handlers[h] EXCEPT !.at = "flushed"]
                                      ELSE handlers[h]]
  BY DEF DrainEnds
<1>3. ASSUME NEW h \in Handlers
      PROVE  /\ handlers'[h] \in Call
             /\ handlers'[h].at = IF h \in waiters THEN "flushed" ELSE handlers[h].at
             /\ handlers'[h].start = handlers[h].start
             /\ handlers'[h].alone = handlers[h].alone
             /\ handlers[h].start => handlers'[h].take = handlers[h].take
  <2>1. CASE h \in waiters
    <3>1. handlers[h] \in Call /\ handlers[h].at # "returned"
      BY <1>1, <2>1
    <3>2. handlers'[h] = [handlers[h] EXCEPT !.at = "flushed"]
      BY <1>2, <2>1
    <3> QED BY <2>1, <3>1, <3>2, CallGoesOn, ZenonT(60)
  <2>2. CASE h \notin waiters
    BY <1>1, <1>2, <2>2
  <2> QED BY <2>1, <2>2
<1> QED BY <1>2, <1>3

-----------------------------------------------------------------------------
(* Frames, tasks and calls keep their types *)

LEMMA OutrunFrame ==
  ASSUME NEW frame \in Frame \union {NoFrame}
  PROVE  /\ Outrun(frame) \in Frame \union {NoFrame}
         /\ Outrun(frame).there = frame.there
         /\ Outrunning(Outrun(frame))
         /\ frame.there => Outrun(frame).take = frame.take
         /\ ~frame.there => Outrun(frame) = frame
<1>1. CASE frame \in Frame
  BY <1>1 DEF Frame, Outrun, Outrunning
<1>2. CASE frame = NoFrame
  BY <1>2 DEF NoFrame, Outrun, Outrunning
<1> QED BY <1>1, <1>2

\* A task in hand: where it is and what it holds.
LEMMA TaskFields ==
  ASSUME WorkerInv
  PROVE  /\ task.at \in {"none", "taken", "writing"}
         /\ task.at = "none" => task = NoTask
         /\ task.at = "taken" => task \in Taken
         /\ task.at = "writing" => task \in Writing
         /\ task.at # "none" => task.frame \in Frame
         /\ task.at = "writing" => task.take \in Takes /\ task.next \in 1 .. Last
BY DEF WorkerInv, Taken, Writing, NoTask

LEMMA TypeInit == ASSUME Parameters, Init PROVE TypeOK /\ WorkerInv
<1>1. WorkerInv
  BY DEF Init, WorkerInv, NoTask, Call
<1>2. DOMAIN chunks = {}
  BY DEF Init
<1>3. nextSequence \in 0 .. MaxSequence /\ run \in 1 .. MaxRuns
  BY DEF Init, Parameters
<1> QED BY <1>1, <1>2, <1>3 DEF Init, TypeOK, NoTask

\* Each frame's next chunk.
LEMMA WriteTypes ==
  ASSUME Parameters, TypeOK, WorkerInv, WriteChunk
  PROVE  /\ chunks' = [id \in DOMAIN chunks \union {ChunkId} |->
                          IF id \in DOMAIN chunks THEN chunks[id] ELSE Chunk]
         /\ ChunkId \in (0 .. MaxSequence - 1) \X {Kinds[i] : i \in 1 .. Last}
         /\ ChunkId \notin DOMAIN chunks
         /\ Chunk.frame = task.frame /\ Chunk.take = task.take
         /\ task \in Writing
         /\ \/ task.next = Last /\ task' = NoTask
            \/ task.next # Last /\ task' = [task EXCEPT !.next = task.next + 1] /\ task' \in Writing
<1>1. task \in Writing
  BY TaskFields DEF WriteChunk
<1>2. task.frame.sequence \in 0 .. MaxSequence - 1 /\ task.next \in 1 .. Last
  BY <1>1 DEF Writing, Frame
<1>3. ASSUME task.next # Last PROVE [task EXCEPT !.next = task.next + 1] \in Writing
  <2>1. task.next + 1 \in 1 .. Last
    BY <1>2, <1>3 DEF Parameters, Last
  <2> QED BY <1>1, <2>1 DEF Writing
<1>4. ChunkId \in (0 .. MaxSequence - 1) \X {Kinds[i] : i \in 1 .. Last}
  BY <1>2 DEF ChunkId
<1> QED BY <1>1, <1>3, <1>4 DEF WriteChunk, IdIsFree, Chunk

LEMMA TypeStep == ASSUME Parameters, TypeOK, WorkerInv, [Next]_vars PROVE TypeOK' /\ WorkerInv'
<1>0. /\ callback \in Frame \union {NoFrame} /\ pending \in Frame \union {NoFrame}
      /\ handlers \in [Handlers -> Call] /\ waiters \subseteq Handlers
      /\ \A h \in waiters : handlers[h].at = "flushing"
  BY DEF TypeOK, WorkerInv
<1>1. CASE NumberFrame
  <2>1. nextSequence < MaxSequence =>
           [there |-> TRUE, sequence |-> nextSequence, run |-> run, take |-> take, late |-> FALSE]
              \in Frame
    BY DEF Parameters, TypeOK, Frame
  <2>2. nextSequence' \in 0 .. MaxSequence
    <3>1. \/ nextSequence < MaxSequence /\ nextSequence' = nextSequence + 1
          \/ nextSequence' = nextSequence
      BY <1>1 DEF NumberFrame
    <3> QED BY <3>1 DEF TypeOK, Parameters
  <2>5. callback' \in Frame \union {NoFrame} /\ accepting' \in BOOLEAN
    <3>1. CASE nextSequence < MaxSequence
      BY <1>0, <1>1, <2>1, <3>1 DEF NumberFrame, TypeOK
    <3>2. CASE ~(nextSequence < MaxSequence)
      BY <1>0, <1>1, <3>2 DEF NumberFrame, TypeOK
    <3> QED BY <3>1, <3>2
  <2>3. UNCHANGED <<take, pipelineTake, pending, running, waiters, task, handlers, chunks, run,
                    overlapped, quiet>>
    BY <1>1 DEF NumberFrame, workerVars
  <2>4. WorkerInv'
    BY <2>3 DEF WorkerInv
  <2> QED BY <2>2, <2>3, <2>4, <2>5 DEF TypeOK
<1>2. CASE SubmitFrame
  BY <1>2 DEF SubmitFrame, TypeOK, WorkerInv
<1>3. CASE Interrupted
  BY <1>3 DEF Interrupted, TypeOK, WorkerInv, workerVars
<1>4. CASE TakeFrame
  <2>1. pending \in Frame
    BY <1>0, <1>4 DEF TakeFrame, NoFrame
  <2>2. [at |-> "taken", frame |-> pending] \in Taken
    BY <2>1 DEF Taken
  <2>3. task'.at # "none" => task'.frame \in Frame
    BY <1>4, <2>1 DEF TakeFrame
  <2> QED BY <1>4, <2>2, <2>3 DEF TakeFrame, TypeOK, WorkerInv
<1>5. CASE DrainEnds
  <2>1. WorkerInv'
    BY <1>5, DrainMoves DEF DrainEnds, WorkerInv
  <2>2. callback' \in Frame \union {NoFrame}
    BY <1>0, <1>5, OutrunFrame DEF DrainEnds
  <2>3. TypeOK'
    BY <1>5, <2>2 DEF DrainEnds, TypeOK
  <2> QED BY <2>1, <2>3
<1>6. CASE BeginCapture
  <2>1. task.frame \in Frame /\ pipelineTake \in Takes /\ 1 \in 1 .. Last
    BY <1>6, TaskFields DEF BeginCapture, TypeOK, Parameters, Last
  <2>2. task' \in Writing /\ task'.frame \in Frame
    BY <1>6, <2>1 DEF BeginCapture, Writing
  <2> QED BY <1>6, <2>2 DEF BeginCapture, TypeOK, WorkerInv
<1>7. CASE FrameFails
  BY <1>7 DEF FrameFails, TypeOK, WorkerInv, NoTask
<1>8. CASE WriteChunk
  <2>1. task.frame \in Frame /\ task.take \in Takes
    BY <1>8, WriteTypes DEF Writing
  <2>2. /\ DOMAIN chunks' \subseteq (0 .. MaxSequence - 1) \X {Kinds[i] : i \in 1 .. Last}
        /\ \A id \in DOMAIN chunks' : chunks'[id].frame \in Frame /\ chunks'[id].take \in Takes
    BY <1>8, <2>1, WriteTypes DEF TypeOK
  <2>3. task' \in Writing \union {NoTask} /\ (task'.at # "none" => task'.frame \in Frame)
    BY <1>8, WriteTypes DEF NoTask, Writing
  <2>4. UNCHANGED <<accepting, take, pipelineTake, nextSequence, callback, pending, running,
                    waiters, handlers, run, overlapped, quiet>> /\ task.at = "writing"
    BY <1>8 DEF WriteChunk
  <2>5. TypeOK'
    BY <2>2, <2>3, <2>4 DEF TypeOK
  <2> QED BY <2>3, <2>4, <2>5 DEF WorkerInv
<1>9. ASSUME NEW h \in Handlers
      PROVE  /\ \A t \in Takes : BeginStart(h, t) => TypeOK' /\ WorkerInv'
             /\ BeginPause(h) \/ Flush(h) \/ SetIdentity(h) \/ StartReturns(h) \/ PauseReturns(h)
                   => TypeOK' /\ WorkerInv'
  <2>1. ASSUME NEW t \in Takes, BeginStart(h, t) PROVE TypeOK' /\ WorkerInv'
    <3>2. \A g \in waiters : g \in Handlers \ {h}
      BY <1>0, <2>1 DEF BeginStart, InProgress
    <3>3. /\ handlers' \in [Handlers -> Call]
          /\ \A g \in Handlers \ {h} : handlers'[g].at = handlers[g].at
      BY <2>1, CallsMove
    <3>4. \A g \in waiters : handlers'[g].at = "flushing"
      BY <1>0, <3>2, <3>3
    <3>1. WorkerInv'
      BY <2>1, <3>3, <3>4 DEF BeginStart, WorkerInv, workerVars
    <3> QED BY <2>1, <3>1 DEF BeginStart, TypeOK, workerVars
  <2>2. CASE BeginPause(h)
    <3>1. WorkerInv'
      BY <2>2, CallsMove, <1>0 DEF BeginPause, WorkerInv, workerVars, InProgress
    <3> QED BY <2>2, <3>1 DEF BeginPause, TypeOK, workerVars
  <2>3. CASE Flush(h)
    <3>0. handlers' \in [Handlers -> Call]
      BY <2>3, CallsMove
    <3>3. \A g \in waiters' : handlers'[g].at = "flushing"
      <4>1. CASE WorkerIsIdle
        <5>1. handlers[h].at = "closed"
          BY <2>3 DEF Flush
        <5>2. /\ handlers' = [handlers EXCEPT ![h] = [handlers[h] EXCEPT !.at = "flushed"]]
              /\ waiters' = waiters
          BY <2>3, <4>1 DEF Flush
        <5> QED BY <1>0, <5>1, <5>2
      <4>2. CASE ~WorkerIsIdle
        <5>1. /\ handlers' = [handlers EXCEPT ![h] = [handlers[h] EXCEPT !.at = "flushing"]]
              /\ waiters' = waiters \union {h}
          BY <2>3, <4>2 DEF Flush
        <5>2. handlers'[h].at = "flushing" /\ \A g \in Handlers \ {h} : handlers'[g] = handlers[g]
          BY <1>0, <5>1, <2>3, CallsMove DEF Flush
        <5> QED BY <1>0, <5>1, <5>2
      <4> QED BY <4>1, <4>2
    <3>1. WorkerInv'
      BY <2>3, <3>0, <3>3 DEF Flush, WorkerInv
    <3>2. TypeOK'
      BY <1>0, <2>3, OutrunFrame DEF Flush, TypeOK
    <3> QED BY <3>1, <3>2
  <2>4. CASE SetIdentity(h)
    <3>1. WorkerInv'
      BY <2>4, CallsMove, <1>0 DEF SetIdentity, WorkerInv, workerVars
    <3> QED BY <2>4, <3>1, CallsMove, ZenonT(60) DEF SetIdentity, TypeOK, workerVars
  <2>5. CASE StartReturns(h)
    <3>1. handlers[h].take \in Takes
      BY <1>0, <2>5, CallFields DEF StartReturns
    <3>2. WorkerInv'
      BY <2>5 DEF StartReturns, WorkerInv, workerVars, Call
    <3> QED BY <2>5, <3>1, <3>2 DEF StartReturns, TypeOK, workerVars
  <2>6. CASE PauseReturns(h)
    <3>1. handlers[h].alone \in BOOLEAN
      BY <1>0, <2>6, CallFields DEF PauseReturns
    <3>2. WorkerInv'
      BY <2>6 DEF PauseReturns, WorkerInv, workerVars, Call
    <3> QED BY <2>6, <3>1, <3>2 DEF PauseReturns, TypeOK, workerVars
  <2> QED BY <2>1, <2>2, <2>3, <2>4, <2>5, <2>6
<1>10. CASE AppRestarts
  <2>1. WorkerInv'
    BY <1>10 DEF AppRestarts, WorkerInv, NoTask, Call
  <2>2. run' \in 1 .. MaxRuns /\ nextSequence' \in 0 .. MaxSequence
    BY <1>10 DEF AppRestarts, TypeOK, Parameters
  <2> QED BY <1>10, <2>1, <2>2 DEF AppRestarts, TypeOK, NoTask
<1>11. CASE UNCHANGED vars
  BY <1>11 DEF vars, workerVars, TypeOK, WorkerInv
<1> QED BY <1>1, <1>2, <1>3, <1>4, <1>5, <1>6, <1>7, <1>8, <1>9, <1>10, <1>11 DEF Next

-----------------------------------------------------------------------------
(* The gate *)

\* Where the calls and the history stay and the gate does not open, it is enough that no
\* frame gets in.
LEMMA GateStays ==
  ASSUME GateInv, UNCHANGED <<handlers, overlapped, quiet>>, accepting' => accepting,
         ~accepting /\ Clear => Clear'
  PROVE  GateInv'
BY DEF GateInv, Shuts, InProgress, OnlyStart, Starts

\* What a frame's steps do to the frames on their way.
LEMMA FramesMove ==
  ASSUME Parameters, TypeOK, WorkerInv,
         \/ NumberFrame \/ SubmitFrame \/ Interrupted \/ TakeFrame \/ BeginCapture
         \/ FrameFails \/ WriteChunk
  PROVE  /\ UNCHANGED <<take, pipelineTake, handlers, overlapped, quiet>>
         /\ accepting' => accepting
         /\ ~accepting /\ Clear => Clear'
<1>0. /\ callback \in Frame \union {NoFrame} /\ pending \in Frame \union {NoFrame}
      /\ NoTask.at = "none" /\ ~NoFrame.there
  BY DEF TypeOK, NoTask, NoFrame
<1>1. CASE NumberFrame
  BY <1>1 DEF NumberFrame, workerVars
<1>2. CASE SubmitFrame
  BY <1>0, <1>2 DEF SubmitFrame, Clear, Outrunning
<1>3. CASE Interrupted
  BY <1>3 DEF Interrupted, workerVars
<1>4. CASE TakeFrame
  BY <1>0, <1>4 DEF TakeFrame, Clear, Outrunning
<1>5. CASE BeginCapture
  BY <1>5 DEF BeginCapture, Clear, Outrunning
<1>6. CASE FrameFails
  BY <1>0, <1>6 DEF FrameFails, Clear, Outrunning
<1>7. CASE WriteChunk
  <2>1. task.at = "writing" /\ (task'.at # "none" => task'.frame = task.frame)
    BY <1>0, <1>7, WriteTypes DEF WriteChunk, Writing
  <2> QED BY <1>7, <2>1 DEF WriteChunk, Clear, Outrunning
<1> QED BY <1>1, <1>2, <1>3, <1>4, <1>5, <1>6, <1>7

\* A drain that ends leaves no frame but in the callback, and a flush that waited outruns it.
LEMMA DrainClears ==
  ASSUME TypeOK, WorkerInv, DrainEnds
  PROVE  /\ UNCHANGED <<accepting, take, pipelineTake, pending, task, overlapped, quiet>>
         /\ task.at = "none" /\ ~pending.there
         /\ waiters # {} \/ Clear => Clear'
<1>1. callback \in Frame \union {NoFrame}
  BY DEF TypeOK
<1>2. task' = task /\ pending' = pending /\ task.at = "none" /\ ~pending.there
  BY DEF DrainEnds
<1>3. callback' = callback \/ Outrunning(callback')
  BY <1>1, OutrunFrame DEF DrainEnds
<1>4. waiters # {} => Outrunning(callback')
  BY <1>1, OutrunFrame DEF DrainEnds
<1>5. waiters # {} \/ Clear => Clear'
  BY <1>2, <1>3, <1>4 DEF Clear, Outrunning
<1> QED BY <1>2, <1>5 DEF DrainEnds

\* A flush that returns at once leaves no frame that it has not outrun.
LEMMA FlushClears ==
  ASSUME TypeOK, WorkerInv, NEW h \in Handlers, Flush(h)
  PROVE  /\ UNCHANGED <<accepting, take, pipelineTake, pending, task, chunks, overlapped, quiet>>
         /\ handlers[h].at = "closed"
         /\ \A g \in Handlers \ {h} : handlers'[g] = handlers[g]
         /\ handlers'[h].at = "flushed" => Clear'
         /\ Clear => Clear'
<1>0. callback \in Frame \union {NoFrame} /\ handlers \in [Handlers -> Call]
  BY DEF TypeOK, WorkerInv
<1>1. CASE WorkerIsIdle
  <2>1. callback' = Outrun(callback)
    BY <1>1 DEF Flush
  <2>2. Outrunning(callback')
    BY <1>0, <2>1, OutrunFrame
  <2>3. ~pending.there /\ task.at = "none" /\ pending' = pending /\ task' = task
    BY <1>1 DEF Flush, WorkerIsIdle, WorkerInv
  <2>4. Clear'
    BY <2>2, <2>3 DEF Clear, Outrunning
  <2> QED BY <1>0, <2>4 DEF Flush
<1>2. CASE ~WorkerIsIdle
  <2>1. handlers' = [handlers EXCEPT ![h] = [handlers[h] EXCEPT !.at = "flushing"]]
    BY <1>2 DEF Flush
  <2>2. handlers[h].at = "closed" /\ handlers[h] \in Call
    BY <1>0 DEF Flush
  <2>3. handlers'[h].at = "flushing"
    BY <1>0, <2>1, <2>2, CallGoesOn
  <2>4. UNCHANGED <<callback, pending, task>>
    BY <1>2 DEF Flush
  <2> QED BY <1>0, <2>1, <2>3, <2>4 DEF Flush, Clear, Outrunning
<1> QED BY <1>1, <1>2

LEMMA GateInit == ASSUME Init PROVE GateInv
BY DEF Init, GateInv, Shuts, Starts, InProgress, Clear, Outrunning, NoFrame, NoTask, Returned

LEMMA GateStep == ASSUME Parameters, TypeOK, WorkerInv, GateInv, [Next]_vars PROVE GateInv'
<1>0. handlers \in [Handlers -> Call]
  BY DEF WorkerInv
<1>1. CASE \/ NumberFrame \/ SubmitFrame \/ Interrupted \/ TakeFrame \/ BeginCapture
           \/ FrameFails \/ WriteChunk
  BY <1>1, FramesMove, GateStays
<1>2. CASE DrainEnds
  <2>1. /\ accepting' = accepting /\ overlapped' = overlapped /\ quiet' = quiet
        /\ waiters # {} \/ Clear => Clear'
    BY <1>2, DrainClears
  <2>2. \A g \in Handlers : /\ InProgress(g)' <=> InProgress(g)
                            /\ InProgress(g) => (Shuts(g)' <=> Shuts(g))
                            /\ Starts(g)' <=> Starts(g)
    <3>1. \A g \in Handlers : /\ handlers'[g].at = "returned" <=> handlers[g].at = "returned"
                              /\ handlers'[g].start = handlers[g].start
                              /\ handlers'[g].alone = handlers[g].alone
      BY <1>2, DrainMoves DEF WorkerInv
    <3> QED BY <2>1, <3>1 DEF InProgress, Shuts, Starts
  <2>3. \A g \in Handlers : handlers'[g].at \in {"flushed", "renamed"} =>
                                waiters # {} \/ handlers[g].at \in {"flushed", "renamed"}
    BY <1>2, DrainMoves
  <2> QED BY <2>1, <2>2, <2>3 DEF GateInv, OnlyStart, Shuts
<1>3. ASSUME NEW h \in Handlers
      PROVE  /\ \A t \in Takes : BeginStart(h, t) => GateInv'
             /\ BeginPause(h) \/ Flush(h) \/ SetIdentity(h) \/ StartReturns(h) \/ PauseReturns(h)
                   => GateInv'
  <2>1. ASSUME NEW t \in Takes, BeginStart(h, t) PROVE GateInv'
    <3>1. /\ ~accepting' /\ ~quiet'
          /\ overlapped' = (overlapped \/ \E g \in Handlers : Starts(g))
          /\ ~InProgress(h)
      BY <2>1 DEF BeginStart
    <3>2. /\ handlers'[h].at = "closed" /\ handlers'[h].start
          /\ \A g \in Handlers \ {h} :
                /\ handlers'[g].at = handlers[g].at
                /\ handlers'[g].start = handlers[g].start
                /\ InProgress(g) => ~handlers'[g].alone
      <4>1. handlers'[h] = [at |-> "closed", start |-> TRUE, take |-> t, alone |-> TRUE]
        BY <2>1, CallsMove
      <4>2. handlers'[h].at = "closed" /\ handlers'[h].start
        BY <4>1
      <4> QED BY <2>1, <4>2, CallsMove
    <3>3. \A g \in Handlers \ {h} : Shuts(g)' => handlers[g].start /\ Starts(g)
      BY <3>2 DEF Shuts, InProgress, Starts
    <3>4. \A g \in Handlers \ {h} : ~Shuts(g)'
      BY <3>1, <3>2, <3>3 DEF Shuts, InProgress
    <3>5. Shuts(h)' => OnlyStart(h)'
      BY <3>1, <3>2 DEF Shuts, OnlyStart, Starts, InProgress
    <3> QED BY <3>1, <3>2, <3>4, <3>5 DEF GateInv
  <2>2. CASE BeginPause(h)
    <3>1. /\ ~accepting' /\ quiet' = quiet /\ overlapped' = overlapped /\ ~InProgress(h)
          /\ UNCHANGED <<callback, pending, task>>
          /\ \A g \in Handlers \ {h} : handlers'[g] = handlers[g]
      BY <1>0, <2>2 DEF BeginPause, workerVars
    <3>2. /\ handlers'[h].at = "closed" /\ ~handlers'[h].start
          /\ handlers'[h].alone => \A g \in Handlers : ~Starts(g)
      BY <2>2, CallsMove
    <3>3. Clear => Clear'
      BY <3>1 DEF Clear, Outrunning
    <3>4. \A g \in Handlers : Starts(g)' => Starts(g)
      BY <3>1, <3>2 DEF Starts, InProgress
    <3>5. \A g \in Handlers \ {h} : Shuts(g)' => Shuts(g)
      BY <3>1 DEF Shuts, InProgress
    <3>6. Shuts(h)' => \A g \in Handlers : ~Starts(g)
      BY <3>2 DEF Shuts, InProgress
    <3> QED BY <3>1, <3>2, <3>3, <3>4, <3>5, <3>6 DEF GateInv, OnlyStart
  <2>3. CASE Flush(h)
    <3>1. /\ UNCHANGED <<accepting, overlapped, quiet>> /\ handlers[h].at = "closed"
          /\ \A g \in Handlers \ {h} : handlers'[g] = handlers[g]
          /\ handlers'[h].at = "flushed" => Clear'
          /\ Clear => Clear'
      BY <2>3, FlushClears
    <3>2. /\ handlers'[h].at \in {"flushed", "flushing"}
          /\ handlers'[h].start = handlers[h].start
          /\ handlers'[h].alone = handlers[h].alone
      BY <2>3, CallsMove
    <3>3. \A g \in Handlers : (Starts(g)' => Starts(g)) /\ (Shuts(g)' => Shuts(g))
      BY <3>1, <3>2 DEF Starts, Shuts, InProgress
    <3> QED BY <3>1, <3>2, <3>3 DEF GateInv, OnlyStart
  <2>4. CASE SetIdentity(h)
    <3>1. /\ UNCHANGED <<accepting, overlapped, quiet, callback, pending, task>>
          /\ handlers[h].at = "flushed" /\ handlers[h].start
          /\ \A g \in Handlers \ {h} : handlers'[g] = handlers[g]
      BY <1>0, <2>4 DEF SetIdentity, workerVars
    <3>2. handlers'[h].at = "renamed" /\ handlers'[h].start = handlers[h].start
      BY <2>4, CallsMove
    <3>3. \A g \in Handlers : (Starts(g)' => Starts(g)) /\ (Shuts(g)' => Shuts(g))
      BY <3>1, <3>2 DEF Starts, Shuts, InProgress
    <3>4. Clear => Clear'
      BY <3>1 DEF Clear, Outrunning
    <3> QED BY <3>1, <3>2, <3>3, <3>4 DEF GateInv, OnlyStart
  <2>5. CASE StartReturns(h)
    <3>1. /\ UNCHANGED <<overlapped, quiet, callback, pending, task>>
          /\ handlers[h].at = "renamed" /\ handlers'[h] = Returned
          /\ \A g \in Handlers \ {h} : handlers'[g] = handlers[g]
      BY <1>0, <2>5 DEF StartReturns, workerVars
    <3>2. Starts(h)
      BY <1>0, <3>1, CallFields DEF Starts, InProgress
    <3>3. ~quiet /\ \A g \in Handlers \ {h} : ~Shuts(g)
      BY <3>2 DEF GateInv, OnlyStart
    <3>4. \A g \in Handlers : ~Shuts(g)'
      BY <3>1, <3>3 DEF Shuts, InProgress, Returned
    <3> QED BY <3>1, <3>3, <3>4 DEF GateInv
  <2>6. CASE PauseReturns(h)
    <3>1. /\ UNCHANGED <<accepting, overlapped, callback, pending, task>>
          /\ quiet' = (quiet \/ handlers[h].alone)
          /\ handlers[h].at = "flushed" /\ ~handlers[h].start /\ handlers'[h] = Returned
          /\ \A g \in Handlers \ {h} : handlers'[g] = handlers[g]
      BY <1>0, <2>6 DEF PauseReturns, workerVars
    <3>2. handlers[h].alone => Shuts(h)
      BY <3>1 DEF Shuts, InProgress
    <3>3. Clear => Clear'
      BY <3>1 DEF Clear, Outrunning
    <3>4. \A g \in Handlers : (Starts(g)' => Starts(g)) /\ (Shuts(g)' => Shuts(g))
      BY <3>1 DEF Starts, Shuts, InProgress, Returned
    <3>5. handlers[h].alone => ~accepting /\ Clear /\ \A g \in Handlers : ~Starts(g)
      BY <3>1, <3>2 DEF GateInv, OnlyStart, Starts
    <3>6. handlers'[h].at = "returned"
      BY <3>1 DEF Returned
    <3>7. quiet' => ~accepting' /\ Clear' /\ \A g \in Handlers : ~Starts(g)'
      BY <3>1, <3>3, <3>4, <3>5 DEF GateInv
    <3>8. \A g \in Handlers : Shuts(g)' => 
            ~accepting' /\ OnlyStart(g)' /\ (handlers'[g].at \in {"flushed", "renamed"} => Clear')
      BY <3>1, <3>3, <3>4, <3>6 DEF GateInv, OnlyStart
    <3> QED BY <3>7, <3>8 DEF GateInv
  <2> QED BY <2>1, <2>2, <2>3, <2>4, <2>5, <2>6
<1>4. CASE AppRestarts
  BY <1>4 DEF AppRestarts, GateInv, Shuts, Starts, InProgress, Clear, Outrunning, NoFrame, NoTask,
              Returned
<1>5. CASE UNCHANGED vars
  BY <1>5, GateStays DEF vars, workerVars, Clear, Outrunning
<1> QED BY <1>1, <1>2, <1>3, <1>4, <1>5 DEF Next

-----------------------------------------------------------------------------
(* Chunks are recorded under the take of their frame *)

\* What TakeInv says of the calls and of the frames.
TakesAgree ==
    /\ \A h \in Handlers : Renamed(h) => pipelineTake = handlers[h].take
    /\ (\A h \in Handlers : ~Renamed(h)) => pipelineTake = take
FramesCurrent ==
    /\ Current(callback) /\ Current(pending)
    /\ task.at = "taken" => Current(task.frame)
    /\ task.at = "writing" => task.take = task.frame.take \/ task.frame.late

\* A renamed call is the only start, and has flushed.
LEMMA RenamedIsClear ==
  ASSUME WorkerInv, GateInv, ~overlapped, NEW h \in Handlers, Renamed(h)
  PROVE  Shuts(h) /\ Starts(h) /\ ~accepting /\ Clear /\ OnlyStart(h)
<1>1. handlers[h] \in Call /\ handlers[h].at = "renamed"
  BY DEF WorkerInv, Renamed
<1>2. Starts(h) /\ Shuts(h)
  BY <1>1, CallFields DEF Starts, InProgress, Shuts
<1> QED BY <1>1, <1>2 DEF GateInv

LEMMA TakeInit == ASSUME Init PROVE TakeInv
BY DEF Init, TakeInv, Renamed, Current, NoFrame, NoTask, Returned

LEMMA FramesCurrentStep ==
  ASSUME Parameters, TypeOK, WorkerInv, GateInv, ~overlapped, TakesAgree, FramesCurrent,
         \/ NumberFrame \/ SubmitFrame \/ Interrupted \/ TakeFrame \/ BeginCapture
         \/ FrameFails \/ WriteChunk
  PROVE  FramesCurrent'
<1>0. /\ callback \in Frame \union {NoFrame} /\ pending \in Frame \union {NoFrame}
      /\ NoTask.at = "none" /\ ~NoFrame.there
  BY DEF TypeOK, NoTask, NoFrame
<1>1. CASE NumberFrame
  <2>1. callback' = callback \/ (callback'.take = take)
    <3>1. CASE nextSequence < MaxSequence
      BY <1>1, <3>1 DEF NumberFrame
    <3>2. CASE ~(nextSequence < MaxSequence)
      BY <1>1, <3>2 DEF NumberFrame
    <3> QED BY <3>1, <3>2
  <2>2. UNCHANGED <<take, pending, task>>
    BY <1>1 DEF NumberFrame, workerVars
  <2> QED BY <2>1, <2>2 DEF FramesCurrent, Current
<1>2. CASE SubmitFrame
  BY <1>0, <1>2 DEF SubmitFrame, FramesCurrent, Current
<1>3. CASE Interrupted
  BY <1>3 DEF Interrupted, FramesCurrent, Current, workerVars
<1>4. CASE TakeFrame
  BY <1>0, <1>4 DEF TakeFrame, FramesCurrent, Current
<1>5. CASE BeginCapture
  <2>1. task.at = "taken" /\ task.frame.there
    BY <1>5, TaskFields DEF BeginCapture, Frame
  <2>2. pipelineTake = task.frame.take \/ task.frame.late
    <3>1. CASE \E h \in Handlers : Renamed(h)
      BY <2>1, <3>1, RenamedIsClear DEF Clear
    <3>2. CASE \A h \in Handlers : ~Renamed(h)
      BY <2>1, <3>2 DEF TakesAgree, FramesCurrent, Current
    <3> QED BY <3>1, <3>2
  <2> QED BY <1>5, <2>2 DEF BeginCapture, FramesCurrent, Current
<1>6. CASE FrameFails
  BY <1>0, <1>6 DEF FrameFails, FramesCurrent, Current
<1>7. CASE WriteChunk
  <2>1. \/ task' = NoTask
        \/ task'.at = "writing" /\ task'.frame = task.frame /\ task'.take = task.take
    BY <1>7, WriteTypes DEF Writing
  <2>2. task.at = "writing" /\ UNCHANGED <<callback, pending, take>>
    BY <1>7 DEF WriteChunk
  <2> QED BY <1>0, <2>1, <2>2 DEF FramesCurrent, Current
<1> QED BY <1>1, <1>2, <1>3, <1>4, <1>5, <1>6, <1>7

LEMMA TakeStep ==
  ASSUME Parameters, TypeOK, WorkerInv, GateInv, TakeInv, [Next]_vars
  PROVE  TakeInv'
<1> SUFFICES ASSUME ~overlapped' PROVE TakesAgree' /\ FramesCurrent'
  BY DEF TakeInv, TakesAgree, FramesCurrent
<1>0. handlers \in [Handlers -> Call] /\ callback \in Frame \union {NoFrame}
  BY DEF WorkerInv, TypeOK
<1>1. ~overlapped \/ AppRestarts
  BY DEF Next, vars, NumberFrame, SubmitFrame, Interrupted, TakeFrame, DrainEnds, BeginCapture,
         FrameFails, WriteChunk, BeginStart, BeginPause, Flush, SetIdentity, StartReturns,
         PauseReturns
<1>2. ~overlapped => TakesAgree /\ FramesCurrent
  BY DEF TakeInv, TakesAgree, FramesCurrent
<1>3. CASE \/ NumberFrame \/ SubmitFrame \/ Interrupted \/ TakeFrame \/ BeginCapture
           \/ FrameFails \/ WriteChunk
  <2>1. UNCHANGED <<take, pipelineTake, handlers, overlapped>>
    BY <1>3, FramesMove
  <2> QED BY <1>2, <1>3, <2>1, FramesCurrentStep DEF TakesAgree, Renamed
<1>4. CASE DrainEnds
  <2>1. ~overlapped /\ TakesAgree /\ FramesCurrent
    BY <1>2, <1>4 DEF DrainEnds
  <2>2. \A h \in Handlers : (Renamed(h)' <=> Renamed(h))
                            /\ (Renamed(h) => handlers'[h].take = handlers[h].take)
    <3>1. \A h \in Handlers : Renamed(h) => handlers[h].start
      BY <1>0, CallFields DEF Renamed
    <3> QED BY <1>4, <3>1, DrainMoves DEF Renamed, WorkerInv
  <2>3. UNCHANGED <<take, pipelineTake, pending, task>>
    BY <1>4, DrainClears
  <2>4. callback' = callback \/ Outrunning(callback')
    BY <1>0, <1>4, OutrunFrame DEF DrainEnds
  <2> QED BY <2>1, <2>2, <2>3, <2>4 DEF TakesAgree, FramesCurrent, Current, Outrunning
<1>5. ASSUME NEW h \in Handlers, NEW t \in Takes, BeginStart(h, t)
      PROVE  TakesAgree' /\ FramesCurrent'
  <2>1. /\ ~overlapped /\ UNCHANGED <<take, pipelineTake, callback, pending, task>>
        /\ handlers[h].at = "returned"
    BY <1>5 DEF BeginStart, workerVars, InProgress
  <2>2. handlers'[h].at = "closed"
    <3>1. handlers'[h] = [at |-> "closed", start |-> TRUE, take |-> t, alone |-> TRUE]
      BY <1>5, CallsMove
    <3> QED BY <3>1
  <2>3. \A g \in Handlers \ {h} : handlers'[g].at = handlers[g].at
                                  /\ (handlers[g].start => handlers'[g].take = handlers[g].take)
    BY <1>5, CallsMove
  <2>4. \A g \in Handlers : Renamed(g) => handlers[g].start
    BY <1>0, CallFields DEF Renamed
  <2> QED BY <1>2, <2>1, <2>2, <2>3, <2>4 DEF TakesAgree, FramesCurrent, Current, Renamed
<1>6. ASSUME NEW h \in Handlers, BeginPause(h) \/ PauseReturns(h) \/ Flush(h)
      PROVE  TakesAgree' /\ FramesCurrent'
  <2>1. /\ ~overlapped /\ UNCHANGED <<take, pipelineTake, pending, task>>
        /\ callback' = callback \/ Outrunning(callback')
    BY <1>0, <1>6, OutrunFrame DEF BeginPause, PauseReturns, Flush, workerVars
  <2>2. \A g \in Handlers \ {h} : handlers'[g] = handlers[g]
    BY <1>0, <1>6, FlushClears DEF BeginPause, PauseReturns
  <2>3. handlers[h].at # "renamed"
    BY <1>6 DEF BeginPause, PauseReturns, Flush, InProgress
  <2>4. handlers'[h].at # "renamed"
    <3>1. CASE BeginPause(h) \/ Flush(h)
      BY <3>1, CallsMove
    <3>2. CASE PauseReturns(h)
      BY <1>0, <3>2 DEF PauseReturns, Returned
    <3> QED BY <1>6, <3>1, <3>2
  <2> QED BY <1>2, <2>1, <2>2, <2>3, <2>4
          DEF TakesAgree, FramesCurrent, Current, Renamed, Outrunning
<1>7. ASSUME NEW h \in Handlers, SetIdentity(h) PROVE TakesAgree' /\ FramesCurrent'
  <2>1. /\ ~overlapped /\ UNCHANGED <<take, callback, pending, task>>
        /\ handlers[h].at = "flushed" /\ handlers[h].start
        /\ pipelineTake' = handlers[h].take
        /\ \A g \in Handlers \ {h} : handlers'[g] = handlers[g]
    BY <1>0, <1>7 DEF SetIdentity, workerVars
  <2>2. handlers'[h].at = "renamed" /\ handlers'[h].take = handlers[h].take
    BY <1>7, CallsMove
  <2>3. Starts(h)
    BY <2>1 DEF Starts, InProgress
  <2>4. \A g \in Handlers : ~Renamed(g)
    BY <2>1, <2>3, RenamedIsClear DEF OnlyStart, Renamed
  <2> QED BY <1>2, <2>1, <2>2, <2>4 DEF TakesAgree, FramesCurrent, Current, Renamed
<1>8. ASSUME NEW h \in Handlers, StartReturns(h) PROVE TakesAgree' /\ FramesCurrent'
  <2>1. /\ ~overlapped /\ UNCHANGED <<pipelineTake, callback, pending, task>>
        /\ Renamed(h) /\ take' = handlers[h].take /\ handlers'[h] = Returned
        /\ \A g \in Handlers \ {h} : handlers'[g] = handlers[g]
    BY <1>0, <1>8 DEF StartReturns, workerVars, Renamed
  <2>2. Clear /\ OnlyStart(h) /\ pipelineTake = handlers[h].take
    BY <1>2, <2>1, RenamedIsClear DEF TakesAgree
  <2>3. \A g \in Handlers : ~Renamed(g)'
    <3>1. \A g \in Handlers \ {h} : ~Renamed(g)
      BY <2>1, <2>2, RenamedIsClear DEF OnlyStart
    <3> QED BY <2>1, <3>1 DEF Renamed, Returned
  <2> QED BY <1>2, <2>1, <2>2, <2>3
          DEF TakesAgree, FramesCurrent, Current, Clear, Outrunning
<1>9. CASE AppRestarts
  BY <1>9 DEF AppRestarts, TakesAgree, FramesCurrent, Current, Renamed, NoFrame, NoTask, Returned
<1>10. CASE UNCHANGED vars
  BY <1>2, <1>10 DEF vars, workerVars, TakesAgree, FramesCurrent, Current, Renamed
<1> QED BY <1>3, <1>4, <1>5, <1>6, <1>7, <1>8, <1>9, <1>10 DEF Next

LEMMA KeepStep ==
  ASSUME Parameters, TypeOK, WorkerInv, TakeInv, FramesKeepTheirTake, [Next]_vars
  PROVE  FramesKeepTheirTake'
<1>1. CASE WriteChunk
  <2>1. Chunk.frame = task.frame /\ Chunk.take = task.take /\ overlapped' = overlapped
    BY <1>1, WriteTypes DEF WriteChunk
  <2>2. Chunk.take = Chunk.frame.take \/ Chunk.frame.late \/ overlapped
    BY <1>1, <2>1 DEF TakeInv, WriteChunk
  <2>3. chunks' = [id \in DOMAIN chunks \union {ChunkId} |->
                      IF id \in DOMAIN chunks THEN chunks[id] ELSE Chunk]
    BY <1>1, WriteTypes
  <2> QED BY <2>1, <2>2, <2>3 DEF FramesKeepTheirTake
<1>2. CASE ~WriteChunk
  <2>1. chunks' = chunks
    BY <1>2 DEF Next, vars, NumberFrame, SubmitFrame, Interrupted, TakeFrame, DrainEnds,
                BeginCapture, FrameFails, BeginStart, BeginPause, Flush, SetIdentity,
                StartReturns, PauseReturns, AppRestarts
  <2>2. overlapped' = overlapped \/ \E h \in Handlers, t \in Takes : BeginStart(h, t)
    BY <1>2 DEF Next, vars, NumberFrame, SubmitFrame, Interrupted, TakeFrame, DrainEnds,
                BeginCapture, FrameFails, BeginPause, Flush, SetIdentity, StartReturns,
                PauseReturns, AppRestarts
  <2>3. overlapped => overlapped'
    BY <2>2 DEF BeginStart
  <2> QED BY <2>1, <2>3 DEF FramesKeepTheirTake
<1> QED BY <1>1, <1>2

-----------------------------------------------------------------------------
(* A record comes after its files *)

LEMMA WriteStep ==
  ASSUME Parameters, TypeOK, WorkerInv, WriteInv, [Next]_vars
  PROVE  WriteInv'
<1>1. CASE WriteChunk
  <2>1. /\ chunks' = [id \in DOMAIN chunks \union {ChunkId} |->
                         IF id \in DOMAIN chunks THEN chunks[id] ELSE Chunk]
        /\ ChunkId \notin DOMAIN chunks /\ task \in Writing
        /\ \/ task.next = Last /\ task' = NoTask
           \/ task.next # Last /\ task' = [task EXCEPT !.next = task.next + 1]
    BY <1>1, WriteTypes
  <2>2. ChunkId = <<task.frame.sequence, Kinds[task.next]>> /\ task.next \in 1 .. Last /\ Last \in Nat
    BY <2>1 DEF ChunkId, Writing, Parameters, Last
  <2>3. /\ DOMAIN chunks' = DOMAIN chunks \union {ChunkId}
        /\ chunks'[ChunkId] = Chunk
        /\ \A id \in DOMAIN chunks : chunks'[id] = chunks[id]
    BY <2>1
  <2>4. \A i \in 1 .. task.next :
           /\ <<task.frame.sequence, Kinds[i]>> \in DOMAIN chunks'
           /\ chunks'[<<task.frame.sequence, Kinds[i]>>] = Chunk
    <3>1. FirstChunks
      BY <1>1 DEF WriteInv, WriteChunk
    <3>2. \A i \in 1 .. task.next - 1 :
             /\ <<task.frame.sequence, Kinds[i]>> \in DOMAIN chunks'
             /\ chunks'[<<task.frame.sequence, Kinds[i]>>] = Chunk
      BY <2>3, <3>1 DEF FirstChunks
    <3>3. \A i \in 1 .. task.next : i \in 1 .. task.next - 1 \/ i = task.next
      BY <2>2
    <3> QED BY <2>2, <2>3, <3>2, <3>3
  <2>5. RecordsNameTheirFiles'
    <3> SUFFICES ASSUME NEW id \in DOMAIN chunks', id[2] = Kinds[Last], NEW i \in 1 .. Last
                 PROVE  /\ <<id[1], Kinds[i]>> \in DOMAIN chunks'
                        /\ chunks'[<<id[1], Kinds[i]>>] = chunks'[id]
      BY DEF RecordsNameTheirFiles
    <3>1. CASE id \in DOMAIN chunks
      BY <2>3, <3>1 DEF WriteInv, RecordsNameTheirFiles
    <3>2. CASE id = ChunkId
      <4>1. task.next = Last /\ id[1] = task.frame.sequence
        BY <2>2, <3>2 DEF Parameters, Last
      <4> QED BY <2>3, <2>4, <3>2, <4>1
    <3> QED BY <2>3, <3>1, <3>2
  <2>6. task'.at = "writing" => FirstChunks'
    <3>1. CASE task.next = Last
      BY <2>1, <3>1 DEF NoTask
    <3>2. CASE task.next # Last
      <4>1. /\ task'.frame = task.frame /\ task'.take = task.take /\ task'.next = task.next + 1
        BY <2>1, <3>2 DEF Writing
      <4>2. Chunk' = Chunk /\ task'.next - 1 = task.next
        BY <2>2, <4>1 DEF Chunk
      <4> QED BY <2>4, <4>1, <4>2 DEF FirstChunks
    <3> QED BY <3>1, <3>2
  <2> QED BY <2>5, <2>6 DEF WriteInv
<1>2. CASE ~WriteChunk
  <2>1. chunks' = chunks
    BY <1>2 DEF Next, vars, NumberFrame, SubmitFrame, Interrupted, TakeFrame, DrainEnds,
                BeginCapture, FrameFails, BeginStart, BeginPause, Flush, SetIdentity,
                StartReturns, PauseReturns, AppRestarts
  <2>2. task' = task \/ task'.at \in {"none", "taken"} \/ BeginCapture
    BY <1>2 DEF Next, vars, workerVars, NumberFrame, SubmitFrame, Interrupted, TakeFrame,
                DrainEnds, FrameFails, BeginStart, BeginPause, Flush, SetIdentity,
                StartReturns, PauseReturns, AppRestarts, NoTask
  <2>3. RecordsNameTheirFiles'
    BY <2>1 DEF WriteInv, RecordsNameTheirFiles
  <2>4. CASE task' = task
    BY <2>1, <2>3, <2>4 DEF WriteInv, FirstChunks, Chunk
  <2>5. CASE BeginCapture
    <3>1. task'.next = 1
      BY <2>5 DEF BeginCapture
    <3> QED BY <2>3, <3>1 DEF WriteInv, FirstChunks
  <2> QED BY <2>2, <2>3, <2>4, <2>5 DEF WriteInv
<1> QED BY <1>1, <1>2

LEMMA ChunksInit == ASSUME Init PROVE FramesKeepTheirTake /\ WriteInv
<1>1. DOMAIN chunks = {} /\ task.at = "none"
  BY DEF Init, NoTask
<1> QED BY <1>1 DEF FramesKeepTheirTake, WriteInv, RecordsNameTheirFiles

-----------------------------------------------------------------------------

LEMMA Invariance == ASSUME Parameters PROVE Spec => []Inv
<1>1. Init => Inv
  BY TypeInit, GateInit, TakeInit, ChunksInit DEF Inv
<1>2. Inv /\ [Next]_vars => Inv'
  BY TypeStep, GateStep, TakeStep, KeepStep, WriteStep DEF Inv
<1> QED BY <1>1, <1>2, PTL DEF Spec

\* The variables keep their types: sequences below the last one, frames and chunks of takes
\* and kinds that exist, waiting flushes of calls that exist.
THEOREM TypesAreRight == ASSUME Parameters PROVE Spec => []TypeOK
<1>1. Inv => TypeOK
  BY DEF Inv
<1> QED BY <1>1, Invariance, PTL

\* A chunk is under the take its frame was accepted in, unless a flush outran the frame's
\* callback or two starts overlapped; a record names files that are there; and after a
\* pause nothing is written but by an outrun frame.
THEOREM CaptureIsAlwaysSound == ASSUME Parameters PROVE Spec => []CaptureIsSound
<1>1. Inv => CaptureIsSound
  BY DEF Inv, CaptureIsSound, WriteInv, GateInv, PausedIsQuiet, Clear, Outrunning
<1> QED BY <1>1, Invariance, PTL
=============================================================================
