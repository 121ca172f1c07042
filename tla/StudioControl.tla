---------------------------- MODULE StudioControl ----------------------------
(***************************************************************************)
(* The operator's take control: from the studio's command journal to the   *)
(* camera of the capture device, and back as acknowledgements.             *)
(*                                                                         *)
(* CaptureStudio (studio.py) validates a control request against the       *)
(* state its journal replays to and appends a numbered command.  The       *)
(* device polls (applyPendingCommands of StudioTransport.swift), lets its  *)
(* handler act on the camera (ARKitCaptureSessionController.apply), checks *)
(* the command against a lifecycle of its own, and posts that it has been  *)
(* applied.  Server, app and the command line tool, which opens the same   *)
(* journals, are separate processes; the first two may die at any point.   *)
(*                                                                         *)
(* A request always names a script, and a resumed take the same one.       *)
(***************************************************************************)
EXTENDS Journal, FiniteSets

CONSTANTS
  Take,         \* take ids
  NoTake,       \* the absent take id
  Caller,       \* calls of applyPendingCommands that may overlap
  MaxCommands,  \* bound on the commands of one session
  MaxFaults,    \* bound on crashes, lost messages and interrupted cameras
  MaxErrors,    \* bound on appends that fail while the process survives
  MaxTools      \* bound on uses of the command line tool

ASSUME BoundsAssumption ==
  /\ MaxCommands \in Nat /\ MaxFaults \in Nat /\ MaxErrors \in Nat /\ MaxTools \in Nat

Action == {"start", "pause", "stop", "retake", "end"}

Revision == 1 .. MaxCommands

\* A command names what its action has a use for.
Command ==
  {c \in [revision : Revision, action : Action, take : Take \cup {NoTake}, of : Take \cup {NoTake}] :
     /\ c.take = NoTake <=> c.action = "end"
     /\ c.of # NoTake <=> c.action = "retake"}

\* Acknowledgements of one revision differ by their time: by the app's run they were made in.
Ack == [revision : Revision, run : 1 .. MaxFaults + 1]

ASSUME SentinelAssumption ==
  /\ NoTake \notin Take
  /\ Corrupt \notin Command \cup Ack

VARIABLES
  log, ackLog,     \* commands.jsonl and command-acks.jsonl
  studioUp,        \* the server process is running
  commands, acks,  \* _commands and _acknowledgements of its studio object
  tool,            \* the command line tool: is it open, and what it has loaded
  appUp, run,      \* the app is running, and how often it was started
  lifecycle,       \* StudioCaptureLifecycle: state, revision, take
  camera,          \* the session controller: identity's take, acceptingFrames
  calls,           \* where each call of applyPendingCommands is
  posts,           \* acknowledgements on their way to the studio
  overlapped,      \* two calls have been under way in this run of the app
  faults, errors, tools

studioVars == <<log, ackLog, studioUp, commands, acks, tool>>
deviceVars == <<appUp, run, lifecycle, camera, calls, overlapped>>
counters   == <<faults, errors, tools>>
vars == <<studioVars, deviceVars, posts, counters>>

CallStep == {"idle", "polling", "handling", "applying", "waiting"}

Idle == [step |-> "idle", since |-> 0, pending |-> <<>>]

TypeOK ==
  /\ log \in JournalOf(Command) /\ ackLog \in JournalOf(Ack)
  /\ studioUp \in BOOLEAN /\ appUp \in BOOLEAN /\ overlapped \in BOOLEAN
  /\ commands \in Seq(Command)
  /\ acks \in SUBSET Ack
  /\ tool \in [open : BOOLEAN, commands : Seq(Command)]
  /\ run \in 1 .. MaxFaults + 1
  /\ lifecycle \in [state : {"ready", "recording", "paused", "stopped", "complete"},
                    revision : 0 .. MaxCommands, take : Take \cup {NoTake}]
  /\ camera \in [take : Take \cup {NoTake}, accepting : BOOLEAN]
  /\ calls \in [Caller -> [step : CallStep, since : 0 .. MaxCommands, pending : Seq(Command)]]
  /\ \A k \in Caller : calls[k].pending = <<>> <=> calls[k].step \in {"idle", "polling"}
  /\ posts \in SUBSET Ack
  /\ faults \in 0 .. MaxFaults /\ errors \in 0 .. MaxErrors /\ tools \in 0 .. MaxTools

NewLifecycle == [state |-> "ready", revision |-> 0, take |-> NoTake]

NoTool == [open |-> FALSE, commands |-> <<>>]

NewCamera == [take |-> NoTake, accepting |-> FALSE]

Init ==
  /\ log = EmptyJournal /\ ackLog = EmptyJournal
  /\ studioUp = TRUE /\ commands = <<>> /\ acks = {}
  /\ tool = NoTool
  /\ appUp = TRUE /\ run = 1
  /\ lifecycle = NewLifecycle
  /\ camera = NewCamera
  /\ calls = [k \in Caller |-> Idle]
  /\ posts = {}
  /\ overlapped = FALSE
  /\ faults = 0 /\ errors = 0 /\ tools = 0

-----------------------------------------------------------------------------
(* The studio's state machine: state() replays the commands.  Definitions  *)
(* marked Variant are deliberate mistakes that the properties are tested   *)
(* against; no specification uses them.                                    *)

NewState == [status |-> "ready", current |-> NoTake, takes |-> [t \in Take |-> "none"]]

Marked(st, t, mark) == [st.takes EXCEPT ![t] = mark]

Effect(st, c) ==
  CASE c.action = "start" ->
         [status |-> "recording", current |-> c.take, takes |-> Marked(st, c.take, "recording")]
    [] c.action = "retake" ->
         [status |-> "recording", current |-> c.take,
          takes |-> [st.takes EXCEPT ![c.of] = "replaced", ![c.take] = "recording"]]
    [] c.action = "pause" ->
         [st EXCEPT !.status = "paused", !.takes = Marked(st, st.current, "paused")]
    [] c.action = "stop" ->
         [st EXCEPT !.status = "stopped", !.takes = Marked(st, st.current, "stopped")]
    [] c.action = "end" ->
         [st EXCEPT !.status = "complete", !.current = NoTake]

\* The state after the first n commands of a journal.
StateAfter(cmds, n) ==
  LET after[i \in 0 .. n] == IF i = 0 THEN NewState ELSE Effect(after[i - 1], cmds[i])
  IN  after[n]

StateOf(cmds) == StateAfter(cmds, Len(cmds))

Idling(st) == st.status \in {"ready", "stopped"}

Fresh(st, t) == t \in Take /\ st.takes[t] = "none"

\* _validate_transition
Allowed(st, c) ==
  /\ st.status # "complete"
  /\ CASE c.action = "start"  -> \/ st.status = "paused" /\ c.take = st.current
                                 \/ Idling(st) /\ Fresh(st, c.take)
       [] c.action = "pause"  -> st.status = "recording" /\ c.take = st.current
       [] c.action = "stop"   -> st.status \in {"recording", "paused"} /\ c.take = st.current
       [] c.action = "retake" -> /\ Idling(st) /\ Fresh(st, c.take)
                                 /\ c.of \in Take /\ st.takes[c.of] = "stopped"
       [] c.action = "end"    -> Idling(st)

\* The commands a request may become, given the commands its studio object has loaded.
Issuable(cmds) ==
  LET st == StateOf(cmds)
  IN  {c \in Command : c.revision = Len(cmds) + 1 /\ Allowed(st, c)}

\* load_jsonl of both journals, and _validate_history.
Opens(cs, as) ==
  /\ Readable(cs) /\ Readable(as)
  /\ \A n \in DOMAIN cs.lines : cs.lines[n].revision = n
  /\ \A n \in DOMAIN as.lines : as.lines[n].revision \in DOMAIN cs.lines
  /\ \A m, n \in DOMAIN as.lines : as.lines[m].revision = as.lines[n].revision => m = n

-----------------------------------------------------------------------------
(* The studio server.                                                      *)

\* issue_control, for POST /api/control.
IssueControl(c) ==
  /\ studioUp
  /\ c \in Issuable(commands)
  /\ log' = AppendRecord(log, c)
  /\ commands' = Append(commands, c)
  /\ UNCHANGED <<ackLog, studioUp, acks, tool, deviceVars, posts, counters>>

\* The append raises: the request fails, the journal keeps what was written.
IssueControlFails(c) ==
  /\ studioUp /\ errors < MaxErrors
  /\ c \in Issuable(commands)
  /\ log' \in InterruptedAppend(log, c)
  /\ errors' = errors + 1
  /\ UNCHANGED <<ackLog, studioUp, commands, acks, tool, deviceVars, posts, faults, tools>>

Previous(p) == {a \in acks : a.revision = p.revision}

\* Variant: a second acknowledgement of a revision is recorded as well.
AcceptsAgain(p) == p.revision \in DOMAIN commands

\* acknowledge_command: known, and not acknowledged with another time before.
Accepts(p) == p.revision \in DOMAIN commands /\ Previous(p) \subseteq {p}

\* The call that waits for the answer to p.
AwaitsAck(k, p) ==
  /\ appUp /\ calls[k].step = "waiting"
  /\ p = [revision |-> Head(calls[k].pending).revision, run |-> run]

\* Variant: the call goes on although it has come to the end of the commands.
ContinuedPast(call) == [call EXCEPT !.step = "handling", !.pending = Tail(@)]

\* The call goes on with the commands it fetched, or returns.
Continued(call) ==
  IF Len(call.pending) = 1 THEN Idle
  ELSE [call EXCEPT !.step = "handling", !.pending = Tail(@)]

\* POST /api/command-ack: recorded and answered, or refused, on which the call throws.
RecordAck(p) ==
  /\ studioUp
  /\ p \in posts
  /\ posts' = posts \ {p}
  /\ IF Accepts(p) /\ p \notin acks
       THEN ackLog' = AppendRecord(ackLog, p) /\ acks' = acks \cup {p}
       ELSE UNCHANGED <<ackLog, acks>>
  /\ calls' = [k \in Caller |-> IF ~AwaitsAck(k, p) THEN calls[k]
                                ELSE IF Accepts(p) THEN Continued(calls[k]) ELSE Idle]
  /\ UNCHANGED <<log, studioUp, commands, tool, appUp, run, lifecycle, camera, overlapped, counters>>

\* The append raises, the handler dies, and the device gets no answer.
RecordAckFails(p) ==
  /\ studioUp /\ errors < MaxErrors
  /\ p \in posts /\ Accepts(p) /\ p \notin acks
  /\ posts' = posts \ {p}
  /\ ackLog' \in InterruptedAppend(ackLog, p)
  /\ calls' = [k \in Caller |-> IF AwaitsAck(k, p) THEN Idle ELSE calls[k]]
  /\ errors' = errors + 1
  /\ UNCHANGED <<log, studioUp, commands, acks, tool, appUp, run, lifecycle, camera, overlapped,
                 faults, tools>>

\* The server dies, perhaps within an append; its connections break.
StudioCrash ==
  /\ studioUp /\ faults < MaxFaults
  /\ \/ UNCHANGED <<log, ackLog>>
     \/ \E c \in Issuable(commands) : log' \in InterruptedAppend(log, c) /\ UNCHANGED ackLog
     \/ \E p \in posts : /\ Accepts(p) /\ p \notin acks
                         /\ ackLog' \in InterruptedAppend(ackLog, p) /\ UNCHANGED log
  /\ studioUp' = FALSE
  /\ commands' = <<>> /\ acks' = {}
  /\ posts' = {}
  /\ calls' = [k \in Caller |-> IF calls[k].step \in {"polling", "waiting"} THEN Idle ELSE calls[k]]
  /\ faults' = faults + 1
  /\ UNCHANGED <<tool, appUp, run, lifecycle, camera, overlapped, errors, tools>>

\* CaptureStudio.__init__
StudioReopen ==
  /\ ~studioUp
  /\ Opens(log, ackLog)
  /\ studioUp' = TRUE
  /\ log' = Repaired(log) /\ ackLog' = Repaired(ackLog)
  /\ commands' = log.lines
  /\ acks' = Records(ackLog)
  /\ UNCHANGED <<tool, deviceVars, posts, counters>>

\* "studio control" opens a studio of its own on the session's directory ...
ToolOpens ==
  /\ ~tool.open /\ tools < MaxTools
  /\ Opens(log, ackLog)
  /\ log' = Repaired(log) /\ ackLog' = Repaired(ackLog)
  /\ tool' = [open |-> TRUE, commands |-> log.lines]
  /\ tools' = tools + 1
  /\ UNCHANGED <<studioUp, commands, acks, deviceVars, posts, faults, errors>>

\* ... issues one command, and ends.
ToolIssues(c) ==
  /\ tool.open
  /\ c \in Issuable(tool.commands)
  /\ log' = AppendRecord(log, c)
  /\ tool' = NoTool
  /\ UNCHANGED <<ackLog, studioUp, commands, acks, deviceVars, posts, counters>>

-----------------------------------------------------------------------------
(* The device: applyPendingCommands.                                       *)

\* It reads the lifecycle's revision, awaits the studio's commands after it ...
Poll(k) ==
  /\ appUp
  /\ calls[k].step = "idle"
  /\ calls' = [calls EXCEPT ![k] = [step |-> "polling", since |-> lifecycle.revision, pending |-> <<>>]]
  /\ overlapped' = (overlapped \/ \E j \in Caller : calls[j].step # "idle")
  /\ UNCHANGED <<studioVars, appUp, run, lifecycle, camera, posts, counters>>

\* GET /api/commands: commands_after.
Answer(k) ==
  /\ appUp /\ studioUp
  /\ calls[k].step = "polling"
  /\ LET pending == SubSeq(commands, calls[k].since + 1, Len(commands)) IN
       calls' = [calls EXCEPT ![k] = IF pending = <<>> THEN Idle
                                     ELSE [@ EXCEPT !.step = "handling", !.pending = pending]]
  /\ UNCHANGED <<studioVars, appUp, run, lifecycle, camera, overlapped, posts, counters>>

\* The handler pauses and stops the take it is on only.
HandlerAccepts(c) == c.action \in {"pause", "stop"} => c.take = camera.take

\* Variant: a paused camera goes on delivering frames.
HandledOnStop(c) ==
  IF c.action \in {"start", "retake"}
  THEN [take |-> c.take, accepting |-> TRUE]
  ELSE [camera EXCEPT !.accepting = @ /\ c.action = "pause"]

Handled(c) ==
  IF c.action \in {"start", "retake"}
  THEN [take |-> c.take, accepting |-> TRUE]
  ELSE [camera EXCEPT !.accepting = FALSE]

\* ... and for each of them lets the handler act on the camera,
Handle(k) ==
  /\ appUp
  /\ calls[k].step = "handling"
  /\ HandlerAccepts(Head(calls[k].pending))
  /\ camera' = Handled(Head(calls[k].pending))
  /\ calls' = [calls EXCEPT ![k].step = "applying"]
  /\ UNCHANGED <<studioVars, appUp, run, lifecycle, overlapped, posts, counters>>

\* The take is another one; or the camera is denied, before anything has changed.
HandlerThrows(k) ==
  /\ appUp
  /\ calls[k].step = "handling"
  /\ \/ ~HandlerAccepts(Head(calls[k].pending)) /\ UNCHANGED faults
     \/ /\ Head(calls[k].pending).action \in {"start", "retake"}
        /\ faults < MaxFaults /\ faults' = faults + 1
  /\ calls' = [calls EXCEPT ![k] = Idle]
  /\ UNCHANGED <<studioVars, appUp, run, lifecycle, camera, overlapped, posts, errors, tools>>

\* Variant: commands are applied whatever their revision.
LifecycleAcceptsAny(c) == TRUE

\* The guards of StudioCaptureLifecycle.apply.
LifecycleAccepts(c) ==
  /\ c.revision = lifecycle.revision + 1
  /\ CASE c.action = "start"  -> /\ lifecycle.state \in {"ready", "paused", "stopped"}
                                 /\ lifecycle.state = "paused" => c.take = lifecycle.take
       [] c.action = "pause"  -> lifecycle.state = "recording" /\ c.take = lifecycle.take
       [] c.action = "stop"   -> lifecycle.state \in {"recording", "paused"} /\ c.take = lifecycle.take
       [] c.action = "retake" -> lifecycle.state \in {"ready", "stopped"} /\ c.of # NoTake
       [] c.action = "end"    -> lifecycle.state \in {"ready", "stopped"}

Applied(c) ==
  [revision |-> c.revision,
   state |-> CASE c.action \in {"start", "retake"} -> "recording"
               [] c.action = "pause" -> "paused"
               [] c.action = "stop"  -> "stopped"
               [] c.action = "end"   -> "complete",
   take |-> CASE c.action \in {"start", "retake"} -> c.take
              [] c.action \in {"pause", "stop"} -> lifecycle.take
              [] c.action = "end" -> NoTake]

\* applies it to the lifecycle, and posts the acknowledgement.
ApplyCommand(k) ==
  /\ appUp
  /\ calls[k].step = "applying"
  /\ LifecycleAccepts(Head(calls[k].pending))
  /\ lifecycle' = Applied(Head(calls[k].pending))
  /\ posts' = posts \cup {[revision |-> Head(calls[k].pending).revision, run |-> run]}
  /\ calls' = [calls EXCEPT ![k].step = "waiting"]
  /\ UNCHANGED <<studioVars, appUp, run, camera, overlapped, counters>>

ApplyRefused(k) ==
  /\ appUp
  /\ calls[k].step = "applying"
  /\ ~LifecycleAccepts(Head(calls[k].pending))
  /\ calls' = [calls EXCEPT ![k] = Idle]
  /\ UNCHANGED <<studioVars, appUp, run, lifecycle, camera, overlapped, posts, counters>>

\* A request fails or its answer is lost; a post may be lost with it, or arrive later.
RequestFails(k) ==
  /\ appUp /\ faults < MaxFaults
  /\ calls[k].step \in {"polling", "waiting"}
  /\ posts' \in {posts, {p \in posts : ~AwaitsAck(k, p)}}
  /\ calls' = [calls EXCEPT ![k] = Idle]
  /\ faults' = faults + 1
  /\ UNCHANGED <<studioVars, appUp, run, lifecycle, camera, overlapped, errors, tools>>

\* sessionWasInterrupted and didFailWithError: frames are refused from now on.
CameraInterrupted ==
  /\ appUp /\ faults < MaxFaults
  /\ camera.accepting
  /\ camera' = [camera EXCEPT !.accepting = FALSE]
  /\ faults' = faults + 1
  /\ UNCHANGED <<studioVars, appUp, run, lifecycle, calls, overlapped, posts, errors, tools>>

\* Lifecycle and camera are the app's memory: a new run starts at revision 0.
AppCrash ==
  /\ appUp /\ faults < MaxFaults
  /\ appUp' = FALSE
  /\ lifecycle' = NewLifecycle /\ camera' = NewCamera
  /\ calls' = [k \in Caller |-> Idle]
  /\ overlapped' = FALSE
  /\ faults' = faults + 1
  /\ UNCHANGED <<studioVars, run, posts, errors, tools>>

AppRestart ==
  /\ ~appUp
  /\ appUp' = TRUE
  /\ run' = run + 1
  /\ UNCHANGED <<studioVars, lifecycle, camera, calls, overlapped, posts, counters>>

-----------------------------------------------------------------------------
Studio ==
  \/ \E c \in Issuable(commands) : IssueControl(c) \/ IssueControlFails(c)
  \/ \E p \in posts : RecordAck(p) \/ RecordAckFails(p)
  \/ StudioCrash \/ StudioReopen
  \/ ToolOpens \/ \E c \in Issuable(tool.commands) : ToolIssues(c)

Device ==
  \/ \E k \in Caller : \/ Poll(k) \/ Answer(k) \/ RequestFails(k)
                       \/ Handle(k) \/ HandlerThrows(k) \/ ApplyCommand(k) \/ ApplyRefused(k)
  \/ CameraInterrupted \/ AppCrash \/ AppRestart

Next == Studio \/ Device

Spec == Init /\ [][Next]_vars

(***************************************************************************)
(* The owner polls again when a call has returned, every call goes on, the *)
(* server answers, and both processes are started again.  Nothing makes    *)
(* the operator issue commands.                                            *)
(***************************************************************************)
Fairness ==
  /\ \A k \in Caller : /\ WF_vars(Poll(k)) /\ WF_vars(Answer(k))
                       /\ WF_vars(Handle(k)) /\ WF_vars(HandlerThrows(k))
                       /\ WF_vars(ApplyCommand(k)) /\ WF_vars(ApplyRefused(k))
  /\ WF_vars(\E p \in posts : RecordAck(p))
  /\ WF_vars(StudioReopen) /\ WF_vars(AppRestart)

FairSpec == Spec /\ Fairness

-----------------------------------------------------------------------------
(* What take control promises.                                             *)

\* No append has failed under a living process, and the tool was not used beside the server.
Undisturbed == errors = 0 /\ tools = 0

(***************************************************************************)
(* "Equivalent automation is available through studio state, studio        *)
(* control, and studio finalize", says capture-archive-v1.md, and its      *)
(* journals recover deterministically.  A command that the tool appends is *)
(* unknown to the running server, whose next one gets the same revision;   *)
(* _validate_history refuses the journal from then on.                     *)
(***************************************************************************)
StudioAlwaysReopens == Opens(log, ackLog)

\* Otherwise the studio opens again whenever it is killed, acknowledgements included.
HistoryReopens == Undisturbed => Opens(log, ackLog)

\* A command that has been delivered stays in the journal under its revision, for ever.
DeliveredStays ==
  Undisturbed =>
    \A k \in Caller : \A n \in DOMAIN calls[k].pending :
      LET c == calls[k].pending[n] IN c.revision \in DOMAIN log.lines /\ log.lines[c.revision] = c

(***************************************************************************)
(* The device's lifecycle, written in Swift, and the studio's replay,      *)
(* written in Python, agree after every command, whatever was lost,        *)
(* repeated or restarted, and even if calls of applyPendingCommands        *)
(* overlap.                                                                *)
(***************************************************************************)
LifecycleFollowsStudio ==
  Undisturbed =>
    /\ lifecycle.revision <= Len(log.lines)
    /\ LET st == StateAfter(log.lines, lifecycle.revision)
       IN  lifecycle.state = st.status /\ lifecycle.take = st.current

(***************************************************************************)
(* Frames are accepted only while the lifecycle is recording, and for its  *)
(* take (but for a handler's own step), if calls do not overlap.           *)
(***************************************************************************)
FramesBelongToTake ==
  camera.accepting /\ ~overlapped /\ (\A k \in Caller : calls[k].step # "applying") =>
    lifecycle.state = "recording" /\ lifecycle.take = camera.take

(***************************************************************************)
(* The studio knows a command as acknowledged only if this run of the app  *)
(* has applied it, or an earlier run did.                                  *)
(***************************************************************************)
AckedWereApplied ==
  \A a \in (acks \cup Records(ackLog)) \ {Corrupt} :
    a.run < run \/ (a.run = run /\ (appUp => a.revision <= lifecycle.revision))

(***************************************************************************)
(* "take IDs cannot be reused", says _validate_transition (studio.py): a   *)
(* take that has been stopped, as the device itself acknowledged, is over. *)
(* An app that is started again replays every command from the first one   *)
(* and records each take once more.                                        *)
(***************************************************************************)
StoppedTakeStaysStopped ==
  \A a \in acks :
    commands[a.revision].action = "stop" =>
      ~(camera.accepting /\ camera.take = commands[a.revision].take)

\* Every command the journal holds is applied by the device in the end, after any restarts.
EventuallyApplied ==
  \A n \in Revision :
    n <= Len(log.lines) ~> (lifecycle.revision >= n \/ overlapped \/ ~Undisturbed)
=============================================================================
