------------------------------ MODULE LatestFrame ------------------------------
(***************************************************************************)
(* LatestFrameRuntime and FaceRoiTracker (runtime/face_basic.py): client   *)
(* threads submit frames to one worker thread through a single slot and    *)
(* take its results from another.  Everything is guarded by one            *)
(* threading.Condition on which the worker and the callers of wait_latest  *)
(* sleep together.                                                         *)
(*                                                                         *)
(* A step is one critical section, or the worker's work between two.       *)
(* waiters is the condition's queue: notify wakes its head, notify_all     *)
(* everybody.  A caller whose timeout expires stays in the queue until it  *)
(* has the lock again, as in threading.Condition.wait.                     *)
(***************************************************************************)
EXTENDS Integers, SequencesExt

CONSTANTS Threads,            \* client threads
          Worker,             \* the worker thread, not one of them
          MaxFrames,          \* bound: frames submitted
          DetectionInterval,  \* of the tracker
          MaximumMissed       \* of the tracker

None == 0       \* no frame; frames are numbered from 1

VARIABLES pending,   \* _pending
          latest,    \* _latest, the number of the frame it is the result of
          closed,    \* _closed
          error,     \* whether _error is set
          sequence,  \* _sequence
          dropped,   \* dropped_frames
          waiters,   \* the condition's queue
          at,        \* what each thread is doing
          working,   \* the submission the worker holds
          tracker,   \* the ROI tracker, and the frames since it found a face
          done,      \* history: submissions the worker has finished with
          taken,     \* history: the result a client got last
          stolen     \* history: a submit's notify woke somebody else

vars == <<pending, latest, closed, error, sequence, dropped, waiters, at, working,
          tracker, done, taken, stolen>>
slots == <<pending, latest, closed, error, sequence, dropped>>
history == <<done, taken, stolen>>

NewTracker == [box |-> FALSE, missed |-> 0, unfound |-> 0]

Init ==
    /\ pending = None /\ latest = None
    /\ closed = FALSE /\ error = FALSE
    /\ sequence = 0 /\ dropped = 0
    /\ waiters = <<>>
    /\ at = [x \in Threads \union {Worker} |-> IF x = Worker THEN "loop" ELSE "idle"]
    /\ working = None
    /\ tracker = NewTracker
    /\ done = 0 /\ taken = None /\ stolen = FALSE

-----------------------------------------------------------------------------
(* The condition variable *)

\* A thread is in the queue at most once.
Without(x) ==
    IF \E i \in DOMAIN waiters : waiters[i] = x
    THEN RemoveAt(waiters, CHOOSE i \in DOMAIN waiters : waiters[i] = x)
    ELSE waiters

\* Those among xs that sleep are awake in f; the others are as in f.
Woken(f, xs) ==
    [x \in DOMAIN f |-> IF x \in xs /\ at[x] = "waiting" THEN "loop" ELSE f[x]]

\* Condition.notify, then f is what the threads do.
Notify(f) ==
    IF waiters = <<>> THEN at' = f /\ UNCHANGED waiters
    ELSE at' = Woken(f, {Head(waiters)}) /\ waiters' = Tail(waiters)

NotifyAll(f) ==
    /\ at' = Woken(f, {waiters[i] : i \in DOMAIN waiters})
    /\ waiters' = <<>>

-----------------------------------------------------------------------------
(* Clients *)

\* Variant: nobody is notified of the frame.
SubmitSilently(t) ==
    /\ at[t] = "idle" /\ ~error /\ ~closed /\ sequence < MaxFrames
    /\ sequence' = sequence + 1
    /\ pending' = sequence + 1
    /\ dropped' = IF pending = None THEN dropped ELSE dropped + 1
    /\ UNCHANGED <<latest, closed, error, waiters, at, working, tracker, done, taken, stolen>>

\* submit; it raises after an error or a close.
Submit(t) ==
    /\ at[t] = "idle" /\ ~error /\ ~closed /\ sequence < MaxFrames
    /\ sequence' = sequence + 1
    /\ pending' = sequence + 1
    /\ dropped' = IF pending = None THEN dropped ELSE dropped + 1
    /\ stolen' = (stolen \/ (waiters # <<>> /\ Head(waiters) # Worker))
    /\ Notify(at)
    /\ UNCHANGED <<latest, closed, error, working, tracker, done, taken>>

\* The result leaves the slot.
TakeLatest == taken' = (IF latest = None THEN taken ELSE latest) /\ latest' = None

PollLatest(t) ==
    /\ at[t] = "idle" /\ ~error /\ latest # None
    /\ TakeLatest
    /\ UNCHANGED <<pending, closed, error, sequence, dropped, waiters, at, working,
                   tracker, done, stolen>>

\* wait_latest: t enters it, was woken, or has timed out and has the lock again.
InWait(t) == at[t] \in {"idle", "loop", "timedout"}

\* A result, a close or an error ends the wait; an error raises and leaves the result.
WaitEnds(t) ==
    /\ InWait(t)
    /\ latest # None \/ closed
    /\ IF error THEN UNCHANGED <<latest, taken>> ELSE TakeLatest
    /\ at' = [at EXCEPT ![t] = "idle"]
    /\ waiters' = Without(t)
    /\ UNCHANGED <<pending, closed, error, sequence, dropped, working, tracker, done, stolen>>

WaitSleeps(t) ==
    /\ at[t] \in {"idle", "loop"}
    /\ latest = None /\ ~closed
    /\ at' = [at EXCEPT ![t] = "waiting"]
    /\ waiters' = Append(waiters, t)
    /\ UNCHANGED <<slots, working, tracker, history>>

Timeout(t) ==
    /\ at[t] = "waiting"
    /\ at' = [at EXCEPT ![t] = "timedout"]
    /\ UNCHANGED <<slots, waiters, working, tracker, history>>

\* No time is left: None is returned.
WaitGivesUp(t) ==
    /\ at[t] \in {"loop", "timedout"}
    /\ latest = None /\ ~closed
    /\ at' = [at EXCEPT ![t] = "idle"]
    /\ waiters' = Without(t)
    /\ UNCHANGED <<slots, working, tracker, history>>

Close(t) ==
    /\ at[t] = "idle"
    /\ closed' = TRUE
    /\ NotifyAll([at EXCEPT ![t] = "joining"])
    /\ UNCHANGED <<pending, latest, error, sequence, dropped, working, tracker, history>>

\* join returns, because the worker has ended or after five seconds.
CloseReturns(t) ==
    /\ at[t] = "joining"
    /\ at' = [at EXCEPT ![t] = "idle"]
    /\ UNCHANGED <<slots, waiters, working, tracker, history>>

-----------------------------------------------------------------------------
(* The worker *)

WorkerWaits ==
    /\ at[Worker] = "loop" /\ pending = None /\ ~closed
    /\ at' = [at EXCEPT ![Worker] = "waiting"]
    /\ waiters' = Append(waiters, Worker)
    /\ UNCHANGED <<slots, working, tracker, history>>

\* Variant: a frame that is pending keeps the worker from stopping.
WorkerStopsWhenDrained ==
    /\ at[Worker] = "loop" /\ closed /\ pending = None
    /\ at' = [at EXCEPT ![Worker] = "dead"]
    /\ UNCHANGED <<slots, waiters, working, tracker, history>>

WorkerStops ==
    /\ at[Worker] = "loop" /\ closed
    /\ at' = [at EXCEPT ![Worker] = "dead"]
    /\ UNCHANGED <<slots, waiters, working, tracker, history>>

WorkerTakes ==
    /\ at[Worker] = "loop" /\ pending # None /\ ~closed
    /\ working' = pending
    /\ pending' = None
    /\ at' = [at EXCEPT ![Worker] = "producing"]
    /\ UNCHANGED <<latest, closed, error, sequence, dropped, waiters, tracker, history>>

\* The tracker keeps its box between the multiples of the interval.
KeepsBox(n) == tracker.box /\ n % DetectionInterval # 0

\* Variant: one miss more than allowed.
KeepsOneMore(missed) == missed <= MaximumMissed + 1

\* Whether the box stays after so many misses.
Endures(missed) == missed <= MaximumMissed

Misses == IF tracker.missed > MaximumMissed + 1 THEN tracker.missed ELSE tracker.missed + 1

\* FaceRoiTracker.update of frame n; found is what the detector answers.
UpdateRoi(n, found) ==
    tracker' =
        CASE KeepsBox(n) -> [tracker EXCEPT !.unfound = @ + 1]
          [] ~KeepsBox(n) /\ found -> [box |-> TRUE, missed |-> 0, unfound |-> 0]
          [] OTHER -> [box |-> tracker.box /\ Endures(Misses), missed |-> Misses,
                       unfound |-> tracker.unfound + 1]

\* The tracker's update and the producer's produce, without the lock.  Detector,
\* backend or refiner may raise.
Produce ==
    /\ at[Worker] = "producing"
    /\ \E found \in BOOLEAN : UpdateRoi(working, found)
    /\ \E next \in {"publishing", "failing"} : at' = [at EXCEPT ![Worker] = next]
    /\ UNCHANGED <<slots, waiters, working, history>>

Publish ==
    /\ at[Worker] = "publishing"
    /\ latest' = working
    /\ working' = None
    /\ done' = done + 1
    /\ NotifyAll([at EXCEPT ![Worker] = "loop"])
    /\ UNCHANGED <<pending, closed, error, sequence, dropped, tracker, taken, stolen>>

\* The worker's except clause.
WorkerFails ==
    /\ at[Worker] = "failing"
    /\ error' = TRUE
    /\ closed' = TRUE
    /\ working' = None
    /\ done' = done + 1
    /\ NotifyAll([at EXCEPT ![Worker] = "dead"])
    /\ UNCHANGED <<pending, latest, sequence, dropped, tracker, taken, stolen>>

WorkerStep ==
    WorkerWaits \/ WorkerStops \/ WorkerTakes \/ Produce \/ Publish \/ WorkerFails

Next ==
    \/ \E t \in Threads :
          \/ Submit(t) \/ PollLatest(t) \/ Close(t) \/ CloseReturns(t)
          \/ WaitEnds(t) \/ WaitSleeps(t) \/ Timeout(t) \/ WaitGivesUp(t)
    \/ WorkerStep

\* A client that is inside a call goes on with it, timeouts expire, and the
\* worker runs; no client is made to call anything.
Continues(t) ==
    \/ at[t] # "idle" /\ (WaitEnds(t) \/ WaitGivesUp(t))
    \/ Timeout(t) \/ CloseReturns(t)

Fairness == WF_vars(WorkerStep) /\ \A t \in Threads : WF_vars(Continues(t))

Spec == Init /\ [][Next]_vars
FairSpec == Spec /\ Fairness

-----------------------------------------------------------------------------
(* Properties *)

Frames == 1 .. MaxFrames

TypeOK ==
    /\ {pending, latest, working, taken} \subseteq Frames \union {None}
    /\ {closed, error, stolen} \subseteq BOOLEAN
    /\ sequence \in 0 .. MaxFrames /\ dropped \in 0 .. MaxFrames /\ done \in 0 .. MaxFrames
    /\ at \in [Threads \union {Worker} ->
                 {"idle", "loop", "waiting", "timedout", "joining", "producing",
                  "publishing", "failing", "dead"}]
    /\ waiters \in Seq(Threads \union {Worker})
    /\ tracker \in [box : BOOLEAN, missed : 0 .. MaximumMissed + 2, unfound : 0 .. MaxFrames]

InSlot(f) == IF f = None THEN 0 ELSE 1

\* submitted_frames and dropped_frames are reported to the operator: every frame
\* ever submitted was dropped, is waiting, is with the worker or has been dealt
\* with by it, and is counted once.
EveryFrameCounted == sequence = dropped + done + InSlot(pending) + InSlot(working)

\* Frames overtake none: what a client took, the result that waits, the frame
\* the worker holds and the one that is pending are in the order of submission.
ResultsAreNewer ==
    /\ latest # None => taken < latest
    /\ working # None => taken < working /\ latest < working
    /\ pending # None => taken < pending /\ latest < pending /\ working < pending

\* Nobody sleeps in wait_latest while a result is there, or after the runtime
\* was closed or has failed.
NobodyMissesResult ==
    latest # None \/ closed => \A t \in Threads : at[t] # "waiting"

\* The worker never sleeps beside a pending frame, unless the one notify of a
\* submit has woken a client of wait_latest instead of it: both kinds of
\* sleeper share one condition.
WorkerSeesPending == pending # None /\ at[Worker] = "waiting" => stolen

\* Nobody sleeps past what the sleeper waits for.
NobodyOversleeps == NobodyMissesResult /\ WorkerSeesPending

\* As long as no frame is dropped the producer is never given a box that the detector
\* has not confirmed for maximum_missed + 1 intervals.  (The detector looks at the
\* multiples of its interval only: where those frames are dropped the box stays.)
RoiIsConfirmed ==
    dropped = 0 /\ tracker.box =>
        tracker.unfound < (MaximumMissed + 1) * DetectionInterval

\* The worker ends after a close, with a frame in hand or not.
CloseStopsWorker == closed ~> at[Worker] = "dead"

\* A submitted frame is taken by the worker or replaced by a newer one, unless
\* the runtime closes.
PendingIsTaken ==
    \A f \in Frames : pending = f ~> pending # f \/ closed
=============================================================================
