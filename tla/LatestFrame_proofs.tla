--------------------------- MODULE LatestFrame_proofs ---------------------------
(***************************************************************************)
(* Theorems about LatestFrame, for any client threads, any number of       *)
(* frames and any tracker.  Inv is the inductive invariant they follow     *)
(* from: whoever sleeps is in the condition's queue, and every frame is in *)
(* one place.                                                              *)
(***************************************************************************)
EXTENDS LatestFrame, TLAPS

Parameters ==
    /\ Worker \notin Threads
    /\ MaxFrames \in Nat /\ MaximumMissed \in Nat

Thread == Threads \union {Worker}
Doing == {"idle", "loop", "waiting", "timedout", "joining", "producing",
          "publishing", "failing", "dead"}

\* Whoever sleeps is in the queue, so that a notify reaches it.
Queued ==
    \A x \in Thread : at[x] = "waiting" => \E i \in 1 .. Len(waiters) : waiters[i] = x

QueueInv ==
    /\ at \in [Thread -> Doing] /\ waiters \in Seq(Thread)
    /\ Queued
    /\ NobodyOversleeps

\* The worker holds a frame exactly while it is busy with it.
WorkerHolds == working # None <=> at[Worker] \in {"producing", "publishing", "failing"}

\* Nothing is newer than the last submission.
Submitted ==
    pending <= sequence /\ working <= sequence /\ latest <= sequence /\ taken <= sequence

SlotsInv ==
    /\ pending \in Nat /\ latest \in Nat /\ working \in Nat /\ taken \in Nat
    /\ closed \in BOOLEAN /\ error \in BOOLEAN /\ stolen \in BOOLEAN
    /\ sequence \in 0 .. MaxFrames /\ dropped \in Nat /\ done \in Nat
    /\ WorkerHolds /\ Submitted
    /\ EveryFrameCounted /\ ResultsAreNewer

\* The tracker sees each frame the worker has worked on once at most.
TrackerInv ==
    /\ tracker \in [box : BOOLEAN, missed : 0 .. MaximumMissed + 2, unfound : Nat]
    /\ tracker.unfound <= done + (IF at[Worker] \in {"publishing", "failing"} THEN 1 ELSE 0)

Inv == QueueInv /\ SlotsInv /\ TrackerInv

-----------------------------------------------------------------------------
(* The condition variable *)

\* f is what the threads do after a step that makes nobody sleep.
Awakens(f) == f \in [Thread -> Doing] /\ \A x \in Thread : f[x] = "waiting" => at[x] = "waiting"

LEMMA NotifyWakesHead ==
  ASSUME QueueInv, NEW f, Awakens(f), Notify(f)
  PROVE  /\ at' \in [Thread -> Doing] /\ waiters' \in Seq(Thread) /\ Queued'
         /\ \A x \in Thread : at'[x] = f[x] \/ (at[x] = "waiting" /\ at'[x] = "loop")
         /\ waiters # <<>> /\ Head(waiters) \in Thread => at'[Head(waiters)] # "waiting"
         /\ waiters = <<>> => \A x \in Thread : at'[x] # "waiting"
<1>1. CASE waiters = <<>>
  BY <1>1 DEF Notify, QueueInv, Queued, Awakens
<1>2. CASE waiters # <<>>
  <2> DEFINE h == Head(waiters)
  <2>1. at' = Woken(f, {h}) /\ waiters' = Tail(waiters)
    BY <1>2 DEF Notify
  <2>2. /\ waiters' \in Seq(Thread) /\ h \in Thread
        /\ Len(waiters) \in Nat /\ Len(waiters') = Len(waiters) - 1
        /\ h = waiters[1] /\ \A i \in 1 .. Len(waiters') : waiters'[i] = waiters[i + 1]
    BY <1>2, <2>1 DEF QueueInv
  <2>3. /\ at' \in [Thread -> Doing]
        /\ \A x \in Thread :
              at'[x] = IF x = h /\ at[x] = "waiting" THEN "loop" ELSE f[x]
    BY <2>1 DEF Woken, Awakens, Doing
  <2> HIDE DEF h
  <2>4. ASSUME NEW x \in Thread, at'[x] = "waiting"
        PROVE  \E i \in 1 .. Len(waiters') : waiters'[i] = x
    <3>1. x # h /\ at[x] = "waiting"
      BY <2>3, <2>4 DEF Awakens
    <3>2. PICK i \in 1 .. Len(waiters) : waiters[i] = x
      BY <3>1 DEF QueueInv, Queued
    <3>3. i - 1 \in 1 .. Len(waiters') /\ waiters'[i - 1] = x
      BY <2>2, <3>1, <3>2
    <3> QED BY <3>3
  <2>5. at'[h] # "waiting"
    BY <2>2, <2>3 DEF Awakens
  <2> QED BY <1>2, <2>2, <2>3, <2>4, <2>5 DEF Queued, h
<1> QED BY <1>1, <1>2

LEMMA NotifyAllWakes ==
  ASSUME QueueInv, NEW f, Awakens(f), NotifyAll(f)
  PROVE  /\ at' \in [Thread -> Doing] /\ waiters' \in Seq(Thread) /\ Queued'
         /\ \A x \in Thread : at'[x] = f[x] \/ (at[x] = "waiting" /\ at'[x] = "loop")
         /\ \A x \in Thread : at'[x] # "waiting"
<1> DEFINE all == {waiters[i] : i \in DOMAIN waiters}
<1>1. /\ at' \in [Thread -> Doing]
      /\ \A x \in Thread : at'[x] = IF x \in all /\ at[x] = "waiting" THEN "loop" ELSE f[x]
  BY DEF NotifyAll, Woken, Awakens, Doing
<1>2. \A x \in Thread : at[x] = "waiting" => x \in all
  BY DEF QueueInv, Queued
<1>3. waiters' = <<>>
  BY DEF NotifyAll
<1> HIDE DEF all
<1>4. \A x \in Thread : at'[x] # "waiting"
  BY <1>1, <1>2 DEF Awakens
<1> QED BY <1>1, <1>3, <1>4 DEF Queued

\* A thread that leaves the queue leaves the others in it.
LEMMA WithoutKeeps ==
  ASSUME waiters \in Seq(Thread), NEW t
  PROVE  /\ Without(t) \in Seq(Thread)
         /\ \A i \in 1 .. Len(waiters) :
               waiters[i] # t => \E k \in 1 .. Len(Without(t)) : Without(t)[k] = waiters[i]
<1>1. CASE ~\E i \in DOMAIN waiters : waiters[i] = t
  BY <1>1 DEF Without
<1>2. CASE \E i \in DOMAIN waiters : waiters[i] = t
  <2> DEFINE n == CHOOSE i \in DOMAIN waiters : waiters[i] = t
             left == SubSeq(waiters, 1, n - 1)
             right == SubSeq(waiters, n + 1, Len(waiters))
  <2>1. n \in 1 .. Len(waiters) /\ waiters[n] = t /\ Len(waiters) \in Nat
    BY <1>2
  <2>2. Without(t) = left \o right
    BY <1>2 DEF Without, RemoveAt
  <2> HIDE DEF n
  <2>3. /\ left \in Seq(Thread) /\ Len(left) = n - 1
        /\ \A i \in 1 .. n - 1 : left[i] = waiters[i]
    BY <2>1
  <2>4. /\ right \in Seq(Thread) /\ Len(right) = Len(waiters) - n
        /\ \A i \in 1 .. Len(waiters) - n : right[i] = waiters[n + i]
    BY <2>1
  <2> HIDE DEF left, right
  <2>5. /\ Without(t) \in Seq(Thread) /\ Len(Without(t)) = Len(waiters) - 1
        /\ \A i \in 1 .. n - 1 : Without(t)[i] = waiters[i]
        /\ \A i \in n + 1 .. Len(waiters) : Without(t)[i - 1] = waiters[i]
    <3>1. /\ Without(t) \in Seq(Thread) /\ Len(Without(t)) = Len(waiters) - 1
          /\ \A i \in 1 .. n - 1 : Without(t)[i] = waiters[i]
      BY <2>1, <2>2, <2>3, <2>4, SMTT(30)
    <3>2. ASSUME NEW i \in n + 1 .. Len(waiters)
          PROVE  Without(t)[i - 1] = waiters[i]
      <4>1. i - n \in 1 .. Len(waiters) - n /\ n + (i - n) = i
        BY <2>1
      <4>2. right[i - n] = waiters[i]
        BY <2>4, <4>1
      <4>3. Without(t)[i - 1] = right[i - n]
        BY <2>1, <2>2, <2>3, <2>4
      <4> QED BY <4>2, <4>3
    <3> QED BY <3>1, <3>2
  <2>6. ASSUME NEW i \in 1 .. Len(waiters), waiters[i] # t
        PROVE  \E k \in 1 .. Len(Without(t)) : Without(t)[k] = waiters[i]
    <3>1. CASE i < n
      BY <2>1, <2>5, <3>1
    <3>2. CASE i > n
      <4>1. i - 1 \in 1 .. Len(Without(t)) /\ Without(t)[i - 1] = waiters[i]
        BY <2>1, <2>5, <3>2
      <4> QED BY <4>1
    <3> QED BY <2>1, <2>6, <3>1, <3>2
  <2> QED BY <2>5, <2>6
<1> QED BY <1>1, <1>2

-----------------------------------------------------------------------------
(* The queue *)

LEMMA QueueStep == ASSUME Parameters, Inv, [Next]_vars PROVE QueueInv'
<1> USE DEF Inv
<1>0. /\ at \in [Thread -> Doing] /\ waiters \in Seq(Thread) /\ Queued
      /\ NobodyMissesResult /\ WorkerSeesPending
      /\ Worker \in Thread /\ Threads \subseteq Thread /\ Worker \notin Threads
  BY DEF Parameters, QueueInv, NobodyOversleeps, Thread
<1>1. ASSUME NEW t \in Threads, Submit(t) PROVE QueueInv'
  <2>1. Awakens(at) /\ Notify(at)
    BY <1>0, <1>1 DEF Submit, Awakens
  <2>2. /\ at' \in [Thread -> Doing] /\ waiters' \in Seq(Thread) /\ Queued'
        /\ \A x \in Thread : at'[x] = at[x] \/ (at[x] = "waiting" /\ at'[x] = "loop")
        /\ waiters # <<>> /\ Head(waiters) \in Thread => at'[Head(waiters)] # "waiting"
        /\ waiters = <<>> => \A x \in Thread : at'[x] # "waiting"
    BY <2>1, NotifyWakesHead
  <2>3. NobodyMissesResult'
    BY <1>0, <1>1, <2>2 DEF Submit, NobodyMissesResult
  <2>4. WorkerSeesPending'
    BY <1>0, <1>1, <2>2 DEF Submit, WorkerSeesPending
  <2> QED BY <2>2, <2>3, <2>4 DEF QueueInv, NobodyOversleeps
<1>2. ASSUME NEW f, Awakens(f), NotifyAll(f) PROVE QueueInv'
  <2>1. /\ at' \in [Thread -> Doing] /\ waiters' \in Seq(Thread) /\ Queued'
        /\ \A x \in Thread : at'[x] # "waiting"
    BY <1>2, NotifyAllWakes
  <2> QED BY <1>0, <2>1 DEF QueueInv, NobodyOversleeps, NobodyMissesResult, WorkerSeesPending
<1>3. ASSUME NEW t \in Threads, Close(t) PROVE QueueInv'
  <2>1. Awakens([at EXCEPT ![t] = "joining"])
    BY <1>0 DEF Awakens, Doing
  <2> QED BY <1>2, <1>3, <2>1 DEF Close
<1>4. CASE Publish
  <2>1. Awakens([at EXCEPT ![Worker] = "loop"])
    BY <1>0 DEF Awakens, Doing
  <2> QED BY <1>2, <1>4, <2>1 DEF Publish
<1>5. CASE WorkerFails
  <2>1. Awakens([at EXCEPT ![Worker] = "dead"])
    BY <1>0 DEF Awakens, Doing
  <2> QED BY <1>2, <1>5, <2>1 DEF WorkerFails
<1>6. ASSUME NEW t \in Threads, WaitEnds(t) \/ WaitGivesUp(t) PROVE QueueInv'
  <2>1. /\ at' = [at EXCEPT ![t] = "idle"] /\ waiters' = Without(t)
        /\ latest' # None \/ closed' => latest # None \/ closed
        /\ pending' = pending /\ stolen' = stolen
    BY <1>6 DEF WaitEnds, WaitGivesUp, TakeLatest, slots, history
  <2>2. at' \in [Thread -> Doing] /\ waiters' \in Seq(Thread)
    BY <1>0, <2>1, WithoutKeeps DEF Doing
  <2>3. ASSUME NEW x \in Thread, at'[x] = "waiting"
        PROVE  \E k \in 1 .. Len(waiters') : waiters'[k] = x
    <3>1. x # t /\ at[x] = "waiting"
      BY <1>0, <2>1, <2>3
    <3>2. PICK i \in 1 .. Len(waiters) : waiters[i] = x
      BY <1>0, <3>1 DEF Queued
    <3> QED BY <1>0, <2>1, <3>1, <3>2, WithoutKeeps
  <2>4. NobodyOversleeps'
    BY <1>0, <2>1 DEF NobodyOversleeps, NobodyMissesResult, WorkerSeesPending
  <2> QED BY <2>2, <2>3, <2>4 DEF QueueInv, Queued
<1>7. ASSUME NEW x \in Thread,
             at' = [at EXCEPT ![x] = "waiting"], waiters' = Append(waiters, x),
             latest = None \/ x = Worker, ~closed, pending = None \/ x # Worker,
             UNCHANGED <<slots, history>>
      PROVE  QueueInv'
  <2>1. at' \in [Thread -> Doing] /\ waiters' \in Seq(Thread)
    BY <1>0, <1>7 DEF Doing
  <2>2. /\ Len(waiters') = Len(waiters) + 1 /\ waiters'[Len(waiters) + 1] = x
        /\ \A i \in 1 .. Len(waiters) : waiters'[i] = waiters[i]
        /\ Len(waiters) \in Nat
    BY <1>0, <1>7
  <2>3. ASSUME NEW y \in Thread, at'[y] = "waiting"
        PROVE  \E i \in 1 .. Len(waiters') : waiters'[i] = y
    <3>1. CASE y = x
      BY <2>2, <3>1
    <3>2. CASE y # x
      <4>1. PICK i \in 1 .. Len(waiters) : waiters[i] = y
        BY <1>0, <1>7, <2>3, <3>2 DEF Queued
      <4> QED BY <2>2, <4>1
    <3> QED BY <3>1, <3>2
  <2>4. NobodyOversleeps'
    BY <1>0, <1>7 DEF NobodyOversleeps, NobodyMissesResult, WorkerSeesPending, slots, history
  <2> QED BY <2>1, <2>3, <2>4 DEF QueueInv, Queued
<1>8. ASSUME NEW t \in Threads, WaitSleeps(t) PROVE QueueInv'
  BY <1>0, <1>7, <1>8 DEF WaitSleeps
<1>9. CASE WorkerWaits
  BY <1>0, <1>7, <1>9 DEF WorkerWaits
<1>10. ASSUME NEW x \in Thread, NEW d \in Doing \ {"waiting"},
              at' = [at EXCEPT ![x] = d], waiters' = waiters,
              pending' = None \/ pending' = pending,
              UNCHANGED <<latest, closed, stolen>>
       PROVE  QueueInv'
  BY <1>0, <1>10 DEF QueueInv, Queued, NobodyOversleeps, NobodyMissesResult, WorkerSeesPending
<1>11. ASSUME NEW t \in Threads, Timeout(t) \/ CloseReturns(t) PROVE QueueInv'
  BY <1>0, <1>10, <1>11 DEF Timeout, CloseReturns, slots, history, Doing
<1>12. CASE WorkerStops \/ WorkerTakes \/ Produce
  BY <1>0, <1>10, <1>12 DEF WorkerStops, WorkerTakes, Produce, slots, history, Doing
<1>13. ASSUME UNCHANGED <<at, waiters, pending, closed, stolen>>, latest' \in {latest, None}
       PROVE  QueueInv'
  BY <1>0, <1>13 DEF QueueInv, Queued, NobodyOversleeps, NobodyMissesResult, WorkerSeesPending
<1>14. ASSUME NEW t \in Threads, PollLatest(t) PROVE QueueInv'
  BY <1>13, <1>14 DEF PollLatest, TakeLatest
<1>15. CASE UNCHANGED vars
  BY <1>13, <1>15 DEF vars
<1> QED BY <1>1, <1>3, <1>4, <1>5, <1>6, <1>8, <1>9, <1>11, <1>12, <1>14, <1>15
        DEF Next, WorkerStep

-----------------------------------------------------------------------------
(* The slots and the tracker *)

\* Where the worker was not busy it is not after a wake-up, and the other way round.
Busy(f) == f[Worker] \in {"producing", "publishing", "failing"}

\* Steps of clients leave the worker to its frame.
LEMMA ClientsLeaveWorker ==
  ASSUME Parameters, QueueInv, NEW t \in Threads,
         \/ Submit(t) \/ PollLatest(t) \/ Close(t) \/ CloseReturns(t)
         \/ WaitEnds(t) \/ WaitSleeps(t) \/ Timeout(t) \/ WaitGivesUp(t)
  PROVE  \/ at'[Worker] = at[Worker]
         \/ at[Worker] = "waiting" /\ at'[Worker] = "loop"
<1>0. at \in [Thread -> Doing] /\ t # Worker /\ t \in Thread /\ Worker \in Thread
  BY DEF Parameters, QueueInv, Thread
<1>1. CASE Submit(t)
  <2>1. Awakens(at) /\ Notify(at)
    BY <1>0, <1>1 DEF Submit, Awakens
  <2> QED BY <1>0, <2>1, NotifyWakesHead
<1>2. CASE Close(t)
  <2> DEFINE f == [at EXCEPT ![t] = "joining"]
  <2>1. f[Worker] = at[Worker] /\ Awakens(f) /\ NotifyAll(f)
    BY <1>0, <1>2 DEF Close, Awakens, Doing
  <2> HIDE DEF f
  <2> QED BY <1>0, <2>1, NotifyAllWakes
<1> QED BY <1>0, <1>1, <1>2
        DEF PollLatest, CloseReturns, WaitEnds, WaitSleeps, Timeout, WaitGivesUp

\* After a notify_all of the worker it goes on as f says.
LEMMA WorkerGoesOn ==
  ASSUME QueueInv, NEW d \in Doing \ {"waiting"}, at[Worker] # "waiting",
         NotifyAll([at EXCEPT ![Worker] = d])
  PROVE  at'[Worker] = d
<1>1. at \in [Thread -> Doing] /\ Worker \in Thread
  BY DEF QueueInv, Thread
<1>2. Awakens([at EXCEPT ![Worker] = d])
  BY <1>1 DEF Awakens
<1> QED BY <1>1, <1>2, NotifyAllWakes

LEMMA SlotsStep == ASSUME Parameters, Inv, [Next]_vars PROVE SlotsInv'
<1> USE DEF None
<1>0. QueueInv /\ SlotsInv /\ at \in [Thread -> Doing] /\ Worker \in Thread
  BY DEF Inv, QueueInv, Thread
<1>1. ASSUME NEW t \in Threads,
             \/ Submit(t) \/ PollLatest(t) \/ Close(t) \/ CloseReturns(t)
             \/ WaitEnds(t) \/ WaitSleeps(t) \/ Timeout(t) \/ WaitGivesUp(t)
      PROVE  SlotsInv'
  <2>1. Busy(at)' <=> Busy(at)
    BY <1>0, <1>1, ClientsLeaveWorker DEF Busy
  <2>2. CASE Submit(t)
    <3>1. /\ sequence' = sequence + 1 /\ pending' = sequence + 1 /\ sequence < MaxFrames
          /\ dropped' = IF pending = None THEN dropped ELSE dropped + 1
          /\ stolen' \in BOOLEAN
          /\ UNCHANGED <<latest, closed, error, working, taken, done>>
      BY <1>0, <2>2 DEF Submit, SlotsInv
    <3>2. EveryFrameCounted'
      BY <1>0, <3>1 DEF SlotsInv, EveryFrameCounted, InSlot
    <3>3. ResultsAreNewer' /\ Submitted'
      BY <1>0, <3>1 DEF SlotsInv, ResultsAreNewer, Submitted
    <3> QED BY <1>0, <2>1, <3>1, <3>2, <3>3 DEF Parameters, SlotsInv, WorkerHolds, Busy
  <2>3. ASSUME UNCHANGED <<pending, sequence, dropped, working, done, error, stolen>>,
               closed' \in BOOLEAN,
               \/ latest' = latest /\ taken' = taken
               \/ TakeLatest
        PROVE  SlotsInv'
    <3>1. ResultsAreNewer' /\ Submitted' /\ latest' \in Nat /\ taken' \in Nat
      BY <1>0, <2>3 DEF TakeLatest, SlotsInv, ResultsAreNewer, Submitted
    <3> QED BY <1>0, <2>1, <2>3, <3>1
            DEF SlotsInv, EveryFrameCounted, InSlot, WorkerHolds, Busy
  <2> QED BY <1>0, <1>1, <2>2, <2>3
          DEF PollLatest, Close, CloseReturns, WaitEnds, WaitSleeps, Timeout, WaitGivesUp,
              SlotsInv, slots, history
<1>2. CASE WorkerTakes
  <2>1. /\ working' = pending /\ pending' = None /\ pending # None /\ working = None
        /\ Busy(at)'
        /\ UNCHANGED <<latest, closed, error, sequence, dropped, done, taken, stolen>>
    BY <1>0, <1>2 DEF WorkerTakes, history, SlotsInv, WorkerHolds, Busy, Doing
  <2>2. EveryFrameCounted' /\ ResultsAreNewer' /\ Submitted'
    BY <1>0, <2>1 DEF SlotsInv, EveryFrameCounted, InSlot, ResultsAreNewer, Submitted
  <2> QED BY <1>0, <2>1, <2>2 DEF SlotsInv, WorkerHolds, Busy
<1>3. CASE Publish \/ WorkerFails
  <2>1. ~Busy(at)'
    BY <1>0, <1>3, WorkerGoesOn DEF Publish, WorkerFails, Busy, Doing
  <2>2. /\ working # None /\ working' = None /\ done' = done + 1
        /\ latest' \in {latest, working}
        /\ closed' \in BOOLEAN /\ error' \in BOOLEAN
        /\ UNCHANGED <<pending, sequence, dropped, taken, stolen>>
    BY <1>0, <1>3 DEF Publish, WorkerFails, SlotsInv, WorkerHolds
  <2>3. EveryFrameCounted' /\ ResultsAreNewer' /\ Submitted'
    BY <1>0, <2>2 DEF SlotsInv, EveryFrameCounted, InSlot, ResultsAreNewer, Submitted
  <2> QED BY <1>0, <2>1, <2>2, <2>3 DEF SlotsInv, WorkerHolds, Busy
<1>4. CASE WorkerWaits \/ WorkerStops \/ Produce
  <2>1. Busy(at)' <=> Busy(at)
    BY <1>0, <1>4 DEF WorkerWaits, WorkerStops, Produce, Busy, Doing
  <2>2. UNCHANGED <<slots, working, history>>
    BY <1>4 DEF WorkerWaits, WorkerStops, Produce
  <2> QED BY <1>0, <2>1, <2>2
          DEF SlotsInv, EveryFrameCounted, InSlot, ResultsAreNewer, Submitted, WorkerHolds,
              Busy, slots, history
<1>5. CASE UNCHANGED vars
  BY <1>0, <1>5
     DEF vars, SlotsInv, EveryFrameCounted, InSlot, ResultsAreNewer, Submitted, WorkerHolds
<1> QED BY <1>1, <1>2, <1>3, <1>4, <1>5 DEF Next, WorkerStep

LEMMA TrackerStep == ASSUME Parameters, Inv, [Next]_vars PROVE TrackerInv'
<1>0. /\ QueueInv /\ TrackerInv /\ done \in Nat
      /\ at \in [Thread -> Doing] /\ Worker \in Thread
  BY DEF Inv, QueueInv, SlotsInv, Thread
<1>1. ASSUME tracker' = tracker, done' = done,
             at'[Worker] \in {"publishing", "failing"} <=> at[Worker] \in {"publishing", "failing"}
      PROVE  TrackerInv'
  BY <1>0, <1>1 DEF TrackerInv
<1>2. ASSUME NEW t \in Threads,
             \/ Submit(t) \/ PollLatest(t) \/ Close(t) \/ CloseReturns(t)
             \/ WaitEnds(t) \/ WaitSleeps(t) \/ Timeout(t) \/ WaitGivesUp(t)
      PROVE  TrackerInv'
  <2>1. tracker' = tracker /\ done' = done
    BY <1>2 DEF Submit, PollLatest, Close, CloseReturns, WaitEnds, WaitSleeps, Timeout,
                WaitGivesUp, TakeLatest, history
  <2> QED BY <1>0, <1>1, <1>2, <2>1, ClientsLeaveWorker
<1>3. CASE WorkerWaits \/ WorkerStops \/ WorkerTakes
  <2>1. tracker' = tracker /\ done' = done
    BY <1>3 DEF WorkerWaits, WorkerStops, WorkerTakes, history
  <2>2. /\ at[Worker] \notin {"publishing", "failing"}
        /\ at'[Worker] \notin {"publishing", "failing"}
    BY <1>0, <1>3 DEF WorkerWaits, WorkerStops, WorkerTakes
  <2> QED BY <1>1, <2>1, <2>2
<1>4. CASE Publish \/ WorkerFails
  <2>1. tracker' = tracker /\ done' = done + 1
    BY <1>4 DEF Publish, WorkerFails
  <2>2. /\ at[Worker] \in {"publishing", "failing"}
        /\ at'[Worker] \notin {"publishing", "failing"}
    BY <1>0, <1>4, WorkerGoesOn DEF Publish, WorkerFails, Doing
  <2> QED BY <1>0, <2>1, <2>2 DEF TrackerInv
<1>5. CASE Produce
  <2>1. PICK found \in BOOLEAN : UpdateRoi(working, found)
    BY <1>5 DEF Produce
  <2>2. /\ done' = done /\ at[Worker] = "producing"
        /\ at'[Worker] \in {"publishing", "failing"}
    BY <1>0, <1>5 DEF Produce, history
  <2>3. Misses \in 0 .. MaximumMissed + 2
    BY <1>0 DEF Parameters, TrackerInv, Misses
  <2>4. /\ tracker' \in [box : BOOLEAN, missed : 0 .. MaximumMissed + 2, unfound : Nat]
        /\ tracker'.unfound <= tracker.unfound + 1
    <3>1. CASE KeepsBox(working)
      BY <1>0, <2>1, <3>1 DEF TrackerInv, UpdateRoi
    <3>2. CASE ~KeepsBox(working) /\ found
      <4>1. tracker' = [box |-> TRUE, missed |-> 0, unfound |-> 0]
        BY <2>1, <3>2 DEF UpdateRoi
      <4> QED BY <1>0, <4>1 DEF Parameters, TrackerInv
    <3>3. CASE ~KeepsBox(working) /\ ~found
      <4>1. tracker' = [box |-> tracker.box /\ Endures(Misses), missed |-> Misses,
                        unfound |-> tracker.unfound + 1]
        BY <2>1, <3>3 DEF UpdateRoi
      <4>2. (tracker.box /\ Endures(Misses)) \in BOOLEAN /\ tracker.unfound \in Nat
        BY <1>0 DEF TrackerInv, Endures
      <4> QED BY <2>3, <4>1, <4>2
    <3> QED BY <3>1, <3>2, <3>3
  <2> QED BY <1>0, <2>2, <2>4 DEF TrackerInv
<1>6. CASE UNCHANGED vars
  BY <1>1, <1>6 DEF vars
<1> QED BY <1>2, <1>3, <1>4, <1>5, <1>6 DEF Next, WorkerStep

LEMMA InitInv == ASSUME Parameters, Init PROVE Inv
<1>1. at \in [Thread -> Doing] /\ \A x \in Thread : at[x] # "waiting"
  BY DEF Init, Thread, Doing
<1>2. QueueInv
  BY <1>1 DEF Init, QueueInv, Queued, NobodyOversleeps, NobodyMissesResult, WorkerSeesPending,
              Thread, None
<1>3. at[Worker] = "loop"
  BY DEF Init
<1>4. SlotsInv
  <2>1. /\ pending = 0 /\ latest = 0 /\ working = 0 /\ taken = 0
        /\ sequence = 0 /\ dropped = 0 /\ done = 0
        /\ closed = FALSE /\ error = FALSE /\ stolen = FALSE
    BY DEF Init, None
  <2>2. EveryFrameCounted /\ ResultsAreNewer /\ Submitted
    BY <2>1 DEF EveryFrameCounted, InSlot, ResultsAreNewer, Submitted, None
  <2>3. WorkerHolds
    BY <1>3, <2>1 DEF WorkerHolds, None
  <2>4. sequence \in 0 .. MaxFrames
    BY <2>1 DEF Parameters
  <2> QED BY <2>1, <2>2, <2>3, <2>4 DEF SlotsInv
<1>5. TrackerInv
  BY <1>3 DEF Init, Parameters, TrackerInv, NewTracker
<1> QED BY <1>2, <1>4, <1>5 DEF Inv

LEMMA InvStep == ASSUME Parameters, Inv, [Next]_vars PROVE Inv'
BY QueueStep, SlotsStep, TrackerStep DEF Inv

-----------------------------------------------------------------------------
(* Theorems *)

(***************************************************************************)
(* The counters and slots of the runtime keep to their types and bounds,   *)
(* and the tracker counts no more frames than the worker has handled.      *)
(***************************************************************************)
THEOREM TypesAreRight == ASSUME Parameters PROVE Spec => []TypeOK
<1>1. Init => Inv
  BY InitInv
<1>2. Inv /\ [Next]_vars => Inv'
  BY InvStep
<1>3. Inv => TypeOK
  <2> SUFFICES ASSUME Inv PROVE TypeOK
    OBVIOUS
  <2>1. /\ pending \in Nat /\ latest \in Nat /\ working \in Nat /\ taken \in Nat
        /\ sequence \in 0 .. MaxFrames /\ dropped \in Nat /\ done \in Nat
        /\ pending <= sequence /\ working <= sequence /\ latest <= sequence /\ taken <= sequence
    BY DEF Inv, SlotsInv, Submitted
  <2>2. /\ pending \in 0 .. MaxFrames /\ latest \in 0 .. MaxFrames
        /\ working \in 0 .. MaxFrames /\ taken \in 0 .. MaxFrames
    BY <2>1 DEF Parameters
  <2>3. InSlot(pending) \in Nat /\ InSlot(working) \in Nat
    BY DEF InSlot
  <2>4. dropped + done + InSlot(working) <= MaxFrames
    BY <2>1, <2>3 DEF Inv, SlotsInv, EveryFrameCounted, Parameters
  <2>5. dropped \in 0 .. MaxFrames /\ done \in 0 .. MaxFrames
    BY <2>1, <2>3, <2>4 DEF Parameters
  <2>6. tracker.unfound <= done + InSlot(working)
    BY <2>1 DEF Inv, SlotsInv, WorkerHolds, TrackerInv, InSlot
  <2>7. tracker \in [box : BOOLEAN, missed : 0 .. MaximumMissed + 2, unfound : 0 .. MaxFrames]
    BY <2>1, <2>3, <2>4, <2>6 DEF Inv, TrackerInv, Parameters
  <2>8. {pending, latest, working, taken} \subseteq Frames \union {None}
    BY <2>2 DEF Frames, None, Parameters
  <2> QED BY <2>1, <2>5, <2>7, <2>8 DEF Inv, QueueInv, SlotsInv, TypeOK, Thread, Doing
<1> QED BY <1>1, <1>2, <1>3, PTL DEF Spec

(***************************************************************************)
(* Nobody sleeps in wait_latest past a result, a close or an error, and    *)
(* the worker not beside a frame, but where a submit's notify went to      *)
(* somebody else: for any number of clients, timeouts and frames.          *)
(***************************************************************************)
THEOREM NobodyEverOversleeps == ASSUME Parameters PROVE Spec => []NobodyOversleeps
<1>1. Init => Inv
  BY InitInv
<1>2. Inv /\ [Next]_vars => Inv'
  BY InvStep
<1>3. Inv => NobodyOversleeps
  BY DEF Inv, QueueInv
<1> QED BY <1>1, <1>2, <1>3, PTL DEF Spec

(***************************************************************************)
(* submitted_frames and dropped_frames, as telemetry_snapshot reports      *)
(* them, leave no frame out and count none twice.                          *)
(***************************************************************************)
THEOREM FramesAreCounted == ASSUME Parameters PROVE Spec => []EveryFrameCounted
<1>1. Init => Inv
  BY InitInv
<1>2. Inv /\ [Next]_vars => Inv'
  BY InvStep
<1>3. Inv => EveryFrameCounted
  BY DEF Inv, SlotsInv
<1> QED BY <1>1, <1>2, <1>3, PTL DEF Spec

(***************************************************************************)
(* The results that poll_latest and wait_latest hand out are of ever newer *)
(* frames, whichever client takes them.                                    *)
(***************************************************************************)
THEOREM ResultsGetNewer == ASSUME Parameters PROVE Spec => []ResultsAreNewer
<1>1. Init => Inv
  BY InitInv
<1>2. Inv /\ [Next]_vars => Inv'
  BY InvStep
<1>3. Inv => ResultsAreNewer
  BY DEF Inv, SlotsInv
<1> QED BY <1>1, <1>2, <1>3, PTL DEF Spec

-----------------------------------------------------------------------------
(* The tracker and the numbers of the frames *)

LEMMA DivisionNamed ==
  ASSUME NEW n \in Nat, NEW d \in Nat \ {0}, NEW q \in Int, NEW r \in Int,
         q = n \div d, r = n % d
  PROVE  n = d * q + r /\ r \in 0 .. d - 1
OBVIOUS

LEMMA RemainderNamed ==
  ASSUME NEW n \in Nat, NEW d \in Nat \ {0}, NEW q \in Int, NEW r \in Nat, r < d, n = d * q + r
  PROVE  n % d = r
OBVIOUS

LEMMA Distributed == ASSUME NEW m \in Nat, NEW d \in Nat PROVE (m + 1) * d = m * d + d
OBVIOUS

\* Counting on, a remainder goes up by one or back to nothing.
LEMMA CountingOn ==
  ASSUME NEW n \in Nat, NEW d \in Nat \ {0}
  PROVE  /\ n % d \in 0 .. d - 1
         /\ (n + 1) % d = (IF (n % d) + 1 = d THEN 0 ELSE (n % d) + 1)
<1>1. PICK q \in Int, r \in Int : q = n \div d /\ r = n % d
  OBVIOUS
<1>2. n = d * q + r /\ r \in 0 .. d - 1
  BY <1>1, DivisionNamed
<1>3. CASE r + 1 = d
  <2>1. n + 1 = d * (q + 1) + 0
    <3>1. d * (q + 1) = d * q + d
      OBVIOUS
    <3> QED BY <1>2, <1>3, <3>1
  <2>2. (n + 1) % d = 0
    <3>1. PICK m \in Nat : m = n + 1
      OBVIOUS
    <3>2. PICK p \in Int : p = q + 1
      OBVIOUS
    <3>3. m = d * p + 0 /\ 0 < d
      BY <2>1, <3>1, <3>2
    <3>4. m % d = 0
      BY <3>3, RemainderNamed
    <3> QED BY <3>1, <3>4
  <2> QED BY <1>1, <1>2, <1>3, <2>2
<1>4. CASE r + 1 # d
  <2>1. n + 1 = d * q + (r + 1) /\ r + 1 \in Nat /\ r + 1 < d
    BY <1>2, <1>4
  <2>2. (n + 1) % d = r + 1
    <3>1. PICK m \in Nat : m = n + 1
      OBVIOUS
    <3>2. PICK s \in Nat : s = r + 1
      BY <2>1
    <3>3. m = d * q + s /\ s < d
      BY <2>1, <3>1, <3>2
    <3>4. m % d = s
      BY <3>3, RemainderNamed
    <3> QED BY <3>1, <3>2, <3>4
  <2> QED BY <1>1, <1>2, <1>4, <2>2
<1> QED BY <1>3, <1>4

RoiParameters == Parameters /\ DetectionInterval \in Nat \ {0}

\* The frames the tracker has seen: those done and the one it has just been given.
Tracked == at[Worker] \in {"publishing", "failing"}
Seen == IF Tracked THEN done + 1 ELSE done

\* Without drops the worker gets the frames one after the other, and the frames since the
\* last that had a face are what was missed at the multiples of the interval and the frames
\* after the last of those.
RoiInv ==
    /\ pending \in {None, sequence}
    /\ dropped = 0 /\ working # None => working = done + 1
    /\ dropped = 0 /\ tracker.box =>
          /\ tracker.missed <= MaximumMissed
          /\ tracker.unfound <= tracker.missed * DetectionInterval + (Seen % DetectionInterval)

\* A detection that finds no face misses one interval more.
LEMMA MissIsCounted ==
  ASSUME RoiParameters, TrackerInv, NEW n \in Nat, NEW found \in BOOLEAN,
         tracker.box => /\ tracker.missed <= MaximumMissed
                        /\ tracker.unfound <= tracker.missed * DetectionInterval
                                                + (n % DetectionInterval),
         UpdateRoi(n + 1, found), tracker'.box
  PROVE  /\ tracker'.missed <= MaximumMissed
         /\ tracker'.unfound <= tracker'.missed * DetectionInterval
                                  + ((n + 1) % DetectionInterval)
<1>0. /\ DetectionInterval \in Nat \ {0} /\ MaximumMissed \in Nat
      /\ tracker \in [box : BOOLEAN, missed : 0 .. MaximumMissed + 2, unfound : Nat]
      /\ tracker.missed \in Nat /\ tracker.unfound \in Nat
  BY DEF RoiParameters, Parameters, TrackerInv
<1>1. /\ n % DetectionInterval \in 0 .. DetectionInterval - 1
      /\ (n + 1) % DetectionInterval = (IF (n % DetectionInterval) + 1 = DetectionInterval THEN 0
                                        ELSE (n % DetectionInterval) + 1)
  BY <1>0, CountingOn
<1>2. CASE KeepsBox(n + 1)
  <2>1. tracker.box /\ (n + 1) % DetectionInterval # 0
    BY <1>2 DEF KeepsBox
  <2>2. tracker'.missed = tracker.missed /\ tracker'.unfound = tracker.unfound + 1
    BY <1>0, <1>2 DEF UpdateRoi
  <2>3. (n + 1) % DetectionInterval = (n % DetectionInterval) + 1
    BY <1>1, <2>1
  <2> DEFINE p == tracker.missed * DetectionInterval
             r == n % DetectionInterval
  <2>4. p \in Nat /\ r \in Nat
    BY <1>0, <1>1
  <2>5. tracker.unfound <= p + r /\ tracker.missed <= MaximumMissed
    BY <2>1, Zenon
  <2>6. tracker'.missed * DetectionInterval = p /\ (n + 1) % DetectionInterval = r + 1
    BY <2>2, <2>3
  <2> HIDE DEF p, r
  <2>7. tracker.unfound + 1 <= p + (r + 1)
    BY <1>0, <2>4, <2>5
  <2> QED BY <2>2, <2>5, <2>6, <2>7, Zenon
<1>3. CASE ~KeepsBox(n + 1) /\ found
  <2>1. tracker' = [box |-> TRUE, missed |-> 0, unfound |-> 0]
    BY <1>3 DEF UpdateRoi
  <2>2. tracker'.missed = 0 /\ tracker'.unfound = 0 /\ 0 * DetectionInterval = 0
    BY <1>0, <2>1
  <2> QED BY <1>0, <1>1, <2>2
<1>4. CASE ~KeepsBox(n + 1) /\ ~found
  <2>1. tracker' = [box |-> tracker.box /\ Endures(Misses), missed |-> Misses,
                    unfound |-> tracker.unfound + 1]
    BY <1>4 DEF UpdateRoi
  <2>2. tracker.box /\ Endures(Misses) /\ tracker'.missed = Misses
        /\ tracker'.unfound = tracker.unfound + 1
    BY <2>1
  <2>3. (n + 1) % DetectionInterval = 0
    BY <1>4, <2>2 DEF KeepsBox
  <2>4. (n % DetectionInterval) + 1 = DetectionInterval
    BY <1>0, <1>1, <2>3
  <2>5. Misses = tracker.missed + 1 /\ Misses <= MaximumMissed
    BY <1>0, <2>2 DEF Misses, Endures
  <2>6. Misses * DetectionInterval = tracker.missed * DetectionInterval + DetectionInterval
    BY <1>0, <2>5, Distributed
  <2> DEFINE p == tracker.missed * DetectionInterval
             r == n % DetectionInterval
  <2>7. p \in Nat /\ r \in Nat /\ r + 1 = DetectionInterval
    BY <1>0, <1>1, <2>4
  <2>8. tracker.unfound <= p + r
    BY <2>2, Zenon
  <2>9. tracker'.missed * DetectionInterval = p + DetectionInterval
    BY <2>2, <2>6
  <2> HIDE DEF p, r
  <2>10. tracker.unfound + 1 <= (p + DetectionInterval) + 0
    BY <1>0, <2>7, <2>8
  <2> QED BY <2>2, <2>3, <2>5, <2>9, <2>10, Zenon
<1> QED BY <1>2, <1>3, <1>4

LEMMA RoiStep == ASSUME RoiParameters, Inv, RoiInv, [Next]_vars PROVE RoiInv'
<1> USE DEF None
<1>0. /\ Parameters /\ QueueInv /\ SlotsInv /\ TrackerInv /\ at \in [Thread -> Doing]
      /\ Worker \in Thread /\ done \in Nat /\ dropped \in Nat /\ sequence \in Nat
  BY DEF RoiParameters, Parameters, Inv, QueueInv, SlotsInv, Thread
<1>1. ASSUME tracker' = tracker, Seen' = Seen, dropped' = dropped,
             pending' \in {None, sequence'},
             working' = None \/ (working' = working /\ done' = done)
      PROVE  RoiInv'
  BY <1>1 DEF RoiInv
<1>2. ASSUME NEW t \in Threads,
             \/ Submit(t) \/ PollLatest(t) \/ Close(t) \/ CloseReturns(t)
             \/ WaitEnds(t) \/ WaitSleeps(t) \/ Timeout(t) \/ WaitGivesUp(t)
      PROVE  RoiInv'
  <2>1. UNCHANGED <<tracker, done, working>>
    BY <1>2 DEF Submit, PollLatest, Close, CloseReturns, WaitEnds, WaitSleeps, Timeout,
                WaitGivesUp, TakeLatest, history
  <2>2. Tracked' <=> Tracked
    BY <1>0, <1>2, ClientsLeaveWorker DEF Tracked
  <2>3. CASE Submit(t)
    <3>1. pending' = sequence' /\ (dropped' = 0 => dropped = 0)
      BY <1>0, <2>3 DEF Submit
    <3> QED BY <2>1, <2>2, <3>1 DEF RoiInv, Seen
  <2>4. CASE ~Submit(t)
    <3>1. UNCHANGED <<pending, sequence, dropped>>
      BY <1>2, <2>4 DEF PollLatest, Close, CloseReturns, WaitEnds, WaitSleeps, Timeout,
                        WaitGivesUp, slots
    <3> QED BY <1>1, <2>1, <2>2, <3>1 DEF RoiInv, Seen
  <2> QED BY <2>3, <2>4
<1>3. CASE WorkerWaits \/ WorkerStops
  <2>1. UNCHANGED <<pending, sequence, dropped, working, tracker, done>>
    BY <1>3 DEF WorkerWaits, WorkerStops, slots, history
  <2>2. ~Tracked /\ ~Tracked'
    BY <1>0, <1>3 DEF WorkerWaits, WorkerStops, Tracked
  <2> QED BY <1>1, <2>1, <2>2 DEF RoiInv, Seen
<1>4. CASE WorkerTakes
  <2>1. /\ UNCHANGED <<sequence, dropped, tracker, done>>
        /\ pending' = None /\ working' = pending /\ pending # None
    BY <1>4 DEF WorkerTakes, history
  <2>2. ~Tracked /\ ~Tracked' /\ working = None
    BY <1>0, <1>4 DEF WorkerTakes, Tracked, SlotsInv, WorkerHolds
  <2>3. dropped = 0 => working' = done + 1
    BY <1>0, <2>1, <2>2 DEF RoiInv, SlotsInv, EveryFrameCounted, InSlot
  <2> QED BY <2>1, <2>2, <2>3 DEF RoiInv, Seen
<1>5. CASE Publish \/ WorkerFails
  <2>1. /\ UNCHANGED <<pending, sequence, dropped, tracker>>
        /\ working' = None /\ done' = done + 1
    BY <1>5 DEF Publish, WorkerFails
  <2>2. Tracked /\ ~Tracked'
    BY <1>0, <1>5, WorkerGoesOn DEF Publish, WorkerFails, Doing, Tracked
  <2> QED BY <1>1, <2>1, <2>2 DEF RoiInv, Seen
<1>6. CASE Produce
  <2>1. PICK found \in BOOLEAN : UpdateRoi(working, found)
    BY <1>6 DEF Produce
  <2>2. UNCHANGED <<pending, sequence, dropped, working, done>> /\ ~Tracked /\ Tracked'
    BY <1>0, <1>6 DEF Produce, slots, history, Tracked
  <2>3. working # None
    BY <1>0, <1>6 DEF Produce, SlotsInv, WorkerHolds
  <2>4. ASSUME dropped = 0, tracker'.box
        PROVE  /\ tracker'.missed <= MaximumMissed
               /\ tracker'.unfound <= tracker'.missed * DetectionInterval
                                        + ((done + 1) % DetectionInterval)
    <3>1. UpdateRoi(done + 1, found)
      BY <2>1, <2>3, <2>4 DEF RoiInv
    <3>2. Seen = done
      BY <2>2 DEF Seen
    <3> QED BY <1>0, <2>4, <3>1, <3>2, MissIsCounted DEF RoiInv
  <2>5. Seen' = done + 1
    BY <2>2 DEF Seen
  <2> QED BY <2>2, <2>4, <2>5 DEF RoiInv
<1>7. CASE UNCHANGED vars
  BY <1>1, <1>7 DEF vars, RoiInv, Seen, Tracked
<1> QED BY <1>2, <1>3, <1>4, <1>5, <1>6, <1>7 DEF Next, WorkerStep

(***************************************************************************)
(* As long as no frame is dropped the producer is given no box that the    *)
(* detector has not confirmed for maximum_missed + 1 intervals, whatever   *)
(* the interval and the misses allowed.                                    *)
(***************************************************************************)
THEOREM RoiIsAlwaysConfirmed == ASSUME RoiParameters PROVE Spec => []RoiIsConfirmed
<1>1. Init => Inv /\ RoiInv
  <2>1. Init => RoiInv
    BY DEF Init, RoiInv, NewTracker, None
  <2> QED BY <2>1, InitInv DEF RoiParameters
<1>2. Inv /\ RoiInv /\ [Next]_vars => Inv' /\ RoiInv'
  BY InvStep, RoiStep DEF RoiParameters
<1>3. Inv /\ RoiInv => RoiIsConfirmed
  <2> SUFFICES ASSUME Inv, RoiInv, dropped = 0, tracker.box
               PROVE  tracker.unfound < (MaximumMissed + 1) * DetectionInterval
    BY DEF RoiIsConfirmed
  <2>1. /\ DetectionInterval \in Nat \ {0} /\ MaximumMissed \in Nat
        /\ tracker.missed \in Nat /\ tracker.unfound \in Nat /\ Seen \in Nat
        /\ tracker.missed <= MaximumMissed
    BY DEF RoiParameters, Parameters, RoiInv, Inv, TrackerInv, SlotsInv, Seen
  <2>2. tracker.unfound <= tracker.missed * DetectionInterval + (Seen % DetectionInterval)
    BY DEF RoiInv
  <2>3. Seen % DetectionInterval < DetectionInterval /\ Seen % DetectionInterval \in Nat
    BY <2>1, CountingOn
  <2>4. tracker.missed * DetectionInterval <= MaximumMissed * DetectionInterval
    BY <2>1
  <2>5. (MaximumMissed + 1) * DetectionInterval
          = MaximumMissed * DetectionInterval + DetectionInterval
    BY <2>1, Distributed
  <2>6. /\ tracker.missed * DetectionInterval \in Nat /\ MaximumMissed * DetectionInterval \in Nat
        /\ (MaximumMissed + 1) * DetectionInterval \in Nat
    BY <2>1
  <2> QED BY <2>1, <2>2, <2>3, <2>4, <2>5, <2>6
<1> QED BY <1>1, <1>2, <1>3, PTL DEF Spec
=============================================================================
