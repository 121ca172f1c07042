----------------------------- MODULE CompactStream -----------------------------
(***************************************************************************)
(* The live data plane of the tracking protocol (compact.rs).  A producer  *)
(* and a consumer agree on a layout by proposal, acceptance and            *)
(* confirmation; the producer sends frames in it; the consumer's           *)
(* LayoutNegotiator, CompactStreamGuard and CompactRecorder decide what    *)
(* becomes of them.  The network may lose, repeat, delay and reorder       *)
(* everything: what was sent stays in a set.                               *)
(*                                                                         *)
(* A layout is its canonical hash.  The layouts here have one frame        *)
(* length, so that only the identifiers in a frame tell them apart.  A     *)
(* refused message or frame changes nothing and is no step, but for a      *)
(* proposal, which uses up the rate.  One session; the producer, which is  *)
(* outside the repository, follows ADR 0003.  LayoutConfirm names no       *)
(* generation: the host that installs the layout knows it, here from the   *)
(* message it came with.                                                   *)
(***************************************************************************)
EXTENDS Integers, Sequences, FiniteSets

CONSTANTS Layouts, LayoutIds,
          MaxU64,                    \* the largest u64
          MaxPending, MinInterval,   \* HandshakeLimits
          MaxAge, MaxSkew, MaxUncertainty, MaxGap, MaxJump,  \* CompactStreamPolicy
          MaxGeneration, MaxSequence, MaxTime, MaxDelay      \* bounds

None == -1

VARIABLES clock,       \* the producer's clock
          producer,    \* its generation, sequence and capture time of the last frame
          confirms, frames,  \* what it has sent
          accepts,     \* what the consumer has answered
          negotiator,  \* pending layouts, time of the last proposal
          guard,       \* CompactStreamGuard
          recorder,    \* the active stream; headers and frames persisted
          accepted     \* the frames accepted, each with the layout that decoded it and when

vars == <<clock, producer, confirms, frames, accepts, negotiator, guard,
          recorder, accepted>>

Layout == [id : LayoutIds, layout : Layouts]
Stream == [id : LayoutIds, layout : Layouts, generation : 1 .. MaxGeneration]
NoStream == [generation |-> 0]
Frame == [id : LayoutIds, layout : Layouts, generation : 1 .. MaxGeneration,
          sequence : 0 .. MaxSequence, capture : 0 .. MaxTime, produced : 0 .. MaxTime]

Init ==
    /\ clock = 0
    /\ producer = [generation |-> 0, sequence |-> None, capture |-> 0]
    /\ confirms = {} /\ frames = {} /\ accepts = {}
    /\ negotiator = [pending |-> {}, last |-> None]
    /\ guard = [stream |-> NoStream, last |-> None, capture |-> None]
    /\ recorder = [active |-> NoStream, headers |-> {}, frames |-> {}]
    /\ accepted = <<>>

-----------------------------------------------------------------------------
(* The producer *)

Tick ==
    /\ clock < MaxTime /\ clock' = clock + 1
    /\ UNCHANGED <<producer, confirms, frames, accepts, negotiator, guard,
                   recorder, accepted>>

\* It confirms an accepted layout and starts a generation in it.
SendConfirm(a) ==
    /\ producer.generation < MaxGeneration
    /\ LET g == producer.generation + 1
       IN  /\ confirms' = confirms \union {[id |-> a.id, layout |-> a.layout, generation |-> g]}
           /\ producer' = [generation |-> g, sequence |-> None, capture |-> 0]
    /\ UNCHANGED <<clock, frames, accepts, negotiator, guard, recorder, accepted>>

\* A frame captured at time t, in the layout of the present generation.
SendFrame(c, t) ==
    /\ c.generation = producer.generation
    /\ producer.sequence < MaxSequence
    /\ producer.capture <= t /\ clock - MaxDelay <= t /\ t <= clock
    /\ frames' = frames \union
          {[id |-> c.id, layout |-> c.layout, generation |-> c.generation,
            sequence |-> producer.sequence + 1, capture |-> t, produced |-> clock]}
    /\ producer' = [producer EXCEPT !.sequence = @ + 1, !.capture = t]
    /\ UNCHANGED <<clock, confirms, accepts, negotiator, guard, recorder, accepted>>

-----------------------------------------------------------------------------
(* LayoutNegotiator *)

RateLimited == negotiator.last # None /\ clock - negotiator.last < MinInterval

Retains(l) ==
    /\ Cardinality(negotiator.pending) < MaxPending
    /\ \A p \in negotiator.pending : p.id # l.id

ReceiveProposal(l) ==
    /\ ~RateLimited /\ Retains(l)
    /\ negotiator' = [pending |-> negotiator.pending \union {l}, last |-> clock]
    /\ accepts' = accepts \union {l}
    /\ UNCHANGED <<clock, producer, confirms, frames, guard, recorder, accepted>>

\* Too many are pending, or one with its id, or the layout is invalid: the rate is used up.
RefuseProposal ==
    /\ ~RateLimited
    /\ negotiator' = [negotiator EXCEPT !.last = clock]
    /\ UNCHANGED <<clock, producer, confirms, frames, accepts, guard, recorder, accepted>>

\* Variant: only the identifier is echoed.
EchoesId(c, p) == c.id = p.id

\* The confirmation of a pending layout must echo its id and its hash.
Echoes(c, p) == c.id = p.id /\ c.layout = p.layout

\* confirm, and the guard that the host makes of its result, or switches to it if the
\* generation is newer.
Confirm(c, p) ==
    /\ Echoes(c, p)
    /\ negotiator' = [negotiator EXCEPT !.pending = @ \ {p}]
    /\ guard' = IF c.generation > guard.stream.generation
                THEN [stream |-> [id |-> p.id, layout |-> p.layout, generation |-> c.generation],
                      last |-> None, capture |-> None]
                ELSE guard
    /\ UNCHANGED <<clock, producer, confirms, frames, accepts, recorder, accepted>>

-----------------------------------------------------------------------------
(* CompactStreamGuard::accept.  u64 arithmetic saturates. *)

SaturatingAdd(a, b) == IF a + b > MaxU64 THEN MaxU64 ELSE a + b
SaturatingSub(a, b) == IF a < b THEN 0 ELSE a - b

\* now is the estimate of the producer's clock, at most uncertainty away from it.
Timely(f, now, uncertainty) ==
    /\ uncertainty <= MaxUncertainty
    /\ f.capture <= SaturatingAdd(SaturatingAdd(now, MaxSkew), uncertainty)
    /\ f.produced <= SaturatingAdd(SaturatingAdd(now, MaxSkew), uncertainty)
    /\ SaturatingSub(now, f.capture) <= SaturatingAdd(MaxAge, uncertainty)

InSequence(f) ==
    guard.last # None =>
        /\ f.sequence > guard.last
        /\ SaturatingSub(SaturatingSub(f.sequence, guard.last), 1) <= MaxGap

Continues(f) ==
    guard.capture # None =>
        /\ f.capture >= guard.capture
        /\ SaturatingSub(f.capture, guard.capture) <= MaxJump

\* The layout in use decodes a frame of its length and identifier.
Decodes(s, f) ==
    f.generation = s.generation /\ f.id = s.id /\ f.capture <= f.produced

Estimates == {e \in [now : 0 .. MaxU64, uncertainty : 0 .. MaxU64] :
                  clock - e.now <= e.uncertainty /\ e.now - clock <= e.uncertainty}

\* CompactRecorder::record_frame decodes with the recorder's own layout.
Recorded(f) ==
    IF Decodes(recorder.active, f) THEN [recorder EXCEPT !.frames = @ \union {f}] ELSE recorder

\* The host hands what the guard accepts to the recorder, whose sink may fail.
Accept(f, e) ==
    /\ Decodes(guard.stream, f)
    /\ Timely(f, e.now, e.uncertainty) /\ InSequence(f) /\ Continues(f)
    /\ guard' = [guard EXCEPT !.last = f.sequence, !.capture = f.capture]
    /\ accepted' = Append(accepted, [frame |-> f, layout |-> guard.stream.layout, at |-> clock])
    /\ recorder' \in {recorder, Recorded(f)}
    /\ UNCHANGED <<clock, producer, confirms, frames, accepts, negotiator>>

-----------------------------------------------------------------------------
(* CompactRecorder::begin_layout *)

\* A sink that fails leaves the active layout as it was, whatever it has written.
BeginLayout ==
    /\ guard.stream # NoStream
    /\ \E active \in {guard.stream, recorder.active} :
          recorder' = [recorder EXCEPT !.headers = @ \union {guard.stream}, !.active = active]
    /\ UNCHANGED <<clock, producer, confirms, frames, accepts, negotiator, guard, accepted>>

Next ==
    \/ Tick \/ RefuseProposal \/ BeginLayout
    \/ \E l \in Layout : ReceiveProposal(l)
    \/ \E a \in accepts : SendConfirm(a)
    \/ \E c \in confirms, p \in negotiator.pending : Confirm(c, p)
    \/ \E c \in confirms, t \in 0 .. MaxTime : SendFrame(c, t)
    \/ \E f \in frames, e \in Estimates : Accept(f, e)

Spec == Init /\ [][Next]_vars

-----------------------------------------------------------------------------
(* Properties *)

Times == 0 .. MaxTime

TypeOK ==
    /\ clock \in Times
    /\ producer \in [generation : 0 .. MaxGeneration, sequence : None .. MaxSequence, capture : Times]
    /\ accepts \subseteq Layout
    /\ confirms \subseteq Stream /\ frames \subseteq Frame
    /\ negotiator \in [pending : SUBSET Layout, last : Times \union {None}]
    /\ guard \in [stream : Stream \union {NoStream}, last : None .. MaxSequence,
                  capture : None .. MaxTime]
    /\ recorder \in [active : Stream \union {NoStream}, headers : SUBSET Stream,
                     frames : SUBSET Frame]
    /\ accepted \in Seq([frame : Frame, layout : Layouts, at : Times])

\* f is after g: in a newer generation, or later in its own.
After(f, g) ==
    \/ f.generation > g.generation
    \/ f.generation = g.generation /\ f.sequence > g.sequence /\ f.capture >= g.capture

\* However the network repeats and reorders, each frame is accepted at most once and none
\* after a newer one.
AcceptedInOrder ==
    \A i, j \in 1 .. Len(accepted) : i < j => After(accepted[j].frame, accepted[i].frame)

\* A frame is decoded in the layout it was encoded in, although identifiers are used again
\* and confirmations arrive late.
DecodedAsEncoded ==
    \A i \in 1 .. Len(accepted) : accepted[i].layout = accepted[i].frame.layout

\* No frame is accepted whose real age exceeds the policy's by more than the estimate may
\* be wrong and the allowance the guard makes for it; saturation admits no more.
AcceptedInTime ==
    \A i \in 1 .. Len(accepted) :
        accepted[i].at - accepted[i].frame.capture <= MaxAge + 2 * MaxUncertainty

\* Every recorded frame has the one header of its generation in the recording, and that
\* header names its layout, though a sink may fail after it has written.
RecordingIsReadable ==
    \A f \in recorder.frames :
        \E h \in recorder.headers :
            /\ h.generation = f.generation /\ h.layout = f.layout
            /\ \A k \in recorder.headers : k.generation = h.generation => k = h

FramesAreSound ==
    AcceptedInOrder /\ DecodedAsEncoded /\ AcceptedInTime /\ RecordingIsReadable
=============================================================================
