------------------------------ MODULE CaptureLink ------------------------------
(***************************************************************************)
(* The capture link (crates/nana-capture-link/src/lib.rs): a device and a  *)
(* studio, each owning a CaptureLink over one authenticated session of a   *)
(* transport.  Three flows share the session: control messages on their    *)
(* own stream, sync messages on the data stream, and previews either as    *)
(* datagrams or, one at a time, behind the sync messages.                  *)
(*                                                                         *)
(* link[p] is the CaptureLink of side p; wire[p] is what p has sent in its *)
(* present session and the peer has not taken.  A stream holds at most     *)
(* StreamCap messages and then answers WouldBlock; any other transport     *)
(* error is the end of the session, after which both hosts reconnect.      *)
(* Datagrams may be lost, repeated and reordered: wire[p].datagrams only   *)
(* grows, and the peer may take any of its members at any time.            *)
(*                                                                         *)
(* A frame is its identity <<generation, sequence>>; a sync message is its *)
(* number among those its side queued in the session.  Digests, sizes and  *)
(* the envelope's session field are left out: a stream is one session's.   *)
(***************************************************************************)
EXTENDS Integers, Sequences, FiniteSets

CONSTANTS Frames,      \* the previews that may be offered, <<generation, sequence>>
          Senders,     \* the sides whose host offers previews
          Syncing,     \* the sides whose host offers sync messages
          MaxSession,  \* bound: authenticated sessions
          MaxSync,     \* bound: sync messages a side queues in one session
          ControlCap,  \* max_pending_control
          SyncCap,     \* max_pending_sync
          StreamCap    \* messages a transport stream holds

Sides == {"device", "studio"}
Modes == {"datagram", "reliable"}
Peer(p) == IF p = "device" THEN "studio" ELSE "device"

ASSUME LinkAssumption ==
    /\ Frames \subseteq Nat \X Nat
    /\ Senders \subseteq Sides /\ Syncing \subseteq Sides
    /\ {MaxSession, ControlCap, SyncCap, StreamCap} \subseteq Nat \ {0}
    /\ MaxSync \in Nat

NoFrame == <<-1, 0>>

\* The lexicographic order that both replay guards use.
Newer(f, g) == f[1] > g[1] \/ (f[1] = g[1] /\ f[2] > g[2])

Hello(m) == [kind |-> "hello", mode |-> m]
Application == [kind |-> "application"]
ControlMessages == {Hello(m) : m \in Modes} \union {Application}

Sync(n) == [kind |-> "sync", number |-> n]
Preview(f) == [kind |-> "preview", frame |-> f]
DataMessages == {Sync(n) : n \in 1 .. MaxSync} \union {Preview(f) : f \in Frames}

VARIABLES link,     \* the two CaptureLink objects
          wire,     \* what each side has sent and the peer has not taken
          session,  \* the authenticated session each side is bound to
          broken,   \* the sessions whose transport has failed
          history   \* per side, in its present session: sync messages queued
                    \* and received

vars == <<link, wire, session, broken, history>>

\* CaptureLink::new: m is datagram only when the trust record and the
\* connection allow it, which is the environment's choice.
NewLink(m) ==
    [mode |-> m, ready |-> FALSE, control |-> <<>>, sync |-> <<>>,
     slot |-> NoFrame, sent |-> NoFrame, received |-> NoFrame, replays |-> FALSE]

EmptyWire == [control |-> <<>>, data |-> <<>>, datagrams |-> {}]
NoHistory == [queued |-> 0, got |-> <<>>]

Init ==
    /\ \E m \in [Sides -> Modes] : link = [p \in Sides |-> NewLink(m[p])]
    /\ wire = [p \in Sides |-> EmptyWire]
    /\ session = [p \in Sides |-> 1]
    /\ broken = {}
    /\ history = [p \in Sides |-> NoHistory]

Up(p) == session[p] \notin broken

-----------------------------------------------------------------------------
(* The two flushes, as functions of a link and of its side's wire *)

\* flush_control: every queued message that the stream has room for.
FlushControl(l, w) ==
    LET room == StreamCap - Len(w.control)
        n == IF Len(l.control) <= room THEN Len(l.control) ELSE room
    IN  [link |-> [l EXCEPT !.control = SubSeq(@, n + 1, Len(@))],
         wire |-> [w EXCEPT !.control = @ \o SubSeq(l.control, 1, n)]]

\* What flush_data offers to the stream: a sync message before the preview.
NextData(l) ==
    CASE l.sync # <<>> -> <<Sync(Head(l.sync))>>
      [] l.sync = <<>> /\ l.slot # NoFrame -> <<Preview(l.slot)>>
      [] OTHER -> <<>>

WithoutNextData(l) ==
    IF l.sync # <<>> THEN [l EXCEPT !.sync = Tail(@)] ELSE [l EXCEPT !.slot = NoFrame]

\* Variant: the message is popped before the stream has taken it.
FlushDataPopsFirst(l, w) ==
    [link |-> WithoutNextData(l),
     wire |-> IF Len(w.data) >= StreamCap THEN w ELSE [w EXCEPT !.data = @ \o NextData(l)]]

\* flush_data: at most one message a call, which stays queued when the stream is full.
FlushData(l, w) ==
    IF Len(w.data) >= StreamCap
    THEN [link |-> l, wire |-> w]
    ELSE [link |-> WithoutNextData(l), wire |-> [w EXCEPT !.data = @ \o NextData(l)]]

\* A flush on a broken connection sends nothing and fails.
ControlFlush(p, l) ==
    IF Up(p) THEN FlushControl(l, wire[p]) ELSE [link |-> l, wire |-> wire[p]]
DataFlush(p, l) ==
    IF Up(p) THEN FlushData(l, wire[p]) ELSE [link |-> l, wire |-> wire[p]]

\* The state after side p has flushed to f.
Flushed(p, f) ==
    /\ link' = [link EXCEPT ![p] = f.link]
    /\ wire' = [wire EXCEPT ![p] = f.wire]

-----------------------------------------------------------------------------
(* Sending *)

\* Variant: max_pending_control is not looked at.
QueueControlUnbounded(p, m) ==
    /\ Flushed(p, ControlFlush(p, [link[p] EXCEPT !.control = Append(@, m)]))
    /\ UNCHANGED <<session, broken, history>>

\* queue_control and flush_control.  A full outbox refuses the message.
QueueControl(p, m) ==
    /\ Len(link[p].control) < ControlCap
    /\ Flushed(p, ControlFlush(p, [link[p] EXCEPT !.control = Append(@, m)]))
    /\ UNCHANGED <<session, broken, history>>

TrySendHello(p) == QueueControl(p, Hello(link[p].mode))
TrySendControl(p) == link[p].ready /\ QueueControl(p, Application)

\* try_send_sync_segment, try_send_acknowledgement, try_send_missing_range
TrySendSync(p) ==
    /\ link[p].ready
    /\ Len(link[p].sync) < SyncCap
    /\ history[p].queued < MaxSync
    /\ LET n == history[p].queued + 1
       IN  /\ Flushed(p, DataFlush(p, [link[p] EXCEPT !.sync = Append(@, n)]))
           /\ history' = [history EXCEPT ![p].queued = n]
    /\ UNCHANGED <<session, broken>>

\* Variant: the sender's replay guard is missing.
MaySendAnyPreview(p, f) == link[p].ready

\* What try_send_preview admits.
MaySendPreview(p, f) == link[p].ready /\ Newer(f, link[p].sent)

SendDatagram(p, f) ==
    /\ MaySendPreview(p, f)
    /\ link[p].mode = "datagram"
    /\ Up(p)
    /\ link' = [link EXCEPT ![p].sent = f]
    /\ wire' = [wire EXCEPT ![p].datagrams = @ \union {f}]
    /\ UNCHANGED <<session, broken, history>>

\* Variant: an occupied slot keeps its older frame.
ReplaceNothing(p, f) ==
    /\ MaySendPreview(p, f)
    /\ link[p].mode = "reliable"
    /\ link[p].slot # NoFrame
    /\ link' = [link EXCEPT ![p].sent = f]
    /\ UNCHANGED <<wire, session, broken, history>>

\* The slot was occupied: the older frame is gone, nothing is flushed.
ReplacePreview(p, f) ==
    /\ MaySendPreview(p, f)
    /\ link[p].mode = "reliable"
    /\ link[p].slot # NoFrame
    /\ link' = [link EXCEPT ![p].slot = f, ![p].sent = f]
    /\ UNCHANGED <<wire, session, broken, history>>

\* The slot was free.  When the flush fails the frame stays in the slot and the
\* caller sees an error: the frame does not count as sent.
QueuePreview(p, f) ==
    /\ MaySendPreview(p, f)
    /\ link[p].mode = "reliable"
    /\ link[p].slot = NoFrame
    /\ Flushed(p, DataFlush(p, [link[p] EXCEPT !.slot = f,
                                               !.sent = IF Up(p) THEN f ELSE @]))
    /\ UNCHANGED <<session, broken, history>>

TrySendPreview(p, f) ==
    SendDatagram(p, f) \/ ReplacePreview(p, f) \/ QueuePreview(p, f)

\* poll_outbound
PollOutbound(p) ==
    /\ Up(p)
    /\ LET c == FlushControl(link[p], wire[p])
       IN  Flushed(p, FlushData(c.link, c.wire))
    /\ UNCHANGED <<session, broken, history>>

-----------------------------------------------------------------------------
(* Receiving *)

\* What p's connection can hand over: the peer's wire, in a common session.
Arrived(p) == IF session[p] = session[Peer(p)] THEN wire[Peer(p)] ELSE EmptyWire

\* Variant: the hello's mode is ignored.
HeardAnyMode(l, m) == IF m.kind = "hello" THEN [l EXCEPT !.ready = TRUE] ELSE l

\* poll_control's treatment of a message.  The peer's hello ends the handshake
\* and lowers the mode; an application message before it is consumed and refused.
Heard(l, m) ==
    IF m.kind = "hello"
    THEN [l EXCEPT !.ready = TRUE,
                   !.mode = IF m.mode = "datagram" THEN @ ELSE "reliable"]
    ELSE l

PollControl(p) ==
    /\ Up(p) \/ link[p].control = <<>>
    /\ LET f == ControlFlush(p, link[p])
           q == Peer(p)
       IN  \/ /\ Arrived(p).control = <<>>
              /\ Flushed(p, f)
           \/ /\ Arrived(p).control # <<>>
              /\ link' = [link EXCEPT ![p] = Heard(f.link, Head(wire[q].control))]
              /\ wire' = [wire EXCEPT ![p] = f.wire, ![q].control = Tail(@)]
    /\ UNCHANGED <<session, broken, history>>

\* Variant: whatever arrives is shown.
AcceptAnyPreview(l, f) == [l EXCEPT !.received = f]

\* accept_preview: a frame that is not newer is dropped and counted.
AcceptPreview(l, f) ==
    IF Newer(f, l.received) THEN [l EXCEPT !.received = f] ELSE [l EXCEPT !.replays = TRUE]

\* accept_data_event, on the link and on the history of the receiving side.
AcceptData(l, m) == IF m.kind = "preview" THEN AcceptPreview(l, m.frame) ELSE l
Logged(h, m) == IF m.kind = "sync" THEN [h EXCEPT !.got = Append(@, m.number)] ELSE h

\* poll_data: flush, then one message of the data stream; the datagrams are
\* looked at only in datagram mode and when the stream is empty.
PollData(p) ==
    /\ Up(p) \/ (link[p].sync = <<>> /\ link[p].slot = NoFrame)
    /\ LET f == DataFlush(p, link[p])
           q == Peer(p)
       IN  \/ /\ Arrived(p).data # <<>>
              /\ LET m == Head(wire[q].data)
                 IN  /\ link' = [link EXCEPT ![p] = AcceptData(f.link, m)]
                     /\ history' = [history EXCEPT ![p] = Logged(@, m)]
              /\ wire' = [wire EXCEPT ![p] = f.wire, ![q].data = Tail(@)]
           \/ /\ Arrived(p).data = <<>>
              /\ f.link.mode = "datagram"
              /\ \E d \in Arrived(p).datagrams :
                    /\ link' = [link EXCEPT ![p] = AcceptPreview(f.link, d)]
                    /\ wire' = [wire EXCEPT ![p] = f.wire]
              /\ UNCHANGED history
           \/ /\ Arrived(p).data = <<>>
              /\ Flushed(p, f)
              /\ UNCHANGED history
    /\ UNCHANGED <<session, broken>>

-----------------------------------------------------------------------------
(* Sessions *)

\* The transport fails.
Break ==
    /\ \E p \in Sides : broken' = broken \union {session[p]}
    /\ UNCHANGED <<link, wire, session, history>>

\* reconnect: the host of p hands over a connection of another session; the
\* old connection is dropped with it and the whole link starts again.
Reconnect(p, s, m) ==
    /\ s > session[p]
    /\ s \notin broken
    /\ link' = [link EXCEPT ![p] = NewLink(m)]
    /\ wire' = [wire EXCEPT ![p] = EmptyWire]
    /\ session' = [session EXCEPT ![p] = s]
    /\ broken' = broken \union {session[p]}
    /\ history' = [history EXCEPT ![p] = NoHistory]

Next ==
    \/ \E p \in Sides : TrySendHello(p)
    \/ \E p \in Sides : TrySendControl(p)
    \/ \E p \in Syncing : TrySendSync(p)
    \/ \E p \in Senders, f \in Frames : TrySendPreview(p, f)
    \/ \E p \in Sides : PollOutbound(p)
    \/ \E p \in Sides : PollControl(p)
    \/ \E p \in Sides : PollData(p)
    \/ Break
    \/ \E p \in Sides, s \in 1 .. MaxSession, m \in Modes : Reconnect(p, s, m)

Spec == Init /\ [][Next]_vars

\* A host polls both flows of a working session again and again; nothing makes
\* it offer anything, and nothing makes a transport fail or recover.
FairSpec ==
    /\ Spec
    /\ \A p \in Sides : WF_vars(Up(p) /\ PollControl(p)) /\ WF_vars(Up(p) /\ PollData(p))

-----------------------------------------------------------------------------
(* Properties *)

Link == [mode : Modes, ready : BOOLEAN, control : Seq(ControlMessages),
         sync : Seq(1 .. MaxSync), slot : Frames \union {NoFrame},
         sent : Frames \union {NoFrame}, received : Frames \union {NoFrame},
         replays : BOOLEAN]
Wire == [control : Seq(ControlMessages), data : Seq(DataMessages),
         datagrams : SUBSET Frames]

\* Every variable has its type, and no queue outgrows its limit.
TypeOK ==
    /\ link \in [Sides -> Link]
    /\ wire \in [Sides -> Wire]
    /\ session \in [Sides -> 1 .. MaxSession]
    /\ broken \subseteq 1 .. MaxSession
    /\ history \in [Sides -> [queued : 0 .. MaxSync, got : Seq(1 .. MaxSync)]]
    /\ \A p \in Sides :
          /\ Len(link[p].control) <= ControlCap /\ Len(link[p].sync) <= SyncCap
          /\ Len(wire[p].control) <= StreamCap /\ Len(wire[p].data) <= StreamCap

Together == session["device"] = session["studio"]

\* README of the crate: "preventing asymmetric trust permissions from creating a
\* one-way preview path".  A side that may send datagrams has a peer that reads
\* them, whatever was sent before a hello lowered the mode: the peer of a ready
\* side in datagram mode is in datagram mode, and no datagram waits for a peer
\* that looks at the data stream only.
NoOneWayPreview ==
    Together => \A p \in Sides :
        (link[p].ready /\ link[p].mode = "datagram") \/ wire[p].datagrams # {}
            => link[Peer(p)].mode = "datagram"

\* Where the sync messages are in a sequence of data messages.
Syncs(data) == {i \in DOMAIN data : data[i].kind = "sync"}

\* Of the sync messages 1 .. queued the peer has got the first ones, the last ones
\* wait in the outbox, and those between are in the stream, each once, in order.
SyncsInOrder(queued, waiting, data, got) ==
    LET left == queued - Len(waiting)
    IN  /\ Len(got) <= left
        /\ \A n \in DOMAIN got : got[n] = n
        /\ \A n \in DOMAIN waiting : waiting[n] = left + n
        /\ {data[i].number : i \in Syncs(data)} = Len(got) + 1 .. left
        /\ \A i, j \in Syncs(data) : i < j => data[i].number < data[j].number

\* Sync messages are never lost, repeated or reordered on their way through
\* outbox, stream and peer, previews overtaking them or not, while the session
\* lasts.
SyncInOrder ==
    Together => \A p \in Sides :
        SyncsInOrder(history[p].queued, link[p].sync, wire[p].data, history[Peer(p)].got)

\* In reliable mode the two replay guards and the single slot together keep the
\* order of the frames, and the receiver's guard never fires: a replayed
\* preview is counted only where datagrams travel.
ReliablePreviewsInOrder ==
    Together => \A p \in Sides :
        link[Peer(p)].mode = "reliable" => ~link[Peer(p)].replays

\* Within a session the previews a host is given only get newer, however the
\* datagrams were repeated and reordered.
PreviewsNeverGoBack ==
    [][\A p \in Sides : session'[p] = session[p] /\ link'[p].received # link[p].received
            => Newer(link'[p].received, link[p].received)]_vars

\* Both sides are on one session and its transport works.
Working == Together /\ \A p \in Sides : Up(p)

\* While the session works, the peer catches up again and again with the sync
\* messages that were queued (finitely many), although a call sends only one
\* message and polls are the only retry of a full stream.
SyncArrives ==
    \A p \in Syncing :
        []<>(Working => Len(history[Peer(p)].got) = history[p].queued)

\* In reliable mode the peer catches up again and again with the preview that
\* was accepted last: the slot is emptied once the sync messages before it,
\* finitely many, have left.
LatestPreviewArrives ==
    \A p \in Senders :
        []<>(Working /\ link[p].mode = "reliable"
                => link[Peer(p)].received = link[p].sent)
=============================================================================
