-------------------------- MODULE CaptureLink_proofs --------------------------
(***************************************************************************)
(* Theorems about CaptureLink, for any set of previews, any numbers of     *)
(* sessions and sync messages and any capacities of the queues.            *)
(***************************************************************************)
EXTENDS CaptureLink, SequenceTheorems, TLAPS

-----------------------------------------------------------------------------
(* Sequences, frames and sides.                                            *)

Contents(s) == {s[i] : i \in 1 .. Len(s)}

LEMMA AppendFacts ==
  ASSUME NEW S, NEW s \in Seq(S), NEW e \in S
  PROVE  /\ Append(s, e) \in Seq(S)
         /\ s \o <<e>> = Append(s, e)
         /\ Len(s) \in Nat /\ Len(Append(s, e)) = Len(s) + 1
         /\ DOMAIN s = 1 .. Len(s) /\ DOMAIN Append(s, e) = 1 .. Len(s) + 1
         /\ \A i \in 1 .. Len(s) : Append(s, e)[i] = s[i]
         /\ Append(s, e)[Len(s) + 1] = e
         /\ Contents(Append(s, e)) \subseteq Contents(s) \cup {e}
<1>1. /\ Append(s, e) \in Seq(S) /\ Len(Append(s, e)) = Len(s) + 1
      /\ \A i \in 1 .. Len(s) : Append(s, e)[i] = s[i]
      /\ Append(s, e)[Len(s) + 1] = e
      /\ Append(s, e) = s \o <<e>>
  BY AppendProperties, AppendIsConcat
<1>2. Len(s) \in Nat /\ DOMAIN s = 1 .. Len(s) /\ DOMAIN Append(s, e) = 1 .. Len(s) + 1
  BY <1>1, LenProperties
<1>3. Contents(Append(s, e)) \subseteq Contents(s) \cup {e}
  <2>1. ASSUME NEW i \in 1 .. Len(s) + 1 PROVE Append(s, e)[i] \in Contents(s) \cup {e}
    <3>1. i \in 1 .. Len(s) \/ i = Len(s) + 1
      BY <1>2
    <3> QED BY <1>1, <3>1 DEF Contents
  <2> QED BY <1>1, <2>1 DEF Contents
<1> QED BY <1>1, <1>2, <1>3

LEMMA TailFacts ==
  ASSUME NEW S, NEW s \in Seq(S), s # <<>>
  PROVE  /\ Head(s) \in S /\ Head(s) = s[1] /\ Tail(s) \in Seq(S)
         /\ Len(s) \in Nat \ {0} /\ Len(Tail(s)) = Len(s) - 1
         /\ DOMAIN s = 1 .. Len(s) /\ DOMAIN Tail(s) = 1 .. Len(s) - 1
         /\ \A i \in 1 .. Len(s) - 1 : Tail(s)[i] = s[i + 1]
         /\ Head(s) \in Contents(s) /\ Contents(Tail(s)) \subseteq Contents(s)
<1>1. /\ Head(s) \in S /\ Tail(s) \in Seq(S) /\ Len(Tail(s)) = Len(s) - 1
      /\ \A i \in 1 .. Len(Tail(s)) : Tail(s)[i] = s[i + 1]
  BY HeadTailProperties
<1>2. /\ Len(s) \in Nat \ {0} /\ Head(s) = s[1]
      /\ DOMAIN s = 1 .. Len(s) /\ DOMAIN Tail(s) = 1 .. Len(s) - 1
  BY <1>1, LenProperties, EmptySeq
<1> QED BY <1>1, <1>2 DEF Contents

LEMMA SideFacts ==
  ASSUME NEW p \in Sides
  PROVE  /\ Peer(p) \in Sides /\ Peer(p) # p /\ Peer(Peer(p)) = p
         /\ \A r \in Sides : r = p \/ r = Peer(p)
BY DEF Sides, Peer

Frame == Frames \cup {NoFrame}

\* f is g or older.
AtMost(f, g) == f = g \/ Newer(g, f)

LEMMA FrameOrder ==
  /\ \A f, g, h \in Frame : Newer(f, g) /\ AtMost(h, g) => Newer(f, h)
  /\ \A f \in Frame : ~Newer(f, f)
  /\ \A f \in Frames : Newer(f, NoFrame) /\ f # NoFrame
<1>1. \A f \in Frame : f[1] \in Int /\ f[2] \in Int
  BY LinkAssumption DEF Frame, NoFrame
<1>2. \A f \in Frames : f[1] \in Nat
  BY LinkAssumption
<1> QED BY <1>1, <1>2 DEF Newer, AtMost, NoFrame

-----------------------------------------------------------------------------
(* The two flushes.                                                        *)

LEMMA FlushControlEffect ==
  ASSUME NEW l \in Link, NEW w \in Wire, Len(w.control) <= StreamCap
  PROVE  \E c, v \in Seq(ControlMessages) :
           /\ FlushControl(l, w).link = [l EXCEPT !.control = c]
           /\ FlushControl(l, w).wire = [w EXCEPT !.control = v]
           /\ Len(c) <= Len(l.control) /\ Len(v) <= StreamCap
           /\ Contents(c) \cup Contents(v) \subseteq Contents(l.control) \cup Contents(w.control)
<1> DEFINE s == l.control
           r == w.control
           room == StreamCap - Len(r)
           n == IF Len(s) <= room THEN Len(s) ELSE room
           c == SubSeq(s, n + 1, Len(s))
           b == SubSeq(s, 1, n)
           v == r \o b
<1>1. s \in Seq(ControlMessages) /\ r \in Seq(ControlMessages)
  BY DEF Link, Wire
<1>2. Len(s) \in Nat /\ Len(r) \in Nat /\ room \in Nat /\ n \in 0 .. Len(s) /\ n <= room
  BY <1>1, LenProperties, LinkAssumption
<1>3. \A i \in 1 .. Len(s) : s[i] \in ControlMessages
  BY <1>1, ElementOfSeq
<1>4. /\ c \in Seq(ControlMessages) /\ Len(c) = Len(s) - n
      /\ \A i \in 1 .. Len(c) : c[i] = s[n + i]
  <2> HIDE DEF n, s
  <2>1. \A i \in n + 1 .. Len(s) : s[i] \in ControlMessages
    BY <1>2, <1>3
  <2>2. /\ c \in Seq(ControlMessages)
        /\ Len(c) = IF n + 1 <= Len(s) THEN Len(s) - (n + 1) + 1 ELSE 0
        /\ \A i \in 1 .. Len(s) - (n + 1) + 1 : c[i] = s[n + 1 + i - 1]
    BY <1>2, <2>1, SubSeqProperties
  <2> HIDE DEF c
  <2>3. Len(c) = Len(s) - n
    BY <1>2, <2>2
  <2> QED BY <1>2, <2>2, <2>3
<1>5. /\ b \in Seq(ControlMessages) /\ Len(b) = n
      /\ \A i \in 1 .. Len(b) : b[i] = s[i]
  <2> HIDE DEF n, s
  <2>1. \A i \in 1 .. n : s[i] \in ControlMessages
    BY <1>2, <1>3
  <2>2. /\ b \in Seq(ControlMessages)
        /\ Len(b) = IF 1 <= n THEN n - 1 + 1 ELSE 0
        /\ \A i \in 1 .. n - 1 + 1 : b[i] = s[1 + i - 1]
    BY <1>2, <2>1, SubSeqProperties
  <2> HIDE DEF b
  <2>3. Len(b) = n
    BY <1>2, <2>2
  <2> QED BY <1>2, <2>2, <2>3
<1>6. /\ v \in Seq(ControlMessages) /\ Len(v) = Len(r) + n
      /\ \A i \in 1 .. Len(v) : v[i] = IF i <= Len(r) THEN r[i] ELSE b[i - Len(r)]
  <2> HIDE DEF b, n, r
  <2> QED BY <1>1, <1>2, <1>5, ConcatProperties, ZenonT(60)
<1>7. FlushControl(l, w) = [link |-> [l EXCEPT !.control = c], wire |-> [w EXCEPT !.control = v]]
  BY DEF FlushControl, Link, Wire
<1>8. Contents(c) \subseteq Contents(s)
  <2> HIDE DEF c, n, s
  <2> QED BY <1>2, <1>4 DEF Contents
<1>9. Contents(v) \subseteq Contents(s) \cup Contents(r)
  <2> HIDE DEF v, b, n, s, r
  <2>1. ASSUME NEW i \in 1 .. Len(v) PROVE v[i] \in Contents(s) \cup Contents(r)
    <3>1. CASE i <= Len(r)
      BY <1>2, <1>6, <3>1 DEF Contents
    <3>2. CASE i > Len(r)
      <4>1. i - Len(r) \in 1 .. n /\ v[i] = b[i - Len(r)]
        BY <1>2, <1>6, <3>2
      <4> QED BY <1>2, <1>5, <4>1 DEF Contents
    <3> QED BY <1>2, <3>1, <3>2
  <2> QED BY <2>1 DEF Contents
<1>10. Len(c) <= Len(s) /\ Len(v) <= StreamCap
  <2> HIDE DEF c, v, b, n
  <2> QED BY <1>1, <1>2, <1>4, <1>6, LenProperties, LinkAssumption
<1>11. /\ FlushControl(l, w).link = [l EXCEPT !.control = c]
       /\ FlushControl(l, w).wire = [w EXCEPT !.control = v]
  BY <1>7
<1>12. c \in Seq(ControlMessages) /\ v \in Seq(ControlMessages)
  BY <1>4, <1>6
<1>13. Contents(c) \cup Contents(v) \subseteq Contents(s) \cup Contents(r)
  BY <1>8, <1>9
<1> HIDE DEF c, v, n, b, room
<1> QED BY <1>10, <1>11, <1>12, <1>13

\* The message a data flush takes from its link, and what it leaves.
LEMMA FlushDataEffect ==
  ASSUME NEW l \in Link, NEW w \in Wire, Len(w.data) <= StreamCap
  PROVE  LET f == FlushData(l, w) IN
         \/ f.link = l /\ f.wire = w
         \/ /\ Len(w.data) < StreamCap /\ l.sync # <<>>
            /\ f.link = [l EXCEPT !.sync = Tail(@)]
            /\ f.wire = [w EXCEPT !.data = Append(@, Sync(Head(l.sync)))]
         \/ /\ Len(w.data) < StreamCap /\ l.sync = <<>> /\ l.slot # NoFrame
            /\ f.link = [l EXCEPT !.slot = NoFrame]
            /\ f.wire = [w EXCEPT !.data = Append(@, Preview(l.slot))]
<1>1. /\ w.data \in Seq(DataMessages) /\ Len(w.data) \in Nat
      /\ l.sync \in Seq(1 .. MaxSync) /\ l.slot \in Frames \cup {NoFrame}
  BY LenProperties DEF Link, Wire
<1>2. CASE Len(w.data) >= StreamCap
  BY <1>2 DEF FlushData
<1>3. CASE Len(w.data) < StreamCap /\ l.sync # <<>>
  <2>1. Sync(Head(l.sync)) \in DataMessages
    BY <1>1, <1>3, TailFacts DEF DataMessages
  <2>2. w.data \o <<Sync(Head(l.sync))>> = Append(w.data, Sync(Head(l.sync)))
    BY <1>1, <2>1, AppendFacts
  <2> QED BY <1>1, <1>3, <2>2, LinkAssumption DEF FlushData, NextData, WithoutNextData
<1>4. CASE Len(w.data) < StreamCap /\ l.sync = <<>> /\ l.slot # NoFrame
  <2>1. Preview(l.slot) \in DataMessages
    BY <1>1, <1>4 DEF DataMessages
  <2>2. w.data \o <<Preview(l.slot)>> = Append(w.data, Preview(l.slot))
    BY <1>1, <2>1, AppendFacts
  <2> QED BY <1>1, <1>4, <2>2, LinkAssumption DEF FlushData, NextData, WithoutNextData
<1>5. CASE Len(w.data) < StreamCap /\ l.sync = <<>> /\ l.slot = NoFrame
  <2>1. w.data \o <<>> = w.data
    BY <1>1, ConcatEmptySeq
  <2>2. [l EXCEPT !.slot = NoFrame] = l /\ [w EXCEPT !.data = w.data] = w
    BY <1>5 DEF Link, Wire
  <2> QED BY <1>1, <1>5, <2>1, <2>2, LinkAssumption DEF FlushData, NextData, WithoutNextData
<1> QED BY <1>1, <1>2, <1>3, <1>4, <1>5, LinkAssumption

LEMMA ControlFlushEffect ==
  ASSUME TypeOK, NEW p \in Sides, NEW l \in Link
  PROVE  \E c, v \in Seq(ControlMessages) :
           /\ ControlFlush(p, l).link = [l EXCEPT !.control = c]
           /\ ControlFlush(p, l).wire = [wire[p] EXCEPT !.control = v]
           /\ Len(c) <= Len(l.control) /\ Len(v) <= StreamCap
           /\ Contents(c) \cup Contents(v) \subseteq Contents(l.control) \cup Contents(wire[p].control)
<1>1. wire[p] \in Wire /\ Len(wire[p].control) <= StreamCap
  BY DEF TypeOK
<1>2. CASE Up(p)
  BY <1>1, <1>2, FlushControlEffect DEF ControlFlush
<1>3. CASE ~Up(p)
  <2>1. /\ l.control \in Seq(ControlMessages) /\ wire[p].control \in Seq(ControlMessages)
        /\ [l EXCEPT !.control = l.control] = l
        /\ [wire[p] EXCEPT !.control = wire[p].control] = wire[p]
        /\ Len(l.control) \in Nat
    BY <1>1, LenProperties DEF Link, Wire
  <2>2. ControlFlush(p, l).link = l /\ ControlFlush(p, l).wire = wire[p]
    BY <1>3 DEF ControlFlush
  <2> DEFINE c == l.control
             v == wire[p].control
  <2>3. /\ ControlFlush(p, l).link = [l EXCEPT !.control = c]
        /\ ControlFlush(p, l).wire = [wire[p] EXCEPT !.control = v]
        /\ c \in Seq(ControlMessages) /\ v \in Seq(ControlMessages)
        /\ Len(c) <= Len(l.control) /\ Len(v) <= StreamCap
        /\ Contents(c) \cup Contents(v) \subseteq Contents(l.control) \cup Contents(wire[p].control)
    BY <1>1, <2>1, <2>2
  <2> HIDE DEF c, v
  <2> QED BY <2>3
<1> QED BY <1>2, <1>3

\* What a data flush leaves as it was, and what it sends.
LEMMA DataFlushEffect ==
  ASSUME TypeOK, NEW p \in Sides, NEW l \in Link
  PROVE  LET f == DataFlush(p, l) IN
         /\ f.link \in Link /\ f.wire \in Wire
         /\ Len(f.link.sync) <= Len(l.sync) /\ Len(f.wire.data) <= StreamCap
         /\ \E s \in Seq(1 .. MaxSync), x \in Frame : f.link = [l EXCEPT !.sync = s, !.slot = x]
         /\ \E d \in Seq(DataMessages) : f.wire = [wire[p] EXCEPT !.data = d]
         /\ \/ f.link = l /\ f.wire = wire[p]
            \/ /\ Up(p) /\ l.sync # <<>>
               /\ f.link = [l EXCEPT !.sync = Tail(@)]
               /\ f.wire = [wire[p] EXCEPT !.data = Append(@, Sync(Head(l.sync)))]
            \/ /\ Up(p) /\ l.sync = <<>> /\ l.slot # NoFrame
               /\ f.link = [l EXCEPT !.slot = NoFrame]
               /\ f.wire = [wire[p] EXCEPT !.data = Append(@, Preview(l.slot))]
<1> DEFINE f == DataFlush(p, l)
<1>1. /\ wire[p] \in Wire /\ Len(wire[p].data) <= StreamCap
      /\ wire[p].data \in Seq(DataMessages) /\ Len(wire[p].data) \in Nat
      /\ l.sync \in Seq(1 .. MaxSync) /\ l.slot \in Frame /\ Len(l.sync) \in Nat
  BY LenProperties DEF TypeOK, Link, Wire, Frame
<1>2. CASE f.link = l /\ f.wire = wire[p]
  <2> DEFINE s == l.sync
             x == l.slot
             d == wire[p].data
  <2>1. f.link = [l EXCEPT !.sync = s, !.slot = x] /\ f.wire = [wire[p] EXCEPT !.data = d]
    BY <1>1, <1>2 DEF Link, Wire
  <2>2. s \in Seq(1 .. MaxSync) /\ x \in Frame /\ d \in Seq(DataMessages)
    BY <1>1
  <2>3. /\ f.link \in Link /\ f.wire \in Wire
        /\ Len(f.link.sync) <= Len(l.sync) /\ Len(f.wire.data) <= StreamCap
    BY <1>1, <1>2
  <2> HIDE DEF s, x, d, f
  <2> QED BY <1>2, <2>1, <2>2, <2>3 DEF f
<1>3. CASE /\ Up(p) /\ l.sync # <<>> /\ Len(wire[p].data) < StreamCap
           /\ f.link = [l EXCEPT !.sync = Tail(@)]
           /\ f.wire = [wire[p] EXCEPT !.data = Append(@, Sync(Head(l.sync)))]
  <2> DEFINE s == Tail(l.sync)
             d == Append(wire[p].data, Sync(Head(l.sync)))
  <2>1. s \in Seq(1 .. MaxSync) /\ Len(s) = Len(l.sync) - 1 /\ Head(l.sync) \in 1 .. MaxSync
    BY <1>1, <1>3, TailFacts
  <2>2. Sync(Head(l.sync)) \in DataMessages
    BY <2>1 DEF DataMessages
  <2>3. d \in Seq(DataMessages) /\ Len(d) = Len(wire[p].data) + 1
    BY <1>1, <2>2, AppendFacts
  <2>4. f.link = [l EXCEPT !.sync = s, !.slot = l.slot] /\ f.wire = [wire[p] EXCEPT !.data = d]
    BY <1>3 DEF Link
  <2> HIDE DEF s, d, f
  <2>5. f.link \in Link /\ f.wire \in Wire /\ f.link.sync = s /\ f.wire.data = d
    BY <1>1, <2>1, <2>3, <2>4 DEF Link, Wire
  <2>6. Len(f.link.sync) <= Len(l.sync) /\ Len(f.wire.data) <= StreamCap
    <3>1. StreamCap \in Nat /\ Len(wire[p].data) < StreamCap
      BY <1>3, LinkAssumption
    <3> QED BY <1>1, <2>1, <2>3, <2>5, <3>1
  <2>7. /\ \E t \in Seq(1 .. MaxSync), x \in Frame : f.link = [l EXCEPT !.sync = t, !.slot = x]
        /\ \E t \in Seq(DataMessages) : f.wire = [wire[p] EXCEPT !.data = t]
    BY <1>1, <2>1, <2>3, <2>4
  <2> QED BY <1>3, <2>5, <2>6, <2>7 DEF f
<1>4. CASE /\ Up(p) /\ l.sync = <<>> /\ l.slot # NoFrame /\ Len(wire[p].data) < StreamCap
           /\ f.link = [l EXCEPT !.slot = NoFrame]
           /\ f.wire = [wire[p] EXCEPT !.data = Append(@, Preview(l.slot))]
  <2> DEFINE d == Append(wire[p].data, Preview(l.slot))
  <2>1. Preview(l.slot) \in DataMessages
    BY <1>1, <1>4 DEF DataMessages, Frame
  <2>2. d \in Seq(DataMessages) /\ Len(d) = Len(wire[p].data) + 1
    BY <1>1, <2>1, AppendFacts
  <2>3. f.link = [l EXCEPT !.sync = l.sync, !.slot = NoFrame] /\ f.wire = [wire[p] EXCEPT !.data = d]
    BY <1>4 DEF Link
  <2> HIDE DEF d, f
  <2>4. /\ f.link \in Link /\ f.wire \in Wire /\ f.link.sync = l.sync /\ f.wire.data = d
        /\ NoFrame \in Frame
    BY <1>1, <2>2, <2>3 DEF Link, Wire, Frame
  <2>5. Len(f.link.sync) <= Len(l.sync) /\ Len(f.wire.data) <= StreamCap
    BY <1>1, <1>4, <2>2, <2>4, LinkAssumption
  <2>6. /\ \E t \in Seq(1 .. MaxSync), x \in Frame : f.link = [l EXCEPT !.sync = t, !.slot = x]
        /\ \E t \in Seq(DataMessages) : f.wire = [wire[p] EXCEPT !.data = t]
    BY <1>1, <2>2, <2>3, <2>4
  <2> QED BY <1>4, <2>4, <2>5, <2>6 DEF f
<1> QED BY <1>1, <1>2, <1>3, <1>4, FlushDataEffect DEF DataFlush

-----------------------------------------------------------------------------
(* Types.                                                                  *)

\* The parts of TypeOK that one side's link and wire are responsible for.
SideOK(l, w) ==
  /\ l \in Link /\ w \in Wire
  /\ Len(l.control) <= ControlCap /\ Len(l.sync) <= SyncCap
  /\ Len(w.control) <= StreamCap /\ Len(w.data) <= StreamCap

LEMMA SidesTyped ==
  TypeOK => \A p \in Sides : SideOK(link[p], wire[p])
BY DEF TypeOK, SideOK

LEMMA SideChanged ==
  ASSUME TypeOK, NEW p \in Sides, NEW l, NEW w, SideOK(l, w),
         link' = [link EXCEPT ![p] = l], wire' = [wire EXCEPT ![p] = w],
         UNCHANGED <<session, broken>>,
         history' \in [Sides -> [queued : 0 .. MaxSync, got : Seq(1 .. MaxSync)]]
  PROVE  TypeOK'
BY DEF TypeOK, SideOK

\* The side that polls takes the first message of one of its peer's streams.
LEMMA SidesChanged ==
  ASSUME TypeOK, NEW p \in Sides, NEW l, NEW w, NEW v, SideOK(l, w), SideOK(link[Peer(p)], v),
         link' = [link EXCEPT ![p] = l], wire' = [wire EXCEPT ![p] = w, ![Peer(p)] = v],
         UNCHANGED <<session, broken>>,
         history' \in [Sides -> [queued : 0 .. MaxSync, got : Seq(1 .. MaxSync)]]
  PROVE  TypeOK'
BY SideFacts DEF TypeOK, SideOK

LEMMA NewLinkType ==
  ASSUME NEW m \in Modes
  PROVE  SideOK(NewLink(m), EmptyWire)
<1>1. <<>> \in Seq(ControlMessages) /\ <<>> \in Seq(DataMessages) /\ <<>> \in Seq(1 .. MaxSync)
      /\ Len(<<>>) = 0
  BY EmptySeq
<1> QED BY <1>1, LinkAssumption DEF SideOK, NewLink, EmptyWire, Link, Wire, Modes

LEMMA TypeInit == Init => TypeOK
<1> SUFFICES ASSUME Init PROVE TypeOK
  OBVIOUS
<1>1. PICK m \in [Sides -> Modes] : link = [p \in Sides |-> NewLink(m[p])]
  BY DEF Init
<1>2. \A p \in Sides : SideOK(link[p], wire[p])
  BY <1>1, NewLinkType DEF Init
<1>3. NoHistory \in [queued : 0 .. MaxSync, got : Seq(1 .. MaxSync)]
  BY EmptySeq, LinkAssumption DEF NoHistory
<1> QED BY <1>1, <1>2, <1>3, LinkAssumption DEF Init, TypeOK, SideOK

LEMMA ControlFlushType ==
  ASSUME TypeOK, NEW p \in Sides, NEW l \in Link, Len(l.control) <= ControlCap, Len(l.sync) <= SyncCap
  PROVE  SideOK(ControlFlush(p, l).link, ControlFlush(p, l).wire)
<1>1. PICK c, v \in Seq(ControlMessages) :
           /\ ControlFlush(p, l).link = [l EXCEPT !.control = c]
           /\ ControlFlush(p, l).wire = [wire[p] EXCEPT !.control = v]
           /\ Len(c) <= Len(l.control) /\ Len(v) <= StreamCap
  BY ControlFlushEffect
<1>2. SideOK(link[p], wire[p]) /\ Len(c) \in Nat /\ Len(l.control) \in Nat
  BY SidesTyped, LenProperties DEF Link
<1>3. ControlFlush(p, l).link \in Link /\ ControlFlush(p, l).wire \in Wire
  BY <1>1, <1>2 DEF SideOK, Link, Wire
<1>4. /\ ControlFlush(p, l).link.control = c /\ ControlFlush(p, l).link.sync = l.sync
      /\ ControlFlush(p, l).wire.control = v /\ ControlFlush(p, l).wire.data = wire[p].data
  BY <1>1, <1>2 DEF SideOK, Link, Wire
<1>5. Len(c) <= ControlCap
  BY <1>1, <1>2, LinkAssumption
<1> QED BY <1>1, <1>2, <1>3, <1>4, <1>5 DEF SideOK

LEMMA FlushDataType ==
  ASSUME NEW l, NEW w, SideOK(l, w)
  PROVE  SideOK(FlushData(l, w).link, FlushData(l, w).wire)
<1>1. /\ l \in Link /\ w \in Wire /\ w.data \in Seq(DataMessages) /\ Len(w.data) \in Nat
      /\ l.sync \in Seq(1 .. MaxSync) /\ l.slot \in Frame /\ Len(l.sync) \in Nat
      /\ StreamCap \in Nat /\ SyncCap \in Nat /\ Len(w.data) <= StreamCap
  BY LenProperties, LinkAssumption DEF SideOK, Link, Wire, Frame
<1>2. CASE /\ Len(w.data) < StreamCap /\ l.sync # <<>>
           /\ FlushData(l, w).link = [l EXCEPT !.sync = Tail(@)]
           /\ FlushData(l, w).wire = [w EXCEPT !.data = Append(@, Sync(Head(l.sync)))]
  <2>1. Tail(l.sync) \in Seq(1 .. MaxSync) /\ Len(Tail(l.sync)) = Len(l.sync) - 1
    BY <1>1, <1>2, TailFacts
  <2>2. Sync(Head(l.sync)) \in DataMessages
    BY <1>1, <1>2, TailFacts DEF DataMessages
  <2>3. /\ Append(w.data, Sync(Head(l.sync))) \in Seq(DataMessages)
        /\ Len(Append(w.data, Sync(Head(l.sync)))) = Len(w.data) + 1
    BY <1>1, <2>2, AppendFacts
  <2> DEFINE t == Tail(l.sync)
             d == Append(w.data, Sync(Head(l.sync)))
  <2>4. [l EXCEPT !.sync = t] \in Link /\ [w EXCEPT !.data = d] \in Wire
    <3> HIDE DEF t, d
    <3> QED BY <1>1, <2>1, <2>3 DEF Link, Wire, t, d
  <2>5. Len(t) <= SyncCap /\ Len(d) <= StreamCap
    BY <1>1, <1>2, <2>1, <2>3 DEF SideOK
  <2>6. FlushData(l, w).link = [l EXCEPT !.sync = t] /\ FlushData(l, w).wire = [w EXCEPT !.data = d]
    BY <1>2
  <2> HIDE DEF t, d
  <2> QED BY <1>1, <2>4, <2>5, <2>6 DEF SideOK, Link, Wire
<1>3. CASE /\ Len(w.data) < StreamCap /\ l.slot # NoFrame
           /\ FlushData(l, w).link = [l EXCEPT !.slot = NoFrame]
           /\ FlushData(l, w).wire = [w EXCEPT !.data = Append(@, Preview(l.slot))]
  <2>1. Preview(l.slot) \in DataMessages
    BY <1>1, <1>3 DEF DataMessages, Frame
  <2>2. /\ Append(w.data, Preview(l.slot)) \in Seq(DataMessages)
        /\ Len(Append(w.data, Preview(l.slot))) = Len(w.data) + 1
    BY <1>1, <2>1, AppendFacts
  <2> DEFINE d == Append(w.data, Preview(l.slot))
  <2>3. [l EXCEPT !.slot = NoFrame] \in Link /\ [w EXCEPT !.data = d] \in Wire
    <3> HIDE DEF d
    <3> QED BY <1>1, <2>2 DEF Link, Wire, d
  <2>4. Len(d) <= StreamCap
    BY <1>1, <1>3, <2>2
  <2>5. FlushData(l, w).link = [l EXCEPT !.slot = NoFrame] /\ FlushData(l, w).wire = [w EXCEPT !.data = d]
    BY <1>3
  <2> HIDE DEF d
  <2> QED BY <1>1, <2>3, <2>4, <2>5 DEF SideOK, Link, Wire
<1> QED BY <1>1, <1>2, <1>3, FlushDataEffect

LEMMA DataFlushType ==
  ASSUME TypeOK, NEW p \in Sides, NEW l \in Link, Len(l.control) <= ControlCap, Len(l.sync) <= SyncCap
  PROVE  SideOK(DataFlush(p, l).link, DataFlush(p, l).wire)
<1> DEFINE f == DataFlush(p, l)
<1>1. /\ f.link \in Link /\ f.wire \in Wire
      /\ Len(f.link.sync) <= Len(l.sync) /\ Len(f.wire.data) <= StreamCap
      /\ \E s \in Seq(1 .. MaxSync), x \in Frame : f.link = [l EXCEPT !.sync = s, !.slot = x]
      /\ \E d \in Seq(DataMessages) : f.wire = [wire[p] EXCEPT !.data = d]
  BY DataFlushEffect
<1>2. /\ SideOK(link[p], wire[p]) /\ Len(l.sync) \in Nat /\ Len(f.link.sync) \in Nat
      /\ f.link.control = l.control /\ f.wire.control = wire[p].control
  BY <1>1, SidesTyped, LenProperties DEF Link, SideOK, Wire
<1> QED BY <1>1, <1>2, LinkAssumption DEF SideOK

\* The two polls.
LEMMA HeardType ==
  ASSUME NEW l, NEW w, SideOK(l, w), NEW m \in ControlMessages
  PROVE  SideOK(Heard(l, m), w)
BY DEF SideOK, Heard, Link, Modes

LEMMA AcceptPreviewType ==
  ASSUME NEW l, NEW w, SideOK(l, w), NEW f \in Frames
  PROVE  SideOK(AcceptPreview(l, f), w)
BY DEF SideOK, AcceptPreview, Link

LEMMA TailTyped ==
  ASSUME NEW l, NEW w, SideOK(l, w)
  PROVE  /\ w.control # <<>> => /\ Head(w.control) \in ControlMessages
                                /\ SideOK(l, [w EXCEPT !.control = Tail(@)])
         /\ w.data # <<>> => /\ Head(w.data) \in DataMessages
                             /\ SideOK(l, [w EXCEPT !.data = Tail(@)])
<1>1. /\ w.control \in Seq(ControlMessages) /\ w.data \in Seq(DataMessages)
      /\ l \in Link /\ w \in Wire /\ StreamCap \in Nat
  BY LinkAssumption DEF SideOK, Wire
<1>2. ASSUME w.control # <<>>
      PROVE  Head(w.control) \in ControlMessages /\ SideOK(l, [w EXCEPT !.control = Tail(@)])
  <2>1. /\ Head(w.control) \in ControlMessages /\ Tail(w.control) \in Seq(ControlMessages)
        /\ Len(Tail(w.control)) <= StreamCap
    BY <1>1, <1>2, TailFacts DEF SideOK
  <2> QED BY <1>1, <2>1 DEF SideOK, Wire
<1>3. ASSUME w.data # <<>>
      PROVE  Head(w.data) \in DataMessages /\ SideOK(l, [w EXCEPT !.data = Tail(@)])
  <2>1. /\ Head(w.data) \in DataMessages /\ Tail(w.data) \in Seq(DataMessages)
        /\ Len(Tail(w.data)) <= StreamCap
    BY <1>1, <1>3, TailFacts DEF SideOK
  <2> QED BY <1>1, <2>1 DEF SideOK, Wire
<1> QED BY <1>2, <1>3

LEMMA DataMessageKinds ==
  /\ \A m \in DataMessages : \/ (m.kind = "sync" /\ m.number \in 1 .. MaxSync)
                             \/ (m.kind = "preview" /\ m.frame \in Frames)
  /\ \A n : Sync(n).kind = "sync" /\ Sync(n).number = n
  /\ \A f : Preview(f).kind = "preview" /\ Preview(f).frame = f
<1>1. /\ \A n : Sync(n).kind = "sync" /\ Sync(n).number = n
      /\ \A f : Preview(f).kind = "preview" /\ Preview(f).frame = f
  BY DEF Sync, Preview
<1>2. \A m \in DataMessages : \/ (m.kind = "sync" /\ m.number \in 1 .. MaxSync)
                              \/ (m.kind = "preview" /\ m.frame \in Frames)
  <2> TAKE m \in DataMessages
  <2>1. (\E n \in 1 .. MaxSync : m = Sync(n)) \/ (\E f \in Frames : m = Preview(f))
    BY DEF DataMessages
  <2> QED BY <1>1, <2>1
<1> QED BY <1>1, <1>2

LEMMA TypeStep == TypeOK /\ [Next]_vars => TypeOK'
<1> SUFFICES ASSUME TypeOK, [Next]_vars PROVE TypeOK'
  OBVIOUS
<1> DEFINE History == [queued : 0 .. MaxSync, got : Seq(1 .. MaxSync)]
<1>0. /\ \A p \in Sides : SideOK(link[p], wire[p])
      /\ history \in [Sides -> History]
      /\ link \in [Sides -> Link] /\ wire \in [Sides -> Wire]
  BY SidesTyped DEF TypeOK
<1>1. ASSUME NEW p \in Sides, NEW m \in ControlMessages, QueueControl(p, m) PROVE TypeOK'
  <2> DEFINE l == [link[p] EXCEPT !.control = Append(@, m)]
  <2>1. link[p].control \in Seq(ControlMessages) /\ Len(link[p].control) < ControlCap
    BY <1>0, <1>1 DEF QueueControl, SideOK, Link
  <2>2. Append(link[p].control, m) \in Seq(ControlMessages) /\ Len(Append(link[p].control, m)) <= ControlCap
    BY <2>1, AppendFacts, LinkAssumption
  <2>3. l \in Link /\ Len(l.control) <= ControlCap /\ Len(l.sync) <= SyncCap
    BY <1>0, <2>2 DEF SideOK, Link
  <2>4. Flushed(p, ControlFlush(p, l)) /\ UNCHANGED <<session, broken, history>>
    BY <1>1 DEF QueueControl
  <2> HIDE DEF l
  <2>5. SideOK(ControlFlush(p, l).link, ControlFlush(p, l).wire)
    BY <2>3, ControlFlushType
  <2> QED BY <1>0, <2>4, <2>5, SideChanged DEF Flushed
<1>2. ASSUME NEW p \in Sides, TrySendSync(p) PROVE TypeOK'
  <2> DEFINE n == history[p].queued + 1
             l == [link[p] EXCEPT !.sync = Append(@, n)]
  <2>1. /\ link[p].sync \in Seq(1 .. MaxSync) /\ Len(link[p].sync) < SyncCap
        /\ n \in 1 .. MaxSync /\ history[p].queued < MaxSync
    BY <1>0, <1>2, LinkAssumption DEF TrySendSync, SideOK, Link
  <2> HIDE DEF n
  <2>2. Append(link[p].sync, n) \in Seq(1 .. MaxSync) /\ Len(Append(link[p].sync, n)) <= SyncCap
    BY <2>1, AppendFacts, LinkAssumption
  <2>3. l \in Link /\ Len(l.control) <= ControlCap /\ Len(l.sync) <= SyncCap
    BY <1>0, <2>2 DEF SideOK, Link
  <2>4. /\ Flushed(p, DataFlush(p, l)) /\ UNCHANGED <<session, broken>>
        /\ history' = [history EXCEPT ![p].queued = n]
    BY <1>2 DEF TrySendSync, n
  <2> HIDE DEF l
  <2>5. SideOK(DataFlush(p, l).link, DataFlush(p, l).wire)
    BY <2>3, DataFlushType
  <2>6. [history[p] EXCEPT !.queued = n] \in History
    <3>1. history[p] \in History /\ n \in 0 .. MaxSync
      BY <1>0, <2>1, LinkAssumption
    <3> QED BY <3>1
  <2>7. history' \in [Sides -> History]
    BY <1>0, <2>4, <2>6
  <2> QED BY <1>0, <2>4, <2>5, <2>7, SideChanged DEF Flushed
<1>3. ASSUME NEW p \in Sides, NEW f \in Frames, TrySendPreview(p, f) PROVE TypeOK'
  <2>1. CASE SendDatagram(p, f)
    <3>1. /\ link' = [link EXCEPT ![p] = [link[p] EXCEPT !.sent = f]]
          /\ wire' = [wire EXCEPT ![p] = [wire[p] EXCEPT !.datagrams = @ \union {f}]]
          /\ UNCHANGED <<session, broken, history>>
      BY <1>0, <2>1 DEF SendDatagram
    <3>2. SideOK([link[p] EXCEPT !.sent = f], [wire[p] EXCEPT !.datagrams = @ \union {f}])
      BY <1>0 DEF SideOK, Link, Wire
    <3> QED BY <1>0, <3>1, <3>2, SideChanged
  <2>2. CASE ReplacePreview(p, f)
    <3>1. /\ link' = [link EXCEPT ![p] = [link[p] EXCEPT !.slot = f, !.sent = f]]
          /\ wire' = [wire EXCEPT ![p] = wire[p]]
          /\ UNCHANGED <<session, broken, history>>
      BY <1>0, <2>2 DEF ReplacePreview
    <3>2. SideOK([link[p] EXCEPT !.slot = f, !.sent = f], wire[p])
      BY <1>0 DEF SideOK, Link
    <3> QED BY <1>0, <3>1, <3>2, SideChanged
  <2>3. CASE QueuePreview(p, f)
    <3> DEFINE l == [link[p] EXCEPT !.slot = f, !.sent = IF Up(p) THEN f ELSE @]
    <3>1. l \in Link /\ Len(l.control) <= ControlCap /\ Len(l.sync) <= SyncCap
      BY <1>0 DEF SideOK, Link
    <3>2. Flushed(p, DataFlush(p, l)) /\ UNCHANGED <<session, broken, history>>
      BY <2>3 DEF QueuePreview
    <3> HIDE DEF l
    <3>3. SideOK(DataFlush(p, l).link, DataFlush(p, l).wire)
      BY <3>1, DataFlushType
    <3> QED BY <1>0, <3>2, <3>3, SideChanged DEF Flushed
  <2> QED BY <1>3, <2>1, <2>2, <2>3 DEF TrySendPreview
<1>4. ASSUME NEW p \in Sides, PollOutbound(p) PROVE TypeOK'
  <2> DEFINE c == ControlFlush(p, link[p])
             d == FlushData(c.link, c.wire)
  <2>1. /\ Up(p) /\ c = FlushControl(link[p], wire[p])
        /\ Flushed(p, d) /\ UNCHANGED <<session, broken, history>>
    BY <1>4 DEF PollOutbound, ControlFlush
  <2>2. SideOK(c.link, c.wire)
    BY <1>0, ControlFlushType DEF SideOK
  <2> HIDE DEF c
  <2>3. SideOK(d.link, d.wire)
    BY <2>2, FlushDataType
  <2> QED BY <1>0, <2>1, <2>3, SideChanged DEF Flushed
<1>5. ASSUME NEW p \in Sides, PollControl(p) PROVE TypeOK'
  <2> DEFINE f == ControlFlush(p, link[p])
             q == Peer(p)
  <2>1. SideOK(f.link, f.wire)
    BY <1>0, ControlFlushType DEF SideOK
  <2> HIDE DEF f
  <2>2. CASE Flushed(p, f) /\ UNCHANGED <<session, broken, history>>
    BY <1>0, <2>1, <2>2, SideChanged DEF Flushed
  <2>3. CASE /\ wire[q].control # <<>>
             /\ link' = [link EXCEPT ![p] = Heard(f.link, Head(wire[q].control))]
             /\ wire' = [wire EXCEPT ![p] = f.wire, ![q].control = Tail(@)]
             /\ UNCHANGED <<session, broken, history>>
    <3>1. q \in Sides /\ q # p
      BY SideFacts
    <3>2. /\ Head(wire[q].control) \in ControlMessages
          /\ SideOK(link[q], [wire[q] EXCEPT !.control = Tail(@)])
      BY <1>0, <2>3, <3>1, TailTyped
    <3>3. SideOK(Heard(f.link, Head(wire[q].control)), f.wire)
      BY <2>1, <3>2, HeardType
    <3>4. wire' = [wire EXCEPT ![p] = f.wire, ![q] = [wire[q] EXCEPT !.control = Tail(@)]]
      BY <1>0, <2>3, <3>1
    <3> QED BY <1>0, <2>3, <3>2, <3>3, <3>4, SidesChanged, ZenonT(60)
  <2> QED BY <1>5, <2>2, <2>3 DEF PollControl, Arrived, EmptyWire, f
<1>6. ASSUME NEW p \in Sides, PollData(p) PROVE TypeOK'
  <2> DEFINE f == DataFlush(p, link[p])
             q == Peer(p)
             m == Head(wire[q].data)
  <2>1. SideOK(f.link, f.wire) /\ q \in Sides /\ q # p
    BY <1>0, DataFlushType, SideFacts DEF SideOK
  <2> HIDE DEF f
  <2>2. CASE Flushed(p, f) /\ UNCHANGED <<session, broken, history>>
    BY <1>0, <2>1, <2>2, SideChanged DEF Flushed
  <2>3. CASE /\ wire[q].data # <<>>
             /\ link' = [link EXCEPT ![p] = AcceptData(f.link, m)]
             /\ history' = [history EXCEPT ![p] = Logged(@, m)]
             /\ wire' = [wire EXCEPT ![p] = f.wire, ![q].data = Tail(@)]
             /\ UNCHANGED <<session, broken>>
    <3>1. m \in DataMessages /\ SideOK(link[q], [wire[q] EXCEPT !.data = Tail(@)])
      BY <1>0, <2>1, <2>3, TailTyped
    <3>2. SideOK(AcceptData(f.link, m), f.wire)
      BY <2>1, <3>1, AcceptPreviewType, DataMessageKinds DEF AcceptData
    <3>3. Logged(history[p], m) \in History
      <4>1. history[p].got \in Seq(1 .. MaxSync) /\ history[p] \in History
        BY <1>0
      <4>2. m.kind = "sync" => Append(history[p].got, m.number) \in Seq(1 .. MaxSync)
        BY <3>1, <4>1, DataMessageKinds, AppendFacts
      <4> QED BY <4>1, <4>2 DEF Logged
    <3>4. wire' = [wire EXCEPT ![p] = f.wire, ![q] = [wire[q] EXCEPT !.data = Tail(@)]]
      BY <1>0, <2>1, <2>3
    <3>5. history' \in [Sides -> History]
      BY <1>0, <2>3, <3>3
    <3> QED BY <1>0, <2>3, <3>1, <3>2, <3>4, <3>5, SidesChanged
  <2>4. ASSUME NEW d \in wire[q].datagrams,
               link' = [link EXCEPT ![p] = AcceptPreview(f.link, d)],
               wire' = [wire EXCEPT ![p] = f.wire],
               UNCHANGED <<session, broken, history>>
        PROVE  TypeOK'
    <3>1. d \in Frames
      BY <1>0, <2>1 DEF SideOK, Wire
    <3>2. SideOK(AcceptPreview(f.link, d), f.wire)
      BY <2>1, <3>1, AcceptPreviewType
    <3> QED BY <1>0, <2>4, <3>2, SideChanged
  <2> QED BY <1>6, <2>2, <2>3, <2>4 DEF PollData, Arrived, EmptyWire, f, Flushed
<1>7. CASE Break
  BY <1>7 DEF Break, TypeOK
<1>8. ASSUME NEW p \in Sides, NEW s \in 1 .. MaxSession, NEW m \in Modes, Reconnect(p, s, m)
      PROVE  TypeOK'
  <2>1. SideOK(NewLink(m), EmptyWire)
    BY NewLinkType
  <2>2. NoHistory \in History
    BY EmptySeq, LinkAssumption DEF NoHistory
  <2> QED BY <1>8, <2>1, <2>2 DEF Reconnect, TypeOK, SideOK
<1>9. CASE UNCHANGED vars
  BY <1>9 DEF vars, TypeOK
<1>10. ASSUME NEW p \in Sides, TrySendHello(p) \/ TrySendControl(p)
       PROVE  \E m \in ControlMessages : QueueControl(p, m)
  BY <1>0, <1>10 DEF TrySendHello, TrySendControl, ControlMessages, SideOK, Link
<1>11. Syncing \subseteq Sides /\ Senders \subseteq Sides
  BY LinkAssumption
<1> QED BY <1>1, <1>2, <1>3, <1>4, <1>5, <1>6, <1>7, <1>8, <1>9, <1>10, <1>11 DEF Next

(***************************************************************************)
(* Every variable keeps its type and no queue outgrows its limit: neither  *)
(* the outboxes that queue_control and the sync sends refuse to fill, nor  *)
(* the streams that the flushes find full.                                 *)
(***************************************************************************)
THEOREM QueuesAreBounded == Spec => []TypeOK
BY TypeInit, TypeStep, PTL DEF Spec
-----------------------------------------------------------------------------
(* The sync messages of one direction.                                     *)

\* What SyncsInOrder says of its four arguments' types.
SyncTypes(queued, waiting, data, got) ==
  /\ queued \in Nat /\ waiting \in Seq(1 .. MaxSync) /\ data \in Seq(DataMessages)
  /\ got \in Seq(1 .. MaxSync)

LEMMA QueueSync ==
  ASSUME NEW queued, NEW waiting, NEW data, NEW got, SyncTypes(queued, waiting, data, got),
         queued + 1 \in 1 .. MaxSync, SyncsInOrder(queued, waiting, data, got)
  PROVE  SyncsInOrder(queued + 1, Append(waiting, queued + 1), data, got)
<1> DEFINE n == queued + 1
           w == Append(waiting, n)
<1>1. /\ Len(waiting) \in Nat /\ Len(w) = Len(waiting) + 1
      /\ DOMAIN waiting = 1 .. Len(waiting) /\ DOMAIN w = 1 .. Len(waiting) + 1
      /\ \A i \in 1 .. Len(waiting) : w[i] = waiting[i]
      /\ w[Len(waiting) + 1] = n /\ n = queued + 1 /\ queued \in Nat
  BY AppendFacts DEF SyncTypes
<1> HIDE DEF w, n
<1>2. n - Len(w) = queued - Len(waiting)
  BY <1>1
<1>3. \A i \in DOMAIN w : w[i] = n - Len(w) + i
  <2> SUFFICES ASSUME NEW i \in 1 .. Len(waiting) + 1 PROVE w[i] = n - Len(w) + i
    BY <1>1
  <2>1. i \in 1 .. Len(waiting) \/ i = Len(waiting) + 1
    BY <1>1
  <2>2. \A j \in 1 .. Len(waiting) : waiting[j] = queued - Len(waiting) + j
    BY <1>1 DEF SyncsInOrder
  <2> QED BY <1>1, <1>2, <2>1, <2>2
<1> QED BY <1>2, <1>3 DEF SyncsInOrder, w, n

\* What joins the end of the stream is one more sync message or none.
LEMMA AppendSyncs ==
  ASSUME NEW data \in Seq(DataMessages), NEW m \in DataMessages
  PROVE  LET d == Append(data, m) IN
         /\ Syncs(d) = IF m.kind = "sync" THEN Syncs(data) \cup {Len(data) + 1} ELSE Syncs(data)
         /\ Len(data) \in Nat /\ Syncs(data) \subseteq 1 .. Len(data)
         /\ \A i \in Syncs(data) : d[i] = data[i] /\ data[i].number \in 1 .. MaxSync
         /\ d[Len(data) + 1] = m
<1> DEFINE d == Append(data, m)
           k == Len(data)
<1>1. /\ k \in Nat /\ DOMAIN data = 1 .. k /\ DOMAIN d = 1 .. k + 1
      /\ \A i \in 1 .. k : d[i] = data[i]
      /\ d[k + 1] = m
  BY AppendFacts
<1>2. \A i \in 1 .. k : data[i] \in DataMessages
  BY <1>1, ElementOfSeq
<1>3. 1 .. k + 1 = (1 .. k) \cup {k + 1} /\ k + 1 \notin 1 .. k
  BY <1>1
<1> HIDE DEF d, k
<1>4. Syncs(d) = IF m.kind = "sync" THEN Syncs(data) \cup {k + 1} ELSE Syncs(data)
  BY <1>1, <1>3 DEF Syncs
<1>5. \A i \in Syncs(data) : i \in 1 .. k /\ data[i].number \in 1 .. MaxSync
  <2>1. \A i \in Syncs(data) : i \in 1 .. k /\ data[i].kind = "sync"
    BY <1>1 DEF Syncs
  <2>2. "sync" # "preview"
    OBVIOUS
  <2> QED BY <1>2, <2>1, <2>2, DataMessageKinds
<1> QED BY <1>1, <1>4, <1>5 DEF d, k

LEMMA SendSync ==
  ASSUME NEW queued, NEW waiting, NEW data, NEW got, SyncTypes(queued, waiting, data, got),
         waiting # <<>>, SyncsInOrder(queued, waiting, data, got)
  PROVE  SyncsInOrder(queued, Tail(waiting), Append(data, Sync(Head(waiting))), got)
<1> DEFINE m == Sync(Head(waiting))
           d == Append(data, m)
           w == Tail(waiting)
           k == Len(data)
           left == queued - Len(waiting)
<1>1. /\ Head(waiting) \in 1 .. MaxSync /\ Head(waiting) = waiting[1]
      /\ Len(waiting) \in Nat \ {0} /\ Len(w) = Len(waiting) - 1
      /\ DOMAIN waiting = 1 .. Len(waiting) /\ DOMAIN w = 1 .. Len(waiting) - 1
      /\ \A i \in 1 .. Len(waiting) - 1 : w[i] = waiting[i + 1]
  BY TailFacts DEF SyncTypes
<1>2. /\ m \in DataMessages /\ m.kind = "sync" /\ m.number = Head(waiting)
      /\ queued \in Nat /\ data \in Seq(DataMessages) /\ Len(got) \in Nat
  BY <1>1, DataMessageKinds, LenProperties DEF SyncTypes, DataMessages
<1>3. /\ Syncs(d) = Syncs(data) \cup {k + 1} /\ k \in Nat /\ Syncs(data) \subseteq 1 .. k
      /\ \A i \in Syncs(data) : d[i] = data[i] /\ data[i].number \in 1 .. MaxSync
      /\ d[k + 1] = m
  BY <1>2, AppendSyncs
<1>4. /\ Len(got) <= left /\ left \in Nat
      /\ \A n \in DOMAIN got : got[n] = n
      /\ \A n \in DOMAIN waiting : waiting[n] = left + n
      /\ {data[i].number : i \in Syncs(data)} = Len(got) + 1 .. left
      /\ \A i, j \in Syncs(data) : i < j => data[i].number < data[j].number
  BY <1>1, <1>2 DEF SyncsInOrder
<1>5. queued - Len(w) = left + 1 /\ m.number = left + 1
  BY <1>1, <1>2, <1>4
<1> HIDE DEF m, d, w, k, left
<1>6. \A n \in DOMAIN w : w[n] = left + 1 + n
  <2> SUFFICES ASSUME NEW n \in 1 .. Len(waiting) - 1 PROVE w[n] = left + 1 + n
    BY <1>1
  <2>1. n + 1 \in DOMAIN waiting /\ w[n] = waiting[n + 1]
    BY <1>1
  <2> QED BY <1>4, <2>1
<1>7. {d[i].number : i \in Syncs(d)} = Len(got) + 1 .. left + 1
  <2>1. {d[i].number : i \in Syncs(d)} = {data[i].number : i \in Syncs(data)} \cup {m.number}
    BY <1>3
  <2>2. Len(got) + 1 .. left + 1 = (Len(got) + 1 .. left) \cup {left + 1}
    BY <1>2, <1>4
  <2> QED BY <1>4, <1>5, <2>1, <2>2
<1>8. \A i, j \in Syncs(d) : i < j => d[i].number < d[j].number
  <2> SUFFICES ASSUME NEW i \in Syncs(d), NEW j \in Syncs(d), i < j
               PROVE  d[i].number < d[j].number
    OBVIOUS
  <2>1. i \in Syncs(data)
    BY <1>3
  <2>2. data[i].number \in Len(got) + 1 .. left /\ d[i] = data[i]
    BY <1>3, <1>4, <2>1
  <2>3. CASE j \in Syncs(data)
    BY <1>3, <1>4, <2>1, <2>3
  <2>4. CASE j = k + 1
    <3>1. d[j].number = left + 1
      BY <1>3, <1>5, <2>4
    <3>2. d[i].number \in Len(got) + 1 .. left
      BY <2>2
    <3> QED BY <1>2, <1>4, <3>1, <3>2
  <2> QED BY <1>3, <2>3, <2>4
<1>9. Len(got) <= left + 1
  BY <1>2, <1>4
<1> QED BY <1>4, <1>5, <1>6, <1>7, <1>8, <1>9 DEF SyncsInOrder, m, d, w

LEMMA SendBehindSyncs ==
  ASSUME NEW queued, NEW waiting, NEW data, NEW got, SyncTypes(queued, waiting, data, got),
         NEW f \in Frames, SyncsInOrder(queued, waiting, data, got)
  PROVE  SyncsInOrder(queued, waiting, Append(data, Preview(f)), got)
<1> DEFINE d == Append(data, Preview(f))
<1>1. Preview(f) \in DataMessages /\ Preview(f).kind = "preview" /\ "preview" # "sync"
  BY DataMessageKinds DEF DataMessages
<1>2. /\ Syncs(d) = Syncs(data)
      /\ \A i \in Syncs(data) : d[i] = data[i]
  BY <1>1, AppendSyncs DEF SyncTypes
<1> HIDE DEF d
<1>3. {d[i].number : i \in Syncs(d)} = {data[i].number : i \in Syncs(data)}
  BY <1>2
<1> QED BY <1>2, <1>3 DEF SyncsInOrder, d

\* The peer takes the first message of the stream: when it is a sync message it
\* is the next one.
LEMMA ReceiveSync ==
  ASSUME NEW queued, NEW waiting, NEW data, NEW h, SyncTypes(queued, waiting, data, h.got),
         data # <<>>, SyncsInOrder(queued, waiting, data, h.got),
         h \in [queued : 0 .. MaxSync, got : Seq(1 .. MaxSync)]
  PROVE  SyncsInOrder(queued, waiting, Tail(data), Logged(h, Head(data)).got)
<1> DEFINE d == Tail(data)
           m == Head(data)
           k == Len(data)
           got == h.got
           left == queued - Len(waiting)
           new == Logged(h, m).got
<1>1. /\ m \in DataMessages /\ m = data[1] /\ k \in Nat \ {0}
      /\ DOMAIN data = 1 .. k /\ DOMAIN d = 1 .. k - 1
      /\ \A i \in 1 .. k - 1 : d[i] = data[i + 1]
  BY TailFacts DEF SyncTypes
<1>2. /\ queued \in Nat /\ got \in Seq(1 .. MaxSync) /\ Len(got) \in Nat
      /\ Len(waiting) \in Nat /\ DOMAIN got = 1 .. Len(got)
  BY LenProperties DEF SyncTypes
<1>3. /\ Len(got) <= left /\ left \in Int
      /\ \A n \in DOMAIN got : got[n] = n
      /\ \A n \in DOMAIN waiting : waiting[n] = left + n
      /\ {data[i].number : i \in Syncs(data)} = Len(got) + 1 .. left
      /\ \A i, j \in Syncs(data) : i < j => data[i].number < data[j].number
  BY <1>2 DEF SyncsInOrder
<1>4. \A i \in 1 .. k : data[i] \in DataMessages
  BY <1>1, ElementOfSeq DEF SyncTypes
<1>5. new = IF m.kind = "sync" THEN Append(got, m.number) ELSE got
  BY DEF Logged
<1> HIDE DEF d, m, k, got, left, new
<1>6. /\ \A i \in Syncs(d) : i \in 1 .. k - 1 /\ i + 1 \in Syncs(data) /\ d[i] = data[i + 1]
      /\ \A j \in Syncs(data) : j \in 1 .. k /\ (j # 1 => j - 1 \in Syncs(d) /\ d[j - 1] = data[j])
      /\ 1 \in Syncs(data) <=> m.kind = "sync"
  <2>1. \A i \in Syncs(d) : i \in 1 .. k - 1 /\ i + 1 \in Syncs(data) /\ d[i] = data[i + 1]
    BY <1>1 DEF Syncs
  <2>2. ASSUME NEW j \in Syncs(data), j # 1 PROVE j - 1 \in Syncs(d) /\ d[j - 1] = data[j]
    <3>1. j \in 1 .. k /\ j - 1 \in 1 .. k - 1 /\ data[j].kind = "sync"
      BY <1>1, <2>2 DEF Syncs
    <3>2. d[j - 1] = data[j]
      BY <1>1, <3>1
    <3> QED BY <1>1, <3>1, <3>2 DEF Syncs
  <2>3. /\ \A j \in Syncs(data) : j \in 1 .. k
        /\ 1 \in Syncs(data) <=> m.kind = "sync"
    BY <1>1 DEF Syncs
  <2> QED BY <2>1, <2>2, <2>3
<1>7. \A i, j \in Syncs(d) : i < j => d[i].number < d[j].number
  BY <1>1, <1>3, <1>6, SMTT(30)
<1>8. CASE m.kind # "sync"
  <2>1. {d[i].number : i \in Syncs(d)} = {data[i].number : i \in Syncs(data)}
    <3>1. \A j \in Syncs(data) : j # 1
      BY <1>6, <1>8
    <3>2. \A j \in Syncs(data) : j - 1 \in Syncs(d) /\ d[j - 1].number = data[j].number
      BY <1>6, <3>1
    <3>3. \A i \in Syncs(d) : i + 1 \in Syncs(data) /\ d[i].number = data[i + 1].number
      BY <1>6
    <3> QED BY <3>2, <3>3
  <2> QED BY <1>2, <1>3, <1>5, <1>7, <1>8, <2>1 DEF SyncsInOrder, d, m, got, left, new
<1>9. CASE m.kind = "sync"
  <2>1. 1 \in Syncs(data) /\ data[1] = m
    BY <1>1, <1>6, <1>9
  <2>2. m.number = Len(got) + 1 /\ Len(got) + 1 <= left
    <3>1. data[1].number \in Len(got) + 1 .. left
      BY <1>3, <2>1
    <3>2. Len(got) + 1 \in Len(got) + 1 .. left /\ Len(got) + 1 <= left
      BY <1>2, <1>3, <3>1
    <3>3. PICK j \in Syncs(data) : data[j].number = Len(got) + 1
      BY <1>3, <3>2
    <3>4. CASE j = 1
      BY <2>1, <3>2, <3>3, <3>4
    <3>5. CASE j # 1
      <4>1. 1 < j
        BY <1>1, <1>6, <3>5
      <4> QED BY <1>2, <1>3, <2>1, <3>1, <3>3, <4>1
    <3> QED BY <3>4, <3>5
  <2>3. /\ new = Append(got, Len(got) + 1) /\ m.number \in 1 .. MaxSync
    BY <1>1, <1>5, <1>9, <2>2, DataMessageKinds
  <2>4. /\ Len(new) = Len(got) + 1 /\ DOMAIN new = 1 .. Len(got) + 1
        /\ \A n \in 1 .. Len(got) : new[n] = got[n]
        /\ new[Len(got) + 1] = Len(got) + 1
    BY <1>2, <2>2, <2>3, AppendFacts
  <2>5. \A n \in DOMAIN new : new[n] = n
    <3> SUFFICES ASSUME NEW n \in 1 .. Len(got) + 1 PROVE new[n] = n
      BY <2>4
    <3>1. n \in 1 .. Len(got) \/ n = Len(got) + 1
      BY <1>2
    <3> QED BY <1>2, <1>3, <2>4, <3>1
  <2>6. {d[i].number : i \in Syncs(d)} = Len(got) + 2 .. left
    <3>1. ASSUME NEW i \in Syncs(d) PROVE d[i].number \in Len(got) + 2 .. left
      <4>1. i + 1 \in Syncs(data) /\ d[i] = data[i + 1] /\ 1 < i + 1
        BY <1>1, <1>6
      <4>2. data[1].number < data[i + 1].number /\ data[i + 1].number \in Len(got) + 1 .. left
        BY <1>3, <2>1, <4>1
      <4> QED BY <1>2, <1>3, <2>1, <2>2, <4>1, <4>2
    <3>2. ASSUME NEW n \in Len(got) + 2 .. left PROVE \E i \in Syncs(d) : d[i].number = n
      <4>1. n \in Len(got) + 1 .. left /\ n # Len(got) + 1
        BY <1>2, <1>3, <3>2
      <4>2. PICK j \in Syncs(data) : data[j].number = n
        BY <1>3, <4>1
      <4>3. j # 1
        BY <2>1, <2>2, <4>1, <4>2
      <4> QED BY <1>6, <4>2, <4>3
    <3> QED BY <3>1, <3>2
  <2>7. Len(new) <= left /\ Len(new) + 1 = Len(got) + 2
    BY <1>2, <2>2, <2>4
  <2> QED BY <1>3, <1>7, <2>5, <2>6, <2>7 DEF SyncsInOrder, d, m, got, left, new
<1> QED BY <1>8, <1>9
-----------------------------------------------------------------------------
(* The previews of one direction, while they travel behind the sync        *)
(* messages: those of the stream get newer, the last that arrived is older *)
(* than all of them, the one in the slot newer than all of them, and the   *)
(* sender's guard is at the newest.  After a failed flush the slot holds a *)
(* frame that does not count as sent, on a connection that is down.        *)

Previews(data) == {i \in DOMAIN data : data[i].kind = "preview"}

PreviewsOrdered(sent, slot, data, received, up) ==
  /\ AtMost(received, sent)
  /\ \A i \in Previews(data) : Newer(data[i].frame, received) /\ AtMost(data[i].frame, sent)
  /\ \A i, j \in Previews(data) : i < j => Newer(data[j].frame, data[i].frame)
  /\ up /\ slot # NoFrame =>
        /\ slot = sent /\ Newer(slot, received)
        /\ \A i \in Previews(data) : Newer(slot, data[i].frame)

LEMMA AppendPreviews ==
  ASSUME NEW data \in Seq(DataMessages), NEW m \in DataMessages
  PROVE  LET d == Append(data, m) IN
         /\ Previews(d) = IF m.kind = "preview" THEN Previews(data) \cup {Len(data) + 1}
                                                ELSE Previews(data)
         /\ Len(data) \in Nat /\ Previews(data) \subseteq 1 .. Len(data)
         /\ \A i \in Previews(data) : d[i] = data[i] /\ data[i].frame \in Frames
         /\ d[Len(data) + 1] = m
<1> DEFINE d == Append(data, m)
           k == Len(data)
<1>1. /\ k \in Nat /\ DOMAIN data = 1 .. k /\ DOMAIN d = 1 .. k + 1
      /\ \A i \in 1 .. k : d[i] = data[i]
      /\ d[k + 1] = m
  BY AppendFacts
<1>2. \A i \in 1 .. k : data[i] \in DataMessages
  BY <1>1, ElementOfSeq
<1>3. 1 .. k + 1 = (1 .. k) \cup {k + 1} /\ k + 1 \notin 1 .. k
  BY <1>1
<1> HIDE DEF d, k
<1>4. Previews(d) = IF m.kind = "preview" THEN Previews(data) \cup {k + 1} ELSE Previews(data)
  BY <1>1, <1>3 DEF Previews
<1>5. \A i \in Previews(data) : i \in 1 .. k /\ data[i].frame \in Frames
  <2>1. \A i \in Previews(data) : i \in 1 .. k /\ data[i].kind = "preview"
    BY <1>1 DEF Previews
  <2>2. "sync" # "preview"
    OBVIOUS
  <2> QED BY <1>2, <2>1, <2>2, DataMessageKinds
<1> QED BY <1>1, <1>4, <1>5 DEF d, k

LEMMA SendBeforePreview ==
  ASSUME NEW sent, NEW slot, NEW data \in Seq(DataMessages), NEW received, NEW up,
         NEW n \in 1 .. MaxSync, PreviewsOrdered(sent, slot, data, received, up)
  PROVE  PreviewsOrdered(sent, slot, Append(data, Sync(n)), received, up)
<1> DEFINE d == Append(data, Sync(n))
<1>1. Sync(n) \in DataMessages /\ Sync(n).kind = "sync" /\ "preview" # "sync"
  BY DataMessageKinds DEF DataMessages
<1>2. Previews(d) = Previews(data) /\ \A i \in Previews(data) : d[i] = data[i]
  BY <1>1, AppendPreviews
<1> HIDE DEF d
<1>3. /\ \A i \in Previews(d) : Newer(d[i].frame, received) /\ AtMost(d[i].frame, sent)
      /\ \A i, j \in Previews(d) : i < j => Newer(d[j].frame, d[i].frame)
      /\ up /\ slot # NoFrame => \A i \in Previews(d) : Newer(slot, d[i].frame)
  BY <1>2 DEF PreviewsOrdered
<1> QED BY <1>3 DEF PreviewsOrdered, d

LEMMA SendPreview ==
  ASSUME NEW sent, NEW slot \in Frames, NEW data \in Seq(DataMessages), NEW received,
         PreviewsOrdered(sent, slot, data, received, TRUE)
  PROVE  PreviewsOrdered(sent, NoFrame, Append(data, Preview(slot)), received, TRUE)
<1> DEFINE d == Append(data, Preview(slot))
           k == Len(data)
<1>1. Preview(slot) \in DataMessages /\ Preview(slot).kind = "preview" /\ Preview(slot).frame = slot
  BY DataMessageKinds DEF DataMessages
<1>2. /\ Previews(d) = Previews(data) \cup {k + 1} /\ k \in Nat /\ Previews(data) \subseteq 1 .. k
      /\ \A i \in Previews(data) : d[i] = data[i]
      /\ d[k + 1] = Preview(slot)
  BY <1>1, AppendPreviews
<1>3. slot # NoFrame
  BY FrameOrder
<1> HIDE DEF d, k
<1>4. /\ slot = sent /\ Newer(slot, received) /\ AtMost(slot, sent)
      /\ \A i \in Previews(data) : Newer(slot, data[i].frame)
  BY <1>3 DEF PreviewsOrdered, AtMost
<1>5. \A i \in Previews(d) : Newer(d[i].frame, received) /\ AtMost(d[i].frame, sent)
  BY <1>1, <1>2, <1>4 DEF PreviewsOrdered
<1>6. ASSUME NEW i \in Previews(d), NEW j \in Previews(d), i < j
      PROVE  Newer(d[j].frame, d[i].frame)
  <2>1. i \in Previews(data)
    BY <1>2, <1>6
  <2>2. CASE j \in Previews(data)
    BY <1>2, <1>6, <2>1, <2>2 DEF PreviewsOrdered
  <2>3. CASE j = k + 1
    BY <1>1, <1>2, <1>4, <2>1, <2>3
  <2> QED BY <1>2, <2>2, <2>3
<1> QED BY <1>5, <1>6 DEF PreviewsOrdered, d

LEMMA OfferPreview ==
  ASSUME NEW sent \in Frame, NEW slot, NEW data \in Seq(DataMessages), NEW received \in Frame,
         NEW up, NEW f \in Frames, Newer(f, sent), PreviewsOrdered(sent, slot, data, received, up)
  PROVE  PreviewsOrdered(f, f, data, received, TRUE)
<1>1. \A i \in Previews(data) : data[i].frame \in Frame
  <2>1. \E m : m \in DataMessages
    BY DEF DataMessages
  <2> QED BY <2>1, AppendPreviews DEF Frame
<1>2. /\ f \in Frame /\ Newer(f, received) /\ AtMost(received, f)
      /\ \A i \in Previews(data) : Newer(f, data[i].frame) /\ AtMost(data[i].frame, f)
  BY <1>1, FrameOrder DEF PreviewsOrdered, AtMost, Frame
<1> QED BY <1>2 DEF PreviewsOrdered

\* The peer takes the first message of the stream: a preview is newer than the
\* last one, so that the guard lets it pass.
LEMMA ReceivePreview ==
  ASSUME NEW sent, NEW slot, NEW data \in Seq(DataMessages), NEW received, NEW up,
         data # <<>>, PreviewsOrdered(sent, slot, data, received, up)
  PROVE  LET m == Head(data) IN
         IF m.kind = "preview"
         THEN Newer(m.frame, received) /\ PreviewsOrdered(sent, slot, Tail(data), m.frame, up)
         ELSE PreviewsOrdered(sent, slot, Tail(data), received, up)
<1> DEFINE d == Tail(data)
           m == Head(data)
           k == Len(data)
<1>1. /\ m = data[1] /\ k \in Nat \ {0}
      /\ DOMAIN data = 1 .. k /\ DOMAIN d = 1 .. k - 1
      /\ \A i \in 1 .. k - 1 : d[i] = data[i + 1]
  BY TailFacts
<1> HIDE DEF d, m, k
<1>2. /\ \A i \in Previews(d) : i \in 1 .. k - 1 /\ i + 1 \in Previews(data) /\ d[i] = data[i + 1]
      /\ m.kind = "preview" => 1 \in Previews(data)
  BY <1>1 DEF Previews
<1>3. /\ \A i \in Previews(d) : Newer(d[i].frame, received) /\ AtMost(d[i].frame, sent)
      /\ \A i, j \in Previews(d) : i < j => Newer(d[j].frame, d[i].frame)
      /\ up /\ slot # NoFrame => \A i \in Previews(d) : Newer(slot, d[i].frame)
  <2>1. /\ \A i \in Previews(d) : Newer(d[i].frame, received) /\ AtMost(d[i].frame, sent)
        /\ up /\ slot # NoFrame => \A i \in Previews(d) : Newer(slot, d[i].frame)
    BY <1>2 DEF PreviewsOrdered
  <2>2. ASSUME NEW i \in Previews(d), NEW j \in Previews(d), i < j
        PROVE  Newer(d[j].frame, d[i].frame)
    <3>1. i + 1 < j + 1
      BY <1>2, <2>2
    <3> QED BY <1>2, <3>1 DEF PreviewsOrdered
  <2> QED BY <2>1, <2>2
<1>4. CASE m.kind = "preview"
  <2>1. /\ Newer(m.frame, received) /\ AtMost(m.frame, sent)
        /\ up /\ slot # NoFrame => Newer(slot, m.frame)
    BY <1>1, <1>2, <1>4 DEF PreviewsOrdered
  <2>2. \A i \in Previews(d) : Newer(d[i].frame, m.frame)
    <3> SUFFICES ASSUME NEW i \in Previews(d) PROVE Newer(d[i].frame, m.frame)
      OBVIOUS
    <3>1. 1 < i + 1 /\ i + 1 \in Previews(data) /\ 1 \in Previews(data) /\ d[i] = data[i + 1]
      BY <1>1, <1>2, <1>4
    <3> QED BY <1>1, <3>1 DEF PreviewsOrdered
  <2> QED BY <1>3, <1>4, <2>1, <2>2 DEF PreviewsOrdered, d, m
<1>5. CASE m.kind # "preview"
  BY <1>3, <1>5 DEF PreviewsOrdered, d, m
<1> QED BY <1>4, <1>5
-----------------------------------------------------------------------------
(* The handshake.  What a side has said and the peer has not heard, in its *)
(* outbox and in its stream; and whether it may send datagrams.            *)

Sent(p) == Contents(link[p].control) \cup Contents(wire[p].control)
Open(p) == link[p].ready /\ link[p].mode = "datagram"
Fresh(p) == link[p].received = NoFrame /\ ~link[p].replays /\ history[p].got = <<>>

\* A side that announced the reliable mode is in it; datagrams come from a side
\* that heard a hello and stayed in datagram mode.
Announced(p) ==
  /\ Hello("reliable") \in Sent(p) => link[p].mode = "reliable"
  /\ wire[p].datagrams # {} => Open(p)

\* A side that has a newer session than its peer has heard nothing in it, and
\* nothing has lowered the mode it announced.
Ahead(p) ==
  session[p] > session[Peer(p)] =>
     /\ ~link[p].ready /\ Fresh(p)
     /\ Hello("datagram") \in Sent(p) => link[p].mode = "datagram"

\* A hello that says datagram while its sender's mode has been lowered since is
\* on its way to a peer in reliable mode.
Agreed(p) ==
  Together =>
     /\ Hello("datagram") \in Sent(p) /\ link[p].mode = "reliable"
           => link[Peer(p)].mode = "reliable"
     /\ Open(p) => link[Peer(p)].mode = "datagram"

ModeInv == \A p \in Sides : Announced(p) /\ Ahead(p) /\ Agreed(p)

LEMMA TogetherFacts ==
  ASSUME NEW p \in Sides
  PROVE  /\ Together <=> session[p] = session[Peer(p)]
         /\ Together' <=> session'[p] = session'[Peer(p)]
BY DEF Together, Sides, Peer

LEMMA HelloFacts ==
  /\ \A m, n \in Modes : Hello(m) = Hello(n) => m = n
  /\ \A m \in Modes : Hello(m) # Application /\ Hello(m).kind = "hello" /\ Hello(m).mode = m
  /\ Application.kind # "hello"
  /\ Modes = {"datagram", "reliable"}
BY DEF Hello, Application, Modes

\* The steps of the link as the handshake sees them.  In the first, p acts and
\* hears nothing; a preview or a sync message reaches it only in a common session.
Talks(p) ==
  /\ UNCHANGED session
  /\ \A r \in Sides : link'[r].mode = link[r].mode /\ link'[r].ready = link[r].ready
  /\ Sent(p)' \subseteq Sent(p) \cup {Hello(link[p].mode), Application}
  /\ Sent(Peer(p))' \subseteq Sent(Peer(p))
  /\ wire'[p].datagrams = wire[p].datagrams \/ Open(p)
  /\ wire'[Peer(p)].datagrams = wire[Peer(p)].datagrams
  /\ Fresh(Peer(p)) => Fresh(Peer(p))'
  /\ Fresh(p) /\ ~Together => Fresh(p)'

\* p hears one of the messages its peer has sent.
Hears(p) ==
  /\ UNCHANGED session
  /\ Together
  /\ \E m \in Sent(Peer(p)) : /\ m \in ControlMessages
                              /\ link'[p].mode = Heard(link[p], m).mode
                              /\ link'[p].ready = Heard(link[p], m).ready
  /\ link'[Peer(p)].mode = link[Peer(p)].mode /\ link'[Peer(p)].ready = link[Peer(p)].ready
  /\ \A r \in Sides : Sent(r)' \subseteq Sent(r) /\ wire'[r].datagrams = wire[r].datagrams

\* p begins a newer session.
Begins(p) ==
  LET q == Peer(p)
  IN  /\ session'[p] > session[p] /\ session'[q] = session[q]
      /\ ~link'[p].ready /\ Sent(p)' = {} /\ wire'[p].datagrams = {} /\ Fresh(p)'
      /\ link'[q] = link[q] /\ wire'[q] = wire[q] /\ history'[q] = history[q]

LEMMA TalksKeepMode ==
  ASSUME TypeOK, ModeInv, NEW p \in Sides, Talks(p)
  PROVE  ModeInv'
<1> DEFINE q == Peer(p)
<1>1. /\ q \in Sides /\ q # p /\ Peer(q) = p /\ \A r \in Sides : r = p \/ r = q
      /\ session'[p] = session[p] /\ session'[q] = session[q] /\ Together' = Together
  BY SideFacts, TogetherFacts DEF Talks, Together
<1>2. /\ link[p].mode \in Modes /\ link[q].mode \in Modes
      /\ link[p].ready \in BOOLEAN /\ link[q].ready \in BOOLEAN
      /\ session[p] \in Int /\ session[q] \in Int
  BY <1>1 DEF TypeOK, Link
<1>3. \A m \in Modes : Hello(m) \in Sent(p)' => Hello(m) \in Sent(p) \/ m = link[p].mode
  BY <1>2, HelloFacts DEF Talks
<1>4. \A m \in Modes : Hello(m) \in Sent(q)' => Hello(m) \in Sent(q)
  BY DEF Talks
<1>5. /\ link'[p].mode = link[p].mode /\ link'[p].ready = link[p].ready
      /\ link'[q].mode = link[q].mode /\ link'[q].ready = link[q].ready
      /\ Open(p)' = Open(p) /\ Open(q)' = Open(q)
  BY <1>1 DEF Talks, Open
<1>6. Announced(p)' /\ Announced(q)'
  BY <1>1, <1>2, <1>3, <1>4, <1>5, HelloFacts DEF Announced, ModeInv, Talks
<1>7. Agreed(p)' /\ Agreed(q)'
  BY <1>1, <1>2, <1>3, <1>4, <1>5, HelloFacts DEF Agreed, ModeInv
<1>8. Ahead(p)' /\ Ahead(q)'
  <2>1. session[p] > session[q] \/ session[q] > session[p] => ~Together
    BY <1>1, <1>2, TogetherFacts
  <2> QED BY <1>1, <1>2, <1>3, <1>4, <1>5, <2>1, HelloFacts DEF Ahead, ModeInv, Talks
<1> QED BY <1>1, <1>6, <1>7, <1>8 DEF ModeInv

LEMMA HearsKeepMode ==
  ASSUME TypeOK, ModeInv, NEW p \in Sides, Hears(p)
  PROVE  ModeInv'
<1> DEFINE q == Peer(p)
<1>1. /\ q \in Sides /\ q # p /\ Peer(q) = p /\ \A r \in Sides : r = p \/ r = q
      /\ session'[p] = session[p] /\ session'[q] = session[q] /\ Together' /\ Together
  BY SideFacts, TogetherFacts DEF Hears, Together
<1>2. /\ link[p].mode \in Modes /\ link[q].mode \in Modes
      /\ link[p].ready \in BOOLEAN /\ link[q].ready \in BOOLEAN
      /\ session[p] \in Int /\ session[q] = session[p] /\ link[p] \in Link
  BY <1>1, TogetherFacts DEF TypeOK, Link
<1>3. PICK m \in Sent(q) : /\ m \in ControlMessages
                           /\ link'[p].mode = Heard(link[p], m).mode
                           /\ link'[p].ready = Heard(link[p], m).ready
  BY DEF Hears
<1>4. /\ \A n \in Modes : Hello(n) \in Sent(p)' => Hello(n) \in Sent(p)
      /\ \A n \in Modes : Hello(n) \in Sent(q)' => Hello(n) \in Sent(q)
      /\ wire'[p].datagrams = wire[p].datagrams /\ wire'[q].datagrams = wire[q].datagrams
  BY <1>1 DEF Hears
<1>5. link'[q].mode = link[q].mode /\ link'[q].ready = link[q].ready /\ Open(q)' = Open(q)
  BY DEF Hears, Open
<1>6. Ahead(p)' /\ Ahead(q)'
  BY <1>1, <1>2 DEF Ahead
<1>7. CASE m = Application
  <2>1. link'[p].mode = link[p].mode /\ link'[p].ready = link[p].ready /\ Open(p)' = Open(p)
    BY <1>3, <1>7, HelloFacts DEF Heard, Open
  <2> QED BY <1>1, <1>2, <1>4, <1>5, <1>6, <2>1, HelloFacts DEF ModeInv, Announced, Agreed
<1>8. CASE m = Hello("datagram")
  <2>1. link'[p].mode = link[p].mode /\ link'[p].ready
    BY <1>2, <1>3, <1>8, HelloFacts DEF Heard, Link
  <2>2. link[q].mode = "reliable" => link[p].mode = "reliable"
    BY <1>1, <1>8 DEF ModeInv, Agreed
  <2>3. Open(p) => Open(p)'
    BY <2>1 DEF Open
  <2>4. Announced(p)' /\ Announced(q)'
    BY <1>1, <1>4, <1>5, <2>1, <2>3, HelloFacts DEF ModeInv, Announced
  <2>5. Agreed(p)' /\ Agreed(q)'
    BY <1>1, <1>2, <1>4, <1>5, <2>1, <2>2, HelloFacts DEF ModeInv, Agreed, Open
  <2> QED BY <1>1, <1>6, <2>4, <2>5 DEF ModeInv
<1>9. CASE m = Hello("reliable")
  <2>1. link'[p].mode = "reliable" /\ link'[p].ready
    BY <1>2, <1>3, <1>9, HelloFacts DEF Heard, Link
  <2>2. link[q].mode = "reliable" /\ "reliable" # "datagram"
    BY <1>1, <1>9 DEF ModeInv, Announced
  <2>3. ~Open(p) /\ ~Open(q)
    BY <1>1, <2>2 DEF ModeInv, Agreed, Open
  <2>4. Announced(p)' /\ Announced(q)'
    BY <1>1, <1>4, <1>5, <2>1, <2>2, <2>3, HelloFacts DEF ModeInv, Announced
  <2>5. Agreed(p)' /\ Agreed(q)'
    BY <1>1, <1>5, <2>1, <2>2 DEF Agreed, Open
  <2> QED BY <1>1, <1>6, <2>4, <2>5 DEF ModeInv
<1> QED BY <1>3, <1>7, <1>8, <1>9, HelloFacts DEF ControlMessages

LEMMA BeginsKeepMode ==
  ASSUME TypeOK, ModeInv, NEW p \in Sides, Begins(p), session' \in [Sides -> Int]
  PROVE  ModeInv'
<1> DEFINE q == Peer(p)
<1>1. /\ q \in Sides /\ q # p /\ Peer(q) = p /\ \A r \in Sides : r = p \/ r = q
      /\ session'[p] > session[p] /\ session'[q] = session[q]
      /\ session[p] \in Int /\ session[q] \in Int /\ session'[p] \in Int
      /\ Together' <=> session'[p] = session'[q]
  BY SideFacts, TogetherFacts DEF Begins, TypeOK
<1>2. /\ ~link'[p].ready /\ Sent(p)' = {} /\ wire'[p].datagrams = {} /\ Fresh(p)' /\ ~Open(p)'
  BY DEF Begins, Open
<1>3. link'[q] = link[q] /\ Sent(q)' = Sent(q) /\ Open(q)' = Open(q) /\ wire'[q] = wire[q]
      /\ Fresh(q)' = Fresh(q) /\ link[q].mode \in Modes
  BY <1>1 DEF Begins, Sent, Open, Fresh, TypeOK, Link
<1>4. Announced(p)' /\ Announced(q)'
  BY <1>1, <1>2, <1>3 DEF ModeInv, Announced
<1>5. Ahead(p)' /\ Ahead(q)'
  BY <1>1, <1>2, <1>3 DEF ModeInv, Ahead
<1>6. Agreed(p)' /\ Agreed(q)'
  <2>1. Together' => session[q] > session[p]
    BY <1>1
  <2> QED BY <1>1, <1>2, <1>3, <2>1 DEF ModeInv, Ahead, Agreed, Modes, Open
<1> QED BY <1>1, <1>4, <1>5, <1>6 DEF ModeInv
-----------------------------------------------------------------------------
(* Both directions of the data.                                            *)

\* A side that heard no hello in its session has sent and queued nothing.
Idle(p) ==
  ~link[p].ready =>
     /\ link[p].sync = <<>> /\ link[p].slot = NoFrame /\ link[p].sent = NoFrame
     /\ wire[p].data = <<>> /\ history[p].queued = 0

InOrder(p) ==
  Together =>
     SyncsInOrder(history[p].queued, link[p].sync, wire[p].data, history[Peer(p)].got)

\* Where the previews do not travel as datagrams.
Ordered(p) ==
  Together /\ ~Open(p) =>
     /\ PreviewsOrdered(link[p].sent, link[p].slot, wire[p].data, link[Peer(p)].received, Up(p))
     /\ ~link[Peer(p)].replays

FlowInv == \A p \in Sides : Idle(p) /\ InOrder(p) /\ Ordered(p)

LinkInv == TypeOK /\ ModeInv /\ FlowInv

LEMMA NothingYet ==
  /\ SyncsInOrder(0, <<>>, <<>>, <<>>)
  /\ \A up : PreviewsOrdered(NoFrame, NoFrame, <<>>, NoFrame, up)
<1>1. DOMAIN <<>> = {} /\ Len(<<>>) = 0
  BY EmptySeq
<1>2. Syncs(<<>>) = {} /\ Previews(<<>>) = {}
  BY <1>1 DEF Syncs, Previews
<1>3. \A g : {g[i] : i \in {}} = {} /\ 0 + 1 .. 0 - 0 = {}
  OBVIOUS
<1>4. {<<>>[i].number : i \in Syncs(<<>>)} = {}
  BY <1>2
<1> QED BY <1>1, <1>2, <1>3, <1>4 DEF SyncsInOrder, PreviewsOrdered, AtMost

\* Whatever a flush sends, and when it sends nothing.
LEMMA FlushKeepsSyncs ==
  ASSUME NEW l \in Link, NEW w \in Wire, Len(w.data) <= StreamCap,
         NEW queued \in Nat, NEW got \in Seq(1 .. MaxSync),
         SyncsInOrder(queued, l.sync, w.data, got)
  PROVE  SyncsInOrder(queued, FlushData(l, w).link.sync, FlushData(l, w).wire.data, got)
<1>1. SyncTypes(queued, l.sync, w.data, got)
  BY DEF SyncTypes, Link, Wire
<1>2. CASE /\ l.sync # <<>>
           /\ FlushData(l, w).link = [l EXCEPT !.sync = Tail(@)]
           /\ FlushData(l, w).wire = [w EXCEPT !.data = Append(@, Sync(Head(l.sync)))]
  <2>1. /\ FlushData(l, w).link.sync = Tail(l.sync)
        /\ FlushData(l, w).wire.data = Append(w.data, Sync(Head(l.sync)))
    BY <1>2 DEF Link, Wire
  <2> QED BY <1>1, <1>2, <2>1, SendSync
<1>3. CASE /\ l.slot # NoFrame
           /\ FlushData(l, w).link = [l EXCEPT !.slot = NoFrame]
           /\ FlushData(l, w).wire = [w EXCEPT !.data = Append(@, Preview(l.slot))]
  <2>1. /\ FlushData(l, w).link.sync = l.sync
        /\ FlushData(l, w).wire.data = Append(w.data, Preview(l.slot))
        /\ l.slot \in Frames
    BY <1>3 DEF Link, Wire
  <2> QED BY <1>1, <2>1, SendBehindSyncs
<1> QED BY <1>2, <1>3, FlushDataEffect

LEMMA FlushKeepsPreviews ==
  ASSUME NEW l \in Link, NEW w \in Wire, Len(w.data) <= StreamCap, NEW received,
         PreviewsOrdered(l.sent, l.slot, w.data, received, TRUE)
  PROVE  LET f == FlushData(l, w)
         IN  PreviewsOrdered(f.link.sent, f.link.slot, f.wire.data, received, TRUE)
<1>1. w.data \in Seq(DataMessages) /\ l.sync \in Seq(1 .. MaxSync) /\ l.slot \in Frames \cup {NoFrame}
  BY DEF Link, Wire
<1>2. CASE /\ l.sync # <<>>
           /\ FlushData(l, w).link = [l EXCEPT !.sync = Tail(@)]
           /\ FlushData(l, w).wire = [w EXCEPT !.data = Append(@, Sync(Head(l.sync)))]
  <2>1. /\ FlushData(l, w).link.sent = l.sent /\ FlushData(l, w).link.slot = l.slot
        /\ FlushData(l, w).wire.data = Append(w.data, Sync(Head(l.sync)))
        /\ Head(l.sync) \in 1 .. MaxSync
    BY <1>1, <1>2, TailFacts DEF Link, Wire
  <2> QED BY <1>1, <2>1, SendBeforePreview
<1>3. CASE /\ l.slot # NoFrame
           /\ FlushData(l, w).link = [l EXCEPT !.slot = NoFrame]
           /\ FlushData(l, w).wire = [w EXCEPT !.data = Append(@, Preview(l.slot))]
  <2>1. /\ FlushData(l, w).link.sent = l.sent /\ FlushData(l, w).link.slot = NoFrame
        /\ FlushData(l, w).wire.data = Append(w.data, Preview(l.slot))
        /\ l.slot \in Frames
    BY <1>1, <1>3 DEF Link, Wire
  <2> QED BY <1>1, <2>1, SendPreview
<1> QED BY <1>2, <1>3, FlushDataEffect

LEMMA FlushLeaves ==
  ASSUME NEW l \in Link, NEW w \in Wire, Len(w.data) <= StreamCap
  PROVE  LET f == FlushData(l, w) IN
         /\ f.link.mode = l.mode /\ f.link.ready = l.ready /\ f.link.control = l.control
         /\ f.link.sent = l.sent /\ f.link.received = l.received /\ f.link.replays = l.replays
         /\ f.wire.control = w.control /\ f.wire.datagrams = w.datagrams
         /\ l.sync = <<>> /\ l.slot = NoFrame => f.link = l /\ f.wire = w
<1>1. CASE FlushData(l, w).link = l /\ FlushData(l, w).wire = w
  BY <1>1
<1>2. CASE /\ l.sync # <<>>
           /\ FlushData(l, w).link = [l EXCEPT !.sync = Tail(@)]
           /\ FlushData(l, w).wire = [w EXCEPT !.data = Append(@, Sync(Head(l.sync)))]
  BY <1>2 DEF Link, Wire
<1>3. CASE /\ l.slot # NoFrame
           /\ FlushData(l, w).link = [l EXCEPT !.slot = NoFrame]
           /\ FlushData(l, w).wire = [w EXCEPT !.data = Append(@, Preview(l.slot))]
  BY <1>3 DEF Link, Wire
<1> QED BY <1>1, <1>2, <1>3, FlushDataEffect

\* A flush of p's link, after it became l, up or not.
LEMMA DataFlushKeeps ==
  ASSUME TypeOK, NEW p \in Sides, NEW l \in Link,
         NEW queued \in Nat, NEW got \in Seq(1 .. MaxSync), NEW received
  PROVE  LET f == DataFlush(p, l) IN
         /\ SyncsInOrder(queued, l.sync, wire[p].data, got)
               => SyncsInOrder(queued, f.link.sync, f.wire.data, got)
         /\ PreviewsOrdered(l.sent, l.slot, wire[p].data, received, Up(p))
               => PreviewsOrdered(f.link.sent, f.link.slot, f.wire.data, received, Up(p))
         /\ f.link.mode = l.mode /\ f.link.ready = l.ready /\ f.link.control = l.control
         /\ f.link.sent = l.sent /\ f.link.received = l.received /\ f.link.replays = l.replays
         /\ f.wire.control = wire[p].control /\ f.wire.datagrams = wire[p].datagrams
         /\ l.sync = <<>> /\ l.slot = NoFrame => f.link = l /\ f.wire = wire[p]
<1>1. wire[p] \in Wire /\ Len(wire[p].data) <= StreamCap
  BY DEF TypeOK
<1>2. CASE ~Up(p)
  BY <1>2 DEF DataFlush
<1>3. CASE Up(p)
  <2>1. DataFlush(p, l) = FlushData(l, wire[p]) /\ Up(p) = TRUE
    BY <1>3 DEF DataFlush, Up
  <2> DEFINE f == FlushData(l, wire[p])
  <2>2. /\ SyncsInOrder(queued, l.sync, wire[p].data, got)
               => SyncsInOrder(queued, f.link.sync, f.wire.data, got)
        /\ PreviewsOrdered(l.sent, l.slot, wire[p].data, received, TRUE)
               => PreviewsOrdered(f.link.sent, f.link.slot, f.wire.data, received, TRUE)
    BY <1>1, FlushKeepsSyncs, FlushKeepsPreviews
  <2>3. /\ f.link.mode = l.mode /\ f.link.ready = l.ready /\ f.link.control = l.control
        /\ f.link.sent = l.sent /\ f.link.received = l.received /\ f.link.replays = l.replays
        /\ f.wire.control = wire[p].control /\ f.wire.datagrams = wire[p].datagrams
        /\ l.sync = <<>> /\ l.slot = NoFrame => f.link = l /\ f.wire = wire[p]
    BY <1>1, FlushLeaves
  <2> HIDE DEF f
  <2> QED BY <2>1, <2>2, <2>3 DEF f
<1> QED BY <1>2, <1>3
-----------------------------------------------------------------------------
(* A step in which p sends, queues or flushes and takes nothing.           *)

Sends(p, l, w) ==
  /\ link' = [link EXCEPT ![p] = l] /\ wire' = [wire EXCEPT ![p] = w]
  /\ UNCHANGED <<session, broken>>
  /\ history' = [history EXCEPT ![p] = [@ EXCEPT !.queued = history'[p].queued]]
  /\ l.mode = link[p].mode /\ l.ready = link[p].ready
  /\ l.received = link[p].received /\ l.replays = link[p].replays
  /\ Contents(l.control) \cup Contents(w.control)
        \subseteq Sent(p) \cup {Hello(link[p].mode), Application}
  /\ w.datagrams = wire[p].datagrams \/ Open(p)

\* What the step has to show of its own direction.
Keeps(p, l, w) ==
  /\ ~l.ready => /\ l.sync = <<>> /\ l.slot = NoFrame /\ l.sent = NoFrame
                 /\ w.data = <<>> /\ history'[p].queued = 0
  /\ Together => SyncsInOrder(history'[p].queued, l.sync, w.data, history[Peer(p)].got)
  /\ Together /\ ~Open(p) =>
        PreviewsOrdered(l.sent, l.slot, w.data, link[Peer(p)].received, Up(p))

LEMMA SendsEffect ==
  ASSUME TypeOK, NEW p \in Sides, NEW l, NEW w, Sends(p, l, w)
  PROVE  LET q == Peer(p) IN
         /\ link'[p] = l /\ wire'[p] = w /\ link'[q] = link[q] /\ wire'[q] = wire[q]
         /\ history'[q] = history[q] /\ history'[p].got = history[p].got
         /\ session' = session /\ broken' = broken
         /\ Open(p)' = Open(p) /\ Open(q)' = Open(q) /\ Up(p)' = Up(p) /\ Up(q)' = Up(q)
         /\ Together' = Together
<1> DEFINE q == Peer(p)
<1>1. q \in Sides /\ q # p
  BY SideFacts
<1>2. link \in [Sides -> Link] /\ wire \in [Sides -> Wire]
      /\ history \in [Sides -> [queued : 0 .. MaxSync, got : Seq(1 .. MaxSync)]]
  BY DEF TypeOK
<1>3. /\ link'[p] = l /\ wire'[p] = w /\ link'[q] = link[q] /\ wire'[q] = wire[q]
      /\ history'[q] = history[q] /\ session' = session /\ broken' = broken
  BY <1>1, <1>2 DEF Sends
<1>4. history'[p].got = history[p].got
  <2>1. history'[p] = [history[p] EXCEPT !.queued = history'[p].queued]
    BY <1>2 DEF Sends
  <2>2. history[p] \in [queued : 0 .. MaxSync, got : Seq(1 .. MaxSync)]
    BY <1>2
  <2> DEFINE n == history'[p].queued
  <2>3. [history[p] EXCEPT !.queued = n].got = history[p].got
    <3> HIDE DEF n
    <3> QED BY <2>2
  <2> QED BY <2>1, <2>3
<1>5. Open(p)' = Open(p) /\ Open(q)' = Open(q) /\ Up(p)' = Up(p) /\ Up(q)' = Up(q) /\ Together' = Together
  BY <1>3 DEF Sends, Open, Up, Together
<1> QED BY <1>3, <1>4, <1>5

LEMMA SendsKeep ==
  ASSUME LinkInv, NEW p \in Sides, NEW l, NEW w, Sends(p, l, w), Keeps(p, l, w)
  PROVE  ModeInv' /\ FlowInv'
<1> DEFINE q == Peer(p)
<1>1. /\ q \in Sides /\ q # p /\ Peer(q) = p /\ \A r \in Sides : r = p \/ r = q
  BY SideFacts
<1>2. /\ link'[p] = l /\ wire'[p] = w /\ link'[q] = link[q] /\ wire'[q] = wire[q]
      /\ history'[q] = history[q] /\ history'[p].got = history[p].got
      /\ session' = session /\ broken' = broken
      /\ Open(p)' = Open(p) /\ Open(q)' = Open(q) /\ Up(p)' = Up(p) /\ Up(q)' = Up(q)
      /\ Together' = Together
  BY SendsEffect DEF LinkInv
<1>3. Talks(p)
  <2>1. /\ Sent(p)' \subseteq Sent(p) \cup {Hello(link[p].mode), Application}
        /\ Sent(q)' \subseteq Sent(q)
    BY <1>2 DEF Sends, Sent
  <2>2. (Fresh(p) => Fresh(p)') /\ (Fresh(q) => Fresh(q)')
    BY <1>2 DEF Sends, Fresh
  <2>3. \A r \in Sides : link'[r].mode = link[r].mode /\ link'[r].ready = link[r].ready
    BY <1>1, <1>2 DEF Sends
  <2>4. wire'[p].datagrams = wire[p].datagrams \/ Open(p)
    BY <1>2 DEF Sends
  <2> QED BY <1>2, <2>1, <2>2, <2>3, <2>4 DEF Talks
<1>4. ModeInv'
  BY <1>3, TalksKeepMode DEF LinkInv
<1>5. Idle(p)' /\ InOrder(p)'
  BY <1>1, <1>2 DEF Keeps, Idle, InOrder
<1>6. Ordered(p)'
  BY <1>1, <1>2 DEF Keeps, Ordered, LinkInv, FlowInv
<1>7. Idle(q)' /\ InOrder(q)'
  BY <1>1, <1>2 DEF LinkInv, FlowInv, Idle, InOrder
<1>8. Ordered(q)'
  BY <1>1, <1>2 DEF LinkInv, FlowInv, Ordered, Sends
<1> QED BY <1>1, <1>4, <1>5, <1>6, <1>7, <1>8 DEF FlowInv

\* Every flush of the control queue keeps the data as it was.
LEMMA SameData ==
  ASSUME LinkInv, NEW p \in Sides, NEW l, NEW w, Sends(p, l, w), history' = history,
         l.sync = link[p].sync, l.slot = link[p].slot, l.sent = link[p].sent, w.data = wire[p].data
  PROVE  Keeps(p, l, w)
BY DEF LinkInv, FlowInv, Idle, InOrder, Ordered, Keeps, Sends

LEMMA ControlFlushSends ==
  ASSUME LinkInv, NEW p \in Sides, NEW c, NEW l \in Link, l = [link[p] EXCEPT !.control = c],
         Contents(c) \subseteq Contents(link[p].control) \cup {Hello(link[p].mode), Application},
         Flushed(p, ControlFlush(p, l)), UNCHANGED <<session, broken, history>>
  PROVE  LET f == ControlFlush(p, l) IN Sends(p, f.link, f.wire) /\ Keeps(p, f.link, f.wire)
<1> DEFINE f == ControlFlush(p, l)
<1>1. PICK d, v \in Seq(ControlMessages) :
           /\ f.link = [l EXCEPT !.control = d]
           /\ f.wire = [wire[p] EXCEPT !.control = v]
           /\ Contents(d) \cup Contents(v) \subseteq Contents(l.control) \cup Contents(wire[p].control)
  BY ControlFlushEffect, ZenonT(60) DEF LinkInv
<1>2. link[p] \in Link /\ wire[p] \in Wire /\ l.control = c
  BY DEF LinkInv, TypeOK, Link
<1> HIDE DEF f
<1>3. /\ f.link.mode = link[p].mode /\ f.link.ready = link[p].ready
      /\ f.link.received = link[p].received /\ f.link.replays = link[p].replays
      /\ f.link.sync = link[p].sync /\ f.link.slot = link[p].slot /\ f.link.sent = link[p].sent
      /\ f.link.control = d /\ f.wire.control = v
      /\ f.wire.data = wire[p].data /\ f.wire.datagrams = wire[p].datagrams
  BY <1>1, <1>2 DEF Link, Wire
<1>4. Contents(d) \cup Contents(v) \subseteq Sent(p) \cup {Hello(link[p].mode), Application}
  BY <1>1, <1>2 DEF Sent
<1>5. history' = [history EXCEPT ![p] = [@ EXCEPT !.queued = history'[p].queued]]
  BY DEF LinkInv, TypeOK
<1>6. Sends(p, f.link, f.wire)
  BY <1>3, <1>4, <1>5 DEF Sends, Flushed, f
<1>7. Keeps(p, f.link, f.wire)
  BY <1>3, <1>6, SameData
<1> QED BY <1>6, <1>7 DEF f

\* Flushing the data, after the link became l and the counter of queued sync
\* messages queued.
LEMMA DataFlushSends ==
  ASSUME LinkInv, NEW p \in Sides, NEW l \in Link, NEW n \in 0 .. MaxSync,
         Flushed(p, DataFlush(p, l)), UNCHANGED <<session, broken>>,
         history' = [history EXCEPT ![p].queued = n],
         l.mode = link[p].mode, l.ready = link[p].ready, l.control = link[p].control,
         l.received = link[p].received, l.replays = link[p].replays,
         ~l.ready => l = link[p] /\ n = history[p].queued,
         Together => SyncsInOrder(n, l.sync, wire[p].data, history[Peer(p)].got),
         Together /\ ~Open(p) =>
            PreviewsOrdered(l.sent, l.slot, wire[p].data, link[Peer(p)].received, Up(p))
  PROVE  LET f == DataFlush(p, l) IN Sends(p, f.link, f.wire) /\ Keeps(p, f.link, f.wire)
<1> DEFINE f == DataFlush(p, l)
           got == history[Peer(p)].got
           received == link[Peer(p)].received
<1>1. /\ n \in Nat /\ got \in Seq(1 .. MaxSync) /\ TypeOK
      /\ history \in [Sides -> [queued : 0 .. MaxSync, got : Seq(1 .. MaxSync)]]
  BY SideFacts DEF LinkInv, TypeOK
<1>2. /\ SyncsInOrder(n, l.sync, wire[p].data, got)
               => SyncsInOrder(n, f.link.sync, f.wire.data, got)
      /\ PreviewsOrdered(l.sent, l.slot, wire[p].data, received, Up(p))
               => PreviewsOrdered(f.link.sent, f.link.slot, f.wire.data, received, Up(p))
      /\ f.link.mode = l.mode /\ f.link.ready = l.ready /\ f.link.control = l.control
      /\ f.link.sent = l.sent /\ f.link.received = l.received /\ f.link.replays = l.replays
      /\ f.wire.control = wire[p].control /\ f.wire.datagrams = wire[p].datagrams
      /\ l.sync = <<>> /\ l.slot = NoFrame => f.link = l /\ f.wire = wire[p]
  <2> HIDE DEF got, received
  <2> QED BY <1>1, DataFlushKeeps, ZenonT(60)
<1> HIDE DEF f, got, received
<1>3. history'[p].queued = n
  BY <1>1
<1>4. history' = [history EXCEPT ![p] = [@ EXCEPT !.queued = history'[p].queued]]
  BY <1>1, <1>3
<1>5. Sends(p, f.link, f.wire)
  BY <1>2, <1>4 DEF Sends, Flushed, f, Sent
<1>6. ~f.link.ready => /\ f.link.sync = <<>> /\ f.link.slot = NoFrame /\ f.link.sent = NoFrame
                       /\ f.wire.data = <<>> /\ history'[p].queued = 0
  BY <1>2, <1>3 DEF LinkInv, FlowInv, Idle
<1>7. Keeps(p, f.link, f.wire)
  BY <1>2, <1>3, <1>6 DEF Keeps, got, received
<1> QED BY <1>5, <1>7 DEF f
-----------------------------------------------------------------------------
(* The actions.                                                            *)

LEMMA QueueControlKeeps ==
  ASSUME LinkInv, NEW p \in Sides, NEW m \in {Hello(link[p].mode), Application}, QueueControl(p, m)
  PROVE  ModeInv' /\ FlowInv'
<1> DEFINE c == Append(link[p].control, m)
           l == [link[p] EXCEPT !.control = c]
<1>1. link[p] \in Link /\ link[p].control \in Seq(ControlMessages) /\ m \in ControlMessages
  BY DEF LinkInv, TypeOK, Link, ControlMessages
<1>2. c \in Seq(ControlMessages) /\ Contents(c) \subseteq Contents(link[p].control) \cup {m}
  BY <1>1, AppendFacts
<1>3. /\ l = [link[p] EXCEPT !.control = c]
      /\ Flushed(p, ControlFlush(p, l)) /\ UNCHANGED <<session, broken, history>>
  BY DEF QueueControl
<1> HIDE DEF c
<1>4. l \in Link
  BY <1>1, <1>2 DEF Link
<1> HIDE DEF l
<1>5. Contents(c) \subseteq Contents(link[p].control) \cup {Hello(link[p].mode), Application}
  BY <1>2
<1> QED BY <1>3, <1>4, <1>5, ControlFlushSends, SendsKeep

LEMMA TrySendSyncKeeps ==
  ASSUME LinkInv, NEW p \in Sides, TrySendSync(p)
  PROVE  ModeInv' /\ FlowInv'
<1> DEFINE n == history[p].queued + 1
           s == Append(link[p].sync, n)
           l == [link[p] EXCEPT !.sync = s]
           got == history[Peer(p)].got
<1>1. /\ link[p] \in Link /\ wire[p] \in Wire /\ got \in Seq(1 .. MaxSync) /\ MaxSync \in Nat
      /\ history[p].queued \in Nat /\ history[p].queued < MaxSync /\ link[p].ready
      /\ link[p].sync \in Seq(1 .. MaxSync) /\ wire[p].data \in Seq(DataMessages)
  BY LinkAssumption, SideFacts, SMTT(30) DEF LinkInv, TypeOK, Link, Wire, TrySendSync
<1>2. n \in 1 .. MaxSync /\ n \in 0 .. MaxSync
  BY <1>1
<1>3. s \in Seq(1 .. MaxSync)
  BY <1>1, <1>2, AppendFacts
<1>4. Together => SyncsInOrder(n, s, wire[p].data, got)
  BY <1>1, <1>2, QueueSync DEF LinkInv, FlowInv, InOrder, SyncTypes
<1>5. /\ l = [link[p] EXCEPT !.sync = s]
      /\ Flushed(p, DataFlush(p, l)) /\ UNCHANGED <<session, broken>>
      /\ history' = [history EXCEPT ![p].queued = n]
  BY DEF TrySendSync
<1> HIDE DEF s, n
<1>6. /\ l \in Link /\ l.sync = s /\ l.mode = link[p].mode /\ l.ready = link[p].ready
      /\ l.control = link[p].control /\ l.slot = link[p].slot /\ l.sent = link[p].sent
      /\ l.received = link[p].received /\ l.replays = link[p].replays
  BY <1>1, <1>3 DEF Link
<1>7. Together /\ ~Open(p) =>
        PreviewsOrdered(l.sent, l.slot, wire[p].data, link[Peer(p)].received, Up(p))
  BY <1>6 DEF LinkInv, FlowInv, Ordered
<1> HIDE DEF l, got
<1>8. Together => SyncsInOrder(n, l.sync, wire[p].data, history[Peer(p)].got)
  BY <1>4, <1>6 DEF got
<1> QED BY <1>1, <1>2, <1>5, <1>6, <1>7, <1>8, DataFlushSends, SendsKeep

LEMMA TrySendPreviewKeeps ==
  ASSUME LinkInv, NEW p \in Sides, NEW f \in Frames, TrySendPreview(p, f)
  PROVE  ModeInv' /\ FlowInv'
<1> DEFINE q == Peer(p)
<1>1. /\ link[p] \in Link /\ wire[p] \in Wire /\ link[p].sent \in Frame /\ link[q].received \in Frame
      /\ wire[p].data \in Seq(DataMessages)
      /\ history \in [Sides -> [queued : 0 .. MaxSync, got : Seq(1 .. MaxSync)]]
      /\ link \in [Sides -> Link] /\ wire \in [Sides -> Wire]
  BY SideFacts DEF LinkInv, TypeOK, Link, Wire, Frame
<1>2. history' = history => history' = [history EXCEPT ![p] = [@ EXCEPT !.queued = history'[p].queued]]
  BY <1>1
<1>3. CASE SendDatagram(p, f)
  <2> DEFINE l == [link[p] EXCEPT !.sent = f]
             w == [wire[p] EXCEPT !.datagrams = @ \union {f}]
  <2>1. /\ link' = [link EXCEPT ![p] = l] /\ wire' = [wire EXCEPT ![p] = w]
        /\ UNCHANGED <<session, broken, history>> /\ Open(p) /\ link[p].ready
    BY <1>1, <1>3 DEF SendDatagram, MaySendPreview, Open
  <2>2. /\ l.mode = link[p].mode /\ l.ready = link[p].ready /\ l.control = link[p].control
        /\ l.received = link[p].received /\ l.replays = link[p].replays /\ l.sync = link[p].sync
        /\ w.control = wire[p].control /\ w.data = wire[p].data
    BY <1>1 DEF Link, Wire
  <2> HIDE DEF l, w
  <2>3. Sends(p, l, w)
    BY <1>2, <2>1, <2>2 DEF Sends, Sent
  <2>4. Keeps(p, l, w)
    BY <2>1, <2>2 DEF Keeps, LinkInv, FlowInv, InOrder
  <2> QED BY <2>3, <2>4, SendsKeep
<1>4. ASSUME MaySendPreview(p, f), link[p].mode = "reliable", NEW up,
             Together /\ ~Open(p) =>
               PreviewsOrdered(link[p].sent, link[p].slot, wire[p].data, link[q].received, up)
      PROVE  Together => PreviewsOrdered(f, f, wire[p].data, link[q].received, TRUE)
  <2>1. ~Open(p) /\ Newer(f, link[p].sent)
    BY <1>4 DEF Open, MaySendPreview
  <2> QED BY <1>1, <1>4, <2>1, OfferPreview
<1>5. Together /\ ~Open(p) =>
         PreviewsOrdered(link[p].sent, link[p].slot, wire[p].data, link[q].received, Up(p))
  BY DEF LinkInv, FlowInv, Ordered
<1>6. CASE ReplacePreview(p, f)
  <2> DEFINE l == [link[p] EXCEPT !.slot = f, !.sent = f]
             w == wire[p]
  <2>1. /\ link' = [link EXCEPT ![p] = l] /\ wire' = [wire EXCEPT ![p] = w]
        /\ UNCHANGED <<session, broken, history>> /\ link[p].ready
        /\ MaySendPreview(p, f) /\ link[p].mode = "reliable"
    BY <1>1, <1>6 DEF ReplacePreview, MaySendPreview
  <2>2. /\ l.mode = link[p].mode /\ l.ready = link[p].ready /\ l.control = link[p].control
        /\ l.received = link[p].received /\ l.replays = link[p].replays /\ l.sync = link[p].sync
        /\ l.slot = f /\ l.sent = f
    BY <1>1 DEF Link
  <2>3. Together => PreviewsOrdered(f, f, wire[p].data, link[q].received, TRUE)
    BY <1>4, <1>5, <2>1
  <2>4. Together => PreviewsOrdered(f, f, wire[p].data, link[q].received, Up(p))
    BY <2>3 DEF PreviewsOrdered
  <2> HIDE DEF l
  <2>5. Sends(p, l, w)
    BY <1>2, <2>1, <2>2 DEF Sends, Sent
  <2>6. Keeps(p, l, w)
    BY <2>1, <2>2, <2>4 DEF Keeps, LinkInv, FlowInv, InOrder
  <2> QED BY <2>5, <2>6, SendsKeep
<1>7. CASE QueuePreview(p, f)
  <2> DEFINE l == [link[p] EXCEPT !.slot = f, !.sent = IF Up(p) THEN f ELSE @]
             n == history[p].queued
  <2>1. /\ Flushed(p, DataFlush(p, l)) /\ UNCHANGED <<session, broken, history>> /\ link[p].ready
        /\ MaySendPreview(p, f) /\ link[p].mode = "reliable" /\ link[p].slot = NoFrame
    BY <1>7 DEF QueuePreview, MaySendPreview
  <2>2. /\ l.mode = link[p].mode /\ l.ready = link[p].ready /\ l.control = link[p].control
        /\ l.received = link[p].received /\ l.replays = link[p].replays /\ l.sync = link[p].sync
        /\ l.slot = f /\ l.sent = (IF Up(p) THEN f ELSE link[p].sent) /\ l \in Link
    BY <1>1 DEF Link, Frame
  <2>3. n \in 0 .. MaxSync /\ history' = [history EXCEPT ![p].queued = n]
    BY <1>1, <2>1
  <2>4. Together => PreviewsOrdered(f, f, wire[p].data, link[q].received, TRUE)
    BY <1>4, <1>5, <2>1
  <2>5. ~Open(p)
    BY <2>1 DEF Open
  <2> HIDE DEF l
  <2>6. CASE Up(p)
    <3>1. Up(p) = TRUE
      BY <2>6 DEF Up
    <3>2. Together => PreviewsOrdered(l.sent, l.slot, wire[p].data, link[q].received, Up(p))
      BY <2>2, <2>4, <3>1
    <3> HIDE DEF n
    <3>3. Together => SyncsInOrder(n, l.sync, wire[p].data, history[Peer(p)].got)
      BY <2>2 DEF LinkInv, FlowInv, InOrder, n
    <3> QED BY <2>1, <2>2, <2>3, <3>2, <3>3, DataFlushSends, SendsKeep
  <2>7. CASE ~Up(p)
    <3>1. Together => PreviewsOrdered(l.sent, l.slot, wire[p].data, link[q].received, Up(p))
      BY <1>5, <2>2, <2>5, <2>7 DEF PreviewsOrdered
    <3> HIDE DEF n
    <3>2. Together => SyncsInOrder(n, l.sync, wire[p].data, history[Peer(p)].got)
      BY <2>2 DEF LinkInv, FlowInv, InOrder, n
    <3> QED BY <2>1, <2>2, <2>3, <3>1, <3>2, DataFlushSends, SendsKeep
  <2> QED BY <2>6, <2>7
<1> QED BY <1>3, <1>6, <1>7 DEF TrySendPreview

LEMMA PollOutboundKeeps ==
  ASSUME LinkInv, NEW p \in Sides, PollOutbound(p)
  PROVE  ModeInv' /\ FlowInv'
<1> DEFINE c == FlushControl(link[p], wire[p])
           d == FlushData(c.link, c.wire)
           got == history[Peer(p)].got
           received == link[Peer(p)].received
           queued == history[p].queued
<1>1. /\ SideOK(link[p], wire[p]) /\ TypeOK /\ Up(p) = TRUE
      /\ queued \in Nat /\ got \in Seq(1 .. MaxSync)
      /\ history \in [Sides -> [queued : 0 .. MaxSync, got : Seq(1 .. MaxSync)]]
      /\ Flushed(p, d) /\ UNCHANGED <<session, broken, history>>
  BY SidesTyped, SideFacts, SMTT(30) DEF LinkInv, TypeOK, PollOutbound, Up
<1>2. PICK s, v \in Seq(ControlMessages) :
           /\ c.link = [link[p] EXCEPT !.control = s]
           /\ c.wire = [wire[p] EXCEPT !.control = v]
           /\ Contents(s) \cup Contents(v) \subseteq Sent(p)
  BY <1>1, FlushControlEffect, ZenonT(60) DEF SideOK, Sent
<1>3. c = ControlFlush(p, link[p]) /\ link[p] \in Link
  BY <1>1 DEF ControlFlush, SideOK
<1>4. SideOK(c.link, c.wire)
  BY <1>1, <1>3, ControlFlushType DEF SideOK
<1> HIDE DEF c, got, received, queued
<1>5. /\ c.link.mode = link[p].mode /\ c.link.ready = link[p].ready
      /\ c.link.received = link[p].received /\ c.link.replays = link[p].replays
      /\ c.link.sync = link[p].sync /\ c.link.slot = link[p].slot /\ c.link.sent = link[p].sent
      /\ c.link.control = s /\ c.wire.control = v
      /\ c.wire.data = wire[p].data /\ c.wire.datagrams = wire[p].datagrams
  BY <1>1, <1>2 DEF SideOK, Link, Wire
<1>6. /\ SyncsInOrder(queued, link[p].sync, wire[p].data, got)
            => SyncsInOrder(queued, d.link.sync, d.wire.data, got)
      /\ PreviewsOrdered(link[p].sent, link[p].slot, wire[p].data, received, Up(p))
            => PreviewsOrdered(d.link.sent, d.link.slot, d.wire.data, received, Up(p))
  BY <1>1, <1>4, <1>5, FlushKeepsSyncs, FlushKeepsPreviews DEF SideOK
<1>7. /\ d.link.mode = c.link.mode /\ d.link.ready = c.link.ready /\ d.link.control = c.link.control
      /\ d.link.sent = c.link.sent /\ d.link.received = c.link.received
      /\ d.link.replays = c.link.replays
      /\ d.wire.control = c.wire.control /\ d.wire.datagrams = c.wire.datagrams
      /\ c.link.sync = <<>> /\ c.link.slot = NoFrame => d.link = c.link /\ d.wire = c.wire
  BY <1>4, FlushLeaves DEF SideOK
<1> HIDE DEF d
<1>8. history' = [history EXCEPT ![p] = [@ EXCEPT !.queued = history'[p].queued]]
  BY <1>1
<1>9. Sends(p, d.link, d.wire)
  BY <1>1, <1>2, <1>5, <1>7, <1>8 DEF Sends, Flushed
<1>10. Keeps(p, d.link, d.wire)
  <2>1. ~d.link.ready => /\ d.link.sync = <<>> /\ d.link.slot = NoFrame /\ d.link.sent = NoFrame
                         /\ d.wire.data = <<>> /\ history'[p].queued = 0
    BY <1>1, <1>5, <1>7 DEF LinkInv, FlowInv, Idle
  <2> QED BY <1>1, <1>6, <2>1 DEF LinkInv, FlowInv, InOrder, Ordered, Keeps, queued, got, received
<1> QED BY <1>9, <1>10, SendsKeep
\* Hearing a hello never takes the right to send datagrams from a side: a hello
\* that says reliable comes from a side in reliable mode, whose peer is not open.
LEMMA HearsKeepOpen ==
  ASSUME LinkInv, NEW p \in Sides, Hears(p)
  PROVE  \A r \in Sides : (link[r].ready => link'[r].ready) /\ (Open(r) => Open(r)')
<1> DEFINE q == Peer(p)
<1>1. q \in Sides /\ Peer(q) = p /\ \A r \in Sides : r = p \/ r = q
  BY SideFacts
<1>2. PICK m \in Sent(q) : /\ m \in ControlMessages
                           /\ link'[p].mode = Heard(link[p], m).mode
                           /\ link'[p].ready = Heard(link[p], m).ready
  BY DEF Hears
<1>3. link'[q].mode = link[q].mode /\ link'[q].ready = link[q].ready /\ link[p] \in Link /\ Together
  BY DEF Hears, LinkInv, TypeOK
<1>4. CASE m = Application
  BY <1>1, <1>2, <1>3, <1>4, HelloFacts DEF Heard, Open
<1>5. CASE m = Hello("datagram")
  <2>1. link'[p].mode = link[p].mode /\ link'[p].ready
    BY <1>2, <1>3, <1>5, HelloFacts DEF Heard, Link
  <2> QED BY <1>1, <1>3, <2>1 DEF Open
<1>6. CASE m = Hello("reliable")
  <2>1. ~Open(p)
    BY <1>1, <1>3, <1>6 DEF LinkInv, ModeInv, Announced, Agreed
  <2>2. link'[p].ready
    BY <1>2, <1>3, <1>6, HelloFacts DEF Heard, Link
  <2> QED BY <1>1, <1>3, <2>1, <2>2 DEF Open
<1> QED BY <1>2, <1>4, <1>5, <1>6, HelloFacts DEF ControlMessages

LEMMA PollControlKeeps ==
  ASSUME LinkInv, NEW p \in Sides, PollControl(p)
  PROVE  ModeInv' /\ FlowInv'
<1> DEFINE f == ControlFlush(p, link[p])
           q == Peer(p)
           m == Head(wire[q].control)
           l == Heard(f.link, m)
<1>1. /\ q \in Sides /\ q # p /\ Peer(q) = p /\ \A r \in Sides : r = p \/ r = q
      /\ TypeOK /\ link[p] \in Link /\ wire[p] \in Wire /\ wire[q] \in Wire
      /\ link \in [Sides -> Link] /\ wire \in [Sides -> Wire]
  BY SideFacts DEF LinkInv, TypeOK
<1>2. CASE Flushed(p, f) /\ UNCHANGED <<session, broken, history>>
  <2> DEFINE c == link[p].control
  <2>1. /\ link[p] = [link[p] EXCEPT !.control = c]
        /\ Contents(c) \subseteq Contents(link[p].control) \cup {Hello(link[p].mode), Application}
    BY <1>1 DEF Link
  <2> HIDE DEF c
  <2> QED BY <1>1, <1>2, <2>1, ControlFlushSends, SendsKeep
<1>3. CASE /\ session[p] = session[q] /\ wire[q].control # <<>>
           /\ link' = [link EXCEPT ![p] = l]
           /\ wire' = [wire EXCEPT ![p] = f.wire, ![q].control = Tail(@)]
           /\ UNCHANGED <<session, broken, history>>
  <2>1. /\ wire[q].control \in Seq(ControlMessages) /\ m \in ControlMessages
        /\ m \in Contents(wire[q].control)
        /\ Contents(Tail(wire[q].control)) \subseteq Contents(wire[q].control)
    BY <1>1, <1>3, TailFacts DEF Wire
  <2>2. PICK d, v \in Seq(ControlMessages) :
           /\ f.link = [link[p] EXCEPT !.control = d]
           /\ f.wire = [wire[p] EXCEPT !.control = v]
           /\ Contents(d) \cup Contents(v) \subseteq Sent(p)
    BY <1>1, ControlFlushEffect, ZenonT(60) DEF Sent
  <2> HIDE DEF f, m
  <2>3. /\ f.link.mode = link[p].mode /\ f.link.ready = link[p].ready
        /\ f.link.received = link[p].received /\ f.link.replays = link[p].replays
        /\ f.link.sync = link[p].sync /\ f.link.slot = link[p].slot /\ f.link.sent = link[p].sent
        /\ f.link.control = d /\ f.wire.control = v /\ f.link \in Link
        /\ f.wire.data = wire[p].data /\ f.wire.datagrams = wire[p].datagrams
    BY <1>1, <2>2 DEF Link, Wire
  <2>4. /\ l.received = f.link.received /\ l.replays = f.link.replays
        /\ l.sync = f.link.sync /\ l.slot = f.link.slot /\ l.sent = f.link.sent
        /\ l.control = f.link.control
        /\ l.mode = Heard(link[p], m).mode /\ l.ready = Heard(link[p], m).ready
    BY <1>1, <2>3 DEF Heard, Link
  <2> HIDE DEF l
  <2>5. /\ link'[p] = l /\ link'[q] = link[q] /\ wire'[p] = f.wire
        /\ wire'[q] = [wire[q] EXCEPT !.control = Tail(@)]
    BY <1>1, <1>3
  <2>6. wire'[q].control = Tail(wire[q].control) /\ wire'[q].data = wire[q].data
        /\ wire'[q].datagrams = wire[q].datagrams
    BY <1>1, <2>5 DEF Wire
  <2>7. Hears(p)
    <3>1. Together /\ m \in Sent(q)
      BY <1>3, <2>1, TogetherFacts DEF Sent
    <3>2. Sent(p)' \subseteq Sent(p) /\ Sent(q)' \subseteq Sent(q)
      BY <2>1, <2>2, <2>3, <2>4, <2>5, <2>6 DEF Sent
    <3> QED BY <1>1, <1>3, <2>1, <2>3, <2>4, <2>5, <2>6, <3>1, <3>2 DEF Hears
  <2>8. ModeInv'
    BY <1>1, <2>7, HearsKeepMode DEF LinkInv
  <2>9. \A r \in Sides :
           /\ link[r].ready => link'[r].ready
           /\ Open(r) => Open(r)'
           /\ link'[r].received = link[r].received /\ link'[r].replays = link[r].replays
           /\ link'[r].sync = link[r].sync /\ link'[r].slot = link[r].slot
           /\ link'[r].sent = link[r].sent /\ wire'[r].data = wire[r].data
           /\ Up(r)' = Up(r)
    BY <1>1, <1>3, <2>3, <2>4, <2>5, <2>6, <2>7, HearsKeepOpen DEF Up
  <2>10. FlowInv'
    <3> SUFFICES ASSUME NEW r \in Sides PROVE Idle(r)' /\ InOrder(r)' /\ Ordered(r)'
      BY DEF FlowInv
    <3>1. Together' = Together /\ history' = history /\ Peer(r) \in Sides
      BY <1>3, SideFacts DEF Together
    <3>2. Idle(r)' /\ InOrder(r)'
      BY <2>9, <3>1 DEF LinkInv, FlowInv, Idle, InOrder
    <3>3. Ordered(r)'
      BY <2>9, <3>1 DEF LinkInv, FlowInv, Ordered
    <3> QED BY <3>2, <3>3
  <2> QED BY <2>8, <2>10
<1> QED BY <1>2, <1>3 DEF PollControl, Arrived, EmptyWire

LEMMA PollDataKeeps ==
  ASSUME LinkInv, NEW p \in Sides, PollData(p)
  PROVE  ModeInv' /\ FlowInv'
<1> DEFINE f == DataFlush(p, link[p])
           q == Peer(p)
           m == Head(wire[q].data)
<1>1. /\ q \in Sides /\ q # p /\ Peer(q) = p /\ \A r \in Sides : r = p \/ r = q
      /\ TypeOK /\ link[p] \in Link /\ wire[p] \in Wire /\ wire[q] \in Wire /\ link[q] \in Link
      /\ link \in [Sides -> Link] /\ wire \in [Sides -> Wire]
      /\ history \in [Sides -> [queued : 0 .. MaxSync, got : Seq(1 .. MaxSync)]]
      /\ history[p].queued \in Nat /\ history[q].queued \in Nat
      /\ history[p].got \in Seq(1 .. MaxSync) /\ history[q].got \in Seq(1 .. MaxSync)
  BY SideFacts, SMTT(30) DEF LinkInv, TypeOK
<1>2. /\ f.link.mode = link[p].mode /\ f.link.ready = link[p].ready
      /\ f.link.control = link[p].control /\ f.link.sent = link[p].sent
      /\ f.link.received = link[p].received /\ f.link.replays = link[p].replays
      /\ f.wire.control = wire[p].control /\ f.wire.datagrams = wire[p].datagrams
      /\ link[p].sync = <<>> /\ link[p].slot = NoFrame => f.link = link[p] /\ f.wire = wire[p]
  BY <1>1, DataFlushKeeps, ZenonT(60)
<1>3. /\ Together => SyncsInOrder(history[p].queued, f.link.sync, f.wire.data, history[q].got)
      /\ Together /\ ~Open(p) =>
            PreviewsOrdered(f.link.sent, f.link.slot, f.wire.data, link[q].received, Up(p))
  BY <1>1, DataFlushKeeps, ZenonT(60) DEF LinkInv, FlowInv, InOrder, Ordered
<1>4. f.link \in Link
  BY <1>1, DataFlushEffect
<1>5. CASE Flushed(p, f) /\ UNCHANGED <<session, broken, history>>
  <2> DEFINE n == history[p].queued
  <2>1. n \in 0 .. MaxSync /\ history' = [history EXCEPT ![p].queued = n]
    BY <1>1, <1>5
  <2>2. /\ Together => SyncsInOrder(n, link[p].sync, wire[p].data, history[q].got)
        /\ Together /\ ~Open(p) =>
             PreviewsOrdered(link[p].sent, link[p].slot, wire[p].data, link[q].received, Up(p))
    BY DEF LinkInv, FlowInv, InOrder, Ordered
  <2> QED BY <1>1, <1>5, <2>1, <2>2, DataFlushSends, SendsKeep
<1> HIDE DEF f, m
\* p takes something of q: all that changes besides p's flush is what p has got,
\* the last preview it has seen, and the stream of q.
<1>6. ASSUME NEW l, NEW w, NEW h, Together,
             link' = [link EXCEPT ![p] = l], wire' = [wire EXCEPT ![p] = f.wire, ![q] = w],
             history' = [history EXCEPT ![p] = h], UNCHANGED <<session, broken>>,
             l.mode = f.link.mode, l.ready = f.link.ready, l.control = f.link.control,
             l.sync = f.link.sync, l.slot = f.link.slot, l.sent = f.link.sent,
             w.control = wire[q].control, w.datagrams = wire[q].datagrams,
             wire[q].data = <<>> => w.data = <<>>, h.queued = history[p].queued,
             SyncsInOrder(history[q].queued, link[q].sync, w.data, h.got),
             ~Open(q) => /\ PreviewsOrdered(link[q].sent, link[q].slot, w.data, l.received, Up(q))
                         /\ ~l.replays
      PROVE  ModeInv' /\ FlowInv'
  <2>1. /\ link'[p] = l /\ link'[q] = link[q] /\ wire'[p] = f.wire /\ wire'[q] = w
        /\ history'[p] = h /\ history'[q] = history[q]
        /\ session' = session /\ broken' = broken
    BY <1>1, <1>6
  <2>2. /\ Open(p)' = Open(p) /\ Open(q)' = Open(q) /\ Up(p)' = Up(p) /\ Up(q)' = Up(q)
        /\ Together' = Together
    BY <1>2, <1>6, <2>1 DEF Open, Up, Together
  <2>3. Talks(p)
    <3>1. Sent(p)' = Sent(p) /\ Sent(q)' = Sent(q) /\ Fresh(q)' = Fresh(q)
      BY <1>2, <1>6, <2>1 DEF Sent, Fresh
    <3>2. \A r \in Sides : link'[r].mode = link[r].mode /\ link'[r].ready = link[r].ready
      BY <1>1, <1>2, <1>6, <2>1
    <3> QED BY <1>2, <1>6, <2>1, <3>1, <3>2 DEF Talks
  <2>4. ModeInv'
    BY <1>1, <2>3, TalksKeepMode DEF LinkInv
  <2>5. Idle(p)' /\ Idle(q)'
    BY <1>1, <1>2, <1>6, <2>1 DEF LinkInv, FlowInv, Idle
  <2>6. InOrder(p)' /\ InOrder(q)'
    BY <1>1, <1>3, <1>6, <2>1, <2>2 DEF InOrder
  <2>7. Ordered(q)'
    BY <1>1, <1>6, <2>1, <2>2 DEF Ordered
  <2>8. Ordered(p)'
    BY <1>1, <1>3, <1>6, <2>1, <2>2 DEF Ordered, LinkInv, FlowInv
  <2> QED BY <1>1, <2>4, <2>5, <2>6, <2>7, <2>8 DEF FlowInv
<1>7. CASE /\ session[p] = session[q] /\ wire[q].data # <<>>
           /\ link' = [link EXCEPT ![p] = AcceptData(f.link, m)]
           /\ history' = [history EXCEPT ![p] = Logged(@, m)]
           /\ wire' = [wire EXCEPT ![p] = f.wire, ![q].data = Tail(@)]
           /\ UNCHANGED <<session, broken>>
  <2> DEFINE l == AcceptData(f.link, m)
             w == [wire[q] EXCEPT !.data = Tail(@)]
             h == Logged(history[p], m)
  <2>1. wire[q].data \in Seq(DataMessages) /\ m \in DataMessages /\ Together
    BY <1>1, <1>7, TailFacts, TogetherFacts DEF Wire, m
  <2>2. /\ link' = [link EXCEPT ![p] = l] /\ wire' = [wire EXCEPT ![p] = f.wire, ![q] = w]
        /\ history' = [history EXCEPT ![p] = h] /\ UNCHANGED <<session, broken>>
    BY <1>1, <1>7
  <2>3. /\ w.control = wire[q].control /\ w.datagrams = wire[q].datagrams
        /\ w.data = Tail(wire[q].data) /\ wire[q].data # <<>>
    BY <1>1, <1>7 DEF Wire
  <2>4. h.queued = history[p].queued
    <3>1. history[p] \in [queued : 0 .. MaxSync, got : Seq(1 .. MaxSync)]
      BY <1>1
    <3> QED BY <3>1 DEF Logged
  <2>5. SyncsInOrder(history[q].queued, link[q].sync, w.data, h.got)
    <3>1. SyncTypes(history[q].queued, link[q].sync, wire[q].data, history[p].got)
      BY <1>1, <2>1 DEF SyncTypes, Link
    <3>2. SyncsInOrder(history[q].queued, link[q].sync, wire[q].data, history[p].got)
      BY <1>1, <2>1 DEF LinkInv, FlowInv, InOrder
    <3>3. history[p] \in [queued : 0 .. MaxSync, got : Seq(1 .. MaxSync)]
      BY <1>1
    <3> DEFINE g == history[p]
               data == wire[q].data
               queued == history[q].queued
               waiting == link[q].sync
    <3>4. SyncTypes(queued, waiting, data, g.got) /\ SyncsInOrder(queued, waiting, data, g.got)
      BY <3>1, <3>2
    <3> HIDE DEF g, data, queued, waiting, w
    <3>5. SyncsInOrder(queued, waiting, Tail(data), Logged(g, Head(data)).got)
      BY <2>3, <3>3, <3>4, ReceiveSync DEF data, g
    <3> QED BY <2>3, <3>5 DEF g, data, queued, waiting, m
  <2>6. /\ l.mode = f.link.mode /\ l.ready = f.link.ready /\ l.control = f.link.control
        /\ l.sync = f.link.sync /\ l.slot = f.link.slot /\ l.sent = f.link.sent
    BY <1>4 DEF AcceptData, AcceptPreview, Link
  <2>7. ~Open(q) => /\ PreviewsOrdered(link[q].sent, link[q].slot, w.data, l.received, Up(q))
                    /\ ~l.replays
    <3> SUFFICES ASSUME ~Open(q)
                 PROVE  /\ PreviewsOrdered(link[q].sent, link[q].slot, w.data, l.received, Up(q))
                        /\ ~l.replays
      OBVIOUS
    <3>1. /\ PreviewsOrdered(link[q].sent, link[q].slot, wire[q].data, f.link.received, Up(q))
          /\ ~f.link.replays
      BY <1>1, <1>2, <2>1 DEF LinkInv, FlowInv, Ordered
    <3>2. IF m.kind = "preview"
          THEN /\ Newer(m.frame, f.link.received)
               /\ PreviewsOrdered(link[q].sent, link[q].slot, w.data, m.frame, Up(q))
          ELSE PreviewsOrdered(link[q].sent, link[q].slot, w.data, f.link.received, Up(q))
      <4> DEFINE sent == link[q].sent
                 slot == link[q].slot
                 data == wire[q].data
                 received == f.link.received
                 up == Up(q)
      <4>1. PreviewsOrdered(sent, slot, data, received, up)
        BY <3>1
      <4>2. data \in Seq(DataMessages) /\ data # <<>> /\ w.data = Tail(data) /\ m = Head(data)
        BY <2>1, <2>3 DEF m
      <4> HIDE DEF sent, slot, data, received, up, w
      <4>3. IF m.kind = "preview"
            THEN Newer(m.frame, received) /\ PreviewsOrdered(sent, slot, Tail(data), m.frame, up)
            ELSE PreviewsOrdered(sent, slot, Tail(data), received, up)
        BY <4>1, <4>2, ReceivePreview
      <4> QED BY <4>2, <4>3 DEF sent, slot, received, up
    <3> HIDE DEF w
    <3>3. CASE m.kind = "preview"
      <4>1. l = [f.link EXCEPT !.received = m.frame]
        BY <3>2, <3>3 DEF AcceptData, AcceptPreview
      <4>2. l.received = m.frame /\ l.replays = f.link.replays
        BY <1>4, <4>1 DEF Link
      <4> QED BY <3>1, <3>2, <3>3, <4>2
    <3>4. CASE m.kind # "preview"
      BY <3>1, <3>2, <3>4 DEF AcceptData
    <3> QED BY <3>3, <3>4
  <2> HIDE DEF l, w, h
  <2> QED BY <1>6, <2>1, <2>2, <2>3, <2>4, <2>5, <2>6, <2>7
<1>8. ASSUME session[p] = session[q], NEW d \in wire[q].datagrams,
             link' = [link EXCEPT ![p] = AcceptPreview(f.link, d)],
             wire' = [wire EXCEPT ![p] = f.wire],
             UNCHANGED <<session, broken, history>>
      PROVE  ModeInv' /\ FlowInv'
  <2> DEFINE l == AcceptPreview(f.link, d)
             w == wire[q]
             h == history[p]
  <2>1. Together /\ Open(q)
    BY <1>1, <1>8, TogetherFacts DEF LinkInv, ModeInv, Announced
  <2>2. /\ link' = [link EXCEPT ![p] = l] /\ wire' = [wire EXCEPT ![p] = f.wire, ![q] = w]
        /\ history' = [history EXCEPT ![p] = h] /\ UNCHANGED <<session, broken>>
    BY <1>1, <1>8
  <2>3. SyncsInOrder(history[q].queued, link[q].sync, w.data, h.got)
    BY <1>1, <2>1 DEF LinkInv, FlowInv, InOrder
  <2>4. /\ l.mode = f.link.mode /\ l.ready = f.link.ready /\ l.control = f.link.control
        /\ l.sync = f.link.sync /\ l.slot = f.link.slot /\ l.sent = f.link.sent
    BY <1>4 DEF AcceptPreview, Link
  <2> HIDE DEF l
  <2> QED BY <1>6, <2>1, <2>2, <2>3, <2>4
<1> QED BY <1>5, <1>7, <1>8 DEF PollData, Arrived, EmptyWire, f, Flushed, m
LEMMA BreakKeeps ==
  ASSUME LinkInv, Break
  PROVE  ModeInv' /\ FlowInv'
<1>1. /\ link' = link /\ wire' = wire /\ session' = session /\ history' = history
      /\ \A p \in Sides : Up(p)' => Up(p)
  BY DEF Break, Up
<1>2. ModeInv'
  BY <1>1 DEF LinkInv, ModeInv, Announced, Ahead, Agreed, Sent, Open, Fresh, Together
<1>3. FlowInv'
  <2> SUFFICES ASSUME NEW p \in Sides PROVE Idle(p)' /\ InOrder(p)' /\ Ordered(p)'
    BY DEF FlowInv
  <2>1. Idle(p)' /\ InOrder(p)'
    BY <1>1 DEF LinkInv, FlowInv, Idle, InOrder, Together
  <2>2. Ordered(p)'
    BY <1>1 DEF LinkInv, FlowInv, Ordered, Together, Open, PreviewsOrdered
  <2> QED BY <2>1, <2>2
<1> QED BY <1>2, <1>3

LEMMA ReconnectKeeps ==
  ASSUME LinkInv, NEW p \in Sides, NEW s \in 1 .. MaxSession, NEW m \in Modes, Reconnect(p, s, m)
  PROVE  ModeInv' /\ FlowInv'
<1> DEFINE q == Peer(p)
<1>1. /\ q \in Sides /\ q # p /\ Peer(q) = p /\ \A r \in Sides : r = p \/ r = q
      /\ link \in [Sides -> Link] /\ wire \in [Sides -> Wire] /\ session \in [Sides -> 1 .. MaxSession]
      /\ history \in [Sides -> [queued : 0 .. MaxSync, got : Seq(1 .. MaxSync)]]
  BY SideFacts DEF LinkInv, TypeOK
<1>2. /\ link'[p] = NewLink(m) /\ wire'[p] = EmptyWire /\ session'[p] = s /\ history'[p] = NoHistory
      /\ link'[q] = link[q] /\ wire'[q] = wire[q] /\ session'[q] = session[q]
      /\ history'[q] = history[q] /\ s > session[p]
  BY <1>1 DEF Reconnect
<1>3. /\ ~link'[p].ready /\ link'[p].sync = <<>> /\ link'[p].slot = NoFrame /\ link'[p].sent = NoFrame
      /\ link'[p].received = NoFrame /\ ~link'[p].replays /\ link'[p].control = <<>>
      /\ wire'[p].data = <<>> /\ wire'[p].datagrams = {} /\ wire'[p].control = <<>>
      /\ history'[p].queued = 0 /\ history'[p].got = <<>>
  BY <1>2 DEF NewLink, EmptyWire, NoHistory
<1>4. Begins(p)
  <2>1. Contents(<<>>) = {}
    BY EmptySeq DEF Contents
  <2> QED BY <1>2, <1>3, <2>1 DEF Begins, Sent, Fresh
<1>5. ModeInv'
  <2>1. session' \in [Sides -> Int]
    BY <1>1 DEF Reconnect
  <2> QED BY <1>4, <2>1, BeginsKeepMode DEF LinkInv
<1>6. Idle(p)' /\ Idle(q)'
  BY <1>1, <1>2, <1>3 DEF LinkInv, FlowInv, Idle
<1>7. Together' => ~link[q].ready /\ Fresh(q)
  <2>1. Together' => session[q] > session[p]
    BY <1>2, TogetherFacts
  <2> QED BY <1>1, <2>1 DEF LinkInv, ModeInv, Ahead
<1>8. Together' => /\ link[q].sync = <<>> /\ link[q].slot = NoFrame /\ link[q].sent = NoFrame
                   /\ wire[q].data = <<>> /\ history[q].queued = 0 /\ history[q].got = <<>>
                   /\ link[q].received = NoFrame /\ ~link[q].replays
  BY <1>1, <1>7 DEF LinkInv, FlowInv, Idle, Fresh
<1>9. InOrder(p)' /\ InOrder(q)'
  BY <1>1, <1>2, <1>3, <1>8, NothingYet DEF InOrder
<1>10. Ordered(p)' /\ Ordered(q)'
  BY <1>1, <1>2, <1>3, <1>8, NothingYet DEF Ordered
<1> QED BY <1>1, <1>5, <1>6, <1>9, <1>10 DEF FlowInv

LEMMA LinkInit == Init => LinkInv
<1> SUFFICES ASSUME Init PROVE LinkInv
  OBVIOUS
<1>1. PICK m \in [Sides -> Modes] : link = [p \in Sides |-> NewLink(m[p])]
  BY DEF Init
<1>2. ASSUME NEW p \in Sides
      PROVE  /\ link[p] = NewLink(m[p]) /\ wire[p] = EmptyWire /\ session[p] = 1
             /\ history[p] = NoHistory /\ Peer(p) \in Sides
  BY <1>1, SideFacts DEF Init
<1>3. ASSUME NEW p \in Sides
      PROVE  /\ ~link[p].ready /\ link[p].sync = <<>> /\ link[p].slot = NoFrame
             /\ link[p].sent = NoFrame /\ link[p].received = NoFrame /\ ~link[p].replays
             /\ link[p].control = <<>> /\ wire[p].control = <<>>
             /\ wire[p].data = <<>> /\ wire[p].datagrams = {}
             /\ history[p].queued = 0 /\ history[p].got = <<>>
  <2>1. PICK n \in Modes : link[p] = NewLink(n)
    BY <1>2
  <2>2. wire[p] = EmptyWire /\ history[p] = NoHistory
    BY <1>2
  <2> QED BY <2>1, <2>2 DEF NewLink, EmptyWire, NoHistory
<1>4. \A p \in Sides : Sent(p) = {}
  <2>1. Contents(<<>>) = {}
    BY EmptySeq DEF Contents
  <2> QED BY <1>3, <2>1 DEF Sent
<1>5. ModeInv
  BY <1>2, <1>3, <1>4 DEF ModeInv, Announced, Ahead, Agreed, Open
<1>6. FlowInv
  <2> SUFFICES ASSUME NEW p \in Sides PROVE Idle(p) /\ InOrder(p) /\ Ordered(p)
    BY DEF FlowInv
  <2>1. Peer(p) \in Sides
    BY <1>2
  <2>2. Idle(p) /\ InOrder(p)
    BY <1>3, <2>1, NothingYet DEF Idle, InOrder
  <2>3. Ordered(p)
    BY <1>3, <2>1, NothingYet DEF Ordered
  <2> QED BY <2>2, <2>3
<1> QED BY <1>5, <1>6, TypeInit DEF LinkInv

LEMMA LinkStep == LinkInv /\ [Next]_vars => LinkInv'
<1> SUFFICES ASSUME LinkInv, [Next]_vars PROVE ModeInv' /\ FlowInv'
  BY TypeStep DEF LinkInv
<1>1. ASSUME NEW p \in Sides, TrySendHello(p) PROVE ModeInv' /\ FlowInv'
  BY <1>1, QueueControlKeeps DEF TrySendHello
<1>2. ASSUME NEW p \in Sides, TrySendControl(p) PROVE ModeInv' /\ FlowInv'
  BY <1>2, QueueControlKeeps DEF TrySendControl
<1>3. CASE UNCHANGED vars
  <2>1. ModeInv'
    BY <1>3 DEF vars, LinkInv, ModeInv, Announced, Ahead, Agreed, Sent, Open, Fresh, Together
  <2>2. FlowInv'
    BY <1>3 DEF vars, LinkInv, FlowInv, Idle, InOrder, Ordered, Open, Together, Up
  <2> QED BY <2>1, <2>2
<1>4. Syncing \subseteq Sides /\ Senders \subseteq Sides
  BY LinkAssumption
<1> QED BY <1>1, <1>2, <1>3, <1>4, TrySendSyncKeeps, TrySendPreviewKeeps, PollOutboundKeeps,
           PollControlKeeps, PollDataKeeps, BreakKeeps, ReconnectKeeps DEF Next

LEMMA LinkCorrect == Spec => []LinkInv
BY LinkInit, LinkStep, PTL DEF Spec

(***************************************************************************)
(* No one-way preview path: whatever hellos were sent before the mode was  *)
(* lowered, a side that may send datagrams, or whose datagrams travel, has *)
(* a peer that reads them.                                                 *)
(***************************************************************************)
THEOREM PreviewPathIsShared == Spec => []NoOneWayPreview
<1>1. LinkInv => NoOneWayPreview
  BY DEF LinkInv, ModeInv, Announced, Agreed, Open, NoOneWayPreview
<1> QED BY <1>1, LinkCorrect, PTL

(***************************************************************************)
(* Sync messages are never lost, repeated or reordered while a session     *)
(* lasts, whatever fills the stream and whatever previews do around them.  *)
(***************************************************************************)
THEOREM SyncIsExactlyOnce == Spec => []SyncInOrder
<1>1. LinkInv => SyncInOrder
  BY DEF LinkInv, FlowInv, InOrder, SyncInOrder
<1> QED BY <1>1, LinkCorrect, PTL

(***************************************************************************)
(* A peer in reliable mode never sees a replayed preview: the guard of the *)
(* sender, the single slot and the stream keep the order of the frames.    *)
(***************************************************************************)
THEOREM ReliableModeKeepsOrder == Spec => []ReliablePreviewsInOrder
<1>1. LinkInv => ReliablePreviewsInOrder
  <2> SUFFICES ASSUME LinkInv, Together, NEW p \in Sides, link[Peer(p)].mode = "reliable"
               PROVE  ~link[Peer(p)].replays
    BY DEF ReliablePreviewsInOrder
  <2>1. ~Open(p)
    BY DEF LinkInv, ModeInv, Agreed
  <2> QED BY <2>1 DEF LinkInv, FlowInv, Ordered
<1> QED BY <1>1, LinkCorrect, PTL
\* What a step may do to the last preview of r.
Forward(r) ==
  link'[r].received # link[r].received => Newer(link'[r].received, link[r].received)

LEMMA FlushesSeeNothing ==
  ASSUME TypeOK, NEW p \in Sides, NEW l \in Link
  PROVE  /\ ControlFlush(p, l).link \in Link /\ ControlFlush(p, l).link.received = l.received
         /\ DataFlush(p, l).link \in Link /\ DataFlush(p, l).link.received = l.received
<1>1. PICK c, v \in Seq(ControlMessages) :
           /\ ControlFlush(p, l).link = [l EXCEPT !.control = c]
           /\ ControlFlush(p, l).wire = [wire[p] EXCEPT !.control = v]
           /\ Len(c) <= Len(l.control) /\ Len(v) <= StreamCap
  BY ControlFlushEffect
<1>2. PICK s \in Seq(1 .. MaxSync), x \in Frame :
           DataFlush(p, l).link = [l EXCEPT !.sync = s, !.slot = x]
  BY DataFlushEffect
<1> QED BY <1>1, <1>2 DEF Link, Frame

LEMMA AcceptForward ==
  ASSUME NEW l \in Link, NEW f
  PROVE  AcceptPreview(l, f).received # l.received => Newer(AcceptPreview(l, f).received, l.received)
BY DEF AcceptPreview, Link

LEMMA ReceivedForward ==
  ASSUME LinkInv, NEW p \in Sides, [Next]_vars, session'[p] = session[p]
  PROVE  Forward(p)
<1>0. /\ TypeOK /\ link[p] \in Link /\ link \in [Sides -> Link] /\ Peer(p) \in Sides
      /\ p \in Sides /\ \A r \in Sides : link[r] \in Link
      /\ \A r \in Sides : ~(session[r] > session[r])
  BY SideFacts DEF LinkInv, TypeOK
<1>1. ASSUME NEW r \in Sides, NEW l, link' = [link EXCEPT ![r] = l],
             l.received # link[r].received => Newer(l.received, link[r].received)
      PROVE  Forward(p)
  BY <1>0, <1>1 DEF Forward
<1>2. ASSUME NEW r \in Sides, NEW m \in ControlMessages, QueueControl(r, m) PROVE Forward(p)
  <2> DEFINE l == [link[r] EXCEPT !.control = Append(@, m)]
             f == ControlFlush(r, l)
  <2>1. link' = [link EXCEPT ![r] = f.link]
    BY <1>2 DEF QueueControl, Flushed
  <2>2. l \in Link /\ l.received = link[r].received
    <3>1. Append(link[r].control, m) \in Seq(ControlMessages)
      BY <1>0, AppendFacts DEF Link
    <3> QED BY <1>0, <3>1 DEF Link
  <2> HIDE DEF l
  <2>3. f.link.received = l.received
    BY <1>0, <2>2, FlushesSeeNothing
  <2> HIDE DEF f
  <2> QED BY <1>1, <2>1, <2>2, <2>3
<1>3. ASSUME NEW r \in Sides, NEW l \in Link, l.received = link[r].received,
             Flushed(r, DataFlush(r, l))
      PROVE  Forward(p)
  <2>1. DataFlush(r, l).link.received = l.received
    BY <1>0, FlushesSeeNothing
  <2> QED BY <1>1, <1>3, <2>1 DEF Flushed
<1>4. ASSUME NEW r \in Sides, TrySendSync(r) PROVE Forward(p)
  <2> DEFINE n == history[r].queued + 1
             l == [link[r] EXCEPT !.sync = Append(@, n)]
  <2>1. Append(link[r].sync, n) \in Seq(1 .. MaxSync)
    <3>1. history[r].queued \in Nat /\ history[r].queued < MaxSync /\ MaxSync \in Nat
      BY <1>0, <1>4, LinkAssumption DEF TrySendSync, TypeOK
    <3>2. n \in 1 .. MaxSync /\ link[r].sync \in Seq(1 .. MaxSync)
      BY <1>0, <3>1 DEF Link
    <3> QED BY <3>2, AppendFacts
  <2>2. l \in Link /\ l.received = link[r].received
    BY <1>0, <2>1 DEF Link
  <2>3. Flushed(r, DataFlush(r, l))
    BY <1>4 DEF TrySendSync
  <2> HIDE DEF l
  <2> QED BY <1>3, <2>2, <2>3
<1>5. ASSUME NEW r \in Sides, NEW f \in Frames, TrySendPreview(r, f) PROVE Forward(p)
  <2>1. CASE SendDatagram(r, f)
    <3>1. link' = [link EXCEPT ![r] = [link[r] EXCEPT !.sent = f]]
      BY <1>0, <2>1 DEF SendDatagram
    <3>2. [link[r] EXCEPT !.sent = f].received = link[r].received
      BY <1>0 DEF Link
    <3> QED BY <1>1, <3>1, <3>2
  <2>2. CASE ReplacePreview(r, f)
    <3>1. link' = [link EXCEPT ![r] = [link[r] EXCEPT !.slot = f, !.sent = f]]
      BY <1>0, <2>2 DEF ReplacePreview
    <3>2. [link[r] EXCEPT !.slot = f, !.sent = f].received = link[r].received
      BY <1>0 DEF Link
    <3> QED BY <1>1, <3>1, <3>2
  <2>3. CASE QueuePreview(r, f)
    <3> DEFINE l == [link[r] EXCEPT !.slot = f, !.sent = IF Up(r) THEN f ELSE @]
    <3>1. l \in Link /\ l.received = link[r].received
      BY <1>0 DEF Link
    <3>2. Flushed(r, DataFlush(r, l))
      BY <2>3 DEF QueuePreview
    <3> HIDE DEF l
    <3> QED BY <1>3, <3>1, <3>2
  <2> QED BY <1>5, <2>1, <2>2, <2>3 DEF TrySendPreview
<1>6. ASSUME NEW r \in Sides, PollOutbound(r) PROVE Forward(p)
  <2> DEFINE c == FlushControl(link[r], wire[r])
             d == FlushData(c.link, c.wire)
  <2>1. link' = [link EXCEPT ![r] = d.link] /\ Up(r)
    BY <1>6 DEF PollOutbound, Flushed
  <2>2. c = ControlFlush(r, link[r]) /\ SideOK(link[r], wire[r])
    BY <1>0, <2>1, SidesTyped DEF ControlFlush
  <2>3. SideOK(c.link, c.wire) /\ c.link.received = link[r].received
    BY <1>0, <2>2, ControlFlushType, FlushesSeeNothing DEF SideOK
  <2> HIDE DEF c
  <2>4. d.link.received = c.link.received
    BY <2>3, FlushLeaves DEF SideOK
  <2> HIDE DEF d
  <2> QED BY <1>1, <2>1, <2>3, <2>4
<1>7. ASSUME NEW r \in Sides, PollControl(r) PROVE Forward(p)
  <2> DEFINE f == ControlFlush(r, link[r])
  <2>1. f.link \in Link /\ f.link.received = link[r].received
    BY <1>0, FlushesSeeNothing
  <2>2. \/ link' = [link EXCEPT ![r] = f.link]
        \/ \E m : link' = [link EXCEPT ![r] = Heard(f.link, m)]
    BY <1>7 DEF PollControl, Flushed
  <2> HIDE DEF f
  <2>3. \A m : Heard(f.link, m).received = f.link.received
    BY <2>1 DEF Heard, Link
  <2> QED BY <1>1, <2>1, <2>2, <2>3
<1>8. ASSUME NEW r \in Sides, PollData(r) PROVE Forward(p)
  <2> DEFINE f == DataFlush(r, link[r])
  <2>1. f.link \in Link /\ f.link.received = link[r].received
    BY <1>0, FlushesSeeNothing
  <2>2. \/ link' = [link EXCEPT ![r] = f.link]
        \/ \E m : link' = [link EXCEPT ![r] = AcceptPreview(f.link, m)]
    BY <1>8 DEF PollData, Flushed, AcceptData
  <2> HIDE DEF f
  <2> QED BY <1>1, <2>1, <2>2, AcceptForward
<1>9. ASSUME NEW r \in Sides, NEW s \in 1 .. MaxSession, NEW m \in Modes, Reconnect(r, s, m)
      PROVE  Forward(p)
  <2>1. r # p
    BY <1>0, <1>9 DEF Reconnect, LinkInv, TypeOK
  <2> QED BY <1>0, <1>9, <2>1 DEF Reconnect, Forward
<1>10. CASE Break \/ UNCHANGED vars
  BY <1>10 DEF Break, vars, Forward
<1>11. ASSUME NEW r \in Sides, TrySendHello(r) \/ TrySendControl(r)
       PROVE  \E m \in ControlMessages : QueueControl(r, m)
  BY <1>0, <1>11 DEF TrySendHello, TrySendControl, ControlMessages, Link
<1>12. Syncing \subseteq Sides /\ Senders \subseteq Sides
  BY LinkAssumption
<1> QED BY <1>2, <1>4, <1>5, <1>6, <1>7, <1>8, <1>9, <1>10, <1>11, <1>12 DEF Next

(***************************************************************************)
(* Within a session the preview a host sees only ever gets newer, however  *)
(* datagrams were repeated, reordered or overtaken by a lowered mode.      *)
(***************************************************************************)
THEOREM PreviewsOnlyGetNewer == Spec => PreviewsNeverGoBack
<1>1. LinkInv /\ [Next]_vars =>
         [\A p \in Sides : session'[p] = session[p] /\ link'[p].received # link[p].received
              => Newer(link'[p].received, link[p].received)]_vars
  BY ReceivedForward DEF Forward
<1> QED BY <1>1, LinkCorrect, PTL DEF Spec, PreviewsNeverGoBack
=============================================================================
