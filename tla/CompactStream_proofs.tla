-------------------------- MODULE CompactStream_proofs --------------------------
(***************************************************************************)
(* Theorems about CompactStream, for any layouts, limits and policy and    *)
(* however long the stream.  Inv is the inductive invariant they follow    *)
(* from: a generation has one confirmation, and it is what its frames were *)
(* encoded in and what guard and recorder use.                             *)
(***************************************************************************)
EXTENDS CompactStream, TLAPS

\* Times, limits and bounds are unsigned integers.
Parameters ==
    /\ MaxU64 \in Nat /\ MaxAge \in Nat /\ MaxSkew \in Nat /\ MaxUncertainty \in Nat
    /\ MaxGap \in Nat /\ MaxJump \in Nat
    /\ MaxGeneration \in Nat /\ MaxSequence \in Nat /\ MaxTime \in Nat /\ MaxDelay \in Nat

\* One confirmation per generation.
GenerationsAgree ==
    /\ \A c \in confirms : c.generation <= producer.generation
    /\ \A c, d \in confirms : c.generation = d.generation => c = d

\* The frame is encoded in the layout of its generation.
EncodedAsConfirmed(f) ==
    \E c \in confirms : c.generation = f.generation /\ c.layout = f.layout

FramesEncoded == \A f \in frames : EncodedAsConfirmed(f)

\* The guard and the recorder use confirmed layouts, the recorder one it has a header of.
LayoutsConfirmed ==
    /\ guard.stream \in confirms \union {NoStream}
    /\ recorder.headers \subseteq confirms
    /\ recorder.active \in recorder.headers \union {NoStream}

FramesRecorded ==
    \A f \in recorder.frames :
        f \in frames /\ \E h \in recorder.headers : h.generation = f.generation

\* A frame of the generation of guard g is not after its last, and no frame is of a later
\* generation.
Behind(f, g) ==
    /\ f.generation <= g.stream.generation
    /\ f.generation = g.stream.generation => f.sequence <= g.last /\ f.capture <= g.capture

\* An accepted frame was sent, and accepted in its layout and in time.
SoundlyAccepted(a, sent, g) ==
    /\ a.frame \in sent
    /\ a.layout = a.frame.layout
    /\ a.at - a.frame.capture <= MaxAge + 2 * MaxUncertainty
    /\ Behind(a.frame, g)

AcceptedSoundly ==
    \A i \in 1 .. Len(accepted) : SoundlyAccepted(accepted[i], frames, guard)

Inv ==
    /\ TypeOK
    /\ GenerationsAgree /\ FramesEncoded
    /\ LayoutsConfirmed /\ FramesRecorded
    /\ AcceptedSoundly /\ AcceptedInOrder

-----------------------------------------------------------------------------
(* Types *)

LEMMA Numbers ==
    ASSUME Parameters
    PROVE  /\ \A s \in Stream \union {NoStream} : s.generation \in Nat
           /\ \A f \in Frame : f.generation \in Nat /\ f.sequence \in Nat /\ f.capture \in Nat
BY DEF Parameters, Stream, NoStream, Frame

GuardType ==
    [stream : Stream \union {NoStream}, last : None .. MaxSequence, capture : None .. MaxTime]

LEMMA InitTypes == ASSUME Parameters, Init PROVE TypeOK
BY DEF Parameters, Init, TypeOK, Times, None, NoStream, Layout, Stream, Frame

LEMMA StepTypes == ASSUME Parameters, TypeOK, [Next]_vars PROVE TypeOK'
<1> USE DEF Times, None
<1>1. CASE Tick
  BY <1>1 DEF Parameters, TypeOK, Tick
<1>2. CASE RefuseProposal
  BY <1>2 DEF TypeOK, RefuseProposal
<1>3. CASE BeginLayout
  <2>1. PICK active \in {guard.stream, recorder.active} :
          recorder' = [recorder EXCEPT !.headers = @ \union {guard.stream}, !.active = active]
    BY <1>3 DEF BeginLayout
  <2>2. guard.stream \in Stream
    BY <1>3 DEF BeginLayout, TypeOK
  <2>3. recorder' \in [active : Stream \union {NoStream}, headers : SUBSET Stream,
                       frames : SUBSET Frame]
    BY <2>1, <2>2 DEF TypeOK
  <2> QED BY <1>3, <2>3 DEF BeginLayout, TypeOK
<1>4. ASSUME NEW l \in Layout, ReceiveProposal(l) PROVE TypeOK'
  BY <1>4 DEF TypeOK, ReceiveProposal
<1>5. ASSUME NEW a \in accepts, SendConfirm(a) PROVE TypeOK'
  <2>1. producer.generation + 1 \in 1 .. MaxGeneration
    BY <1>5 DEF Parameters, TypeOK, SendConfirm
  <2>2. a \in Layout
    BY DEF TypeOK
  <2>3. confirms' \subseteq Stream
    BY <1>5, <2>1, <2>2 DEF TypeOK, SendConfirm, Layout, Stream
  <2>4. producer' \in [generation : 0 .. MaxGeneration, sequence : None .. MaxSequence,
                       capture : Times]
    BY <1>5, <2>1 DEF Parameters, SendConfirm
  <2> QED BY <1>5, <2>3, <2>4 DEF TypeOK, SendConfirm
<1>6. ASSUME NEW c \in confirms, NEW p \in negotiator.pending, Confirm(c, p) PROVE TypeOK'
  <2>1. c \in Stream /\ p \in Layout
    BY DEF TypeOK
  <2>2. negotiator' \in [pending : SUBSET Layout, last : Times \union {None}]
    BY <1>6 DEF TypeOK, Confirm
  <2>3. guard \in GuardType /\ -1 \in -1 .. MaxSequence /\ -1 \in -1 .. MaxTime
    BY DEF Parameters, TypeOK, GuardType
  <2>4. [id |-> p.id, layout |-> p.layout, generation |-> c.generation] \in Stream
    BY <2>1 DEF Stream, Layout
  <2>5. guard' \in GuardType
    BY <1>6, <2>3, <2>4 DEF Confirm, GuardType
  <2> QED BY <1>6, <2>2, <2>5 DEF TypeOK, Confirm, GuardType
<1>7. ASSUME NEW c \in confirms, NEW t \in 0 .. MaxTime, SendFrame(c, t) PROVE TypeOK'
  <2>1. c \in Stream
    BY DEF TypeOK
  <2>2. producer.sequence + 1 \in 0 .. MaxSequence
    <3>1. producer.sequence \in -1 .. MaxSequence
      BY DEF TypeOK
    <3>2. producer.sequence < MaxSequence
      BY <1>7 DEF SendFrame
    <3> QED BY <3>1, <3>2 DEF Parameters
  <2>3. frames' \subseteq Frame
    BY <1>7, <2>1, <2>2 DEF TypeOK, SendFrame, Stream, Frame
  <2>4. producer' \in [generation : 0 .. MaxGeneration, sequence : None .. MaxSequence,
                       capture : Times]
    <3>1. producer.sequence + 1 \in -1 .. MaxSequence
      BY <2>2
    <3> QED BY <1>7, <3>1 DEF TypeOK, SendFrame
  <2> QED BY <1>7, <2>3, <2>4 DEF TypeOK, SendFrame
<1>8. ASSUME NEW f \in frames, NEW e \in Estimates, Accept(f, e) PROVE TypeOK'
  <2>1. f \in Frame
    BY DEF TypeOK
  <2>2. guard.stream \in Stream
    BY <1>8, <2>1 DEF TypeOK, Accept, Decodes, NoStream, Frame
  <2>3. guard \in GuardType /\ f.sequence \in -1 .. MaxSequence /\ f.capture \in -1 .. MaxTime
    BY <2>1 DEF Parameters, TypeOK, GuardType, Frame
  <2>4. [frame |-> f, layout |-> guard.stream.layout, at |-> clock]
          \in [frame : Frame, layout : Layouts, at : Times]
    BY <2>1, <2>2 DEF TypeOK, Stream
  <2>5. accepted' \in Seq([frame : Frame, layout : Layouts, at : Times])
    BY <1>8, <2>4 DEF TypeOK, Accept
  <2>6. recorder' \in [active : Stream \union {NoStream}, headers : SUBSET Stream,
                       frames : SUBSET Frame]
    BY <1>8, <2>1, SMTT(30) DEF TypeOK, Accept, Recorded
  <2>7. guard' \in GuardType
    BY <1>8, <2>3 DEF Accept, GuardType
  <2> QED BY <1>8, <2>5, <2>6, <2>7 DEF TypeOK, Accept, GuardType
<1>9. CASE UNCHANGED vars
  BY <1>9 DEF TypeOK, vars
<1> QED BY <1>1, <1>2, <1>3, <1>4, <1>5, <1>6, <1>7, <1>8, <1>9 DEF Next

(***************************************************************************)
(* The negotiator, the guard and the recorder keep to their types: no      *)
(* repeated or late message makes them hold anything else (compact.rs).    *)
(***************************************************************************)
THEOREM TypesAreRight == ASSUME Parameters PROVE Spec => []TypeOK
<1>1. Init => TypeOK
  BY InitTypes
<1>2. TypeOK /\ [Next]_vars => TypeOK'
  BY StepTypes
<1> QED BY <1>1, <1>2, PTL DEF Spec

-----------------------------------------------------------------------------
(* The invariant *)

LEMMA InitInv == ASSUME Parameters, Init PROVE Inv
<1>1. TypeOK
  BY InitTypes
<1>2. GenerationsAgree /\ FramesEncoded /\ LayoutsConfirmed /\ FramesRecorded
  BY DEF Init, GenerationsAgree, FramesEncoded, LayoutsConfirmed, FramesRecorded
<1>3. Len(accepted) = 0
  BY DEF Init
<1>4. AcceptedSoundly /\ AcceptedInOrder
  BY <1>3 DEF AcceptedSoundly, AcceptedInOrder
<1> QED BY <1>1, <1>2, <1>4 DEF Inv

\* Only the producer's steps touch what it has sent.
LEMMA GenerationsStep ==
  ASSUME Parameters, Inv, [Next]_vars
  PROVE  /\ GenerationsAgree' /\ FramesEncoded'
         /\ confirms \subseteq confirms' /\ frames \subseteq frames'
<1>0. /\ producer.generation \in Nat /\ confirms \subseteq Stream
      /\ \A c \in Stream : c.generation \in Nat
  BY DEF Parameters, Inv, TypeOK, Stream
<1>1. ASSUME NEW a \in accepts, SendConfirm(a)
      PROVE  /\ GenerationsAgree' /\ FramesEncoded'
             /\ confirms \subseteq confirms' /\ frames \subseteq frames'
  <2> DEFINE new == [id |-> a.id, layout |-> a.layout, generation |-> producer.generation + 1]
  <2>1. /\ confirms' = confirms \union {new}
        /\ producer'.generation = producer.generation + 1
        /\ frames' = frames
    BY <1>1 DEF SendConfirm
  <2>2. new.generation = producer.generation + 1
    OBVIOUS
  <2>3. \A c \in confirms : c.generation < new.generation
    BY <1>0, <2>2 DEF Inv, GenerationsAgree
  <2> HIDE DEF new
  <2>4. GenerationsAgree'
    BY <1>0, <2>1, <2>2, <2>3 DEF Inv, GenerationsAgree
  <2>5. FramesEncoded'
    BY <2>1 DEF Inv, FramesEncoded, EncodedAsConfirmed
  <2> QED BY <2>1, <2>4, <2>5
<1>2. ASSUME NEW c \in confirms, NEW t \in 0 .. MaxTime, SendFrame(c, t)
      PROVE  /\ GenerationsAgree' /\ FramesEncoded'
             /\ confirms \subseteq confirms' /\ frames \subseteq frames'
  <2> DEFINE new == [id |-> c.id, layout |-> c.layout, generation |-> c.generation,
                     sequence |-> producer.sequence + 1, capture |-> t, produced |-> clock]
  <2>1. /\ frames' = frames \union {new}
        /\ producer'.generation = producer.generation
        /\ confirms' = confirms
    BY <1>2 DEF SendFrame, Inv, TypeOK
  <2>2. c.generation = new.generation /\ c.layout = new.layout
    OBVIOUS
  <2> HIDE DEF new
  <2>3. EncodedAsConfirmed(new)
    BY <2>2 DEF EncodedAsConfirmed
  <2>4. FramesEncoded'
    BY <2>1, <2>3 DEF Inv, FramesEncoded, EncodedAsConfirmed
  <2> QED BY <2>1, <2>4 DEF Inv, GenerationsAgree
<1>3. ASSUME UNCHANGED <<producer, confirms, frames>>
      PROVE  /\ GenerationsAgree' /\ FramesEncoded'
             /\ confirms \subseteq confirms' /\ frames \subseteq frames'
  BY <1>3 DEF Inv, GenerationsAgree, FramesEncoded, EncodedAsConfirmed
<1> QED BY <1>1, <1>2, <1>3
        DEF Next, vars, Tick, RefuseProposal, BeginLayout, ReceiveProposal, Confirm, Accept

\* The confirmation must echo what is pending: what is installed is a confirmation.
LEMMA LayoutsStep ==
  ASSUME Parameters, Inv, [Next]_vars
  PROVE  LayoutsConfirmed' /\ FramesRecorded'
<1>0. confirms \subseteq confirms' /\ frames \subseteq frames'
  BY GenerationsStep
<1>1. CASE BeginLayout
  <2>1. PICK active \in {guard.stream, recorder.active} :
          recorder' = [recorder EXCEPT !.headers = @ \union {guard.stream}, !.active = active]
    BY <1>1 DEF BeginLayout
  <2>2. /\ recorder'.headers = recorder.headers \union {guard.stream}
        /\ recorder'.active = active /\ recorder'.frames = recorder.frames
    BY <2>1 DEF Inv, TypeOK
  <2>3. guard.stream \in confirms /\ guard' = guard
    BY <1>1 DEF BeginLayout, Inv, LayoutsConfirmed
  <2> QED BY <1>0, <2>2, <2>3 DEF Inv, LayoutsConfirmed, FramesRecorded
<1>2. ASSUME NEW c \in confirms, NEW p \in negotiator.pending, Confirm(c, p)
      PROVE  LayoutsConfirmed' /\ FramesRecorded'
  <2>1. c \in Stream
    BY DEF Inv, TypeOK
  <2>2. [id |-> p.id, layout |-> p.layout, generation |-> c.generation] = c
    BY <1>2, <2>1 DEF Confirm, Echoes, Stream
  <2>3. guard'.stream \in {c, guard.stream} /\ recorder' = recorder
    BY <1>2, <2>2 DEF Confirm, Inv, TypeOK
  <2> QED BY <1>0, <2>3 DEF Inv, LayoutsConfirmed, FramesRecorded
<1>3. ASSUME NEW f \in frames, NEW e \in Estimates, Accept(f, e)
      PROVE  LayoutsConfirmed' /\ FramesRecorded'
  <2>1. guard'.stream = guard.stream
    BY <1>3 DEF Accept, Inv, TypeOK
  <2>2. /\ recorder'.headers = recorder.headers /\ recorder'.active = recorder.active
        /\ \/ recorder'.frames = recorder.frames
           \/ recorder'.frames = recorder.frames \union {f} /\ Decodes(recorder.active, f)
    BY <1>3 DEF Accept, Recorded, Inv, TypeOK
  <2>3. ASSUME Decodes(recorder.active, f)
        PROVE  \E h \in recorder.headers : h.generation = f.generation
    <3>1. f.generation # 0
      BY DEF Inv, TypeOK, Frame
    <3>2. recorder.active \in recorder.headers
      BY <2>3, <3>1 DEF Decodes, NoStream, Inv, LayoutsConfirmed
    <3> QED BY <2>3, <3>2 DEF Decodes
  <2> QED BY <1>0, <2>1, <2>2, <2>3 DEF Inv, LayoutsConfirmed, FramesRecorded
<1>4. ASSUME UNCHANGED <<guard, recorder>>
      PROVE  LayoutsConfirmed' /\ FramesRecorded'
  BY <1>0, <1>4 DEF Inv, LayoutsConfirmed, FramesRecorded
<1> QED BY <1>1, <1>2, <1>3, <1>4
        DEF Next, vars, Tick, RefuseProposal, ReceiveProposal, SendConfirm, SendFrame

\* What accept lets through was encoded in the guard's layout, and is not too old.
LEMMA AcceptIsSound ==
  ASSUME Parameters, Inv, NEW f \in frames, NEW e \in Estimates, Accept(f, e)
  PROVE  /\ f \in Frame
         /\ guard.stream.generation = f.generation /\ guard.stream.layout = f.layout
         /\ clock - f.capture <= MaxAge + 2 * MaxUncertainty
<1>1. f \in Frame /\ f.generation # 0
  BY DEF Inv, TypeOK, Frame
<1>2. guard.stream \in confirms /\ guard.stream.generation = f.generation
  BY <1>1 DEF Accept, Decodes, NoStream, Inv, LayoutsConfirmed
<1>3. PICK c \in confirms : c.generation = f.generation /\ c.layout = f.layout
  BY DEF Inv, FramesEncoded, EncodedAsConfirmed
<1>4. guard.stream.layout = f.layout
  BY <1>2, <1>3 DEF Inv, GenerationsAgree
<1>5. /\ clock \in Nat /\ f.capture \in Nat
      /\ e.now \in Nat /\ e.uncertainty \in Nat
      /\ clock - e.now <= e.uncertainty
  BY <1>1 DEF Parameters, Inv, TypeOK, Times, Frame, Estimates
<1>6. e.uncertainty <= MaxUncertainty
  BY DEF Accept, Timely
<1>7. SaturatingSub(e.now, f.capture) <= SaturatingAdd(MaxAge, e.uncertainty)
  BY DEF Accept, Timely
<1>8. e.now - f.capture <= MaxAge + e.uncertainty
  BY <1>5, <1>7 DEF Parameters, SaturatingSub, SaturatingAdd
<1> QED BY <1>1, <1>2, <1>4, <1>5, <1>6, <1>8 DEF Parameters

LEMMA AcceptedStep ==
  ASSUME Parameters, Inv, [Next]_vars
  PROVE  AcceptedSoundly' /\ AcceptedInOrder'
<1>0. frames \subseteq frames'
  BY GenerationsStep
<1>1. ASSUME NEW c \in confirms, NEW p \in negotiator.pending, Confirm(c, p)
      PROVE  AcceptedSoundly' /\ AcceptedInOrder'
  <2>1. \/ guard' = guard
        \/ guard'.stream.generation > guard.stream.generation
    BY <1>1 DEF Confirm
  <2>2. guard.stream.generation \in Nat /\ guard'.stream.generation \in Nat
    BY StepTypes, Numbers DEF Inv, TypeOK
  <2>3. accepted' = accepted
    BY <1>1 DEF Confirm
  <2>4. ASSUME NEW i \in 1 .. Len(accepted)
        PROVE  SoundlyAccepted(accepted[i], frames', guard')
    <3>1. SoundlyAccepted(accepted[i], frames, guard)
      BY DEF Inv, AcceptedSoundly
    <3>2. accepted[i].frame.generation \in Nat
      BY <3>1, Numbers DEF SoundlyAccepted, Inv, TypeOK
    <3>3. Behind(accepted[i].frame, guard')
      BY <2>1, <2>2, <3>1, <3>2 DEF SoundlyAccepted, Behind
    <3> QED BY <1>0, <2>3, <3>1, <3>3 DEF SoundlyAccepted
  <2>5. AcceptedSoundly'
    BY <2>3, <2>4 DEF AcceptedSoundly
  <2> QED BY <2>3, <2>5 DEF Inv, AcceptedInOrder, After
<1>2. ASSUME NEW f \in frames, NEW e \in Estimates, Accept(f, e)
      PROVE  AcceptedSoundly' /\ AcceptedInOrder'
  <2> DEFINE new == [frame |-> f, layout |-> guard.stream.layout, at |-> clock]
  <2>1. /\ f \in Frame
        /\ guard.stream.generation = f.generation /\ guard.stream.layout = f.layout
        /\ clock - f.capture <= MaxAge + 2 * MaxUncertainty
    BY <1>2, AcceptIsSound
  <2>2. f.generation \in Nat /\ f.sequence \in Nat /\ f.capture \in Nat
    BY <2>1 DEF Parameters, Frame
  <2>3. /\ guard'.stream = guard.stream
        /\ guard'.last = f.sequence /\ guard'.capture = f.capture
        /\ guard.last \in Int /\ guard.capture \in Int
    BY <1>2 DEF Accept, Inv, TypeOK, None, Parameters
  <2>4. /\ Len(accepted') = Len(accepted) + 1
        /\ accepted'[Len(accepted) + 1] = new
        /\ \A i \in 1 .. Len(accepted) : accepted'[i] = accepted[i]
        /\ Len(accepted) \in Nat
    BY <1>2 DEF Accept, Inv, TypeOK
  <2>5. new.frame = f /\ new.layout = guard.stream.layout /\ new.at = clock
    OBVIOUS
  <2> HIDE DEF new
  <2>6. SoundlyAccepted(new, frames', guard')
    <3>1. Behind(f, guard')
      BY <2>1, <2>2, <2>3 DEF Behind
    <3> QED BY <1>0, <2>1, <2>5, <3>1 DEF SoundlyAccepted
  <2>7. ASSUME NEW i \in 1 .. Len(accepted)
        PROVE  /\ SoundlyAccepted(accepted[i], frames', guard')
               /\ After(f, accepted[i].frame)
    <3>1. SoundlyAccepted(accepted[i], frames, guard)
      BY DEF Inv, AcceptedSoundly
    <3> DEFINE g == accepted[i].frame
    <3>2. /\ g \in Frame /\ g.generation \in Nat /\ g.sequence \in Nat /\ g.capture \in Nat
      BY <3>1, Numbers DEF SoundlyAccepted, Inv, TypeOK
    <3>3. /\ g.generation <= f.generation
          /\ g.generation = f.generation => g.sequence <= guard.last /\ g.capture <= guard.capture
      BY <2>1, <3>1 DEF SoundlyAccepted, Behind
    <3>4. g.generation = f.generation => f.sequence > guard.last /\ f.capture >= guard.capture
      BY <1>2, <3>2, <3>3, <2>3 DEF Accept, InSequence, Continues, None
    <3> HIDE DEF g
    <3>5. /\ g.generation <= f.generation
          /\ g.generation = f.generation => g.sequence < f.sequence /\ g.capture <= f.capture
      BY <2>2, <2>3, <3>2, <3>3, <3>4
    <3>6. After(f, g)
      BY <2>2, <3>2, <3>5 DEF After
    <3>7. Behind(g, guard')
      BY <2>1, <2>2, <2>3, <3>2, <3>5 DEF Behind
    <3> QED BY <1>0, <2>4, <3>1, <3>6, <3>7 DEF g, SoundlyAccepted, Behind
  <2>8. AcceptedSoundly'
    <3> SUFFICES ASSUME NEW i \in 1 .. Len(accepted')
                 PROVE  SoundlyAccepted(accepted'[i], frames', guard')
      BY DEF AcceptedSoundly
    <3>1. CASE i = Len(accepted) + 1
      BY <2>4, <2>6, <3>1
    <3>2. CASE i \in 1 .. Len(accepted)
      BY <2>4, <2>7, <3>2
    <3> QED BY <2>4, <3>1, <3>2
  <2>9. AcceptedInOrder'
    <3> SUFFICES ASSUME NEW i \in 1 .. Len(accepted'), NEW j \in 1 .. Len(accepted'), i < j
                 PROVE  After(accepted'[j].frame, accepted'[i].frame)
      BY DEF AcceptedInOrder, After
    <3>1. CASE j = Len(accepted) + 1
      BY <2>4, <2>5, <2>7, <3>1
    <3>2. CASE j \in 1 .. Len(accepted)
      BY <2>4, <3>2 DEF Inv, AcceptedInOrder
    <3> QED BY <2>4, <3>1, <3>2
  <2> QED BY <2>8, <2>9
<1>3. ASSUME UNCHANGED <<guard, accepted>>
      PROVE  AcceptedSoundly' /\ AcceptedInOrder'
  BY <1>0, <1>3 DEF Inv, AcceptedSoundly, SoundlyAccepted, Behind, AcceptedInOrder, After
<1> QED BY <1>1, <1>2, <1>3
        DEF Next, vars, Tick, RefuseProposal, BeginLayout, ReceiveProposal, SendConfirm, SendFrame

LEMMA InvStep == ASSUME Parameters, Inv, [Next]_vars PROVE Inv'
BY StepTypes, GenerationsStep, LayoutsStep, AcceptedStep DEF Inv

(***************************************************************************)
(* However often the network repeats, delays and reorders confirmations    *)
(* and frames, the guard accepts each frame at most once, in order, in     *)
(* time and in the layout it was encoded in, and every recorded frame can  *)
(* be decoded with the one header of its generation (compact.rs).          *)
(***************************************************************************)
THEOREM FramesAreAlwaysSound == ASSUME Parameters PROVE Spec => []FramesAreSound
<1>1. Init => Inv
  BY InitInv
<1>2. Inv /\ [Next]_vars => Inv'
  BY InvStep
<1>3. Inv => FramesAreSound
  <2> SUFFICES ASSUME Inv PROVE FramesAreSound
    OBVIOUS
  <2>1. DecodedAsEncoded /\ AcceptedInTime
    BY DEF Inv, AcceptedSoundly, SoundlyAccepted, DecodedAsEncoded, AcceptedInTime
  <2>2. RecordingIsReadable
    <3> SUFFICES ASSUME NEW f \in recorder.frames
                 PROVE  \E h \in recorder.headers :
                            /\ h.generation = f.generation /\ h.layout = f.layout
                            /\ \A k \in recorder.headers : k.generation = h.generation => k = h
      BY DEF RecordingIsReadable
    <3>1. PICK h \in recorder.headers : h.generation = f.generation
      BY DEF Inv, FramesRecorded
    <3>2. PICK c \in confirms : c.generation = f.generation /\ c.layout = f.layout
      BY DEF Inv, FramesRecorded, FramesEncoded, EncodedAsConfirmed
    <3>3. \A k \in recorder.headers : k.generation = f.generation => k = c
      BY <3>2 DEF Inv, LayoutsConfirmed, GenerationsAgree
    <3> QED BY <3>1, <3>2, <3>3
  <2> QED BY <2>1, <2>2 DEF Inv, FramesAreSound
<1> QED BY <1>1, <1>2, <1>3, PTL DEF Spec
=============================================================================
