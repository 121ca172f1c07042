------------------------------ MODULE ChunkSync ------------------------------
(***************************************************************************)
(* Local-first chunk storage and its replication to a studio.              *)
(*                                                                         *)
(* The device (LocalChunkRecorder.swift, an actor) writes the bytes of a   *)
(* chunk, then journals its descriptor, and uploads what has no recorded   *)
(* acknowledgement.  The studio (studio_server.py, studio.py and           *)
(* LocalChunkStore of capture.py) stores what it receives in the same way  *)
(* and then answers with an acknowledgement.  Either process may die at    *)
(* any point and be started again; an append may fail without the process  *)
(* dying; requests may be repeated, delayed or lost and answers lost.      *)
(*                                                                         *)
(* A descriptor is a chunk id with the digest of its bytes.  The file of a *)
(* chunk is named by its id, so the files of a store are a function of Id. *)
(***************************************************************************)
EXTENDS Journal, FiniteSets

CONSTANTS
  Id,          \* chunk ids the device may use
  Data,        \* contents a chunk may have; a digest identifies its content
  Absent,      \* no file at a chunk's path, no upload under way, no manifest
  Syncer,      \* concurrent calls of synchronizePending
  MaxFaults,   \* bound on crashes, broken uploads and lost answers
  MaxErrors,   \* bound on appends that fail while the process survives
  MaxReopens   \* bound on repeated POST /api/session while the studio runs

ASSUME BoundsAssumption ==
  /\ MaxFaults \in Nat /\ MaxErrors \in Nat /\ MaxReopens \in Nat

ASSUME SentinelAssumption ==
  /\ Absent \notin Data
  /\ Absent \notin [id : Id, data : Data]
  /\ Corrupt \notin [id : Id, data : Data]

Descriptor == [id : Id, data : Data]

\* The studio objects of one server process, oldest first.
Store == 1 .. MaxReopens + 1

VARIABLES
  dUp,        \* the capture app is running
  dDisk,      \* its files, chunks.jsonl and acknowledged.jsonl
  dIndex,     \* chunkList: the recorder's chunks, in journal order
  dAcked,     \* acknowledgementsByID
  todo,       \* what each synchronizePending call has left to upload
  rUp,        \* the studio server is running
  rDisk,      \* the receiver's files and chunks.jsonl
  rIndex,     \* _chunks_by_id of each studio object
  current,    \* server.studio
  upload,     \* the chunk each studio object is receiving, under its lock
  manifest,   \* the chunks of the receiver's session.json
  requests,   \* uploads that were sent; one may reach the studio at any time
  replies,    \* acknowledgements on their way to the device
  faults, errors, reopens

deviceVars   == <<dUp, dDisk, dIndex, dAcked, todo>>
receiverVars == <<rUp, rDisk, rIndex, current, upload, manifest>>
networkVars  == <<requests, replies>>
counters     == <<faults, errors, reopens>>
vars == <<deviceVars, receiverVars, networkVars, counters>>

Files == [Id -> Data \cup {Absent}]

TypeOK ==
  /\ dUp \in BOOLEAN /\ rUp \in BOOLEAN
  /\ dDisk \in [file : Files, chunks : JournalOf(Descriptor), acks : JournalOf(Descriptor)]
  /\ rDisk \in [file : Files, chunks : JournalOf(Descriptor)]
  /\ dIndex \in Seq(Descriptor)
  /\ dAcked \in SUBSET Descriptor
  /\ todo \in [Syncer -> SUBSET Descriptor]
  /\ rIndex \in [Store -> SUBSET Descriptor]
  /\ current \in Store
  /\ upload \in [Store -> Descriptor \cup {Absent}]
  /\ manifest \in SUBSET Descriptor
  /\ requests \in SUBSET Descriptor
  /\ replies \in SUBSET Descriptor
  /\ faults \in 0 .. MaxFaults
  /\ errors \in 0 .. MaxErrors
  /\ reopens \in 0 .. MaxReopens

Init ==
  /\ dUp = TRUE /\ rUp = TRUE
  /\ dDisk = [file |-> [i \in Id |-> Absent], chunks |-> EmptyJournal, acks |-> EmptyJournal]
  /\ rDisk = [file |-> [i \in Id |-> Absent], chunks |-> EmptyJournal]
  /\ dIndex = <<>>
  /\ dAcked = {}
  /\ todo = [s \in Syncer |-> {}]
  /\ rIndex = [g \in Store |-> {}]
  /\ current = 1
  /\ upload = [g \in Store |-> Absent]
  /\ manifest = {}
  /\ requests = {} /\ replies = {}
  /\ faults = 0 /\ errors = 0 /\ reopens = 0

-----------------------------------------------------------------------------
(* One chunk store.  Definitions marked Variant are deliberate mistakes    *)
(* that the properties are tested against; no specification uses them.     *)

\* Variant: the descriptor is journaled, the bytes never reach their path.
StoredWithoutBytes(disk, d) == [disk EXCEPT !.chunks = AppendRecord(@, d)]

\* Variant: the bytes are in place, the descriptor is only remembered.
StoredUnjournaled(disk, d) == [disk EXCEPT !.file[d.id] = d.data]

\* Bytes are renamed into place before the descriptor is journaled.
Stored(disk, d) ==
  [disk EXCEPT !.file[d.id] = d.data, !.chunks = AppendRecord(@, d)]

\* Variant: the chunk is written in place instead of being renamed into place.
PartlyStoredInPlace(disk, d) == {[disk EXCEPT !.file[d.id] = Absent]}

\* What a store's disk may hold when storing d stops part-way.
PartlyStored(disk, d) ==
  {disk} \cup
  {[disk EXCEPT !.file[d.id] = d.data, !.chunks = j] :
      j \in InterruptedAppend(disk.chunks, d)}

\* Variant: a line that does not parse is taken over like any other.
OpensUnparsed(j) == \A m, n \in DOMAIN j.lines : j.lines[m] = j.lines[n] => m = n

\* A store opens only if its journals parse and name no chunk twice.
Opens(j) ==
  /\ Readable(j)
  /\ \A m, n \in DOMAIN j.lines : j.lines[m].id = j.lines[n].id => m = n

HasBytes(disk, d) == disk.file[d.id] = d.data

-----------------------------------------------------------------------------
(* The device: LocalChunkRecorder.                                         *)

\* Variant: an id may be recorded again.
UnusedOrNot(i) == i \in Id

Unused(i) == \A n \in DOMAIN dIndex : dIndex[n].id # i

\* durableWrite removes a file left at the destination before it moves the new one there.
PartlyRecorded(d) ==
  PartlyStored(dDisk, d) \cup {[dDisk EXCEPT !.file[d.id] = Absent]}

\* acknowledge: an acknowledgement of a known chunk is journaled once.
Acknowledged(disk, d) == [disk EXCEPT !.acks = AppendRecord(@, d)]

PartlyAcknowledged(d) ==
  {[dDisk EXCEPT !.acks = j] : j \in InterruptedAppend(dDisk.acks, d)}

PendingChunks == ToSet(dIndex) \ dAcked

\* synchronizePending goes through the chunks it listed in journal order, and is at d.
Awaits(s, d) ==
  /\ d \in todo[s]
  /\ \E n \in DOMAIN dIndex :
       dIndex[n] = d /\ \A m \in 1 .. n - 1 : dIndex[m] \notin todo[s]

(***************************************************************************)
(* writeChunk and receiveChunk.  An id in use is refused, or answered with *)
(* the recorded descriptor: neither changes anything.                      *)
(***************************************************************************)
RecordChunk(d) ==
  /\ dUp
  /\ Unused(d.id)
  /\ dDisk' = Stored(dDisk, d)
  /\ dIndex' = Append(dIndex, d)
  /\ UNCHANGED <<dUp, dAcked, todo, receiverVars, networkVars, counters>>

\* The append (or the write before it) throws; the index is left as it was.
RecordChunkFails(d) ==
  /\ dUp /\ errors < MaxErrors
  /\ Unused(d.id)
  /\ dDisk' \in PartlyRecorded(d)
  /\ errors' = errors + 1
  /\ UNCHANGED <<dUp, dIndex, dAcked, todo, receiverVars, networkVars, faults, reopens>>

\* synchronizePending lists what has no recorded acknowledgement before its first await.
StartSync(s) ==
  /\ dUp
  /\ todo[s] = {}
  /\ PendingChunks # {}
  /\ todo' = [todo EXCEPT ![s] = PendingChunks]
  /\ UNCHANGED <<dUp, dDisk, dIndex, dAcked, receiverVars, networkVars, counters>>

\* uploadChunk sends the file if it still has the descriptor's length and digest.
UploadChunk(s, d) ==
  /\ dUp
  /\ Awaits(s, d)
  /\ HasBytes(dDisk, d)
  /\ requests' = requests \cup {d}
  /\ UNCHANGED <<deviceVars, receiverVars, replies, counters>>

\* The answer names the awaited chunk: acknowledge it and go on with the next one.
AcceptAck(s, d) ==
  /\ dUp
  /\ Awaits(s, d)
  /\ d \in replies
  /\ replies' = replies \ {d}
  /\ dDisk' = IF d \in dAcked THEN dDisk ELSE Acknowledged(dDisk, d)
  /\ dAcked' = dAcked \cup {d}
  /\ todo' = [todo EXCEPT ![s] = @ \ {d}]
  /\ UNCHANGED <<dUp, dIndex, receiverVars, requests, counters>>

\* The acknowledgement's append throws, which ends synchronizePending.
AcceptAckFails(s, d) ==
  /\ dUp /\ errors < MaxErrors
  /\ Awaits(s, d)
  /\ d \in replies \ dAcked
  /\ replies' = replies \ {d}
  /\ dDisk' \in PartlyAcknowledged(d)
  /\ todo' = [todo EXCEPT ![s] = {}]
  /\ errors' = errors + 1
  /\ UNCHANGED <<dUp, dIndex, dAcked, receiverVars, requests, faults, reopens>>

\* A request that times out or loses its answer throws out of synchronizePending.
UploadFails(s, d) ==
  /\ dUp /\ faults < MaxFaults
  /\ Awaits(s, d)
  /\ replies' = replies \ {d}
  /\ todo' = [todo EXCEPT ![s] = {}]
  /\ faults' = faults + 1
  /\ UNCHANGED <<dUp, dDisk, dIndex, dAcked, receiverVars, requests, errors, reopens>>

(***************************************************************************)
(* The app dies, perhaps within receiveChunk or acknowledge.  Its memory   *)
(* and its connections are gone.                                           *)
(***************************************************************************)
DeviceCrash ==
  /\ dUp /\ faults < MaxFaults
  /\ \/ dDisk' = dDisk
     \/ \E d \in Descriptor : Unused(d.id) /\ dDisk' \in PartlyRecorded(d)
     \/ \E s \in Syncer, d \in replies \ dAcked :
          Awaits(s, d) /\ dDisk' \in PartlyAcknowledged(d)
  /\ dUp' = FALSE
  /\ dIndex' = <<>>
  /\ dAcked' = {}
  /\ todo' = [s \in Syncer |-> {}]
  /\ replies' = {}
  /\ faults' = faults + 1
  /\ UNCHANGED <<receiverVars, requests, errors, reopens>>

\* LocalChunkRecorder.init: both journals are repaired and indexed, or refused.
DeviceReopen ==
  /\ ~dUp
  /\ Opens(dDisk.chunks) /\ Opens(dDisk.acks)
  /\ dUp' = TRUE
  /\ dDisk' = [dDisk EXCEPT !.chunks = Repaired(@), !.acks = Repaired(@)]
  /\ dIndex' = dDisk.chunks.lines
  /\ dAcked' = Records(dDisk.acks)
  /\ UNCHANGED <<todo, receiverVars, networkVars, counters>>

-----------------------------------------------------------------------------
(* The studio server: CaptureStudio.receive_chunk over LocalChunkStore.    *)

\* Variant: a chunk that is already stored is refused when it is sent again.
AdmissibleOnce(d) == \A e \in rIndex[current] : e.id # d.id

\* An id that is stored is accepted again with the same descriptor only.
Admissible(d) == \A e \in rIndex[current] : e.id = d.id => e = d

(***************************************************************************)
(* A handler thread enters receive_chunk of the studio object it found,    *)
(* takes the lock for as long as the body streams, and looks the id up.    *)
(***************************************************************************)
BeginReceive(d) ==
  /\ rUp
  /\ d \in requests
  /\ upload[current] = Absent
  /\ Admissible(d)
  /\ upload' = [upload EXCEPT ![current] = d]
  /\ UNCHANGED <<deviceVars, rUp, rDisk, rIndex, current, manifest, networkVars, counters>>

\* The body has the descriptor's length and digest: store it unless it is known, and answer.
FinishReceive(g) ==
  /\ rUp
  /\ upload[g] # Absent
  /\ rDisk' = IF upload[g] \in rIndex[g] THEN rDisk ELSE Stored(rDisk, upload[g])
  /\ rIndex' = [rIndex EXCEPT ![g] = @ \cup {upload[g]}]
  /\ replies' = replies \cup {upload[g]}
  /\ upload' = [upload EXCEPT ![g] = Absent]
  /\ UNCHANGED <<deviceVars, rUp, current, manifest, requests, counters>>

\* The body ends early or has another digest: its temporary file is removed.
RejectBody(g) ==
  /\ rUp /\ faults < MaxFaults
  /\ upload[g] # Absent
  /\ upload' = [upload EXCEPT ![g] = Absent]
  /\ faults' = faults + 1
  /\ UNCHANGED <<deviceVars, rUp, rDisk, rIndex, current, manifest, networkVars, errors, reopens>>

\* The rename or the journal append raises; the handler ends without an answer.
FinishReceiveFails(g) ==
  /\ rUp /\ errors < MaxErrors
  /\ upload[g] \notin rIndex[g] \cup {Absent}
  /\ rDisk' \in PartlyStored(rDisk, upload[g])
  /\ upload' = [upload EXCEPT ![g] = Absent]
  /\ errors' = errors + 1
  /\ UNCHANGED <<deviceVars, rUp, rIndex, current, manifest, networkVars, faults, reopens>>

StudioCrash ==
  /\ rUp /\ faults < MaxFaults
  /\ \/ rDisk' = rDisk
     \/ \E g \in Store : /\ upload[g] \notin rIndex[g] \cup {Absent}
                         /\ rDisk' \in PartlyStored(rDisk, upload[g])
  /\ rUp' = FALSE
  /\ rIndex' = [g \in Store |-> {}]
  /\ current' = 1
  /\ upload' = [g \in Store |-> Absent]
  /\ faults' = faults + 1
  /\ UNCHANGED <<deviceVars, manifest, networkVars, errors, reopens>>

\* CaptureStudio.__init__ on a server start: one studio object over the repaired journal.
StudioReopen ==
  /\ ~rUp
  /\ Opens(rDisk.chunks)
  /\ rUp' = TRUE
  /\ rDisk' = [rDisk EXCEPT !.chunks = Repaired(@)]
  /\ rIndex' = [rIndex EXCEPT ![current] = Records(rDisk.chunks)]
  /\ UNCHANGED <<deviceVars, current, upload, manifest, networkVars, counters>>

(***************************************************************************)
(* POST /api/session with the definition the root already has: create()    *)
(* opens a second studio object on the same files and server.studio is     *)
(* replaced.  Requests that reached the old object stay with it.           *)
(***************************************************************************)
ReplaceStudio ==
  /\ rUp
  /\ reopens < MaxReopens
  /\ current + 1 \in Store
  /\ Opens(rDisk.chunks)
  /\ rDisk' = [rDisk EXCEPT !.chunks = Repaired(@)]
  /\ current' = current + 1
  /\ rIndex' = [rIndex EXCEPT ![current'] = Records(rDisk.chunks)]
  /\ reopens' = reopens + 1
  /\ UNCHANGED <<deviceVars, rUp, upload, manifest, networkVars, faults, errors>>

(***************************************************************************)
(* finalize_receiver_session, once the studio session has been ended:      *)
(* every indexed chunk is verified against its file and listed.            *)
(***************************************************************************)
FinalizeReceiver ==
  /\ rUp
  /\ upload[current] = Absent
  /\ rIndex[current] # {}
  /\ \A d \in rIndex[current] : HasBytes(rDisk, d)
  /\ manifest' = rIndex[current]
  /\ UNCHANGED <<deviceVars, rUp, rDisk, rIndex, current, upload, networkVars, counters>>

-----------------------------------------------------------------------------
Transfer(s, d) ==
  UploadChunk(s, d) \/ AcceptAck(s, d) \/ AcceptAckFails(s, d) \/ UploadFails(s, d)

Receive(g) == FinishReceive(g) \/ RejectBody(g) \/ FinishReceiveFails(g)

Next ==
  \/ \E d \in Descriptor : RecordChunk(d) \/ RecordChunkFails(d) \/ BeginReceive(d)
  \/ \E s \in Syncer : StartSync(s)
  \/ \E s \in Syncer, d \in Descriptor : Transfer(s, d)
  \/ \E g \in Store : Receive(g)
  \/ DeviceCrash \/ DeviceReopen
  \/ StudioCrash \/ StudioReopen \/ ReplaceStudio \/ FinalizeReceiver

Spec == Init /\ [][Next]_vars

(***************************************************************************)
(* A running process keeps taking its steps, a dead one is started again,  *)
(* and the owner calls synchronizePending again when it has returned.  The *)
(* studio's lock is not fair, but a request is repeated only after the one *)
(* before it has ended, so none is passed over for ever.                   *)
(***************************************************************************)
Fairness ==
  /\ \A s \in Syncer : /\ WF_vars(StartSync(s))
                       /\ WF_vars(\E d \in Descriptor : UploadChunk(s, d))
                       /\ WF_vars(\E d \in Descriptor : AcceptAck(s, d))
  /\ \A d \in Descriptor : SF_vars(BeginReceive(d))
  /\ \A g \in Store : WF_vars(FinishReceive(g))
  /\ WF_vars(DeviceReopen)
  /\ WF_vars(StudioReopen)

FairSpec == Spec /\ Fairness

-----------------------------------------------------------------------------
(* What the protocol promises.                                             *)

\* The chunks the device may treat as replicated, now or after a restart.
AckedOnDevice == (dAcked \cup Records(dDisk.acks)) \ {Corrupt}

(***************************************************************************)
(* Whatever has crashed, been lost, been repeated or failed so far, the    *)
(* bytes of a chunk whose acknowledgement the device has recorded are on   *)
(* the receiver's disk (receive_chunk answers only after the rename).      *)
(***************************************************************************)
AckedBytesDurable == \A d \in AckedOnDevice : HasBytes(rDisk, d)

(***************************************************************************)
(* As long as no second studio object was made, a running studio reports   *)
(* every acknowledged chunk in its receiver index, and so in the manifest  *)
(* it finalizes.                                                           *)
(***************************************************************************)
AckedIndexed == reopens = 0 /\ rUp => AckedOnDevice \subseteq rIndex[current]

(***************************************************************************)
(* "export all durable ACK descriptors for reconciliation", says           *)
(* capture-archive-v1.md of the receiver index, without the condition      *)
(* that AckedIndexed makes.  A second studio object breaks it: a chunk the *)
(* first one was receiving is stored and acknowledged by the first one.    *)
(***************************************************************************)
IndexAlwaysCoversAcks == rUp => AckedOnDevice \subseteq rIndex[current]

(***************************************************************************)
(* Recovery is deterministic, says capture-archive-v1.md: a store opens    *)
(* again after any interruption.  A failed append whose chunk is sent      *)
(* again breaks it.                                                        *)
(***************************************************************************)
StoresAlwaysReopen ==
  Opens(dDisk.chunks) /\ Opens(dDisk.acks) /\ Opens(rDisk.chunks)

(***************************************************************************)
(* As long as no append failed under a surviving process and no second     *)
(* studio object was made, every journal opens again, whenever either side *)
(* is killed: no torn record is ever extended and no id is written twice.  *)
(***************************************************************************)
JournalsReopen ==
  errors = 0 /\ reopens = 0 => StoresAlwaysReopen

(***************************************************************************)
(* The device is the authoritative copy: what was ever sent is durable on  *)
(* the device, bytes and descriptor, as long as no append failed there.    *)
(***************************************************************************)
LocalFirst ==
  errors = 0 =>
    \A d \in requests : d \in Records(dDisk.chunks) /\ HasBytes(dDisk, d)

(***************************************************************************)
(* No upload ever meets a stored chunk of the same id and other contents,  *)
(* on which receive_chunk_stream would refuse it for ever and              *)
(* synchronizePending would never get past it.                             *)
(***************************************************************************)
NoIdConflict ==
  \A d \in requests : \A g \in Store : \A e \in rIndex[g] : e.id = d.id => e = d

\* A finalized session.json keeps verifying while uploads go on, crash and are retried.
ManifestHoldsBytes == \A d \in manifest : HasBytes(rDisk, d)

\* The durable state of both ends, seen as the abstract replication.
Durable == INSTANCE Replication
  WITH source <- Records(dDisk.chunks), replica <- Records(rDisk.chunks),
       released <- Records(dDisk.acks)

\* Every step of the protocol, crashes included, is a replication step on the durable state.
ImplementsReplication == Durable!Spec

(***************************************************************************)
(* A chunk that has been recorded is acknowledged in the end, whatever     *)
(* finite number of crashes, broken uploads and lost answers intervenes.   *)
(***************************************************************************)
EventuallyAcked ==
  \A d \in Descriptor : d \in Records(dDisk.chunks) ~> d \in Records(dDisk.acks)
=============================================================================
