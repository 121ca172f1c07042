-------------------------- MODULE ChunkSync_proofs --------------------------
(***************************************************************************)
(* Theorems about ChunkSync, for any sets of ids, contents and syncers and *)
(* any number of crashes, lost messages, failed appends and reopened       *)
(* studios.  Inv is the inductive invariant the first ones follow from.    *)
(* CalmInv adds to it what holds of the journals as long as no append has  *)
(* failed under a living process, or as long as one studio object was      *)
(* made; from it follow the promises that are made on those conditions,    *)
(* and that the protocol implements Replication.                           *)
(***************************************************************************)
EXTENDS ChunkSync, SequenceTheorems, TLAPS

-----------------------------------------------------------------------------
(* What an append, an interrupted append and a repair do to the records of *)
(* a journal, of any length over any set of records.                       *)

LEMMA AppendElements ==
  ASSUME NEW S, NEW s \in Seq(S), NEW e \in S
  PROVE  ToSet(Append(s, e)) = ToSet(s) \cup {e}
<1>1. /\ Append(s, e) \in Seq(S)
      /\ Len(Append(s, e)) = Len(s) + 1
      /\ DOMAIN Append(s, e) = 1 .. Len(s) + 1
      /\ DOMAIN s = 1 .. Len(s)
      /\ Len(s) \in Nat
  BY AppendProperties, LenProperties
<1>2. /\ \A i \in 1 .. Len(s) : Append(s, e)[i] = s[i]
      /\ Append(s, e)[Len(s) + 1] = e
  BY AppendProperties
<1>3. ASSUME NEW x \in ToSet(Append(s, e)) PROVE x \in ToSet(s) \cup {e}
  <2>1. PICK i \in 1 .. Len(s) + 1 : x = Append(s, e)[i]
    BY <1>1, <1>3 DEF ToSet
  <2>2. i \in 1 .. Len(s) \/ i = Len(s) + 1
    BY <1>1, <2>1
  <2> QED BY <1>1, <1>2, <2>1, <2>2 DEF ToSet
<1>4. ASSUME NEW x \in ToSet(s) \cup {e} PROVE x \in ToSet(Append(s, e))
  <2>1. CASE x = e
    <3>1. Len(s) + 1 \in DOMAIN Append(s, e)
      BY <1>1
    <3> QED BY <1>2, <2>1, <3>1 DEF ToSet
  <2>2. CASE x \in ToSet(s)
    <3>1. PICK i \in 1 .. Len(s) : x = s[i]
      BY <1>1, <2>2 DEF ToSet
    <3>2. i \in DOMAIN Append(s, e)
      BY <1>1, <3>1
    <3> QED BY <1>2, <3>1, <3>2 DEF ToSet
  <2> QED BY <1>4, <2>1, <2>2
<1> QED BY <1>3, <1>4

LEMMA ElementsInRange ==
  ASSUME NEW S, NEW s \in Seq(S)
  PROVE  ToSet(s) \subseteq S
BY ElementOfSeq, LenProperties DEF ToSet

LEMMA FrontElements ==
  ASSUME NEW S, NEW s \in Seq(S), s # <<>>
  PROVE  /\ Front(s) \in Seq(S)
         /\ Last(s) \in S
         /\ ToSet(s) = ToSet(Front(s)) \cup {Last(s)}
<1>1. /\ Len(s) \in Nat
      /\ Len(s) > 0
      /\ DOMAIN s = 1 .. Len(s)
  BY LenProperties, EmptySeq
<1>2. /\ Front(s) \in Seq(S)
      /\ Len(Front(s)) = Len(s) - 1
      /\ \A i \in 1 .. Len(s) - 1 : Front(s)[i] = s[i]
  BY <1>1, SubSeqProperties, ElementOfSeq DEF Front
<1>3. DOMAIN Front(s) = 1 .. Len(s) - 1
  BY <1>2, LenProperties
<1>4. Last(s) = s[Len(s)] /\ Last(s) \in S
  BY <1>1, ElementOfSeq DEF Last
<1>5. ASSUME NEW x \in ToSet(s) PROVE x \in ToSet(Front(s)) \cup {Last(s)}
  <2>1. PICK i \in 1 .. Len(s) : x = s[i]
    BY <1>1, <1>5 DEF ToSet
  <2>2. i \in 1 .. Len(s) - 1 \/ i = Len(s)
    <3> DEFINE n == Len(s)
    <3>1. n \in Nat /\ i \in 1 .. n
      BY <1>1, <2>1
    <3> HIDE DEF n
    <3> QED BY <3>1
  <2> QED BY <1>2, <1>3, <1>4, <2>1, <2>2 DEF ToSet
<1>6. ASSUME NEW x \in ToSet(Front(s)) \cup {Last(s)} PROVE x \in ToSet(s)
  <2>1. CASE x \in ToSet(Front(s))
    <3>1. PICK i \in 1 .. Len(s) - 1 : x = Front(s)[i]
      BY <1>3, <2>1 DEF ToSet
    <3>2. i \in 1 .. Len(s) /\ Front(s)[i] = s[i]
      BY <1>1, <1>2, <3>1
    <3> QED BY <1>1, <3>1, <3>2 DEF ToSet
  <2>2. CASE x = Last(s)
    BY <1>1, <1>4, <2>2 DEF ToSet
  <2> QED BY <1>6, <2>1, <2>2
<1> QED BY <1>2, <1>4, <1>5, <1>6

LEMMA EmptyJournalType ==
  ASSUME NEW R
  PROVE  /\ EmptyJournal \in JournalOf(R)
         /\ Records(EmptyJournal) = {}
BY EmptySeq DEF EmptyJournal, JournalOf, TailState, Records, ToSet

(***************************************************************************)
(* What holds of every journal the stores write: a record that still lacks *)
(* its newline is there, and parses.                                       *)
(***************************************************************************)
LastIsRecord(j) == j.tail = "whole" => j.lines # <<>> /\ Last(j.lines) # Corrupt

LEMMA AppendRecordType ==
  ASSUME NEW R, NEW j \in JournalOf(R), NEW r \in R
  PROVE  AppendRecord(j, r) \in JournalOf(R)
<1>1. /\ j.lines \in Seq(R \cup {Corrupt})
      /\ j.tail \in TailState
  BY DEF JournalOf
<1>2. Front(j.lines) \in Seq(R \cup {Corrupt})
  <2>1. CASE j.lines = <<>>
    <3>1. Len(j.lines) = 0
      BY <2>1, EmptySeq
    <3>2. SubSeq(j.lines, 1, -1) = <<>>
      BY SubSeqEmpty
    <3> QED BY <3>1, <3>2, EmptySeq DEF Front
  <2>2. CASE j.lines # <<>>
    BY <1>1, <2>2, FrontElements
  <2> QED BY <2>1, <2>2
<1>3. \A s \in Seq(R \cup {Corrupt}), e \in R \cup {Corrupt} :
        Append(s, e) \in Seq(R \cup {Corrupt})
  BY AppendProperties
<1> QED BY <1>1, <1>2, <1>3 DEF AppendRecord, JournalOf, TailState

LEMMA InterruptedAppendType ==
  ASSUME NEW R, NEW j \in JournalOf(R), NEW r \in R, NEW k \in InterruptedAppend(j, r)
  PROVE  k \in JournalOf(R)
<1>1. /\ j.lines \in Seq(R \cup {Corrupt})
      /\ j.tail \in TailState
  BY DEF JournalOf
<1>2. Front(j.lines) \in Seq(R \cup {Corrupt})
  <2>1. CASE j.lines = <<>>
    <3>1. Len(j.lines) = 0
      BY <2>1, EmptySeq
    <3>2. SubSeq(j.lines, 1, -1) = <<>>
      BY SubSeqEmpty
    <3> QED BY <3>1, <3>2, EmptySeq DEF Front
  <2>2. CASE j.lines # <<>>
    BY <1>1, <2>2, FrontElements
  <2> QED BY <2>1, <2>2
<1>3. Append(j.lines, r) \in Seq(R \cup {Corrupt})
  BY <1>1, AppendProperties
<1>4. AppendRecord(j, r) \in JournalOf(R)
  BY AppendRecordType
<1>5. \/ k = j
      \/ k = AppendRecord(j, r)
      \/ k = [lines |-> j.lines, tail |-> "torn"]
      \/ k = [lines |-> Append(j.lines, r), tail |-> "whole"]
      \/ k = [lines |-> Front(j.lines), tail |-> "torn"]
  BY <1>1 DEF InterruptedAppend, TailState
<1>6. \A s \in Seq(R \cup {Corrupt}), t \in TailState :
        [lines |-> s, tail |-> t] \in JournalOf(R)
  BY DEF JournalOf
<1> QED BY <1>1, <1>2, <1>3, <1>4, <1>5, <1>6 DEF TailState

(***************************************************************************)
(* An append adds its record and nothing else, and loses no record but one *)
(* that lacked its newline; a record it does not add is replaced by a line *)
(* that will be refused.  append_jsonl writes without looking at the tail. *)
(***************************************************************************)
LEMMA AppendRecordEffect ==
  ASSUME NEW R, NEW j \in JournalOf(R), NEW r \in R, LastIsRecord(j)
  PROVE  /\ Records(AppendRecord(j, r)) \subseteq Records(j) \cup {r, Corrupt}
         /\ AppendRecord(j, r).tail = "none"
         /\ \A x \in Records(j) : x \in Records(AppendRecord(j, r))
                                   \/ (j.tail = "whole" /\ x = Last(j.lines))
         /\ r \in Records(AppendRecord(j, r)) \/ Corrupt \in Records(AppendRecord(j, r))
         /\ j.tail = "none" => Records(AppendRecord(j, r)) = Records(j) \cup {r}
<1> DEFINE L == j.lines
<1>1. L \in Seq(R \cup {Corrupt}) /\ j.tail \in TailState
  BY DEF JournalOf
<1>2. CASE j.tail = "none"
  <2>1. AppendRecord(j, r) = [lines |-> Append(L, r), tail |-> "none"]
    BY <1>2 DEF AppendRecord
  <2>2. ToSet(Append(L, r)) = ToSet(L) \cup {r}
    BY <1>1, AppendElements
  <2> QED BY <1>2, <2>1, <2>2 DEF Records
<1>3. CASE j.tail = "torn"
  <2>1. AppendRecord(j, r) = [lines |-> Append(L, Corrupt), tail |-> "none"]
    BY <1>3 DEF AppendRecord
  <2>2. ToSet(Append(L, Corrupt)) = ToSet(L) \cup {Corrupt}
    BY <1>1, AppendElements
  <2> QED BY <1>3, <2>1, <2>2 DEF Records
<1>4. CASE j.tail = "whole"
  <2>1. AppendRecord(j, r) = [lines |-> Append(Front(L), Corrupt), tail |-> "none"]
    BY <1>4 DEF AppendRecord
  <2>2. /\ Front(L) \in Seq(R \cup {Corrupt})
        /\ ToSet(L) = ToSet(Front(L)) \cup {Last(L)}
    BY <1>1, <1>4, FrontElements DEF LastIsRecord
  <2>3. ToSet(Append(Front(L), Corrupt)) = ToSet(Front(L)) \cup {Corrupt}
    BY <2>2, AppendElements
  <2> QED BY <1>4, <2>1, <2>2, <2>3 DEF Records
<1> QED BY <1>1, <1>2, <1>3, <1>4 DEF TailState

(***************************************************************************)
(* The same of an append that stops part-way; what it leaves without a     *)
(* newline is the record it was appending, on a journal that was clean, or *)
(* what an earlier one left.                                               *)
(***************************************************************************)
LEMMA InterruptedAppendEffect ==
  ASSUME NEW R, NEW j \in JournalOf(R), NEW r \in R, Corrupt \notin R, LastIsRecord(j),
         NEW k \in InterruptedAppend(j, r)
  PROVE  /\ Records(k) \subseteq Records(j) \cup {r, Corrupt}
         /\ LastIsRecord(k)
         /\ k.tail = "whole" => k = j \/ Last(k.lines) = r
         /\ \A x \in Records(j) : x \in Records(k) \/ (j.tail = "whole" /\ x = Last(j.lines))
         /\ j.tail = "none" => Records(k) \subseteq Records(j) \cup {r}
<1> DEFINE L == j.lines
<1>1. L \in Seq(R \cup {Corrupt}) /\ j.tail \in TailState
  BY DEF JournalOf
<1>2. CASE k = j
  BY <1>2
<1>3. CASE k = AppendRecord(j, r)
  BY <1>3, AppendRecordEffect DEF LastIsRecord
<1>4. CASE j.tail = "none" /\ k = [lines |-> L, tail |-> "torn"]
  BY <1>4 DEF LastIsRecord, Records
<1>5. CASE j.tail = "none" /\ k = [lines |-> Append(L, r), tail |-> "whole"]
  <2>1. ToSet(Append(L, r)) = ToSet(L) \cup {r}
    BY <1>1, AppendElements
  <2>2. Append(L, r) # <<>> /\ Last(Append(L, r)) = r
    BY <1>1, AppendProperties DEF Last
  <2> QED BY <1>5, <2>1, <2>2 DEF Records, LastIsRecord
<1>6. CASE j.tail = "whole" /\ k = [lines |-> Front(L), tail |-> "torn"]
  <2>1. ToSet(L) = ToSet(Front(L)) \cup {Last(L)}
    BY <1>1, <1>6, FrontElements DEF LastIsRecord
  <2> QED BY <1>6, <2>1 DEF Records, LastIsRecord
<1> QED BY <1>1, <1>2, <1>3, <1>4, <1>5, <1>6 DEF InterruptedAppend, TailState

\* Repairing a journal changes none of its records.
LEMMA RepairedEffect ==
  ASSUME NEW R, NEW j \in JournalOf(R)
  PROVE  /\ Repaired(j) \in JournalOf(R)
         /\ Repaired(j).lines = j.lines
         /\ Records(Repaired(j)) = Records(j)
         /\ LastIsRecord(Repaired(j))
BY DEF Repaired, JournalOf, TailState, Records, LastIsRecord

\* A journal that is read holds records only.
LEMMA ReadableEffect ==
  ASSUME NEW R, NEW j \in JournalOf(R), Readable(j)
  PROVE  /\ j.lines \in Seq(R)
         /\ Records(j) \subseteq R
<1>1. /\ j.lines \in Seq(R \cup {Corrupt})
      /\ Len(j.lines) \in Nat
      /\ DOMAIN j.lines = 1 .. Len(j.lines)
  BY LenProperties DEF JournalOf
<1>2. \A i \in 1 .. Len(j.lines) : j.lines[i] \in R \cup {Corrupt} /\ j.lines[i] # Corrupt
  BY <1>1, ElementOfSeq DEF Readable, Records, ToSet
<1>3. \A i \in 1 .. Len(j.lines) : j.lines[i] \in R
  BY <1>2
<1>4. j.lines \in Seq(R)
  BY <1>1, <1>3
<1> QED BY <1>1, <1>3, <1>4 DEF Records, ToSet

-----------------------------------------------------------------------------
(* The protocol *)

UniqueIds(S) == \A d, e \in S : d.id = e.id => d = e

\* The journals a later append or repair can be relied on to keep in order.
JournalsOrdered ==
  /\ LastIsRecord(dDisk.chunks)
  /\ LastIsRecord(dDisk.acks)
  /\ LastIsRecord(rDisk.chunks)

\* Journal j holds all of S, or a line for which it will be refused.
Keeps(j, S) == S \subseteq Records(j) \/ Corrupt \in Records(j)

(***************************************************************************)
(* The running recorder indexes one chunk per id, has journaled what it    *)
(* indexes unless its journal is spoilt, and knows what it ever sent.  An  *)
(* unfinished last record is of a chunk it does not index.                 *)
(***************************************************************************)
DeviceInv ==
  /\ dUp => /\ UniqueIds(ToSet(dIndex))
            /\ requests \subseteq ToSet(dIndex)
            /\ Keeps(dDisk.chunks, ToSet(dIndex))
            /\ dDisk.chunks.tail = "whole" => Last(dDisk.chunks.lines) \notin ToSet(dIndex)
  /\ Keeps(dDisk.chunks, requests)
  /\ UniqueIds(requests)

\* Every chunk that something says the receiver has.
Claimed ==
  (UNION {rIndex[g] : g \in Store}) \cup replies \cup dAcked \cup manifest
    \cup ((Records(dDisk.acks) \cup Records(rDisk.chunks)) \ {Corrupt})

\* What the receiver is said to have was sent, and its bytes are there.
ReceiverInv ==
  /\ \A g \in Store : upload[g] \in requests \cup {Absent}
  /\ Claimed \subseteq requests
  /\ \A d \in Claimed : HasBytes(rDisk, d)

Inv == TypeOK /\ JournalsOrdered /\ DeviceInv /\ ReceiverInv

-----------------------------------------------------------------------------
(* What the operations on a disk do to its parts.                          *)

DeviceDisk == [file : Files, chunks : JournalOf(Descriptor), acks : JournalOf(Descriptor)]

ReceiverDisk == [file : Files, chunks : JournalOf(Descriptor)]

LEMMA DescriptorFacts ==
  /\ Corrupt \notin Descriptor
  /\ Absent \notin Descriptor
  /\ \A d \in Descriptor : d.id \in Id /\ d.data \in Data
BY SentinelAssumption DEF Descriptor

LEMMA DeviceStored ==
  ASSUME NEW disk \in DeviceDisk, NEW d \in Descriptor
  PROVE  /\ Stored(disk, d) \in DeviceDisk
         /\ Stored(disk, d).chunks = AppendRecord(disk.chunks, d)
         /\ Stored(disk, d).acks = disk.acks
<1>1. disk.chunks \in JournalOf(Descriptor)
  BY DEF DeviceDisk
<1>2. AppendRecord(disk.chunks, d) \in JournalOf(Descriptor)
  BY <1>1, AppendRecordType
<1> QED BY <1>2, DescriptorFacts DEF Stored, DeviceDisk, Files

LEMMA DevicePartlyRecorded ==
  ASSUME dDisk \in DeviceDisk, NEW d \in Descriptor, NEW k \in PartlyRecorded(d)
  PROVE  /\ k \in DeviceDisk
         /\ k.chunks \in InterruptedAppend(dDisk.chunks, d)
         /\ k.acks = dDisk.acks
<1>1. dDisk.chunks \in JournalOf(Descriptor) /\ dDisk.file \in Files
  BY DEF DeviceDisk
<1>2. dDisk.chunks \in InterruptedAppend(dDisk.chunks, d)
  BY DEF InterruptedAppend
<1>3. CASE k = dDisk
  BY <1>2, <1>3
<1>4. CASE k = [dDisk EXCEPT !.file[d.id] = Absent]
  BY <1>1, <1>2, <1>4, DescriptorFacts DEF DeviceDisk, Files
<1>5. ASSUME NEW j \in InterruptedAppend(dDisk.chunks, d),
             k = [dDisk EXCEPT !.file[d.id] = d.data, !.chunks = j]
      PROVE  /\ k \in DeviceDisk
             /\ k.chunks \in InterruptedAppend(dDisk.chunks, d)
             /\ k.acks = dDisk.acks
  <2>1. j \in JournalOf(Descriptor)
    BY <1>1, InterruptedAppendType
  <2> QED BY <1>1, <1>5, <2>1, DescriptorFacts DEF DeviceDisk, Files
<1> QED BY <1>3, <1>4, <1>5 DEF PartlyRecorded, PartlyStored

LEMMA DeviceAcknowledged ==
  ASSUME dDisk \in DeviceDisk, NEW d \in Descriptor
  PROVE  /\ Acknowledged(dDisk, d) \in DeviceDisk
         /\ Acknowledged(dDisk, d).chunks = dDisk.chunks
         /\ Acknowledged(dDisk, d).acks = AppendRecord(dDisk.acks, d)
<1>1. dDisk.acks \in JournalOf(Descriptor)
  BY DEF DeviceDisk
<1>2. AppendRecord(dDisk.acks, d) \in JournalOf(Descriptor)
  BY <1>1, AppendRecordType
<1> QED BY <1>2 DEF Acknowledged, DeviceDisk

LEMMA DevicePartlyAcknowledged ==
  ASSUME dDisk \in DeviceDisk, NEW d \in Descriptor, NEW k \in PartlyAcknowledged(d)
  PROVE  /\ k \in DeviceDisk
         /\ k.chunks = dDisk.chunks
         /\ k.acks \in InterruptedAppend(dDisk.acks, d)
<1>1. PICK j \in InterruptedAppend(dDisk.acks, d) : k = [dDisk EXCEPT !.acks = j]
  BY DEF PartlyAcknowledged
<1>2. j \in JournalOf(Descriptor)
  BY <1>1, InterruptedAppendType DEF DeviceDisk
<1> QED BY <1>1, <1>2 DEF DeviceDisk

LEMMA ReceiverStored ==
  ASSUME rDisk \in ReceiverDisk, NEW d \in Descriptor
  PROVE  /\ Stored(rDisk, d) \in ReceiverDisk
         /\ Stored(rDisk, d).chunks = AppendRecord(rDisk.chunks, d)
         /\ Stored(rDisk, d).file = [rDisk.file EXCEPT ![d.id] = d.data]
<1>1. rDisk.chunks \in JournalOf(Descriptor)
  BY DEF ReceiverDisk
<1>2. AppendRecord(rDisk.chunks, d) \in JournalOf(Descriptor)
  BY <1>1, AppendRecordType
<1> QED BY <1>2, DescriptorFacts DEF Stored, ReceiverDisk, Files

LEMMA ReceiverPartlyStored ==
  ASSUME rDisk \in ReceiverDisk, NEW d \in Descriptor, NEW k \in PartlyStored(rDisk, d)
  PROVE  /\ k \in ReceiverDisk
         /\ k.chunks \in InterruptedAppend(rDisk.chunks, d)
         /\ k = rDisk \/ k.file = [rDisk.file EXCEPT ![d.id] = d.data]
<1>1. rDisk.chunks \in JournalOf(Descriptor) /\ rDisk.file \in Files
  BY DEF ReceiverDisk
<1>2. CASE k = rDisk
  BY <1>2 DEF InterruptedAppend
<1>3. ASSUME NEW j \in InterruptedAppend(rDisk.chunks, d),
             k = [rDisk EXCEPT !.file[d.id] = d.data, !.chunks = j]
      PROVE  /\ k \in ReceiverDisk
             /\ k.chunks \in InterruptedAppend(rDisk.chunks, d)
             /\ k.file = [rDisk.file EXCEPT ![d.id] = d.data]
  <2>1. j \in JournalOf(Descriptor)
    BY <1>1, InterruptedAppendType
  <2> QED BY <1>1, <1>3, <2>1, DescriptorFacts DEF ReceiverDisk, Files
<1> QED BY <1>2, <1>3 DEF PartlyStored

-----------------------------------------------------------------------------
(* Types.                                                                  *)

LEMMA TypeInit == Init => TypeOK
<1> SUFFICES ASSUME Init PROVE TypeOK
  OBVIOUS
<1>1. EmptyJournal \in JournalOf(Descriptor)
  BY EmptyJournalType
<1>2. 1 \in Store /\ 0 \in 0 .. MaxFaults /\ 0 \in 0 .. MaxErrors /\ 0 \in 0 .. MaxReopens
  BY BoundsAssumption DEF Store
<1>3. <<>> \in Seq(Descriptor)
  BY EmptySeq
<1> QED BY <1>1, <1>2, <1>3 DEF Init, TypeOK, Files

LEMMA TypeStep == TypeOK /\ [Next]_vars => TypeOK'
<1> SUFFICES ASSUME TypeOK, [Next]_vars PROVE TypeOK'
  OBVIOUS
<1> USE BoundsAssumption
<1>0. /\ dDisk \in DeviceDisk /\ rDisk \in ReceiverDisk
      /\ dDisk.chunks \in JournalOf(Descriptor)
      /\ dDisk.acks \in JournalOf(Descriptor)
      /\ rDisk.chunks \in JournalOf(Descriptor)
  BY DEF TypeOK, DeviceDisk, ReceiverDisk
<1>1. ASSUME NEW d \in Descriptor, RecordChunk(d) PROVE TypeOK'
  <2>1. dDisk' \in DeviceDisk
    BY <1>0, <1>1, DeviceStored DEF RecordChunk
  <2>2. dIndex' \in Seq(Descriptor)
    BY <1>1, AppendProperties DEF RecordChunk, TypeOK
  <2> QED BY <1>1, <2>1, <2>2 DEF RecordChunk, TypeOK, DeviceDisk, receiverVars, networkVars, counters
<1>2. ASSUME NEW d \in Descriptor, RecordChunkFails(d) PROVE TypeOK'
  <2>1. dDisk' \in DeviceDisk
    BY <1>0, <1>2, DevicePartlyRecorded DEF RecordChunkFails
  <2> QED BY <1>2, <2>1 DEF RecordChunkFails, TypeOK, DeviceDisk, receiverVars, networkVars
<1>3. ASSUME NEW s \in Syncer, StartSync(s) PROVE TypeOK'
  <2>1. PendingChunks \in SUBSET Descriptor
    BY ElementsInRange DEF PendingChunks, TypeOK
  <2> QED BY <1>3, <2>1 DEF StartSync, TypeOK, receiverVars, networkVars, counters
<1>4. ASSUME NEW s \in Syncer, NEW d \in Descriptor, UploadChunk(s, d) PROVE TypeOK'
  BY <1>4 DEF UploadChunk, TypeOK, deviceVars, receiverVars, counters
<1>5. ASSUME NEW s \in Syncer, NEW d \in Descriptor, AcceptAck(s, d) PROVE TypeOK'
  <2>1. dDisk' \in DeviceDisk
    BY <1>0, <1>5, DeviceAcknowledged DEF AcceptAck
  <2> QED BY <1>5, <2>1 DEF AcceptAck, TypeOK, DeviceDisk, receiverVars, counters
<1>6. ASSUME NEW s \in Syncer, NEW d \in Descriptor, AcceptAckFails(s, d) PROVE TypeOK'
  <2>1. dDisk' \in DeviceDisk
    BY <1>0, <1>6, DevicePartlyAcknowledged DEF AcceptAckFails
  <2> QED BY <1>6, <2>1 DEF AcceptAckFails, TypeOK, DeviceDisk, receiverVars
<1>7. ASSUME NEW s \in Syncer, NEW d \in Descriptor, UploadFails(s, d) PROVE TypeOK'
  BY <1>7 DEF UploadFails, TypeOK, receiverVars
<1>8. CASE DeviceCrash
  <2>1. dDisk' \in DeviceDisk
    BY <1>0, <1>8, DevicePartlyRecorded, DevicePartlyAcknowledged DEF DeviceCrash, TypeOK
  <2>2. dIndex' \in Seq(Descriptor)
    BY <1>8, EmptySeq DEF DeviceCrash
  <2>3. /\ dUp' = FALSE /\ dAcked' = {} /\ todo' = [s \in Syncer |-> {}] /\ replies' = {}
        /\ faults < MaxFaults /\ faults' = faults + 1
        /\ UNCHANGED <<receiverVars, requests, errors, reopens>>
    BY <1>8 DEF DeviceCrash
  <2>4. /\ dAcked' \in SUBSET Descriptor /\ replies' \in SUBSET Descriptor
        /\ todo' \in [Syncer -> SUBSET Descriptor]
        /\ faults' \in 0 .. MaxFaults
    BY <2>3 DEF TypeOK
  <2> QED BY <2>1, <2>2, <2>3, <2>4 DEF TypeOK, DeviceDisk, receiverVars
<1>9. CASE DeviceReopen
  <2>1. /\ dDisk.chunks.lines \in Seq(Descriptor)
        /\ Records(dDisk.acks) \subseteq Descriptor
    BY <1>0, <1>9, ReadableEffect DEF DeviceReopen, Opens
  <2>2. /\ Repaired(dDisk.chunks) \in JournalOf(Descriptor)
        /\ Repaired(dDisk.acks) \in JournalOf(Descriptor)
    BY <1>0, RepairedEffect
  <2> QED BY <1>9, <2>1, <2>2 DEF DeviceReopen, TypeOK, receiverVars, networkVars, counters
<1>10. ASSUME NEW d \in Descriptor, BeginReceive(d) PROVE TypeOK'
  BY <1>10 DEF BeginReceive, TypeOK, deviceVars, networkVars, counters
<1>11. ASSUME NEW g \in Store, FinishReceive(g) PROVE TypeOK'
  <2>1. upload[g] \in Descriptor
    BY <1>11 DEF FinishReceive, TypeOK
  <2>2. rDisk' \in ReceiverDisk
    BY <1>0, <1>11, <2>1, ReceiverStored DEF FinishReceive
  <2> QED BY <1>11, <2>1, <2>2 DEF FinishReceive, TypeOK, ReceiverDisk, deviceVars, counters
<1>12. ASSUME NEW g \in Store, RejectBody(g) PROVE TypeOK'
  BY <1>12 DEF RejectBody, TypeOK, deviceVars, networkVars
<1>13. ASSUME NEW g \in Store, FinishReceiveFails(g) PROVE TypeOK'
  <2>1. upload[g] \in Descriptor
    BY <1>13 DEF FinishReceiveFails, TypeOK
  <2>2. rDisk' \in ReceiverDisk
    BY <1>0, <1>13, <2>1, ReceiverPartlyStored DEF FinishReceiveFails
  <2> QED BY <1>13, <2>2 DEF FinishReceiveFails, TypeOK, ReceiverDisk, deviceVars, networkVars
<1>14. CASE StudioCrash
  <2>1. rDisk' \in ReceiverDisk
    BY <1>0, <1>14, ReceiverPartlyStored DEF StudioCrash, TypeOK
  <2>2. /\ rUp' = FALSE /\ rIndex' = [g \in Store |-> {}] /\ current' = 1
        /\ upload' = [g \in Store |-> Absent]
        /\ faults < MaxFaults /\ faults' = faults + 1
        /\ UNCHANGED <<deviceVars, manifest, networkVars, errors, reopens>>
    BY <1>14 DEF StudioCrash
  <2>3. /\ rIndex' \in [Store -> SUBSET Descriptor]
        /\ upload' \in [Store -> Descriptor \cup {Absent}]
        /\ current' \in Store
        /\ faults' \in 0 .. MaxFaults
    BY <2>2 DEF TypeOK, Store
  <2> QED BY <2>1, <2>2, <2>3 DEF TypeOK, ReceiverDisk, deviceVars, networkVars
<1>15. CASE StudioReopen
  <2>1. Records(rDisk.chunks) \subseteq Descriptor
    BY <1>0, <1>15, ReadableEffect DEF StudioReopen, Opens
  <2>2. Repaired(rDisk.chunks) \in JournalOf(Descriptor)
    BY <1>0, RepairedEffect
  <2> QED BY <1>15, <2>1, <2>2 DEF StudioReopen, TypeOK, deviceVars, networkVars, counters
<1>16. CASE ReplaceStudio
  <2>1. Records(rDisk.chunks) \subseteq Descriptor
    BY <1>0, <1>16, ReadableEffect DEF ReplaceStudio, Opens
  <2>2. Repaired(rDisk.chunks) \in JournalOf(Descriptor)
    BY <1>0, RepairedEffect
  <2> QED BY <1>16, <2>1, <2>2, SMTT(30) DEF ReplaceStudio, TypeOK, deviceVars, networkVars
<1>17. CASE FinalizeReceiver
  BY <1>17 DEF FinalizeReceiver, TypeOK, deviceVars, networkVars, counters
<1>18. CASE UNCHANGED vars
  BY <1>18 DEF vars, TypeOK, deviceVars, receiverVars, networkVars, counters
<1> QED BY <1>1, <1>2, <1>3, <1>4, <1>5, <1>6, <1>7, <1>8, <1>9, <1>10, <1>11, <1>12,
           <1>13, <1>14, <1>15, <1>16, <1>17, <1>18 DEF Next, Transfer, Receive

\* Every variable keeps its type, through every crash, failed append and reopening.
THEOREM TypeCorrect == Spec => []TypeOK
BY TypeInit, TypeStep, PTL DEF Spec

-----------------------------------------------------------------------------
(* The invariant.                                                          *)

LEMMA AppendKeeps ==
  ASSUME NEW j \in JournalOf(Descriptor), NEW d \in Descriptor, LastIsRecord(j),
         NEW S, Keeps(j, S), j.tail = "whole" => Last(j.lines) \notin S
  PROVE  /\ Keeps(AppendRecord(j, d), S \cup {d})
         /\ AppendRecord(j, d).tail = "none"
         /\ LastIsRecord(AppendRecord(j, d))
<1>1. /\ AppendRecord(j, d).tail = "none"
      /\ \A x \in Records(j) : x \in Records(AppendRecord(j, d))
                                \/ (j.tail = "whole" /\ x = Last(j.lines))
      /\ d \in Records(AppendRecord(j, d)) \/ Corrupt \in Records(AppendRecord(j, d))
  BY AppendRecordEffect
<1> QED BY <1>1 DEF Keeps, LastIsRecord

LEMMA InterruptedAppendKeeps ==
  ASSUME NEW j \in JournalOf(Descriptor), NEW d \in Descriptor, LastIsRecord(j),
         NEW S, Keeps(j, S), j.tail = "whole" => Last(j.lines) \notin S,
         NEW k \in InterruptedAppend(j, d)
  PROVE  /\ Keeps(k, S)
         /\ LastIsRecord(k)
         /\ d \notin S /\ k.tail = "whole" => Last(k.lines) \notin S
<1>1. /\ LastIsRecord(k)
      /\ k.tail = "whole" => k = j \/ Last(k.lines) = d
      /\ \A x \in Records(j) : x \in Records(k) \/ (j.tail = "whole" /\ x = Last(j.lines))
  BY InterruptedAppendEffect, DescriptorFacts
<1> QED BY <1>1 DEF Keeps, LastIsRecord

LEMMA InvInit == Init => Inv
<1> SUFFICES ASSUME Init PROVE Inv
  OBVIOUS
<1>1. Records(EmptyJournal) = {} /\ EmptyJournal.tail = "none" /\ ToSet(<<>>) = {}
  BY EmptyJournalType DEF EmptyJournal, Records
<1>2. Claimed = {}
  BY <1>1 DEF Init, Claimed
<1> QED BY <1>1, <1>2, TypeInit
        DEF Init, Inv, JournalsOrdered, LastIsRecord, DeviceInv, ReceiverInv, Keeps, UniqueIds

\* The steps that leave the device's disk and index alone.
LEMMA DeviceUntouched ==
  ASSUME DeviceInv, UNCHANGED <<dUp, dDisk, dIndex, requests>>
  PROVE  DeviceInv'
BY DEF DeviceInv, Keeps, UniqueIds, Records

\* The steps that leave the receiver's disk alone and claim nothing new.
LEMMA ReceiverUntouched ==
  ASSUME ReceiverInv, UNCHANGED <<rDisk, upload>>, requests \subseteq requests',
         Claimed' \subseteq Claimed
  PROVE  ReceiverInv'
BY DEF ReceiverInv, HasBytes

LEMMA UnusedId ==
  ASSUME NEW i, Unused(i)
  PROVE  \A d \in ToSet(dIndex) : d.id # i
BY DEF Unused, ToSet

(***************************************************************************)
(* Storing a chunk that was sent may stop anywhere: the receiver still has *)
(* whatever it is said to have.                                            *)
(***************************************************************************)
LEMMA PartlyStoredKeeps ==
  ASSUME Inv,
         rDisk' = rDisk \/ \E d \in requests : rDisk' \in PartlyStored(rDisk, d),
         UNCHANGED <<deviceVars, networkVars, manifest>>,
         TypeOK',
         \A g \in Store : rIndex'[g] \subseteq rIndex[g] /\ upload'[g] \in {upload[g], Absent}
  PROVE  Inv'
<1>1. /\ TypeOK /\ JournalsOrdered /\ DeviceInv /\ ReceiverInv
      /\ rDisk \in ReceiverDisk /\ rDisk.chunks \in JournalOf(Descriptor)
      /\ requests \subseteq Descriptor
      /\ LastIsRecord(rDisk.chunks)
  BY DEF Inv, TypeOK, ReceiverDisk, JournalsOrdered
<1>2. DeviceInv'
  BY <1>1, DeviceUntouched DEF deviceVars, networkVars
<1> DEFINE After == Claimed \cup (Records(rDisk'.chunks) \ {Corrupt})
<1>3. /\ LastIsRecord(rDisk'.chunks)
      /\ \A e \in After : e \in requests /\ HasBytes(rDisk, e)'
  <2>1. CASE rDisk' = rDisk
    BY <1>1, <2>1 DEF ReceiverInv, Claimed, HasBytes, LastIsRecord, Records
  <2>2. ASSUME NEW d \in requests, rDisk' \in PartlyStored(rDisk, d), rDisk' # rDisk
        PROVE  /\ LastIsRecord(rDisk'.chunks)
               /\ \A e \in After : e \in requests /\ HasBytes(rDisk, e)'
    <3>1. /\ rDisk'.chunks \in InterruptedAppend(rDisk.chunks, d)
          /\ rDisk'.file = [rDisk.file EXCEPT ![d.id] = d.data]
          /\ d \in Descriptor
      BY <1>1, <2>2, ReceiverPartlyStored
    <3>2. /\ LastIsRecord(rDisk'.chunks)
          /\ Records(rDisk'.chunks) \subseteq Records(rDisk.chunks) \cup {d, Corrupt}
      BY <1>1, <3>1, InterruptedAppendEffect, DescriptorFacts
    <3>3. After \subseteq Claimed \cup {d}
      BY <3>2 DEF Claimed
    <3>4. \A e \in Claimed \cup {d} : e \in requests /\ e.id \in Id /\ (e.id = d.id => e = d)
      BY <1>1, DescriptorFacts DEF ReceiverInv, DeviceInv, UniqueIds
    <3>5. \A e \in Claimed \cup {d} : HasBytes(rDisk, e)'
      <4>1. rDisk.file \in [Id -> Data \cup {Absent}]
        BY <1>1 DEF ReceiverDisk, Files
      <4>2. \A e \in Claimed : HasBytes(rDisk, e)
        BY <1>1 DEF ReceiverInv
      <4> QED BY <3>1, <3>4, <4>1, <4>2 DEF HasBytes
    <3>6. \A e \in After : e \in requests /\ HasBytes(rDisk, e)'
      <4> HIDE DEF After
      <4> QED BY <3>3, <3>4, <3>5
    <3> QED BY <3>2, <3>6
  <2> QED BY <2>1, <2>2
<1>4. JournalsOrdered'
  BY <1>1, <1>3 DEF JournalsOrdered, LastIsRecord, deviceVars
<1>5. Claimed' \subseteq After
  BY DEF Claimed, deviceVars, networkVars, Records
<1>6. ReceiverInv'
  <2>1. \A g \in Store : upload'[g] \in requests' \cup {Absent}
    BY <1>1 DEF ReceiverInv, networkVars
  <2> QED BY <1>3, <1>5, <2>1 DEF ReceiverInv, networkVars
<1> QED BY <1>2, <1>4, <1>6 DEF Inv

\* A studio object that is opened indexes what the journal says is stored.
LEMMA StudioIndexed ==
  ASSUME Inv, TypeOK', Readable(rDisk.chunks),
         rDisk' = [rDisk EXCEPT !.chunks = Repaired(@)],
         UNCHANGED <<deviceVars, networkVars, manifest, upload>>,
         \A g \in Store : rIndex'[g] \subseteq rIndex[g] \cup Records(rDisk.chunks)
  PROVE  Inv'
<1>1. /\ TypeOK /\ JournalsOrdered /\ DeviceInv /\ ReceiverInv
      /\ rDisk \in ReceiverDisk /\ rDisk.chunks \in JournalOf(Descriptor)
  BY DEF Inv, TypeOK, ReceiverDisk
<1>2. /\ rDisk'.chunks = Repaired(rDisk.chunks) /\ rDisk'.file = rDisk.file
      /\ Records(rDisk'.chunks) = Records(rDisk.chunks)
      /\ LastIsRecord(rDisk'.chunks)
  BY <1>1, RepairedEffect DEF ReceiverDisk
<1>3. JournalsOrdered' /\ DeviceInv'
  BY <1>1, <1>2, DeviceUntouched DEF JournalsOrdered, LastIsRecord, deviceVars, networkVars
<1>4. Claimed' \subseteq Claimed
  BY <1>2 DEF Claimed, Readable, deviceVars, networkVars, Records
<1>5. ReceiverInv'
  BY <1>1, <1>2, <1>4 DEF ReceiverInv, HasBytes, networkVars
<1> QED BY <1>3, <1>5 DEF Inv

LEMMA InvStep == Inv /\ [Next]_vars => Inv'
<1> SUFFICES ASSUME Inv, [Next]_vars PROVE Inv'
  OBVIOUS
<1>0. /\ TypeOK /\ TypeOK'
      /\ dDisk \in DeviceDisk /\ rDisk \in ReceiverDisk
      /\ dDisk.chunks \in JournalOf(Descriptor)
      /\ dDisk.acks \in JournalOf(Descriptor)
      /\ rDisk.chunks \in JournalOf(Descriptor)
      /\ JournalsOrdered /\ DeviceInv /\ ReceiverInv
      /\ LastIsRecord(dDisk.chunks) /\ LastIsRecord(dDisk.acks) /\ LastIsRecord(rDisk.chunks)
  BY TypeStep DEF Inv, TypeOK, DeviceDisk, ReceiverDisk, JournalsOrdered
<1>1. ASSUME NEW d \in Descriptor, RecordChunk(d) PROVE Inv'
  <2>1. dDisk'.chunks = AppendRecord(dDisk.chunks, d) /\ dDisk'.acks = dDisk.acks
    BY <1>0, <1>1, DeviceStored DEF RecordChunk
  <2>2. ToSet(dIndex') = ToSet(dIndex) \cup {d}
    BY <1>0, <1>1, AppendElements DEF RecordChunk, TypeOK
  <2>3. \A e \in ToSet(dIndex) : e.id # d.id
    BY <1>1, UnusedId DEF RecordChunk
  <2>4. /\ Keeps(dDisk'.chunks, ToSet(dIndex) \cup {d})
        /\ dDisk'.chunks.tail = "none"
        /\ LastIsRecord(dDisk'.chunks)
    BY <1>0, <1>1, <2>1, AppendKeeps DEF RecordChunk, DeviceInv
  <2>5. JournalsOrdered'
    BY <1>0, <1>1, <2>1, <2>4 DEF RecordChunk, JournalsOrdered, LastIsRecord, receiverVars
  <2>6. DeviceInv'
    BY <1>0, <1>1, <2>2, <2>3, <2>4 DEF RecordChunk, DeviceInv, UniqueIds, Keeps, networkVars
  <2>7. ReceiverInv'
    <3>1. Claimed' = Claimed
      BY <1>1, <2>1 DEF RecordChunk, Claimed, Records, receiverVars, networkVars
    <3> QED BY <1>0, <1>1, <3>1, ReceiverUntouched DEF RecordChunk, receiverVars, networkVars
  <2> QED BY <1>0, <2>5, <2>6, <2>7 DEF Inv
<1>2. ASSUME NEW d \in Descriptor, RecordChunkFails(d) PROVE Inv'
  <2>1. dDisk'.chunks \in InterruptedAppend(dDisk.chunks, d) /\ dDisk'.acks = dDisk.acks
    BY <1>0, <1>2, DevicePartlyRecorded DEF RecordChunkFails
  <2>2. d \notin ToSet(dIndex)
    BY <1>2, UnusedId DEF RecordChunkFails
  <2>3. /\ Keeps(dDisk'.chunks, ToSet(dIndex))
        /\ LastIsRecord(dDisk'.chunks)
        /\ dDisk'.chunks.tail = "whole" => Last(dDisk'.chunks.lines) \notin ToSet(dIndex)
    BY <1>0, <1>2, <2>1, <2>2, InterruptedAppendKeeps DEF RecordChunkFails, DeviceInv
  <2>4. JournalsOrdered'
    BY <1>0, <1>2, <2>1, <2>3 DEF RecordChunkFails, JournalsOrdered, LastIsRecord, receiverVars
  <2>5. DeviceInv'
    BY <1>0, <1>2, <2>3 DEF RecordChunkFails, DeviceInv, UniqueIds, Keeps, networkVars
  <2>6. ReceiverInv'
    <3>1. Claimed' = Claimed
      BY <1>2, <2>1 DEF RecordChunkFails, Claimed, Records, receiverVars, networkVars
    <3> QED BY <1>0, <1>2, <3>1, ReceiverUntouched DEF RecordChunkFails, receiverVars, networkVars
  <2> QED BY <1>0, <2>4, <2>5, <2>6 DEF Inv
<1>3. ASSUME NEW s \in Syncer, StartSync(s) PROVE Inv'
  <2>1. JournalsOrdered' /\ DeviceInv'
    BY <1>0, <1>3, DeviceUntouched
       DEF StartSync, JournalsOrdered, LastIsRecord, receiverVars, networkVars
  <2>2. Claimed' = Claimed
    BY <1>3 DEF StartSync, Claimed, Records, receiverVars, networkVars
  <2> QED BY <1>0, <1>3, <2>1, <2>2, ReceiverUntouched DEF StartSync, Inv, receiverVars, networkVars
<1>4. ASSUME NEW s \in Syncer, NEW d \in Descriptor, UploadChunk(s, d) PROVE Inv'
  <2>1. d \in ToSet(dIndex)
    BY <1>4 DEF UploadChunk, Awaits, ToSet
  <2>2. JournalsOrdered'
    BY <1>0, <1>4 DEF UploadChunk, JournalsOrdered, LastIsRecord, deviceVars, receiverVars
  <2>3. DeviceInv'
    BY <1>0, <1>4, <2>1 DEF UploadChunk, DeviceInv, UniqueIds, Keeps, Records, deviceVars
  <2>4. Claimed' = Claimed
    BY <1>4 DEF UploadChunk, Claimed, Records, deviceVars, receiverVars
  <2> QED BY <1>0, <1>4, <2>2, <2>3, <2>4, ReceiverUntouched DEF UploadChunk, Inv, receiverVars
<1>5. ASSUME NEW s \in Syncer, NEW d \in Descriptor, AcceptAck(s, d) PROVE Inv'
  <2>1. /\ dDisk'.chunks = dDisk.chunks
        /\ dDisk'.acks = dDisk.acks \/ dDisk'.acks = AppendRecord(dDisk.acks, d)
    BY <1>0, <1>5, DeviceAcknowledged DEF AcceptAck
  <2>2. LastIsRecord(dDisk'.acks) /\ Records(dDisk'.acks) \subseteq Records(dDisk.acks) \cup {d, Corrupt}
    BY <1>0, <2>1, AppendRecordEffect DEF LastIsRecord
  <2>3. JournalsOrdered'
    BY <1>0, <1>5, <2>1, <2>2 DEF AcceptAck, JournalsOrdered, LastIsRecord, receiverVars
  <2>4. DeviceInv'
    BY <1>0, <1>5, <2>1 DEF AcceptAck, DeviceInv, UniqueIds, Keeps, Records
  <2>5. Claimed' \subseteq Claimed
    BY <1>5, <2>2 DEF AcceptAck, Claimed, receiverVars
  <2> QED BY <1>0, <1>5, <2>3, <2>4, <2>5, ReceiverUntouched DEF AcceptAck, Inv, receiverVars
<1>6. ASSUME NEW s \in Syncer, NEW d \in Descriptor, AcceptAckFails(s, d) PROVE Inv'
  <2>1. dDisk'.chunks = dDisk.chunks /\ dDisk'.acks \in InterruptedAppend(dDisk.acks, d)
    BY <1>0, <1>6, DevicePartlyAcknowledged DEF AcceptAckFails
  <2>2. LastIsRecord(dDisk'.acks) /\ Records(dDisk'.acks) \subseteq Records(dDisk.acks) \cup {d, Corrupt}
    BY <1>0, <2>1, InterruptedAppendEffect, DescriptorFacts
  <2>3. JournalsOrdered'
    BY <1>0, <1>6, <2>1, <2>2 DEF AcceptAckFails, JournalsOrdered, LastIsRecord, receiverVars
  <2>4. DeviceInv'
    BY <1>0, <1>6, <2>1 DEF AcceptAckFails, DeviceInv, UniqueIds, Keeps, Records
  <2>5. Claimed' \subseteq Claimed
    BY <1>6, <2>2 DEF AcceptAckFails, Claimed, receiverVars
  <2> QED BY <1>0, <1>6, <2>3, <2>4, <2>5, ReceiverUntouched DEF AcceptAckFails, Inv, receiverVars
<1>7. ASSUME NEW s \in Syncer, NEW d \in Descriptor, UploadFails(s, d) PROVE Inv'
  <2>1. JournalsOrdered' /\ DeviceInv'
    BY <1>0, <1>7, DeviceUntouched DEF UploadFails, JournalsOrdered, LastIsRecord, receiverVars
  <2>2. Claimed' \subseteq Claimed
    BY <1>7 DEF UploadFails, Claimed, Records, receiverVars
  <2> QED BY <1>0, <1>7, <2>1, <2>2, ReceiverUntouched DEF UploadFails, Inv, receiverVars
<1>8. CASE DeviceCrash
  <2>1. /\ dUp /\ dUp' = FALSE /\ dAcked' = {} /\ replies' = {}
        /\ UNCHANGED <<receiverVars, requests>>
    BY <1>8 DEF DeviceCrash
  <2>2. /\ LastIsRecord(dDisk'.chunks) /\ LastIsRecord(dDisk'.acks)
        /\ Keeps(dDisk'.chunks, requests)
        /\ Records(dDisk'.acks) \ {Corrupt} \subseteq Claimed
    <3>1. CASE dDisk' = dDisk
      BY <1>0, <3>1 DEF DeviceInv, Claimed, Records, LastIsRecord, Keeps
    <3>2. ASSUME NEW d \in Descriptor, dDisk' \in PartlyRecorded(d)
          PROVE  /\ LastIsRecord(dDisk'.chunks) /\ LastIsRecord(dDisk'.acks)
                 /\ Keeps(dDisk'.chunks, requests)
                 /\ Records(dDisk'.acks) \ {Corrupt} \subseteq Claimed
      <4>1. dDisk'.chunks \in InterruptedAppend(dDisk.chunks, d) /\ dDisk'.acks = dDisk.acks
        BY <1>0, <3>2, DevicePartlyRecorded
      <4>2. dDisk.chunks.tail = "whole" => Last(dDisk.chunks.lines) \notin requests
        BY <1>0, <2>1 DEF DeviceInv
      <4>3. Keeps(dDisk'.chunks, requests) /\ LastIsRecord(dDisk'.chunks)
        BY <1>0, <4>1, <4>2, InterruptedAppendKeeps DEF DeviceInv
      <4> QED BY <1>0, <4>1, <4>3 DEF LastIsRecord, Claimed, Records
    <3>3. ASSUME NEW d \in replies, dDisk' \in PartlyAcknowledged(d)
          PROVE  /\ LastIsRecord(dDisk'.chunks) /\ LastIsRecord(dDisk'.acks)
                 /\ Keeps(dDisk'.chunks, requests)
                 /\ Records(dDisk'.acks) \ {Corrupt} \subseteq Claimed
      <4>1. d \in Descriptor
        BY <1>0 DEF TypeOK
      <4>2. dDisk'.chunks = dDisk.chunks /\ dDisk'.acks \in InterruptedAppend(dDisk.acks, d)
        BY <1>0, <3>3, <4>1, DevicePartlyAcknowledged
      <4>3. /\ LastIsRecord(dDisk'.acks)
            /\ Records(dDisk'.acks) \subseteq Records(dDisk.acks) \cup {d, Corrupt}
        BY <1>0, <4>1, <4>2, InterruptedAppendEffect, DescriptorFacts
      <4> QED BY <1>0, <4>2, <4>3 DEF DeviceInv, LastIsRecord, Claimed, Keeps, Records
    <3> QED BY <1>8, <3>1, <3>2, <3>3 DEF DeviceCrash
  <2>3. JournalsOrdered'
    BY <1>0, <2>1, <2>2 DEF JournalsOrdered, LastIsRecord, receiverVars
  <2>4. DeviceInv'
    BY <1>0, <2>1, <2>2 DEF DeviceInv, UniqueIds, Keeps
  <2>5. Claimed' \subseteq Claimed
    BY <2>1, <2>2 DEF Claimed, receiverVars
  <2> QED BY <1>0, <2>1, <2>3, <2>4, <2>5, ReceiverUntouched DEF Inv, receiverVars
<1>9. CASE DeviceReopen
  <2>1. /\ dDisk'.chunks = Repaired(dDisk.chunks) /\ dDisk'.acks = Repaired(dDisk.acks)
        /\ dIndex' = dDisk.chunks.lines /\ dAcked' = Records(dDisk.acks)
        /\ Opens(dDisk.chunks) /\ Opens(dDisk.acks)
        /\ UNCHANGED <<receiverVars, networkVars>>
    BY <1>0, <1>9 DEF DeviceReopen, DeviceDisk
  <2>2. /\ Records(dDisk'.chunks) = Records(dDisk.chunks) /\ LastIsRecord(dDisk'.chunks)
        /\ Records(dDisk'.acks) = Records(dDisk.acks) /\ LastIsRecord(dDisk'.acks)
    BY <1>0, <2>1, RepairedEffect
  <2>8. dDisk'.chunks.tail = "none"
    BY <1>0, <2>1 DEF Repaired, JournalOf
  <2>3. ToSet(dIndex') = Records(dDisk.chunks) /\ UniqueIds(ToSet(dIndex'))
    BY <2>1 DEF Records, Opens, UniqueIds, ToSet
  <2>4. Corrupt \notin Records(dDisk.chunks) /\ Corrupt \notin Records(dDisk.acks)
    BY <2>1 DEF Opens, Readable
  <2>5. JournalsOrdered'
    BY <1>0, <2>1, <2>2 DEF JournalsOrdered, LastIsRecord, receiverVars
  <2>6. DeviceInv'
    BY <1>0, <2>1, <2>2, <2>3, <2>4, <2>8 DEF DeviceInv, Keeps, UniqueIds, networkVars
  <2>7. Claimed' \subseteq Claimed
    BY <2>1, <2>2, <2>4 DEF Claimed, receiverVars, networkVars
  <2> QED BY <1>0, <2>1, <2>5, <2>6, <2>7, ReceiverUntouched DEF Inv, receiverVars, networkVars
<1>10. ASSUME NEW d \in Descriptor, BeginReceive(d) PROVE Inv'
  <2>1. JournalsOrdered' /\ DeviceInv'
    BY <1>0, <1>10, DeviceUntouched
       DEF BeginReceive, JournalsOrdered, LastIsRecord, deviceVars, networkVars
  <2>2. Claimed' = Claimed
    BY <1>10 DEF BeginReceive, Claimed, Records, deviceVars, networkVars
  <2>3. ReceiverInv'
    BY <1>0, <1>10, <2>2 DEF BeginReceive, ReceiverInv, TypeOK, HasBytes, networkVars
  <2> QED BY <1>0, <2>1, <2>3 DEF Inv
<1>11. ASSUME NEW g \in Store, FinishReceive(g) PROVE Inv'
  <2> DEFINE d == upload[g]
  <2>1. d \in Descriptor /\ d \in requests
    BY <1>0, <1>11 DEF FinishReceive, TypeOK, ReceiverInv
  <2>2. /\ LastIsRecord(rDisk'.chunks)
        /\ Records(rDisk'.chunks) \subseteq Records(rDisk.chunks) \cup {d, Corrupt}
        /\ \/ rDisk'.file = rDisk.file /\ d \in rIndex[g]
           \/ rDisk'.file = [rDisk.file EXCEPT ![d.id] = d.data]
    BY <1>0, <1>11, <2>1, ReceiverStored, AppendRecordEffect DEF FinishReceive, LastIsRecord
  <2>3. JournalsOrdered' /\ DeviceInv'
    BY <1>0, <1>11, <2>2, DeviceUntouched
       DEF FinishReceive, JournalsOrdered, LastIsRecord, deviceVars
  <2>4. Claimed' \subseteq Claimed \cup {d}
    BY <1>0, <1>11, <2>2 DEF FinishReceive, TypeOK, Claimed, deviceVars
  <2>5. \A e \in Claimed \cup {d} : e \in requests /\ (e.id = d.id => e = d)
    BY <1>0, <2>1 DEF ReceiverInv, DeviceInv, UniqueIds
  <2>6. \A e \in Claimed \cup {d} : HasBytes(rDisk, e)'
    <3>1. rDisk.file \in Files /\ \A e \in requests : e.id \in Id
      BY <1>0, DescriptorFacts DEF TypeOK
    <3>2. CASE rDisk'.file = rDisk.file /\ d \in rIndex[g]
      <4>1. d \in Claimed
        BY <3>2 DEF Claimed
      <4> QED BY <1>0, <3>2, <4>1 DEF ReceiverInv, HasBytes
    <3>3. CASE rDisk'.file = [rDisk.file EXCEPT ![d.id] = d.data]
      BY <1>0, <2>1, <2>5, <3>1, <3>3 DEF ReceiverInv, HasBytes, Files
    <3> QED BY <2>2, <3>2, <3>3
  <2>7. ReceiverInv'
    BY <1>0, <1>11, <2>4, <2>5, <2>6 DEF FinishReceive, ReceiverInv, TypeOK, HasBytes
  <2> QED BY <1>0, <2>3, <2>7 DEF Inv
<1>12. ASSUME NEW g \in Store, RejectBody(g) PROVE Inv'
  <2>1. JournalsOrdered' /\ DeviceInv'
    BY <1>0, <1>12, DeviceUntouched
       DEF RejectBody, JournalsOrdered, LastIsRecord, deviceVars, networkVars
  <2>2. Claimed' = Claimed
    BY <1>12 DEF RejectBody, Claimed, Records, deviceVars, networkVars
  <2>3. ReceiverInv'
    BY <1>0, <1>12, <2>2 DEF RejectBody, ReceiverInv, TypeOK, HasBytes, networkVars
  <2> QED BY <1>0, <2>1, <2>3 DEF Inv
<1>13. ASSUME NEW g \in Store, FinishReceiveFails(g) PROVE Inv'
  <2>1. upload[g] \in requests
    BY <1>0, <1>13 DEF FinishReceiveFails, ReceiverInv
  <2>2. /\ rDisk' \in PartlyStored(rDisk, upload[g])
        /\ UNCHANGED <<deviceVars, networkVars, manifest, rIndex>>
        /\ \A h \in Store : upload'[h] \in {upload[h], Absent}
    BY <1>0, <1>13 DEF FinishReceiveFails, TypeOK
  <2> QED BY <1>0, <2>1, <2>2, PartlyStoredKeeps DEF Inv
<1>14. CASE StudioCrash
  <2>1. /\ rDisk' = rDisk \/ \E d \in requests : rDisk' \in PartlyStored(rDisk, d)
        /\ UNCHANGED <<deviceVars, networkVars, manifest>>
        /\ \A h \in Store : rIndex'[h] \subseteq rIndex[h] /\ upload'[h] \in {upload[h], Absent}
    BY <1>0, <1>14 DEF StudioCrash, ReceiverInv
  <2> QED BY <1>0, <2>1, PartlyStoredKeeps DEF Inv
<1>15. CASE StudioReopen
  <2>1. /\ rDisk' = [rDisk EXCEPT !.chunks = Repaired(@)]
        /\ Readable(rDisk.chunks)
        /\ \A h \in Store : rIndex'[h] \subseteq rIndex[h] \cup Records(rDisk.chunks)
        /\ UNCHANGED <<deviceVars, networkVars, manifest, upload>>
    BY <1>0, <1>15 DEF StudioReopen, Opens, TypeOK
  <2> QED BY <1>0, <2>1, StudioIndexed DEF Inv
<1>16. CASE ReplaceStudio
  <2>1. /\ rDisk' = [rDisk EXCEPT !.chunks = Repaired(@)]
        /\ Readable(rDisk.chunks)
        /\ \A h \in Store : rIndex'[h] \subseteq rIndex[h] \cup Records(rDisk.chunks)
        /\ UNCHANGED <<deviceVars, networkVars, manifest, upload>>
    BY <1>0, <1>16 DEF ReplaceStudio, Opens, TypeOK
  <2> QED BY <1>0, <2>1, StudioIndexed DEF Inv
<1>17. CASE FinalizeReceiver
  <2>1. JournalsOrdered' /\ DeviceInv'
    BY <1>0, <1>17, DeviceUntouched
       DEF FinalizeReceiver, JournalsOrdered, LastIsRecord, deviceVars, networkVars
  <2>2. Claimed' \subseteq Claimed
    BY <1>0, <1>17 DEF FinalizeReceiver, Claimed, Records, TypeOK, deviceVars, networkVars
  <2> QED BY <1>0, <1>17, <2>1, <2>2, ReceiverUntouched DEF FinalizeReceiver, Inv, networkVars
<1>18. CASE UNCHANGED vars
  <2>1. JournalsOrdered' /\ DeviceInv'
    BY <1>0, <1>18, DeviceUntouched
       DEF vars, JournalsOrdered, LastIsRecord, deviceVars, receiverVars, networkVars
  <2>2. Claimed' = Claimed
    BY <1>18 DEF vars, Claimed, Records, deviceVars, receiverVars, networkVars
  <2> QED BY <1>0, <1>18, <2>1, <2>2, ReceiverUntouched DEF vars, Inv, receiverVars, networkVars
<1> QED BY <1>1, <1>2, <1>3, <1>4, <1>5, <1>6, <1>7, <1>8, <1>9, <1>10, <1>11, <1>12,
           <1>13, <1>14, <1>15, <1>16, <1>17, <1>18 DEF Next, Transfer, Receive

LEMMA Invariant == Spec => []Inv
BY InvInit, InvStep, PTL DEF Spec

(***************************************************************************)
(* A recorded acknowledgement means that the receiver's disk holds the     *)
(* chunk's bytes, after any crashes, retries, failed appends and second    *)
(* studio objects (receive_chunk answers only after the rename).           *)
(***************************************************************************)
THEOREM AckedBytesAreDurable == Spec => []AckedBytesDurable
<1>1. Inv => AckedBytesDurable
  BY DEF Inv, ReceiverInv, Claimed, AckedBytesDurable, AckedOnDevice
<1> QED BY <1>1, Invariant, PTL

\* No upload is ever refused because the studio holds other bytes under the chunk's id.
THEOREM NoIdConflicts == Spec => []NoIdConflict
<1>1. Inv => NoIdConflict
  BY DEF Inv, DeviceInv, UniqueIds, ReceiverInv, Claimed, NoIdConflict
<1> QED BY <1>1, Invariant, PTL

\* A finalized receiver manifest lists only chunks whose bytes are in place, for ever.
THEOREM ManifestVerifies == Spec => []ManifestHoldsBytes
<1>1. Inv => ManifestHoldsBytes
  BY DEF Inv, ReceiverInv, Claimed, ManifestHoldsBytes
<1> QED BY <1>1, Invariant, PTL

-----------------------------------------------------------------------------
(* The journals in calm: no append has failed, or one studio object was made. *)

(***************************************************************************)
(* With no failed append, the device's journals parse and name no chunk    *)
(* twice; the running recorder's memory is what they say, and the bytes of *)
(* every recorded chunk are in place.                                      *)
(***************************************************************************)
DeviceCalm ==
  errors = 0 =>
    /\ Opens(dDisk.chunks) /\ Opens(dDisk.acks)
    /\ \A d \in Records(dDisk.chunks) : HasBytes(dDisk, d)
    /\ dUp => /\ dDisk.chunks.lines = dIndex /\ dDisk.chunks.tail = "none"
              /\ dDisk.acks.tail = "none" /\ Records(dDisk.acks) = dAcked

-----------------------------------------------------------------------------
(* An append to a journal in order leaves one that is in order.            *)

LEMMA AppendOpens ==
  ASSUME NEW j \in JournalOf(Descriptor), Opens(j), j.tail = "none",
         NEW d \in Descriptor, \A e \in Records(j) : e.id # d.id
  PROVE  /\ AppendRecord(j, d).lines = Append(j.lines, d)
         /\ AppendRecord(j, d).tail = "none"
         /\ Records(AppendRecord(j, d)) = Records(j) \cup {d}
         /\ Opens(AppendRecord(j, d))
<1> DEFINE L == j.lines
           k == AppendRecord(j, d)
<1>1. /\ L \in Seq(Descriptor)
      /\ k = [lines |-> Append(L, d), tail |-> "none"]
  BY ReadableEffect DEF Opens, AppendRecord
<1>2. Records(k) = Records(j) \cup {d}
  BY <1>1, AppendElements DEF Records
<1>3. Readable(k)
  BY <1>2, DescriptorFacts DEF Opens, Readable
<1>4. /\ Len(L) \in Nat /\ DOMAIN L = 1 .. Len(L)
      /\ DOMAIN Append(L, d) = 1 .. Len(L) + 1
      /\ \A i \in 1 .. Len(L) : Append(L, d)[i] = L[i] /\ L[i].id # d.id
      /\ Append(L, d)[Len(L) + 1] = d
  <2>1. Append(L, d) \in Seq(Descriptor) /\ Len(Append(L, d)) = Len(L) + 1
    BY <1>1, AppendProperties
  <2>2. DOMAIN L = 1 .. Len(L) /\ Len(L) \in Nat /\ DOMAIN Append(L, d) = 1 .. Len(L) + 1
    BY <1>1, <2>1, LenProperties
  <2> QED BY <1>1, <2>2, AppendProperties DEF Records, ToSet
<1>5. ASSUME NEW m \in 1 .. Len(L) + 1, NEW n \in 1 .. Len(L) + 1,
             Append(L, d)[m].id = Append(L, d)[n].id
      PROVE  m = n
  <2>1. (m \in 1 .. Len(L) \/ m = Len(L) + 1) /\ (n \in 1 .. Len(L) \/ n = Len(L) + 1)
    BY <1>4
  <2> QED BY <1>4, <1>5, <2>1 DEF Opens
<1>6. k.lines = Append(L, d) /\ k.tail = "none"
  BY <1>1
<1>7. Opens(k)
  <2> HIDE DEF k, L
  <2> QED BY <1>3, <1>4, <1>5, <1>6 DEF Opens
<1> QED BY <1>2, <1>6, <1>7

LEMMA InterruptedAppendOpens ==
  ASSUME NEW j \in JournalOf(Descriptor), Opens(j), j.tail = "none",
         NEW d \in Descriptor, \A e \in Records(j) : e.id # d.id,
         NEW k \in InterruptedAppend(j, d)
  PROVE  /\ Opens(k)
         /\ Records(k) \in {Records(j), Records(j) \cup {d}}
<1>1. k.lines = j.lines \/ k.lines = Append(j.lines, d)
  BY AppendOpens DEF InterruptedAppend
<1>2. CASE k.lines = j.lines
  BY <1>2 DEF Opens, Readable, Records
<1>3. CASE k.lines = Append(j.lines, d)
  <2>1. k.lines = AppendRecord(j, d).lines
    BY <1>3, AppendOpens
  <2>2. Opens(AppendRecord(j, d)) /\ Records(AppendRecord(j, d)) = Records(j) \cup {d}
    BY AppendOpens
  <2> QED BY <2>1, <2>2 DEF Opens, Readable, Records
<1> QED BY <1>1, <1>2, <1>3

\* An append fails, or nothing is remembered of it.
LEMMA DeviceSteps ==
  ASSUME TypeOK, [Next]_vars
  PROVE  \/ errors' # 0
         \/ errors' = errors /\ UNCHANGED <<dUp, dDisk, dIndex, dAcked>>
         \/ \E d \in Descriptor : RecordChunk(d)
         \/ \E s \in Syncer, d \in Descriptor : AcceptAck(s, d)
         \/ DeviceCrash
         \/ DeviceReopen
<1> USE BoundsAssumption
<1>1. ASSUME NEW d \in Descriptor, RecordChunkFails(d) PROVE errors' # 0
  BY <1>1 DEF RecordChunkFails, TypeOK
<1>2. ASSUME NEW s \in Syncer, NEW d \in Descriptor, AcceptAckFails(s, d) PROVE errors' # 0
  BY <1>2 DEF AcceptAckFails, TypeOK
<1>3. ASSUME NEW g \in Store, FinishReceiveFails(g) PROVE errors' # 0
  BY <1>3 DEF FinishReceiveFails, TypeOK
<1> QED BY <1>1, <1>2, <1>3
        DEF Next, Transfer, Receive, vars, deviceVars, receiverVars, networkVars, counters, StartSync,
            UploadChunk, UploadFails, BeginReceive, FinishReceive, RejectBody, StudioCrash,
            StudioReopen, ReplaceStudio, FinalizeReceiver

LEMMA DeviceCalmStep == Inv /\ DeviceCalm /\ [Next]_vars => DeviceCalm'
<1> SUFFICES ASSUME Inv, DeviceCalm, [Next]_vars, errors' = 0 PROVE DeviceCalm'
  BY DEF DeviceCalm
<1>0. /\ TypeOK /\ DeviceInv /\ ReceiverInv
      /\ dDisk \in DeviceDisk
      /\ dDisk.file \in Files
      /\ dDisk.chunks \in JournalOf(Descriptor)
      /\ dDisk.acks \in JournalOf(Descriptor)
      /\ requests \subseteq Descriptor
      /\ Records(dDisk.chunks) = ToSet(dDisk.chunks.lines)
  BY DEF Inv, TypeOK, DeviceDisk, Records
<1>1. CASE errors' = errors /\ UNCHANGED <<dUp, dDisk, dIndex, dAcked>>
  BY <1>1 DEF DeviceCalm, Opens, Readable, Records, HasBytes
<1>2. ASSUME NEW d \in Descriptor, RecordChunk(d) PROVE DeviceCalm'
  <2>1. errors = 0 /\ dUp /\ dUp' = dUp /\ dAcked' = dAcked /\ dIndex' = Append(dIndex, d)
        /\ dDisk' = Stored(dDisk, d) /\ Unused(d.id)
    BY <1>2 DEF RecordChunk, counters
  <2>2. /\ dDisk'.chunks = AppendRecord(dDisk.chunks, d) /\ dDisk'.acks = dDisk.acks
        /\ dDisk'.file = [dDisk.file EXCEPT ![d.id] = d.data]
    BY <1>0, <2>1, DeviceStored DEF Stored, DeviceDisk
  <2>3. \A e \in Records(dDisk.chunks) : e.id # d.id
    BY <1>0, <2>1, UnusedId DEF DeviceCalm
  <2>4. /\ Opens(dDisk.chunks) /\ Opens(dDisk.acks)
        /\ dDisk.chunks.lines = dIndex /\ dDisk.chunks.tail = "none"
        /\ dDisk.acks.tail = "none" /\ Records(dDisk.acks) = dAcked
    BY <2>1 DEF DeviceCalm
  <2>5. /\ Opens(dDisk'.chunks)
        /\ dDisk'.chunks.lines = dIndex' /\ dDisk'.chunks.tail = "none"
        /\ Records(dDisk'.chunks) = Records(dDisk.chunks) \cup {d}
    BY <1>0, <2>1, <2>2, <2>3, <2>4, AppendOpens
  <2>6. \A e \in Records(dDisk'.chunks) : HasBytes(dDisk, e)'
    BY <1>0, <2>1, <2>2, <2>3, <2>5, DescriptorFacts DEF DeviceCalm, HasBytes, Files
  <2>7. Opens(dDisk'.acks) /\ dDisk'.acks.tail = "none" /\ Records(dDisk'.acks) = dAcked'
    BY <2>1, <2>2, <2>4
  <2> QED BY <2>5, <2>6, <2>7 DEF DeviceCalm, Opens, Readable, Records
<1>3. ASSUME NEW s \in Syncer, NEW d \in Descriptor, AcceptAck(s, d) PROVE DeviceCalm'
  <2>1. /\ errors = 0 /\ dUp /\ dUp' = dUp /\ dAcked' = dAcked \cup {d} /\ dIndex' = dIndex
        /\ d \in dAcked => dDisk' = dDisk
        /\ d \notin dAcked => dDisk' = Acknowledged(dDisk, d)
        /\ d \in replies
    BY <1>3 DEF AcceptAck, counters
  <2>2. /\ Opens(dDisk.chunks) /\ Opens(dDisk.acks)
        /\ dDisk.chunks.lines = dIndex /\ dDisk.chunks.tail = "none"
        /\ dDisk.acks.tail = "none" /\ Records(dDisk.acks) = dAcked
    BY <2>1 DEF DeviceCalm
  <2>3. /\ dDisk'.chunks = dDisk.chunks /\ dDisk'.file = dDisk.file
        /\ d \notin dAcked => dDisk'.acks = AppendRecord(dDisk.acks, d)
    BY <1>0, <2>1, DeviceAcknowledged DEF Acknowledged, DeviceDisk
  <2>4. \A e \in Records(dDisk.acks) : e.id = d.id => e = d
    BY <1>0, <2>1, <2>2 DEF DeviceInv, UniqueIds, ReceiverInv, Claimed, Opens, Readable
  <2>5. Opens(dDisk'.acks) /\ dDisk'.acks.tail = "none" /\ Records(dDisk'.acks) = dAcked'
    <3>1. CASE d \in dAcked
      BY <2>1, <2>2, <3>1
    <3>2. CASE d \notin dAcked
      <4>1. \A e \in Records(dDisk.acks) : e.id # d.id
        BY <2>2, <2>4, <3>2
      <4> QED BY <1>0, <2>1, <2>2, <2>3, <3>2, <4>1, AppendOpens
    <3> QED BY <3>1, <3>2
  <2>6. \A e \in Records(dDisk'.chunks) : HasBytes(dDisk, e)'
    BY <2>1, <2>3 DEF DeviceCalm, HasBytes
  <2> QED BY <2>1, <2>2, <2>3, <2>5, <2>6 DEF DeviceCalm, Opens, Readable, Records
<1>4. CASE DeviceCrash
  <2>1. errors = 0 /\ dUp /\ dUp' = FALSE
    BY <1>4 DEF DeviceCrash
  <2>2. /\ Opens(dDisk.chunks) /\ Opens(dDisk.acks)
        /\ dDisk.chunks.lines = dIndex /\ dDisk.chunks.tail = "none"
        /\ dDisk.acks.tail = "none" /\ Records(dDisk.acks) = dAcked
        /\ \A e \in Records(dDisk.chunks) : HasBytes(dDisk, e)
    BY <2>1 DEF DeviceCalm
  <2>3. CASE dDisk' = dDisk
    BY <2>1, <2>2, <2>3 DEF DeviceCalm, Opens, Readable, Records, HasBytes
  <2>4. ASSUME NEW d \in Descriptor, Unused(d.id), dDisk' \in PartlyRecorded(d)
        PROVE  DeviceCalm'
    <3>1. \A e \in Records(dDisk.chunks) : e.id # d.id
      BY <1>0, <2>2, <2>4, UnusedId
    <3>2. /\ dDisk'.chunks \in InterruptedAppend(dDisk.chunks, d) /\ dDisk'.acks = dDisk.acks
      BY <1>0, <2>4, DevicePartlyRecorded
    <3>3. Opens(dDisk'.chunks)
      BY <1>0, <2>2, <3>1, <3>2, InterruptedAppendOpens
    <3>4. \/ Records(dDisk'.chunks) = Records(dDisk.chunks)
             /\ \E x : dDisk'.file = [dDisk.file EXCEPT ![d.id] = x]
          \/ Records(dDisk'.chunks) = Records(dDisk.chunks) \cup {d}
             /\ dDisk'.file = [dDisk.file EXCEPT ![d.id] = d.data]
          \/ dDisk' = dDisk
      <4>1. CASE dDisk' = [dDisk EXCEPT !.file[d.id] = Absent]
        BY <1>0, <4>1 DEF DeviceDisk
      <4>2. ASSUME NEW j \in InterruptedAppend(dDisk.chunks, d),
                   dDisk' = [dDisk EXCEPT !.file[d.id] = d.data, !.chunks = j]
            PROVE  /\ Records(dDisk'.chunks) \in {Records(dDisk.chunks), Records(dDisk.chunks) \cup {d}}
                   /\ dDisk'.file = [dDisk.file EXCEPT ![d.id] = d.data]
        BY <1>0, <2>2, <3>1, <4>2, InterruptedAppendOpens DEF DeviceDisk
      <4> QED BY <2>4, <4>1, <4>2 DEF PartlyRecorded, PartlyStored
    <3>5. \A e \in Records(dDisk'.chunks) : HasBytes(dDisk, e)'
      <4>1. ASSUME NEW x, dDisk'.file = [dDisk.file EXCEPT ![d.id] = x],
                   NEW e \in Records(dDisk.chunks)
            PROVE  HasBytes(dDisk, e)'
        BY <1>0, <2>2, <3>1, <4>1 DEF HasBytes, Files
      <4>2. ASSUME dDisk'.file = [dDisk.file EXCEPT ![d.id] = d.data]
            PROVE  HasBytes(dDisk, d)'
        BY <1>0, <4>2, DescriptorFacts DEF HasBytes, Files
      <4>3. CASE dDisk' = dDisk
        BY <2>2, <4>3 DEF HasBytes
      <4> QED BY <3>4, <4>1, <4>2, <4>3
    <3> QED BY <2>1, <2>2, <3>2, <3>3, <3>5 DEF DeviceCalm, Opens, Readable, Records
  <2>5. ASSUME NEW d \in replies \ dAcked, dDisk' \in PartlyAcknowledged(d)
        PROVE  DeviceCalm'
    <3>1. d \in Descriptor /\ \A e \in Records(dDisk.acks) : e.id # d.id
      BY <1>0, <2>2 DEF DeviceInv, UniqueIds, ReceiverInv, Claimed, Opens, Readable
    <3>2. /\ dDisk'.chunks = dDisk.chunks /\ dDisk'.file = dDisk.file
          /\ dDisk'.acks \in InterruptedAppend(dDisk.acks, d)
      BY <1>0, <2>5, <3>1, DevicePartlyAcknowledged DEF PartlyAcknowledged, DeviceDisk
    <3>3. Opens(dDisk'.acks)
      BY <1>0, <2>2, <3>1, <3>2, InterruptedAppendOpens
    <3> QED BY <2>1, <2>2, <3>2, <3>3 DEF DeviceCalm, Opens, Readable, Records, HasBytes
  <2> QED BY <1>4, <2>3, <2>4, <2>5 DEF DeviceCrash
<1>5. CASE DeviceReopen
  <2>1. /\ errors = 0
        /\ dDisk' = [dDisk EXCEPT !.chunks = Repaired(@), !.acks = Repaired(@)]
        /\ dIndex' = dDisk.chunks.lines /\ dAcked' = Records(dDisk.acks)
    BY <1>5 DEF DeviceReopen, counters
  <2>2. /\ dDisk'.chunks = Repaired(dDisk.chunks) /\ dDisk'.acks = Repaired(dDisk.acks)
        /\ dDisk'.file = dDisk.file
    BY <1>0, <2>1 DEF DeviceDisk
  <2>3. /\ Repaired(dDisk.chunks).lines = dDisk.chunks.lines
        /\ Repaired(dDisk.acks).lines = dDisk.acks.lines
        /\ Repaired(dDisk.chunks).tail = "none" /\ Repaired(dDisk.acks).tail = "none"
    BY <1>0 DEF Repaired, JournalOf
  <2> QED BY <2>1, <2>2, <2>3 DEF DeviceCalm, Opens, Readable, Records, HasBytes
<1> QED BY <1>0, <1>1, <1>2, <1>3, <1>4, <1>5, DeviceSteps

-----------------------------------------------------------------------------
(* The receiver: what it promised, its journal holds and its index names.  *)

\* The chunks acknowledged to the device, delivered or on the way.
Promised == replies \cup AckedOnDevice

(***************************************************************************)
(* With no failed append, the receiver's journal parses and holds whatever *)
(* a studio object indexes or has promised; and with one studio object it  *)
(* names no chunk twice, and that object indexes exactly what it holds.    *)
(***************************************************************************)
ReceiverCalm ==
  errors = 0 =>
    /\ Readable(rDisk.chunks)
    /\ rUp => rDisk.chunks.tail = "none"
    /\ \A g \in Store : rIndex[g] \subseteq Records(rDisk.chunks)
    /\ Promised \subseteq Records(rDisk.chunks)
    /\ reopens = 0 => /\ Opens(rDisk.chunks)
                      /\ rUp => rIndex[1] = Records(rDisk.chunks)

(***************************************************************************)
(* With one studio object, whatever appends failed: the object indexes     *)
(* what was promised, and its journal holds it, or will be refused.        *)
(***************************************************************************)
OneStudio ==
  reopens = 0 =>
    /\ current = 1 /\ \A g \in Store \ {1} : upload[g] = Absent
    /\ Keeps(rDisk.chunks, Promised)
    /\ rUp => /\ Promised \subseteq rIndex[1]
              /\ Keeps(rDisk.chunks, rIndex[1])
              /\ rDisk.chunks.tail = "whole" => Last(rDisk.chunks.lines) \notin rIndex[1]

\* A step of the device promises nothing new.
LEMMA ReceiverSteps ==
  ASSUME Inv, [Next]_vars
  PROVE  \/ /\ UNCHANGED <<receiverVars, reopens>> /\ Promised' \subseteq Promised
            /\ errors' # 0 \/ errors' = errors
         \/ \E d \in Descriptor : BeginReceive(d)
         \/ \E g \in Store : Receive(g)
         \/ StudioCrash \/ StudioReopen \/ ReplaceStudio \/ FinalizeReceiver
<1> DEFINE Device == /\ UNCHANGED <<receiverVars, reopens>> /\ Promised' \subseteq Promised
                     /\ errors' # 0 \/ errors' = errors
<1> USE BoundsAssumption
<1>0. /\ dDisk \in DeviceDisk
      /\ dDisk.chunks \in JournalOf(Descriptor) /\ dDisk.acks \in JournalOf(Descriptor)
      /\ errors \in Nat /\ replies \subseteq Descriptor
      /\ LastIsRecord(dDisk.acks)
  BY DEF Inv, TypeOK, DeviceDisk, JournalsOrdered
<1>1. ASSUME NEW d \in Descriptor, RecordChunk(d) PROVE Device
  <2>1. dDisk'.acks = dDisk.acks
    BY <1>0, <1>1, DeviceStored DEF RecordChunk
  <2> QED BY <1>1, <2>1 DEF RecordChunk, Promised, AckedOnDevice, Records, receiverVars, networkVars, counters
<1>2. ASSUME NEW d \in Descriptor, RecordChunkFails(d) PROVE Device
  <2>1. dDisk'.acks = dDisk.acks
    BY <1>0, <1>2, DevicePartlyRecorded DEF RecordChunkFails
  <2> QED BY <1>0, <1>2, <2>1
          DEF RecordChunkFails, Promised, AckedOnDevice, Records, receiverVars, networkVars
<1>3. ASSUME NEW s \in Syncer, StartSync(s) PROVE Device
  BY <1>3 DEF StartSync, Promised, AckedOnDevice, Records, receiverVars, networkVars, counters
<1>4. ASSUME NEW s \in Syncer, NEW d \in Descriptor, UploadChunk(s, d) PROVE Device
  BY <1>4 DEF UploadChunk, Promised, AckedOnDevice, Records, receiverVars, deviceVars, counters
<1>5. ASSUME NEW s \in Syncer, NEW d \in Descriptor, UploadFails(s, d) PROVE Device
  BY <1>5 DEF UploadFails, Promised, AckedOnDevice, Records, receiverVars
<1>6. ASSUME NEW s \in Syncer, NEW d \in Descriptor, AcceptAck(s, d) PROVE Device
  <2>1. \/ dDisk'.acks = dDisk.acks
        \/ dDisk'.acks = AppendRecord(dDisk.acks, d)
    BY <1>0, <1>6, DeviceAcknowledged DEF AcceptAck
  <2>2. Records(dDisk'.acks) \subseteq Records(dDisk.acks) \cup {d, Corrupt}
    BY <1>0, <2>1, AppendRecordEffect
  <2>3. d \in replies /\ dAcked' = dAcked \cup {d} /\ replies' \subseteq replies
        /\ UNCHANGED <<receiverVars, counters>>
    BY <1>6 DEF AcceptAck
  <2> QED BY <2>2, <2>3 DEF Promised, AckedOnDevice, Records, counters
<1>7. ASSUME NEW s \in Syncer, NEW d \in Descriptor, AcceptAckFails(s, d) PROVE Device
  <2>1. dDisk'.acks \in InterruptedAppend(dDisk.acks, d)
    BY <1>0, <1>7, DevicePartlyAcknowledged DEF AcceptAckFails
  <2>2. Records(dDisk'.acks) \subseteq Records(dDisk.acks) \cup {d, Corrupt}
    BY <1>0, <2>1, InterruptedAppendEffect, DescriptorFacts
  <2> QED BY <1>0, <1>7, <2>2 DEF AcceptAckFails, Promised, AckedOnDevice, Records, receiverVars
<1>8. CASE DeviceCrash
  <2>1. /\ dAcked' = {} /\ replies' = {} /\ UNCHANGED <<receiverVars, errors, reopens>>
    BY <1>8 DEF DeviceCrash
  <2>2. \/ dDisk'.acks = dDisk.acks
        \/ \E d \in replies : Records(dDisk'.acks) \subseteq Records(dDisk.acks) \cup {d, Corrupt}
    BY <1>0, <1>8, DevicePartlyRecorded, DevicePartlyAcknowledged, InterruptedAppendEffect, DescriptorFacts
       DEF DeviceCrash
  <2> QED BY <2>1, <2>2 DEF Promised, AckedOnDevice, Records
<1>9. CASE DeviceReopen
  <2>1. dDisk'.acks = Repaired(dDisk.acks)
    BY <1>0, <1>9 DEF DeviceReopen, DeviceDisk
  <2>2. Records(dDisk'.acks) = Records(dDisk.acks)
    BY <1>0, <2>1, RepairedEffect
  <2> QED BY <1>9, <2>2
          DEF DeviceReopen, Promised, AckedOnDevice, receiverVars, networkVars, counters
<1>10. CASE UNCHANGED vars
  BY <1>10 DEF vars, Promised, AckedOnDevice, Records, deviceVars, receiverVars, networkVars, counters
<1> QED BY <1>1, <1>2, <1>3, <1>4, <1>5, <1>6, <1>7, <1>8, <1>9, <1>10 DEF Next, Transfer

LEMMA OneStudioStep == Inv /\ OneStudio /\ [Next]_vars => OneStudio'
<1> SUFFICES ASSUME Inv, OneStudio, [Next]_vars, reopens' = 0 PROVE OneStudio'
  BY DEF OneStudio
<1>0. /\ TypeOK /\ ReceiverInv
      /\ rDisk \in ReceiverDisk
      /\ rDisk.chunks \in JournalOf(Descriptor)
      /\ LastIsRecord(rDisk.chunks)
      /\ requests \subseteq Descriptor
      /\ rIndex \in [Store -> SUBSET Descriptor] /\ upload \in [Store -> Descriptor \cup {Absent}]
      /\ 1 \in Store /\ reopens \in Nat
  BY BoundsAssumption DEF Inv, TypeOK, ReceiverDisk, JournalsOrdered, Store
<1>1. CASE UNCHANGED <<receiverVars, reopens>> /\ Promised' \subseteq Promised
  BY <1>0, <1>1 DEF OneStudio, Keeps, Records, receiverVars
<1>2. ASSUME NEW d \in Descriptor, BeginReceive(d) PROVE OneStudio'
  <2>1. Promised' = Promised
    BY <1>2 DEF BeginReceive, Promised, AckedOnDevice, Records, deviceVars, networkVars
  <2> QED BY <1>0, <1>2, <2>1 DEF BeginReceive, OneStudio, Keeps, Records, counters
<1>3. ASSUME NEW g \in Store, FinishReceive(g) PROVE OneStudio'
  <2> DEFINE d == upload[1]
  <2>1. /\ reopens = 0 /\ g = 1 /\ d \in Descriptor /\ current = 1 /\ rUp
        /\ \A h \in Store \ {1} : upload[h] = Absent
    BY <1>0, <1>3 DEF FinishReceive, OneStudio, counters
  <2>2. /\ current' = current /\ rUp' = rUp
        /\ rIndex' = [rIndex EXCEPT ![1] = @ \cup {d}]
        /\ upload' = [upload EXCEPT ![1] = Absent]
        /\ d \in rIndex[1] => rDisk' = rDisk
        /\ d \notin rIndex[1] => rDisk' = Stored(rDisk, d)
    BY <1>3, <2>1 DEF FinishReceive
  <2>3. Promised' = Promised \cup {d}
    BY <1>3, <2>1 DEF FinishReceive, Promised, AckedOnDevice, Records, deviceVars
  <2>4. /\ Promised \subseteq rIndex[1] /\ Keeps(rDisk.chunks, rIndex[1])
        /\ rDisk.chunks.tail = "whole" => Last(rDisk.chunks.lines) \notin rIndex[1]
    BY <2>1 DEF OneStudio
  <2>5. rIndex'[1] = rIndex[1] \cup {d} /\ \A h \in Store \ {1} : upload'[h] = Absent
    BY <1>0, <2>1, <2>2
  <2>6. /\ Keeps(rDisk'.chunks, rIndex'[1])
        /\ rDisk'.chunks.tail = "whole" => Last(rDisk'.chunks.lines) \notin rIndex'[1]
    <3>1. CASE d \in rIndex[1]
      <4>1. rDisk' = rDisk /\ rIndex'[1] = rIndex[1]
        BY <2>2, <2>5, <3>1
      <4> QED BY <2>4, <4>1
    <3>2. CASE d \notin rIndex[1]
      <4>1. rDisk'.chunks = AppendRecord(rDisk.chunks, d)
        BY <1>0, <2>1, <2>2, <3>2, ReceiverStored
      <4> QED BY <1>0, <2>1, <2>4, <2>5, <4>1, AppendKeeps
    <3> QED BY <3>1, <3>2
  <2>7. Promised' \subseteq rIndex'[1] /\ Keeps(rDisk'.chunks, Promised')
    BY <2>3, <2>4, <2>5, <2>6 DEF Keeps
  <2> QED BY <2>1, <2>2, <2>5, <2>6, <2>7 DEF OneStudio, Keeps, Records
<1>4. ASSUME NEW g \in Store, RejectBody(g) PROVE OneStudio'
  <2>1. Promised' = Promised
    BY <1>4 DEF RejectBody, Promised, AckedOnDevice, Records, deviceVars, networkVars
  <2> QED BY <1>0, <1>4, <2>1 DEF RejectBody, OneStudio, Keeps, Records
<1>5. ASSUME rUp, reopens = 0, NEW g \in Store, upload[g] \notin rIndex[g] \cup {Absent},
             rDisk' \in PartlyStored(rDisk, upload[g])
      PROVE  /\ Keeps(rDisk'.chunks, rIndex[1])
             /\ rDisk'.chunks.tail = "whole" => Last(rDisk'.chunks.lines) \notin rIndex[1]
  <2>1. g = 1 /\ upload[1] \in Descriptor /\ upload[1] \notin rIndex[1]
    BY <1>0, <1>5 DEF OneStudio
  <2>2. rDisk'.chunks \in InterruptedAppend(rDisk.chunks, upload[1])
    BY <1>0, <1>5, <2>1, ReceiverPartlyStored
  <2>3. /\ Keeps(rDisk.chunks, rIndex[1])
        /\ rDisk.chunks.tail = "whole" => Last(rDisk.chunks.lines) \notin rIndex[1]
    BY <1>5 DEF OneStudio
  <2> QED BY <1>0, <2>1, <2>2, <2>3, InterruptedAppendKeeps
<1>6. ASSUME NEW g \in Store, FinishReceiveFails(g) PROVE OneStudio'
  <2>1. Promised' = Promised
    BY <1>6 DEF FinishReceiveFails, Promised, AckedOnDevice, Records, deviceVars, networkVars
  <2>2. /\ Keeps(rDisk'.chunks, rIndex[1])
        /\ rDisk'.chunks.tail = "whole" => Last(rDisk'.chunks.lines) \notin rIndex[1]
    BY <1>5, <1>6 DEF FinishReceiveFails
  <2>3. /\ rUp /\ reopens = 0 /\ UNCHANGED <<rUp, rIndex, current>>
        /\ upload' = [upload EXCEPT ![g] = Absent]
    BY <1>6 DEF FinishReceiveFails
  <2>4. Promised \subseteq rIndex[1]
    BY <2>3 DEF OneStudio
  <2>5. Keeps(rDisk'.chunks, Promised)
    BY <2>2, <2>4 DEF Keeps
  <2>6. current = 1 /\ \A h \in Store \ {1} : upload'[h] = Absent
    BY <1>0, <2>3 DEF OneStudio
  <2> QED BY <2>1, <2>2, <2>3, <2>4, <2>5, <2>6 DEF OneStudio, Keeps, Records
<1>7. CASE StudioCrash
  <2>1. Promised' = Promised
    BY <1>7 DEF StudioCrash, Promised, AckedOnDevice, Records, deviceVars, networkVars
  <2>2. /\ rUp /\ reopens = 0 /\ rUp' = FALSE /\ current' = 1 /\ upload' = [g \in Store |-> Absent]
        /\ Promised \subseteq rIndex[1] /\ Keeps(rDisk.chunks, rIndex[1])
    BY <1>7 DEF StudioCrash, OneStudio
  <2>3. Keeps(rDisk'.chunks, rIndex[1])
    BY <1>5, <1>7, <2>2 DEF StudioCrash
  <2> QED BY <2>1, <2>2, <2>3 DEF OneStudio, Keeps, Records
<1>8. CASE StudioReopen
  <2>1. Promised' = Promised
    BY <1>8 DEF StudioReopen, Promised, AckedOnDevice, Records, deviceVars, networkVars
  <2>2. /\ reopens = 0 /\ current = 1 /\ Readable(rDisk.chunks) /\ Keeps(rDisk.chunks, Promised)
        /\ UNCHANGED <<current, upload>>
        /\ rDisk' = [rDisk EXCEPT !.chunks = Repaired(@)]
        /\ rIndex' = [rIndex EXCEPT ![1] = Records(rDisk.chunks)]
    BY <1>8 DEF StudioReopen, OneStudio, Opens, counters
  <2>3. /\ rDisk'.chunks = Repaired(rDisk.chunks)
        /\ Records(rDisk'.chunks) = Records(rDisk.chunks) /\ rDisk'.chunks.tail = "none"
        /\ rIndex'[1] = Records(rDisk.chunks)
    BY <1>0, <2>2, RepairedEffect DEF ReceiverDisk, Repaired, JournalOf
  <2>4. \A h \in Store \ {1} : upload'[h] = Absent
    BY <2>2 DEF OneStudio
  <2> QED BY <2>1, <2>2, <2>3, <2>4 DEF OneStudio, Keeps, Readable
<1>9. CASE ReplaceStudio
  BY <1>0, <1>9 DEF ReplaceStudio
<1>10. CASE FinalizeReceiver
  <2>1. Promised' = Promised
    BY <1>10 DEF FinalizeReceiver, Promised, AckedOnDevice, Records, deviceVars, networkVars
  <2> QED BY <1>10, <2>1 DEF FinalizeReceiver, OneStudio, Keeps, Records, counters
<1> QED BY <1>1, <1>2, <1>3, <1>4, <1>6, <1>7, <1>8, <1>9, <1>10, ReceiverSteps DEF Receive

LEMMA ReceiverCalmStep ==
  Inv /\ DeviceCalm /\ OneStudio /\ ReceiverCalm /\ [Next]_vars => ReceiverCalm'
<1> SUFFICES ASSUME Inv, OneStudio, ReceiverCalm, [Next]_vars, errors' = 0 PROVE ReceiverCalm'
  BY DEF ReceiverCalm
<1>0. /\ TypeOK /\ DeviceInv /\ ReceiverInv
      /\ rDisk \in ReceiverDisk
      /\ rDisk.chunks \in JournalOf(Descriptor)
      /\ LastIsRecord(rDisk.chunks)
      /\ requests \subseteq Descriptor
      /\ rIndex \in [Store -> SUBSET Descriptor] /\ upload \in [Store -> Descriptor \cup {Absent}]
      /\ 1 \in Store /\ reopens \in Nat /\ errors \in Nat
  BY BoundsAssumption DEF Inv, TypeOK, ReceiverDisk, JournalsOrdered, Store
\* With one studio object, a chunk that is not indexed has an id that is not stored.
<1>1. ASSUME rUp, errors = 0, reopens = 0, NEW g \in Store, upload[g] \notin rIndex[g] \cup {Absent}
      PROVE  /\ g = 1 /\ Opens(rDisk.chunks) /\ rDisk.chunks.tail = "none"
             /\ \A e \in Records(rDisk.chunks) : e.id # upload[g].id
  <2>1. g = 1
    BY <1>0, <1>1 DEF OneStudio
  <2>2. Opens(rDisk.chunks) /\ rDisk.chunks.tail = "none" /\ Records(rDisk.chunks) = rIndex[1]
    BY <1>1 DEF ReceiverCalm
  <2>3. upload[1] \in requests /\ rIndex[1] \subseteq requests
    BY <1>0, <1>1, <2>1 DEF ReceiverInv, Claimed
  <2> QED BY <1>0, <1>1, <2>1, <2>2, <2>3 DEF DeviceInv, UniqueIds
<1>2. CASE /\ UNCHANGED <<receiverVars, reopens>> /\ Promised' \subseteq Promised
           /\ errors' # 0 \/ errors' = errors
  BY <1>2 DEF ReceiverCalm, Opens, Readable, Records, receiverVars
<1>3. ASSUME NEW d \in Descriptor, BeginReceive(d) PROVE ReceiverCalm'
  <2>1. Promised' = Promised
    BY <1>3 DEF BeginReceive, Promised, AckedOnDevice, Records, deviceVars, networkVars
  <2> QED BY <1>3, <2>1 DEF BeginReceive, ReceiverCalm, Opens, Readable, Records, counters
<1>4. ASSUME NEW g \in Store, FinishReceive(g) PROVE ReceiverCalm'
  <2> DEFINE d == upload[g]
  <2>1. /\ errors = 0 /\ rUp /\ d \in Descriptor
        /\ rUp' = rUp /\ reopens' = reopens
        /\ rIndex' = [rIndex EXCEPT ![g] = @ \cup {d}]
        /\ d \in rIndex[g] => rDisk' = rDisk
        /\ d \notin rIndex[g] => rDisk' = Stored(rDisk, d)
    BY <1>0, <1>4 DEF FinishReceive, counters
  <2>2. Promised' = Promised \cup {d}
    BY <1>4 DEF FinishReceive, Promised, AckedOnDevice, Records, deviceVars
  <2>3. /\ Readable(rDisk.chunks) /\ rDisk.chunks.tail = "none"
        /\ \A h \in Store : rIndex[h] \subseteq Records(rDisk.chunks)
        /\ Promised \subseteq Records(rDisk.chunks)
    BY <2>1 DEF ReceiverCalm
  <2>4. Records(rDisk'.chunks) = Records(rDisk.chunks) \cup {d} /\ rDisk'.chunks.tail = "none"
    <3>1. CASE d \in rIndex[g]
      BY <2>1, <2>3, <3>1
    <3>2. CASE d \notin rIndex[g]
      <4>1. rDisk'.chunks = AppendRecord(rDisk.chunks, d)
        BY <1>0, <2>1, <3>2, ReceiverStored
      <4> QED BY <1>0, <2>1, <2>3, <4>1, AppendRecordEffect
    <3> QED BY <3>1, <3>2
  <2>5. \A h \in Store : rIndex'[h] \subseteq Records(rDisk'.chunks)
    BY <1>0, <2>1, <2>3, <2>4
  <2>6. ASSUME reopens = 0 PROVE Opens(rDisk'.chunks) /\ rIndex'[1] = Records(rDisk'.chunks)
    <3>1. CASE d \in rIndex[g]
      <4>1. rIndex' = rIndex /\ rDisk' = rDisk
        BY <1>0, <2>1, <3>1
      <4> QED BY <2>1, <2>6, <4>1 DEF ReceiverCalm
    <3>2. CASE d \notin rIndex[g]
      <4>1. /\ g = 1 /\ Opens(rDisk.chunks) /\ rDisk.chunks.tail = "none"
            /\ \A e \in Records(rDisk.chunks) : e.id # d.id
        BY <1>1, <1>4, <2>1, <2>6, <3>2 DEF FinishReceive
      <4>2. rDisk'.chunks = AppendRecord(rDisk.chunks, d)
        BY <1>0, <2>1, <3>2, ReceiverStored
      <4>3. Opens(rDisk'.chunks)
        BY <1>0, <2>1, <4>1, <4>2, AppendOpens
      <4>4. rIndex'[1] = rIndex[1] \cup {d} /\ rIndex[1] = Records(rDisk.chunks)
        BY <1>0, <2>1, <2>6, <4>1 DEF ReceiverCalm
      <4> QED BY <2>4, <4>3, <4>4
    <3> QED BY <3>1, <3>2
  <2>7. Readable(rDisk'.chunks)
    BY <2>1, <2>3, <2>4, DescriptorFacts DEF Readable
  <2> QED BY <2>1, <2>2, <2>3, <2>4, <2>5, <2>6, <2>7 DEF ReceiverCalm, Opens, Readable, Records
<1>5. ASSUME NEW g \in Store, RejectBody(g) PROVE ReceiverCalm'
  <2>1. Promised' = Promised
    BY <1>5 DEF RejectBody, Promised, AckedOnDevice, Records, deviceVars, networkVars
  <2> QED BY <1>5, <2>1 DEF RejectBody, ReceiverCalm, Opens, Readable, Records
<1>6. ASSUME NEW g \in Store, FinishReceiveFails(g) PROVE ReceiverCalm'
  BY <1>0, <1>6 DEF FinishReceiveFails
<1>7. CASE StudioCrash
  <2>1. /\ errors = 0 /\ rUp /\ rUp' = FALSE /\ reopens' = reopens
        /\ rIndex' = [g \in Store |-> {}]
    BY <1>7 DEF StudioCrash
  <2>2. Promised' = Promised
    BY <1>7 DEF StudioCrash, Promised, AckedOnDevice, Records, deviceVars, networkVars
  <2>3. /\ Readable(rDisk.chunks) /\ rDisk.chunks.tail = "none"
        /\ Promised \subseteq Records(rDisk.chunks)
        /\ reopens = 0 => Opens(rDisk.chunks)
    BY <2>1 DEF ReceiverCalm
  <2>4. ASSUME NEW g \in Store, upload[g] \notin rIndex[g] \cup {Absent},
               rDisk' \in PartlyStored(rDisk, upload[g])
        PROVE  /\ Readable(rDisk'.chunks)
               /\ Records(rDisk.chunks) \subseteq Records(rDisk'.chunks)
               /\ reopens = 0 => Opens(rDisk'.chunks)
    <3>1. upload[g] \in Descriptor
      BY <1>0, <2>4
    <3>2. rDisk'.chunks \in InterruptedAppend(rDisk.chunks, upload[g])
      BY <1>0, <2>4, <3>1, ReceiverPartlyStored
    <3>3. /\ Records(rDisk.chunks) \subseteq Records(rDisk'.chunks)
          /\ Records(rDisk'.chunks) \subseteq Records(rDisk.chunks) \cup {upload[g]}
      BY <1>0, <2>3, <3>1, <3>2, InterruptedAppendEffect, DescriptorFacts
    <3>4. reopens = 0 => Opens(rDisk'.chunks)
      BY <1>0, <1>1, <2>1, <2>4, <3>1, <3>2, InterruptedAppendOpens
    <3> QED BY <2>3, <3>1, <3>3, <3>4, DescriptorFacts DEF Readable
  <2>5. /\ Readable(rDisk'.chunks)
        /\ Records(rDisk.chunks) \subseteq Records(rDisk'.chunks)
        /\ reopens = 0 => Opens(rDisk'.chunks)
    BY <1>7, <2>3, <2>4 DEF StudioCrash
  <2> QED BY <2>1, <2>2, <2>3, <2>5 DEF ReceiverCalm, Opens, Readable, Records
<1>8. ASSUME StudioReopen \/ ReplaceStudio PROVE ReceiverCalm'
  <2>1. /\ errors = 0 /\ Opens(rDisk.chunks)
        /\ rDisk' = [rDisk EXCEPT !.chunks = Repaired(@)]
        /\ \E g \in Store : rIndex' = [rIndex EXCEPT ![g] = Records(rDisk.chunks)]
        /\ reopens' = 0 => StudioReopen
    BY <1>0, <1>8 DEF StudioReopen, ReplaceStudio, TypeOK, counters
  <2>2. Promised' = Promised
    BY <1>8 DEF StudioReopen, ReplaceStudio, Promised, AckedOnDevice, Records, deviceVars, networkVars
  <2>3. /\ rDisk'.chunks = Repaired(rDisk.chunks)
        /\ Repaired(rDisk.chunks).lines = rDisk.chunks.lines
        /\ Repaired(rDisk.chunks).tail = "none"
    BY <1>0, <2>1 DEF ReceiverDisk, Repaired, JournalOf
  <2>4. Records(rDisk'.chunks) = Records(rDisk.chunks) /\ Opens(rDisk'.chunks)
    BY <2>1, <2>3 DEF Records, Opens, Readable
  <2>5. /\ Promised \subseteq Records(rDisk.chunks)
        /\ \A g \in Store : rIndex[g] \subseteq Records(rDisk.chunks)
    BY <2>1 DEF ReceiverCalm
  <2>6. \A g \in Store : rIndex'[g] \subseteq Records(rDisk'.chunks)
    BY <1>0, <2>1, <2>4, <2>5
  <2>7. reopens' = 0 => rIndex'[1] = Records(rDisk'.chunks)
    BY <1>0, <2>1, <2>4 DEF StudioReopen, OneStudio, counters
  <2> QED BY <2>2, <2>3, <2>4, <2>5, <2>6, <2>7 DEF ReceiverCalm, Opens, Readable, Records
<1>9. CASE FinalizeReceiver
  <2>1. Promised' = Promised
    BY <1>9 DEF FinalizeReceiver, Promised, AckedOnDevice, Records, deviceVars, networkVars
  <2> QED BY <1>9, <2>1 DEF FinalizeReceiver, ReceiverCalm, Opens, Readable, Records, counters
<1> QED BY <1>2, <1>3, <1>4, <1>5, <1>6, <1>7, <1>8, <1>9, ReceiverSteps DEF Receive

\* The two together.
CalmInv == Inv /\ DeviceCalm /\ OneStudio /\ ReceiverCalm

LEMMA CalmInit == Init => DeviceCalm /\ OneStudio /\ ReceiverCalm
<1> SUFFICES ASSUME Init PROVE DeviceCalm /\ OneStudio /\ ReceiverCalm
  OBVIOUS
<1>1. /\ dDisk.chunks = EmptyJournal /\ dDisk.acks = EmptyJournal /\ rDisk.chunks = EmptyJournal
      /\ dIndex = <<>> /\ dAcked = {} /\ replies = {} /\ current = 1
      /\ upload = [g \in Store |-> Absent] /\ rIndex = [g \in Store |-> {}]
  BY DEF Init
<1>2. /\ Records(EmptyJournal) = {} /\ EmptyJournal.tail = "none" /\ EmptyJournal.lines = <<>>
      /\ DOMAIN EmptyJournal.lines = {}
  BY EmptyJournalType DEF EmptyJournal, Records, ToSet
<1>3. Promised = {}
  BY <1>1, <1>2 DEF Promised, AckedOnDevice
<1>4. 1 \in Store
  BY BoundsAssumption DEF Store
<1> QED BY <1>1, <1>2, <1>3, <1>4
        DEF DeviceCalm, OneStudio, ReceiverCalm, Opens, Readable, Keeps

LEMMA Calm == Spec => []CalmInv
<1>1. Init => CalmInv
  BY InvInit, CalmInit DEF CalmInv
<1>2. CalmInv /\ [Next]_vars => CalmInv'
  BY InvStep, DeviceCalmStep, OneStudioStep, ReceiverCalmStep DEF CalmInv
<1> QED BY <1>1, <1>2, PTL DEF Spec

(***************************************************************************)
(* What was ever sent is durable on the device, bytes and descriptor, as   *)
(* long as no append failed: writeChunk renames the bytes into place and   *)
(* journals the descriptor before the chunk can be listed for an upload.   *)
(***************************************************************************)
THEOREM DeviceIsAuthoritative == Spec => []LocalFirst
<1>1. CalmInv => LocalFirst
  BY DEF CalmInv, Inv, DeviceInv, DeviceCalm, Keeps, Opens, Readable, LocalFirst
<1> QED BY <1>1, Calm, PTL

(***************************************************************************)
(* A studio that runs reports every acknowledged chunk in its receiver     *)
(* index as long as one studio object was made, whatever appends failed:   *)
(* a journal that has lost a record it promised is one it refuses to open. *)
(***************************************************************************)
THEOREM AcknowledgedIsIndexed == Spec => []AckedIndexed
<1>1. CalmInv => AckedIndexed
  BY DEF CalmInv, OneStudio, Promised, AckedIndexed
<1> QED BY <1>1, Calm, PTL

(***************************************************************************)
(* With no failed append and one studio object, all three journals open    *)
(* again after any sequence of crashes: no torn record is ever extended    *)
(* and no chunk is journaled twice.                                        *)
(***************************************************************************)
THEOREM JournalsAlwaysReopen == Spec => []JournalsReopen
<1>1. CalmInv => JournalsReopen
  BY DEF CalmInv, DeviceCalm, ReceiverCalm, JournalsReopen, StoresAlwaysReopen
<1> QED BY <1>1, Calm, PTL

-----------------------------------------------------------------------------
(* The refinement.                                                         *)

LEMMA ReplicationStep ==
  CalmInv /\ errors = 0 /\ errors' = 0 /\ [Next]_vars => [Durable!Next]_(Durable!vars)
<1> DEFINE source == Records(dDisk.chunks)
           replica == Records(rDisk.chunks)
           released == Records(dDisk.acks)
<1> SUFFICES ASSUME CalmInv, errors = 0, errors' = 0, [Next]_vars
             PROVE  Durable!Next \/ UNCHANGED <<source, replica, released>>
  BY DEF Durable!vars
<1>0. /\ TypeOK /\ DeviceInv /\ ReceiverInv
      /\ dDisk \in DeviceDisk /\ rDisk \in ReceiverDisk
      /\ dDisk.chunks \in JournalOf(Descriptor)
      /\ dDisk.acks \in JournalOf(Descriptor)
      /\ rDisk.chunks \in JournalOf(Descriptor)
      /\ LastIsRecord(dDisk.acks) /\ LastIsRecord(rDisk.chunks)
      /\ requests \subseteq Descriptor /\ replies \subseteq Descriptor
      /\ errors \in Nat
  BY DEF CalmInv, Inv, TypeOK, DeviceDisk, ReceiverDisk, JournalsOrdered
\* What is acknowledged has been replicated, and what is uploaded has been recorded.
<1>1. /\ replies \subseteq replica
      /\ \A g \in Store : upload[g] # Absent => upload[g] \in source /\ upload[g] \in Descriptor
  BY <1>0 DEF CalmInv, ReceiverCalm, Promised, DeviceCalm, DeviceInv, Keeps, Opens, Readable, ReceiverInv
<1>2. ASSUME NEW d \in Descriptor, Unused(d.id), dUp
      PROVE  /\ Opens(dDisk.chunks) /\ dDisk.chunks.tail = "none"
             /\ \A e \in source : e.id # d.id
  BY <1>2, UnusedId DEF CalmInv, DeviceCalm, Records
<1>3. ASSUME NEW d \in Descriptor, RecordChunk(d) PROVE Durable!Record(d)
  <2>1. /\ dDisk'.chunks = AppendRecord(dDisk.chunks, d) /\ dDisk'.acks = dDisk.acks
        /\ rDisk' = rDisk /\ Unused(d.id) /\ dUp
    BY <1>0, <1>3, DeviceStored DEF RecordChunk, receiverVars
  <2>2. source' = source \cup {d}
    BY <1>0, <1>2, <2>1, AppendOpens
  <2> QED BY <1>2, <2>1, <2>2 DEF Records, Durable!Record
<1>4. ASSUME NEW s \in Syncer, NEW d \in Descriptor, AcceptAck(s, d)
      PROVE  Durable!Release(d) \/ UNCHANGED <<source, replica, released>>
  <2>1. /\ d \in replies /\ rDisk' = rDisk /\ dUp
        /\ d \in dAcked => dDisk' = dDisk
        /\ d \notin dAcked => dDisk' = Acknowledged(dDisk, d)
    BY <1>4 DEF AcceptAck, receiverVars
  <2>2. CASE d \in dAcked
    BY <2>1, <2>2
  <2>3. CASE d \notin dAcked
    <3>1. dDisk'.acks = AppendRecord(dDisk.acks, d) /\ dDisk'.chunks = dDisk.chunks
      BY <1>0, <2>1, <2>3, DeviceAcknowledged
    <3>2. dDisk.acks.tail = "none"
      BY <2>1 DEF CalmInv, DeviceCalm
    <3>3. released' = released \cup {d}
      BY <1>0, <3>1, <3>2, AppendRecordEffect
    <3> QED BY <1>1, <2>1, <3>1, <3>3 DEF Records, Durable!Release
  <2> QED BY <2>2, <2>3
<1>5. CASE DeviceCrash
  <2>1. rDisk' = rDisk /\ dUp
    BY <1>5 DEF DeviceCrash, receiverVars
  <2>2. CASE dDisk' = dDisk
    BY <2>1, <2>2
  <2>3. ASSUME NEW d \in Descriptor, Unused(d.id), dDisk' \in PartlyRecorded(d)
        PROVE  Durable!Record(d) \/ UNCHANGED <<source, replica, released>>
    <3>1. dDisk'.chunks \in InterruptedAppend(dDisk.chunks, d) /\ dDisk'.acks = dDisk.acks
      BY <1>0, <2>3, DevicePartlyRecorded
    <3>2. source' \in {source, source \cup {d}}
      BY <1>0, <1>2, <2>1, <2>3, <3>1, InterruptedAppendOpens
    <3> QED BY <1>2, <2>1, <2>3, <3>1, <3>2 DEF Durable!Record
  <2>4. ASSUME NEW d \in replies, dDisk' \in PartlyAcknowledged(d)
        PROVE  Durable!Release(d) \/ UNCHANGED <<source, replica, released>>
    <3>1. dDisk'.chunks = dDisk.chunks /\ dDisk'.acks \in InterruptedAppend(dDisk.acks, d)
      BY <1>0, <2>4, DevicePartlyAcknowledged
    <3>2. dDisk.acks.tail = "none"
      BY <2>1 DEF CalmInv, DeviceCalm
    <3>3. released \subseteq released' /\ released' \subseteq released \cup {d}
      BY <1>0, <3>1, <3>2, InterruptedAppendEffect, DescriptorFacts
    <3> QED BY <1>1, <2>1, <3>1, <3>3 DEF Durable!Release
  <2> QED BY <1>0, <1>5, <2>2, <2>3, <2>4 DEF DeviceCrash, Durable!Next
<1>6. CASE DeviceReopen
  <2>1. /\ dDisk'.chunks = Repaired(dDisk.chunks) /\ dDisk'.acks = Repaired(dDisk.acks)
        /\ rDisk' = rDisk
    BY <1>0, <1>6 DEF DeviceReopen, DeviceDisk, receiverVars
  <2> QED BY <1>0, <2>1, RepairedEffect
\* Storing what was sent, to the end or not.
<1>7. ASSUME NEW g \in Store, rUp, upload[g] # Absent, dDisk' = dDisk,
             rDisk' = Stored(rDisk, upload[g]) \/ rDisk' \in PartlyStored(rDisk, upload[g])
      PROVE  Durable!Replicate(upload[g]) \/ UNCHANGED <<source, replica, released>>
  <2>1. rDisk'.chunks \in InterruptedAppend(rDisk.chunks, upload[g])
    BY <1>0, <1>1, <1>7, ReceiverStored, ReceiverPartlyStored DEF InterruptedAppend
  <2>2. rDisk.chunks.tail = "none"
    BY <1>7 DEF CalmInv, ReceiverCalm
  <2>3. replica \subseteq replica' /\ replica' \subseteq replica \cup {upload[g]}
    BY <1>0, <1>1, <1>7, <2>1, <2>2, InterruptedAppendEffect, DescriptorFacts
  <2> QED BY <1>1, <1>7, <2>3 DEF Durable!Replicate
<1>8. ASSUME NEW g \in Store, FinishReceive(g)
      PROVE  Durable!Replicate(upload[g]) \/ UNCHANGED <<source, replica, released>>
  <2>1. CASE upload[g] \in rIndex[g]
    BY <1>8, <2>1 DEF FinishReceive, deviceVars
  <2>2. CASE upload[g] \notin rIndex[g]
    BY <1>7, <1>8, <2>2 DEF FinishReceive, deviceVars
  <2> QED BY <2>1, <2>2
<1>9. CASE StudioCrash
  <2>1. rUp /\ dDisk' = dDisk
    BY <1>9 DEF StudioCrash, deviceVars
  <2>2. CASE rDisk' = rDisk
    BY <2>1, <2>2
  <2>3. ASSUME NEW g \in Store, upload[g] # Absent, rDisk' \in PartlyStored(rDisk, upload[g])
        PROVE  Durable!Replicate(upload[g]) \/ UNCHANGED <<source, replica, released>>
    BY <1>7, <2>1, <2>3
  <2> QED BY <1>1, <1>9, <2>2, <2>3 DEF StudioCrash, Durable!Next
<1>10. CASE StudioReopen \/ ReplaceStudio
  <2>1. rDisk'.chunks = Repaired(rDisk.chunks) /\ dDisk' = dDisk
    BY <1>0, <1>10 DEF StudioReopen, ReplaceStudio, ReceiverDisk, deviceVars
  <2> QED BY <1>0, <2>1, RepairedEffect
<1>11. CASE UNCHANGED <<dDisk, rDisk>>
  BY <1>11
<1>12. ASSUME NEW d \in Descriptor, BeginReceive(d) PROVE UNCHANGED <<dDisk, rDisk>>
  BY <1>12 DEF BeginReceive, deviceVars
<1>13. ASSUME NEW s \in Syncer, StartSync(s) PROVE UNCHANGED <<dDisk, rDisk>>
  BY <1>13 DEF StartSync, receiverVars
<1>14. ASSUME NEW s \in Syncer, NEW d \in Descriptor, UploadChunk(s, d) \/ UploadFails(s, d)
       PROVE  UNCHANGED <<dDisk, rDisk>>
  BY <1>14 DEF UploadChunk, UploadFails, deviceVars, receiverVars
<1>15. ASSUME NEW g \in Store, RejectBody(g) PROVE UNCHANGED <<dDisk, rDisk>>
  BY <1>15 DEF RejectBody, deviceVars
<1>16. ASSUME FinalizeReceiver \/ UNCHANGED vars PROVE UNCHANGED <<dDisk, rDisk>>
  BY <1>16 DEF FinalizeReceiver, vars, deviceVars, receiverVars
\* An append that fails is not one of these steps.
<1>17. /\ \A d \in Descriptor : ~RecordChunkFails(d)
       /\ \A s \in Syncer, d \in Descriptor : ~AcceptAckFails(s, d)
       /\ \A g \in Store : ~FinishReceiveFails(g)
  BY <1>0 DEF RecordChunkFails, AcceptAckFails, FinishReceiveFails
<1>18. \/ UNCHANGED <<dDisk, rDisk>>
       \/ \E d \in Descriptor : RecordChunk(d)
       \/ \E s \in Syncer, d \in Descriptor : AcceptAck(s, d)
       \/ DeviceCrash \/ DeviceReopen
       \/ \E g \in Store : FinishReceive(g)
       \/ StudioCrash \/ StudioReopen \/ ReplaceStudio
  BY <1>12, <1>13, <1>14, <1>15, <1>16, <1>17 DEF Next, Transfer, Receive
<1> HIDE DEF source, replica, released
<1> QED BY <1>1, <1>3, <1>4, <1>5, <1>6, <1>8, <1>9, <1>10, <1>11, <1>18 DEF Durable!Next, FinishReceive

(***************************************************************************)
(* As long as no append fails under a living process, every step of the    *)
(* two ends, their crashes, recoveries and second studio objects included, *)
(* is seen on their disks as a step of Replication: a chunk is recorded    *)
(* once, copied only from the recorder, and released only when copied.     *)
(***************************************************************************)
THEOREM ReplicationRefined == Spec /\ [](errors = 0) => ImplementsReplication
<1>1. Init => Durable!Init
  <2>1. Records(EmptyJournal) = {}
    BY EmptyJournalType
  <2> QED BY <2>1 DEF Init, Durable!Init
<1>2. CalmInv /\ errors = 0 /\ (errors = 0)' /\ [Next]_vars => [Durable!Next]_(Durable!vars)
  BY ReplicationStep
<1> QED BY <1>1, <1>2, Calm, PTL DEF Spec, ImplementsReplication, Durable!Spec
====
