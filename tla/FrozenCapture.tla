----------------------------- MODULE FrozenCapture -----------------------------
(***************************************************************************)
(* Freezing captured sessions into a dataset and training on it            *)
(* (data/capture.py, data/strategy.py, data/manifest.py, training/         *)
(* engine.py).  Freezing checks sessions and records, writes the           *)
(* normalized records, plans the splits, asks the license registry, writes *)
(* the index and verifies what it has written; it may raise or die after   *)
(* each.  Others change the sessions and the registry, and freeze into the *)
(* same output again.  A training manifest is built from a frozen index,   *)
(* and train verifies both.                                                *)
(*                                                                         *)
(* A digest is the content it stands for.  A session's content is its      *)
(* version, its mapping a revision.  A record is of a session, an identity *)
(* and a device, refers to the image chunk of a session and is labelled by *)
(* a mapping.  A mapping file is its revision; file names may sort         *)
(* otherwise than revisions.                                               *)
(***************************************************************************)
EXTENDS Integers, FiniteSets, Sequences, SequencesExt

CONSTANTS Subject, Device,       \* of each session
          MappingOf,             \* ntp_mapping_revision of each session
          HeldOutDevices,        \* held_out_test_devices
          ValidationIdentities,  \* validation_identities
          RecordSets,            \* what a file of normalized records may hold
          MappingLists,          \* the mapping files a freeze may be given
          Revisions,             \* of a dataset
          MaxFreezes, MaxEdits   \* bounds

Sessions == DOMAIN Subject
Nothing == [exists |-> FALSE]

VARIABLES sessions,  \* session.json and its chunks: the version, 0 if damaged
          registry,  \* the license registry
          stage,     \* how far a freeze has come
          input,     \* what it freezes
          records,   \* <output>-records.jsonl
          index,     \* the frozen index
          manifest,  \* the training manifest
          trained,   \* what the last training run was given
          freezes, edits

vars == <<sessions, registry, stage, input, records, index, manifest, trained, freezes, edits>>

Stages == {"teacher-labeling", "base-model-training"}

\* The records that are asked for, as one: its review, the stages it allows, its permissions
\* for both, and whether the license text is the one its digest was taken of.
InitialRegistry == [version |-> 1, approved |-> TRUE, stages |-> Stages, text |-> TRUE]

Init ==
    /\ sessions = [s \in Sessions |-> 1]
    /\ registry = InitialRegistry
    /\ stage = "idle" /\ input = Nothing
    /\ records = Nothing /\ index = Nothing /\ manifest = Nothing /\ trained = Nothing
    /\ freezes = 0 /\ edits = 0

-----------------------------------------------------------------------------
(* split_captures: identities, which are numbers, come in the order of their hash *)

IdentitiesOf(rs) == {r.identity : r \in rs}
DevicesOf(rs, ids) == {r.device : r \in {q \in rs : q.identity \in ids}}
SessionsOf(rs, ids) == {r.session : r \in {q \in rs : q.identity \in ids}}

TestIdentities(rs) == {r.identity : r \in {q \in rs : q.device \in HeldOutDevices}}
FirstOf(ids, n) == {i \in ids : Cardinality({j \in ids : j < i}) < n}

SplitOf(rs, ids) ==
    [identities |-> ids, sessions |-> SessionsOf(rs, ids), devices |-> DevicesOf(rs, ids)]

Splits(rs) ==
    LET development == IdentitiesOf(rs) \ TestIdentities(rs)
        validation == FirstOf(development, ValidationIdentities)
    IN  [train |-> SplitOf(rs, development \ validation),
         validation |-> SplitOf(rs, validation),
         test |-> SplitOf(rs, TestIdentities(rs))]

\* It raises otherwise.
Splittable(rs) ==
    /\ TestIdentities(rs) # {}
    /\ Cardinality(IdentitiesOf(rs) \ TestIdentities(rs)) > ValidationIdentities
    /\ Splits(rs).test.devices \intersect (Splits(rs).train.devices \union Splits(rs).validation.devices) = {}

-----------------------------------------------------------------------------
(* Verification *)

\* CaptureSessionManifest.verify_files of each session
Intact(ss) == \A s \in ss : sessions[s] # 0

\* Variant: what a record says of its session is not compared.
RecordsCoverSessions(rs, ss) == {r.session : r \in rs} = ss

\* _validate_session_records
RecordsMatch(rs, ss) ==
    /\ {r.session : r \in rs} = ss
    /\ \A r \in rs : r.identity = Subject[r.session] /\ r.device = Device[r.session]

\* _validate_mapping_records: one mapping of each revision of the sessions, in increasing
\* order; the labels of a record are any one's of them, not always its session's.
MappingsFit(rs, ms, ss) ==
    /\ \A i, j \in DOMAIN ms : i < j => ms[i] < ms[j]
    /\ ToSet(ms) = {MappingOf[s] : s \in ss}
    /\ \A r \in rs : r.mapping \in ToSet(ms)

\* _find_chunk_path, _resolve_record_chunk: the image of a record is its session's chunk.
ImagesFound(rs) == \A r \in rs : r.image = r.session

\* LicenseRegistry.admit for a pipeline stage
AdmittedFor(use) == registry.approved /\ use \in registry.stages

\* verify_local_license_texts and both admissions
Admitted == registry.text /\ \A s \in Stages : AdmittedFor(s)

\* The digests of the files are those of the index.
ReferencesHold(i) ==
    /\ records.exists /\ records.content = i.records
    /\ \A s \in DOMAIN i.sessions : sessions[s] = i.sessions[s]
    /\ registry.version = i.registry

\* FrozenCaptureDataset.verify
Verifies(i) ==
    /\ i.exists /\ ReferencesHold(i)
    /\ Intact(DOMAIN i.sessions)
    /\ RecordsMatch(records.content, DOMAIN i.sessions)
    /\ MappingsFit(records.content, i.mappings, DOMAIN i.sessions)
    /\ ImagesFound(records.content)
    /\ Splittable(records.content) /\ Splits(records.content) = i.splits
    /\ Admitted

-----------------------------------------------------------------------------
(* Freezing *)

\* Variant: the records are left to the verification at the end.
FreezableIfIntact(ss, rs, ms) == Intact(ss)

\* What is checked before anything is written.
Freezable(ss, rs, ms) ==
    Intact(ss) /\ RecordsMatch(rs, ss) /\ MappingsFit(rs, ms, ss) /\ ImagesFound(rs)

\* A freeze that fails the checks changes nothing.  byName: the names of the mapping
\* files sort like their revisions.
BeginFreeze(ss, rs, ms) ==
    /\ stage = "idle" /\ freezes < MaxFreezes
    /\ Freezable(ss, rs, ms)
    /\ \E byName \in BOOLEAN, revision \in Revisions :
          input' = [exists |-> TRUE, sessions |-> ss, records |-> rs, mappings |-> ms,
                    byName |-> byName, revision |-> revision]
    /\ records' = [exists |-> TRUE, content |-> rs]
    /\ stage' = "records written" /\ freezes' = freezes + 1
    /\ UNCHANGED <<sessions, registry, index, manifest, trained, edits>>

EndFreeze == stage' = "idle" /\ input' = Nothing

\* The index lists the mapping files in the order of their paths; the session files are
\* read once more for their digests.
IndexOf(i) ==
    [exists |-> TRUE, revision |-> i.revision, records |-> i.records,
     sessions |-> [s \in i.sessions |-> sessions[s]],
     mappings |-> IF i.byName THEN i.mappings ELSE Reverse(i.mappings),
     registry |-> registry.version, splits |-> Splits(i.records)]

WriteIndex ==
    /\ stage = "records written"
    /\ Splittable(input.records) /\ Admitted
    /\ index' = IndexOf(input)
    /\ stage' = "index written"
    /\ UNCHANGED <<sessions, registry, input, records, manifest, trained, freezes, edits>>

\* The plan or the admission raises, the last verification ends, or the process dies.
FreezeEnds ==
    /\ stage # "idle"
    /\ EndFreeze
    /\ UNCHANGED <<sessions, registry, records, index, manifest, trained, freezes, edits>>

\* A session is finalized again, or damaged.
SessionChanges(s) ==
    /\ edits < MaxEdits /\ edits' = edits + 1
    /\ \E version \in {0, sessions[s] + 1} : sessions' = [sessions EXCEPT ![s] = version]
    /\ UNCHANGED <<registry, stage, input, records, index, manifest, trained, freezes>>

\* The registry is revised: an approval or a stage is withdrawn, a text replaced.
RegistryChanges ==
    /\ edits < MaxEdits /\ edits' = edits + 1
    /\ registry' \in {[r EXCEPT !.version = registry.version + 1] :
                        r \in {[registry EXCEPT !.approved = FALSE], [registry EXCEPT !.text = FALSE],
                               [registry EXCEPT !.stages = {"teacher-labeling"}]}}
    /\ UNCHANGED <<sessions, stage, input, records, index, manifest, trained, freezes>>

-----------------------------------------------------------------------------
(* Training *)

\* DatasetManifest.validate_contract
ManifestValid(m) ==
    LET owners(dimension, value) ==
            {name \in DOMAIN m.splits : value \in m.splits[name][dimension]}
    IN  /\ \A r \in m.records : Cardinality(owners("identities", r.identity)) <= 1
        /\ \A r \in m.records : Cardinality(owners("sessions", r.session)) <= 1
        /\ m.splits.test.devices \intersect
             (m.splits.train.devices \union m.splits.validation.devices) = {}

\* The manifest takes records, registry and splits from the index, and its teachers
\* from the mappings.
ManifestOf(i) ==
    [exists |-> TRUE, revision |-> i.revision, records |-> i.records,
     registry |-> i.registry, splits |-> i.splits, teachers |-> ToSet(i.mappings)]

\* build_training_manifest_from_frozen
BuildManifest ==
    /\ Verifies(index) /\ ManifestValid(ManifestOf(index))
    /\ manifest' = ManifestOf(index)
    /\ UNCHANGED <<sessions, registry, stage, input, records, index, trained, freezes, edits>>

\* DatasetManifest.verify_files
ManifestVerifies(m) ==
    /\ m.exists /\ records.exists /\ records.content = m.records
    /\ registry.version = m.registry
    /\ registry.text /\ AdmittedFor("base-model-training")

\* The manifest exposes the frozen dataset.
Matches(i, m) ==
    /\ m.revision = i.revision /\ m.records = i.records /\ m.splits = i.splits
    /\ m.teachers = ToSet(i.mappings)

\* train, after _verify_frozen_capture_input
Train(revision) ==
    /\ Verifies(index) /\ ManifestVerifies(manifest)
    /\ index.revision = revision /\ Matches(index, manifest)
    /\ trained' = [exists |-> TRUE, revision |-> revision, records |-> records.content,
                   splits |-> manifest.splits, teachers |-> manifest.teachers,
                   sessions |-> sessions, registry |-> registry]
    /\ UNCHANGED <<sessions, registry, stage, input, records, index, manifest, freezes, edits>>

Next ==
    \/ \E ss \in SUBSET Sessions, rs \in RecordSets, ms \in MappingLists :
          BeginFreeze(ss, rs, ms)
    \/ WriteIndex \/ FreezeEnds \/ BuildManifest
    \/ \E s \in Sessions : SessionChanges(s)
    \/ RegistryChanges
    \/ \E r \in Revisions : Train(r)

Spec == Init /\ [][Next]_vars

-----------------------------------------------------------------------------
(* Properties *)

TypeOK ==
    /\ sessions \in [Sessions -> 0 .. MaxEdits + 1]
    /\ registry.version \in 1 .. MaxEdits + 1 /\ registry.stages \subseteq Stages
    /\ stage \in {"idle", "records written", "index written"}
    /\ input.exists <=> stage # "idle"

\* Whatever was frozen, interrupted, frozen over or edited before: a training run
\* is given records whose sessions are whole and say the same of them, labelled by a
\* teacher the manifest names, each in one split by its identity, none recorded on a
\* held-out device outside the test split, no device of the test split in another, and
\* licenses that are in force.
TrainingInputIsSafe ==
    trained.exists =>
        /\ trained.registry.approved /\ trained.registry.text /\ trained.registry.stages = Stages
        /\ \A r \in trained.records :
              /\ trained.sessions[r.session] # 0
              /\ r.identity = Subject[r.session] /\ r.device = Device[r.session]
              /\ r.image = r.session /\ r.mapping \in trained.teachers
              /\ \E name \in DOMAIN trained.splits :
                    /\ r.identity \in trained.splits[name].identities
                    /\ r.device \in trained.splits[name].devices
                    /\ \A other \in DOMAIN trained.splits \ {name} :
                          r.identity \notin trained.splits[other].identities
                    /\ r.device \in HeldOutDevices \union trained.splits.test.devices => name = "test"

\* A freeze that has come to its last step has written a dataset that verifies,
\* unless the sessions or the registry have changed meanwhile, or the mappings'
\* file names are not in the order of their revisions: the index lists them by
\* name and the verification expects them by revision.
FreezeVerifies ==
    stage = "index written" /\ edits = 0 /\ index.mappings = input.mappings => Verifies(index)
=============================================================================
