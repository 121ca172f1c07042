------------------------------- MODULE Packages -------------------------------
(***************************************************************************)
(* Model packages and personal adapters (export/package.py,                *)
(* personalization/adapter.py): a directory of files written one after the *)
(* other, the metadata last, over what an earlier export left there.  An   *)
(* export may die between any two of them.  A consumer reads the files one *)
(* after the other too: it verifies the directory and then opens metadata  *)
(* and model once more, and nothing keeps an export from writing meanwhile.*)
(*                                                                         *)
(* Files: the ONNX model, its test vectors, the declarations (the schema,  *)
(* revision and contract files of a model package; an adapter has none)    *)
(* and the metadata.  An export is the model it exports, for the user of   *)
(* an adapter or none; the user stands for the whole contract an adapter   *)
(* is asked for.  Exports into a directory run one at a time.              *)
(***************************************************************************)
EXTENDS Integers, Sequences, FiniteSets

CONSTANTS Kinds,      \* subset of {"model", "adapter"}
          Models,     \* trained weights; each has other outputs
          Users,      \* and "none" for a model package
          MaxExports

VARIABLES kind,
          package,    \* the files that are there, each with the export it is of
          exporting,  \* the export that runs and the place of the file it writes next
          loading,    \* a consumer that verifies and opens: how far it is, what it has read
          opened,     \* what a consumer has in use
          exports     \* how many were begun

vars == <<kind, package, exporting, loading, opened, exports>>

Idle == [running |-> FALSE]
Export == {e \in [number : 1 .. MaxExports, model : Models, user : Users \union {"none"}] :
              (kind = "model") <=> (e.user = "none")}

\* Variant: the metadata is written first.
MetadataFirst ==
    IF kind = "model" THEN <<"metadata", "model", "vectors", "declarations">>
    ELSE <<"metadata", "model", "vectors">>

\* create_model_package and train_level_b_adapter write in this order.
FilesInOrder ==
    IF kind = "model" THEN <<"model", "vectors", "declarations", "metadata">>
    ELSE <<"model", "vectors", "metadata">>
AllFiles == {FilesInOrder[i] : i \in DOMAIN FilesInOrder}

Init ==
    /\ kind \in Kinds /\ package = <<>> /\ exporting = Idle
    /\ loading = Idle /\ opened = Idle /\ exports = 0

BeginExport(e) ==
    /\ ~exporting.running /\ exports < MaxExports
    /\ e.number = exports + 1 /\ exports' = e.number
    /\ exporting' = [running |-> TRUE, export |-> e, next |-> 1]
    /\ UNCHANGED <<kind, package, loading, opened>>

\* The vectors are compared with the model before they are written.
WriteFile ==
    /\ exporting.running
    /\ LET file == FilesInOrder[exporting.next]
       IN  package' = [f \in DOMAIN package \union {file} |->
                         IF f = file THEN exporting.export ELSE package[f]]
    /\ exporting' = IF exporting.next = Len(FilesInOrder) THEN Idle
                    ELSE [exporting EXCEPT !.next = exporting.next + 1]
    /\ UNCHANGED <<kind, loading, opened, exports>>

ExportDies ==
    /\ exporting.running /\ exporting' = Idle
    /\ UNCHANGED <<kind, package, loading, opened, exports>>

-----------------------------------------------------------------------------
(* verify_model_package, verify_level_b_adapter: a step per file read *)

Complete == AllFiles = DOMAIN package

\* The steps of a consumer, each before what it reads.
Steps == {"digest", "vectors", "metadata", "model"}

\* user: whose adapter the consumer asks for, "none" for a model package.  No file is
\* ever removed, so all that were seen are still there when the metadata is read.
BeginVerification(user) ==
    /\ ~loading.running /\ ~opened.running
    /\ Complete /\ package["metadata"].user = user
    /\ loading' = [running |-> TRUE, step |-> "digest", user |-> user,
                   verified |-> package["metadata"], metadata |-> package["metadata"],
                   found |-> package["model"].number]
    /\ UNCHANGED <<kind, package, exporting, opened, exports>>

\* Variant: any digest is accepted.
AnyDigest ==
    /\ loading.running /\ loading.step = "digest"
    /\ loading' = [loading EXCEPT !.step = "vectors"]
    /\ UNCHANGED <<kind, package, exporting, opened, exports>>

CheckDigest ==
    /\ loading.running /\ loading.step = "digest"
    /\ package["model"].model = loading.verified.model
    /\ loading' = [loading EXCEPT !.step = "vectors"]
    /\ UNCHANGED <<kind, package, exporting, opened, exports>>

\* The model gives the recorded outputs on the recorded inputs.
CheckVectors ==
    /\ loading.running /\ loading.step = "vectors"
    /\ package["model"].model = package["vectors"].model
    /\ loading' = [loading EXCEPT !.step = "metadata"]
    /\ UNCHANGED <<kind, package, exporting, opened, exports>>

\* A check raises, or the consumer ends.
GiveUp ==
    /\ loading.running /\ loading' = Idle
    /\ UNCHANGED <<kind, package, exporting, opened, exports>>

-----------------------------------------------------------------------------
(* OrtLevelBAdapter and the runtimes: once verified, the metadata is read again *)
(* and then the model                                                           *)

ReadMetadata ==
    /\ loading.running /\ loading.step = "metadata"
    /\ loading' = [loading EXCEPT !.step = "model", !.metadata = package["metadata"]]
    /\ UNCHANGED <<kind, package, exporting, opened, exports>>

OpenModel ==
    /\ loading.running /\ loading.step = "model"
    /\ opened' = [running |-> TRUE, verified |-> loading.verified, found |-> loading.found,
                  metadata |-> loading.metadata, model |-> package["model"]]
    /\ loading' = Idle
    /\ UNCHANGED <<kind, package, exporting, exports>>

Close ==
    /\ opened.running /\ opened' = Idle
    /\ UNCHANGED <<kind, package, exporting, loading, exports>>

Next ==
    \/ \E e \in Export : BeginExport(e)
    \/ WriteFile \/ ExportDies
    \/ \E user \in Users \union {"none"} : BeginVerification(user)
    \/ CheckDigest \/ CheckVectors \/ GiveUp \/ ReadMetadata \/ OpenModel
    \/ Close

Spec == Init /\ [][Next]_vars

-----------------------------------------------------------------------------
(* Properties *)

TypeOK ==
    /\ kind \in Kinds /\ exports \in 0 .. MaxExports
    /\ DOMAIN package \subseteq AllFiles /\ \A f \in DOMAIN package : package[f] \in Export
    /\ exporting.running =>
          exporting.export \in Export /\ exporting.next \in DOMAIN FilesInOrder
    /\ loading.running =>
          loading.step \in Steps /\ loading.verified \in Export /\ loading.metadata \in Export

\* Whatever exports begin, write and die while a consumer verifies and opens: it never
\* runs a model that is older than the metadata that describes it, nor under metadata
\* that are older than the ones it verified, for the metadata are written last and read
\* first.  And the model it runs is the one its metadata describe unless an export has
\* written the model since the consumer began: what exports that died before that left
\* behind, and what an export that runs has still to write, is told by the digest.
ModelIsDescribedOrNewer ==
    opened.running =>
        /\ opened.verified.number <= opened.metadata.number
        /\ opened.metadata.number <= opened.model.number
        /\ opened.model.model # opened.metadata.model => opened.model.number > opened.found
=============================================================================
