-------------------------------- MODULE StageA --------------------------------
(***************************************************************************)
(* First-party Stage A labels (data/stage_a.py): three synchronized views  *)
(* of a group are materialized into candidates with overlays for review,   *)
(* a person reviews them, a manifest is built of what was accepted, and    *)
(* the manifest is validated before training.  Materializing writes        *)
(* candidates, overlays and index one file after the other and may stop    *)
(* after each; it may be repeated into the same directory, with other      *)
(* calibration, while an older review or manifest is there.                *)
(*                                                                         *)
(* A digest is the content it stands for.  config is the version of the    *)
(* reviewed descriptor, calibration and quality profile together, and      *)
(* whether they are approved.  Record ids are distinct and name distinct   *)
(* overlay files.                                                           *)
(***************************************************************************)
EXTENDS Integers, Sequences, SequencesExt, FiniteSetsExt

CONSTANTS Captures,      \* the groups a capture index may hold
          Solutions,     \* what the geometry of a group may come to
          Owner,         \* the split that owns a record's identity, views and session
          SampledCount,  \* overlay_review_sample_count
          MaxRuns, MaxEdits

Groups == DOMAIN Owner  \* record ids
Roles == {"front", "left", "right"}
Absent == [exists |-> FALSE]

VARIABLES captures, config,                   \* the inputs
          candidates, overlays, overlayIndex, \* what materializing writes
          review,                             \* overlay review, with what its author saw
          shard, trainingManifest,            \* what building writes
          job,                                \* the command that runs, and how far it is
          validated, runs, edited

vars == <<captures, config, candidates, overlays, overlayIndex, review, shard,
          trainingManifest, job, validated, runs, edited>>

Idle == [step |-> "idle"]

Init ==
    /\ captures \in [Groups -> Captures]
    /\ config = [version |-> 1, approved |-> TRUE]
    /\ candidates = Absent /\ overlays = <<>> /\ overlayIndex = Absent /\ review = Absent
    /\ shard = Absent /\ trainingManifest = Absent /\ validated = Absent
    /\ job = Idle /\ runs = 0 /\ edited = 0

-----------------------------------------------------------------------------
(* Materializing a group *)

\* The three sources of a group, in the order of their roles.
Sources(c) == DOMAIN c.roles

Repeats(s) == Len(s) # Cardinality(ToSet(s))

\* The checks of the group as a whole; rest is the code of the first one after the
\* roles and cameras that fails (devices, view_timestamp_skew, subject_scale_missing).
GroupFailure(c) ==
    IF Repeats(c.roles) THEN "duplicate_view_role"
    ELSE IF ToSet(c.roles) # Roles THEN "missing_view"
    ELSE IF Repeats(c.cameras) THEN "duplicate_camera"
    ELSE c.rest

\* The views that have landmarks when materializing a group ends: calibration, image
\* and detector are asked for one view after the other, until one of them fails.
Detected(c) ==
    IF GroupFailure(c) # "none" THEN {}
    ELSE {i \in Sources(c) : \A j \in 1 .. i : c.detection[j] = "none"}

\* _triangulate: pairs is what the pairs of views give for some anchor, "point" if it
\* passes the profile.  An anchor with no point fails the group.
Triangulation(pairs) ==
    IF "point" \in pairs THEN "none"
    ELSE IF "deep" \in pairs THEN "triangulation_depth_invalid"
    ELSE IF "narrow" \in pairs THEN "triangulation_angle_low"
    ELSE "triangulation_invalid"

\* _solve_poses: every view must have a pose before any two are compared.
PoseFailure(solution) ==
    IF ~solution.posed THEN "pnp_failed"
    ELSE IF "translation" \in solution.disagreement THEN "pose_translation_disagreement"
    ELSE IF "rotation" \in solution.disagreement THEN "pose_rotation_disagreement"
    ELSE "none"

\* Triangulation, the head's frame, the poses and the reprojection, in this order.
GeometryFailure(solution) ==
    IF Triangulation(solution.pairs) # "none" THEN Triangulation(solution.pairs)
    ELSE IF ~solution.finite THEN "head_frame_invalid"
    ELSE IF PoseFailure(solution) # "none" THEN PoseFailure(solution)
    ELSE IF ~solution.reprojects THEN "reprojection_threshold" ELSE "none"

FailureCode(c, solution) ==
    LET undetected == Sources(c) \ Detected(c)
    IN  IF GroupFailure(c) # "none" THEN GroupFailure(c)
        ELSE IF undetected # {} THEN c.detection[Min(undetected)]
        ELSE GeometryFailure(solution)

\* Landmarks, geometry or pose: a value, or the reason why there is none.
Label(reason) == [available |-> reason = "none", reason |-> reason]

\* A view passes if it has a pose.
View(role, camera, landmarks, pose) ==
    [role |-> role, camera |-> camera, landmarks |-> Label(landmarks), pose |-> Label(pose)]

AcceptedViews(c) == [i \in Sources(c) |-> View(c.roles[i], c.cameras[i], "none", "none")]

\* A rejected group keeps what was detected and has a view for each missing role,
\* whose camera is named after the role; all of its poses are withdrawn.
RejectedViews(c, code) ==
    LET missing == SetToSeq(Roles \ ToSet(c.roles))
    IN  [i \in Sources(c) |->
            View(c.roles[i], c.cameras[i], IF i \in Detected(c) THEN "none" ELSE code, code)]
        \o [i \in DOMAIN missing |-> View(missing[i], missing[i], code, code)]

Accepted(c) ==
    [status |-> "accepted", failure |-> "none", views |-> AcceptedViews(c),
     geometry |-> Label("none"), fps |-> c.fps, config |-> config, approved |-> FALSE]

Rejected(c, code) ==
    [status |-> "rejected", failure |-> code, views |-> RejectedViews(c, code),
     geometry |-> Label(code), fps |-> c.fps, config |-> config, approved |-> FALSE]

GroupOf(c, solution) ==
    LET code == FailureCode(c, solution)
    IN  IF code = "none" THEN Accepted(c) ELSE Rejected(c, code)

\* validate_status and the length of views; a group that fails them cannot be made or loaded.
GroupValid(g) ==
    LET available == g.geometry.available /\ \A i \in DOMAIN g.views : g.views[i].pose.available
    IN  /\ Len(g.views) = 3
        /\ g.status = "accepted" <=> available
        /\ g.status = "accepted" <=> g.failure = "none"
        /\ g.approved => g.status = "accepted"

-----------------------------------------------------------------------------
(* materialize_stage_a_labels *)

\* What a command needs of its configuration before it reads a group: approved
\* reviews of calibration and profile, and admitted licenses.
Usable == config.approved

\* All rejected groups and the first accepted ones are sampled; the order is a hash's.
Selections(groups) ==
    LET rejected == {g \in Groups : groups[g].status = "rejected"}
        accepted == Groups \ rejected
    IN  {rejected \union s : s \in kSubset(IF Cardinality(accepted) < SampledCount
                                          THEN Cardinality(accepted) ELSE SampledCount,
                                          accepted)}

Materialize(solutions, selection) ==
    LET groups == [g \in Groups |-> GroupOf(captures[g], solutions[g])]
    IN  /\ job = Idle /\ runs < MaxRuns /\ runs' = runs + 1
        /\ Usable /\ \A g \in Groups : GroupValid(groups[g])
        /\ selection \in Selections(groups)
        /\ candidates' = [exists |-> TRUE, groups |-> groups]
        /\ job' = [step |-> "render", groups |-> groups, selection |-> selection]
        /\ UNCHANGED <<captures, config, overlays, overlayIndex, review, shard,
                       trainingManifest, validated, edited>>

Image(group, i) == <<i, group>>
FilesOf(g, group) == {<<g, group.views[i].camera>> : i \in 1 .. 3}

\* Views of one camera have one file: the last one written stays.
Rendered(g, group) ==
    [f \in FilesOf(g, group) |->
        Image(group, Max({i \in 1 .. 3 : f = <<g, group.views[i].camera>>}))]

\* The files f with the files h written over them.
Merge(f, h) == [x \in DOMAIN f \union DOMAIN h |-> IF x \in DOMAIN h THEN h[x] ELSE f[x]]

RenderOverlays ==
    /\ job.step = "render"
    /\ overlays' = FoldSet(LAMBDA g, written : Merge(written, Rendered(g, job.groups[g])),
                           overlays, job.selection)
    /\ job' = [job EXCEPT !.step = "index"]
    /\ UNCHANGED <<captures, config, candidates, overlayIndex, review, shard,
                   trainingManifest, validated, runs, edited>>

ArtifactsOf(groups, selection) ==
    UNION {{[file |-> <<g, groups[g].views[i].camera>>, image |-> Image(groups[g], i)] :
              i \in 1 .. 3} : g \in selection}

WriteOverlayIndex ==
    /\ job.step = "index"
    /\ overlayIndex' = [exists |-> TRUE, groups |-> job.groups, sampled |-> job.selection,
                        artifacts |-> ArtifactsOf(job.groups, job.selection)]
    /\ job' = Idle
    /\ UNCHANGED <<captures, config, candidates, overlays, review, shard,
                   trainingManifest, validated, runs, edited>>

\* The command dies or raises: what it wrote stays.
JobEnds ==
    /\ job # Idle /\ job' = Idle
    /\ UNCHANGED <<captures, config, candidates, overlays, overlayIndex, review, shard,
                   trainingManifest, validated, runs, edited>>

-----------------------------------------------------------------------------
(* People: a review of the files as they are, and a change of the calibration *)

ReviewOverlays(actions) ==
    /\ edited < MaxEdits /\ edited' = edited + 1
    /\ candidates.exists /\ overlayIndex.exists
    /\ review' = [exists |-> TRUE, groups |-> candidates.groups,
                  artifacts |-> overlayIndex.artifacts, actions |-> actions]
    /\ UNCHANGED <<captures, config, candidates, overlays, overlayIndex, shard,
                   trainingManifest, job, validated, runs>>

Recalibrate ==
    /\ edited < MaxEdits /\ edited' = edited + 1
    /\ \E approved \in BOOLEAN : config' = [version |-> config.version + 1, approved |-> approved]
    /\ UNCHANGED <<captures, candidates, overlays, overlayIndex, review, shard,
                   trainingManifest, job, validated, runs>>

-----------------------------------------------------------------------------
(* build_stage_a_manifest *)

\* OverlayReviewIndex.verify_files
IndexVerifies ==
    \A a \in overlayIndex.artifacts :
        a.file \in DOMAIN overlays /\ overlays[a.file] = a.image

\* Variant: the review is taken to be of this materialization.
BindsReviewedNames ==
    overlayIndex.groups = candidates.groups /\ overlayIndex.sampled \subseteq DOMAIN review.actions

BindsReview ==
    /\ overlayIndex.groups = candidates.groups
    /\ review.groups = candidates.groups /\ review.artifacts = overlayIndex.artifacts
    /\ overlayIndex.sampled \subseteq DOMAIN review.actions

\* A sampled group that was rejected can only be reviewed as rejected.
ActionsAgree ==
    \A g \in overlayIndex.sampled :
        candidates.groups[g].status = "rejected" => review.actions[g] = "rejected"

\* Every group was made with the configuration as it is now.
ProvenanceHolds == \A g \in Groups : candidates.groups[g].config = config

\* What is not promoted is left out, sampled or not.
Promoted ==
    {g \in DOMAIN review.actions :
        candidates.groups[g].status = "accepted" /\ review.actions[g] # "rejected"}

\* _split_for_group: the split that holds identity, session, devices and cameras.
SplitOf(g) == Owner[g]

\* The rate a split is captured at.
RateOf(split) == IF split = "train" THEN "sampled" ELSE "continuous"

\* A promoted group of no split or of another rate makes the build raise.
Placeable(g) == SplitOf(g) # "none" /\ candidates.groups[g].fps = RateOf(SplitOf(g))

\* _approve_reviewed_group: a corrected record has to be materialized again.
Approvable(g) == review.actions[g] = "accepted"
Approved(g) == [candidates.groups[g] EXCEPT !.approved = TRUE]

BeginBuild ==
    /\ job = Idle
    /\ candidates.exists /\ overlayIndex.exists /\ review.exists
    /\ IndexVerifies /\ BindsReview /\ ActionsAgree
    /\ Usable /\ ProvenanceHolds
    /\ Promoted # {} /\ \A g \in Promoted : Placeable(g) /\ Approvable(g)
    /\ shard' = [exists |-> TRUE, groups |-> [g \in Promoted |-> Approved(g)]]
    /\ job' = [step |-> "manifest", edited |-> edited]
    /\ UNCHANGED <<captures, config, candidates, overlays, overlayIndex, review,
                   trainingManifest, validated, runs, edited>>

\* The references are digests of the files as they are now.  The build verifies
\* what it has written, which reads the same files once more.
WriteTrainingManifest ==
    /\ job.step = "manifest"
    /\ trainingManifest' = [exists |-> TRUE, shard |-> shard, review |-> review,
                            config |-> config, raced |-> edited # job.edited]
    /\ job' = Idle
    /\ UNCHANGED <<captures, config, candidates, overlays, overlayIndex, review, shard,
                   validated, runs, edited>>

\* DatasetManifest.verify_files
ManifestVerifies ==
    /\ trainingManifest.shard = shard
    /\ trainingManifest.review = review /\ trainingManifest.config = config

\* validate_stage_a_manifest; loading the shard checks each group once more.  The
\* validation split is one with the test split, from which nothing tells it apart here.
ShardAdmissible ==
    /\ \A g \in DOMAIN shard.groups :
          /\ GroupValid(shard.groups[g])
          /\ shard.groups[g].status = "accepted" /\ shard.groups[g].approved
    /\ \A split \in {"train", "test"} : \E g \in DOMAIN shard.groups : SplitOf(g) = split

Validate ==
    /\ trainingManifest.exists /\ ManifestVerifies /\ ShardAdmissible
    /\ validated' = [exists |-> TRUE, shard |-> shard, review |-> review, config |-> config,
                     raced |-> trainingManifest.raced]
    /\ UNCHANGED <<captures, config, candidates, overlays, overlayIndex, review, shard,
                   trainingManifest, job, runs, edited>>

Next ==
    \/ \E solutions \in [Groups -> Solutions], selection \in SUBSET Groups :
          Materialize(solutions, selection)
    \/ RenderOverlays \/ WriteOverlayIndex \/ JobEnds
    \/ \E reviewed \in SUBSET Groups :
          \E actions \in [reviewed -> {"accepted", "corrected", "rejected"}] :
             ReviewOverlays(actions)
    \/ Recalibrate \/ BeginBuild \/ WriteTrainingManifest \/ Validate

Spec == Init /\ [][Next]_vars

-----------------------------------------------------------------------------
(* Properties *)

TypeOK ==
    /\ job.step \in {"idle", "render", "index", "manifest"}
    /\ \A f \in DOMAIN overlays : f[1] \in Groups /\ overlays[f][2].status \in {"accepted", "rejected"}
    /\ config \in [version : 1 .. MaxEdits + 1, approved : BOOLEAN]

\* Every group a validated manifest trains on has passed every check, was made with the
\* configuration the manifest names, which is approved, and was seen and accepted as it
\* is by the review the manifest names; unless a file was changed while the manifest
\* was being built, between its reading and its digest.
ReviewedBeforeTraining ==
    validated.exists /\ ~validated.raced =>
        /\ validated.config.approved
        /\ \A g \in DOMAIN validated.shard.groups :
            /\ \A i \in 1 .. 3 : /\ validated.shard.groups[g].views[i].landmarks.available
                                 /\ validated.shard.groups[g].views[i].pose.available
            /\ validated.shard.groups[g].config = validated.config
            /\ validated.review.actions[g] = "accepted"
            /\ [validated.review.groups[g] EXCEPT !.approved = TRUE] = validated.shard.groups[g]
=============================================================================
