-------------------------------- MODULE MCPipelines --------------------------------
(* Parameters for TLC, and initial states of which each component has one or, while *)
(* another takes part, only one.                                                     *)
EXTENDS Pipelines

CONSTANTS t1, t2, w,   \* threads, and calls that await
          s1, s2,      \* streams and scopes
          l1, l2       \* layouts

LFvalue == [threads |-> {t1, t2}, worker |-> w, frames |-> 3, interval |-> 2, missed |-> 0]

FSvalue == [face |-> {"Observed", "Occluded"}, visibility |-> {"Observed", "SelfOccluded"},
            streams |-> {s1, s2}, time |-> 2, sequence |-> 2, interval |-> 2, age |-> 1]

TRvalue == [scopes |-> {s1, s2},
            states |-> {"Observed", "Fused", "Occluded", "TrackingLost"},
            frames |-> 4, prediction |-> 5, capture |-> 6]

TNvalue == [batches |-> 3, stages |-> {"pretrain", "finetune"}, accumulations |-> {1, 2},
            limits |-> {2, 4}, validation |-> 1, checkpoint |-> 2, loss |-> <<3, 1, 2, 2>>,
            starts |-> 2]

\* Of four sessions; the last one's record may name a wrong identity, another image or
\* another mapping.
Subjects == <<1, 2, 3, 3>>
Devices == <<"d1", "d1", "d2", "d1">>
Mappings == <<1, 1, 2, 1>>
RecordOf(s) ==
    [session |-> s, identity |-> Subjects[s], device |-> Devices[s], image |-> s,
     mapping |-> Mappings[s]]
WrongRecords == {[RecordOf(4) EXCEPT !.identity = 2], [RecordOf(4) EXCEPT !.image = 2],
                 [RecordOf(4) EXCEPT !.mapping = 2], [RecordOf(4) EXCEPT !.mapping = 3]}

FCvalue == [subject |-> Subjects, device |-> Devices, mapping |-> Mappings,
            heldOut |-> {"d2"}, identities |-> 1,
            records |-> {{RecordOf(s) : s \in ss} : ss \in SUBSET (1 .. 4)}
                        \union {{RecordOf(s) : s \in 1 .. 3} \union {wrong} :
                                  wrong \in WrongRecords},
            lists |-> {<<1>>, <<1, 2>>, <<2, 1>>}, revisions |-> {1, 2},
            freezes |-> 2, edits |-> 1]

\* Three views; two views of one camera; one view missing; one without a face.
Capture(roles, cameras, detection) ==
    [roles |-> roles, cameras |-> cameras, detection |-> detection, rest |-> "none",
     fps |-> "sampled"]
ThreeRoles == <<"front", "left", "right">>
ThreeCameras == <<"c1", "c2", "c3">>
Found == <<"none", "none", "none">>
GoodCapture == Capture(ThreeRoles, ThreeCameras, Found)
ContinuousCapture == [GoodCapture EXCEPT !.fps = "continuous"]

TestedCaptures == {GoodCapture,
                   Capture(ThreeRoles, <<"c1", "c1", "c3">>, Found),
                   Capture(<<"front", "left">>, <<"c1", "c2">>, Found),
                   Capture(ThreeRoles, ThreeCameras, <<"none", "mediapipe_face_count", "none">>)}

Solved == [pairs |-> {"deep", "point"}, finite |-> TRUE, posed |-> TRUE, disagreement |-> {},
           reprojects |-> TRUE]

SAvalue == [solutions |-> {Solved, [Solved EXCEPT !.disagreement = {"rotation"}]},
            captures |-> TestedCaptures \union {ContinuousCapture},
            owner |-> [g1 |-> "train", g2 |-> "test"],
            sampled |-> 1, runs |-> 2, edits |-> 2]

RCvalue == [takes |-> {"t1", "t2"}, frame |-> 2, expected |-> 3, received |-> 2]

\* Teachers that are reliable, too late, not approved, predicted or out of range.
Observation(skew, value, confidence, approved, state) ==
    [skew |-> skew, value |-> value, confidence |-> confidence, approved |-> approved,
     state |-> state]
Depth(skew, confidence, source, state) ==
    [skew |-> skew, confidence |-> confidence, source |-> source, direct |-> source # 3,
     state |-> state]

\* A label whose depth is out of step; a depth without the blendshape; a value beyond the
\* signal's limits and no depth; a value beyond the rule's range, tracked or not.
Content(tracked, present, value, depth, skew, confidence) ==
    [tracked |-> tracked, present |-> present, value |-> value, depth |-> depth, skew |-> skew,
     confidence |-> confidence]

LBvalue == [subject |-> [s1 |-> "p1", s2 |-> "p2"], raw |-> 3, teachers |-> 3,
            sequence |-> 1, time |-> 1, minimum |-> 1, maximum |-> 5,
            contents |-> {Content(TRUE, TRUE, 4, TRUE, -2, 1), Content(TRUE, FALSE, 6, TRUE, 1, 0),
                          Content(TRUE, TRUE, 5, FALSE, 0, 0), Content(TRUE, TRUE, 6, TRUE, 0, 1),
                          Content(FALSE, TRUE, 6, TRUE, 0, 1)},
            observations |->
               {Observation(0, v, c, TRUE, "observed") : v \in 2 .. 4, c \in 0 .. 2}
               \union {Observation(2, 4, 1, TRUE, "observed"),
                       Observation(1, 4, 1, FALSE, "observed"),
                       Observation(0, 4, 1, TRUE, "predicted"),
                       Observation(0, 0, 1, TRUE, "fused")},
            depths |-> {Depth(0, 1, 1, "observed"), Depth(1, 2, 2, "observed"),
                        Depth(-1, 1, 2, "observed"), Depth(2, 3, 1, "observed"),
                        Depth(0, 3, 1, "fused"), Depth(0, 3, 3, "observed")},
            skew |-> 1, low |-> 1, high |-> 4, disagreement |-> 1]

OCvalue == [baseline |-> [a |-> [neutral |-> 10, negative |-> 4, positive |-> 6],
                          b |-> [neutral |-> 10, negative |-> 1, positive |-> 4]],
            observed |-> {4, 10, 20}, drift |-> 1, fraction |-> 2, step |-> 1, span |-> 2,
            depth |-> 2, updates |-> 3]

PKvalue == [kinds |-> {"model", "adapter"}, models |-> {"m1", "m2"}, users |-> {"u1", "u2"},
            exports |-> 3]

ISvalue == [bins |-> 4, mass |-> 3, thresholds |-> {1, 2}]

CSvalue == [layouts |-> {l1, l2}, ids |-> {1}, u64 |-> 2, pending |-> 1, interval |-> 2,
            age |-> 0, skew |-> 1, uncertainty |-> 0, gap |-> 1, jump |-> 1,
            generation |-> 2, sequence |-> 1, time |-> 2, delay |-> 0]

CaptureValue(callers, next, starts) ==
    [takes |-> {"a", "b"}, kinds |-> <<"rgb", "arkit">>, handlers |-> callers,
     frames |-> next, runs |-> starts]
CallsValue == CaptureValue({t1, t2}, 1, 1)
FollowValue == CaptureValue({t1}, 2, 1)
RestartValue == CaptureValue({t1}, 1, 2)

Capturing == {"capture calls", "capture frames", "capture runs"}

\* One of the initial states, for a component that takes no part.
Pinned ==
    /\ \/ part = "stage a" /\ \E c \in TestedCaptures : captures = [g1 |-> c, g2 |-> ContinuousCapture]
       \/ part # "stage a" /\ captures = [g1 |-> GoodCapture, g2 |-> GoodCapture]
    /\ part = "reconciliation" \/ expected = {[take |-> "t1", first |-> 0, last |-> 0]}
    /\ part = "packages" \/ kind = "model"
    /\ part \in Capturing \/ take = "a"
    /\ part = "isotonic" \/ evidence = <<[correct |-> 0, mass |-> 2, at |-> 1],
                                         [correct |-> 0, mass |-> 2, at |-> 1]>>

\* The specification, from these initial states.
PinnedInit == part \in Parts /\ Pinned /\ Init

PinnedSpec == PinnedInit /\ [][Next]_vars /\ Fairness
=============================================================================
