------------------------------- MODULE Labelling -------------------------------
(***************************************************************************)
(* From raw ARKit frames to training labels (data/capture.py,              *)
(* convert_arkit_frames; data/labeling.py, materialize_dataset).  Frames   *)
(* become records in the order of their file, the records are checked once *)
(* more before they are labelled, and each signal is resolved from what    *)
(* the teachers observed of it.                                            *)
(*                                                                         *)
(* The device's record id is its session and sequence, so a record is its  *)
(* frame.  Of one signal and the rule that maps to it there are the limits *)
(* of its scalar type and the range of the rule; of a strategy whether     *)
(* source type, evidence and method are the ones it approves, which it may *)
(* do or not for what a rule derives.  Values, confidences and times are   *)
(* integers.                                                               *)
(***************************************************************************)
EXTENDS Integers, Sequences, SequencesExt, FiniteSetsExt

CONSTANTS Subject,                 \* of each session
          MaxRaw, MaxTeachers,     \* bounds
          MaxSequence, MaxTime,
          Contents,                \* what a frame may hold
          RuleMinimum, RuleMaximum,
          Observations,            \* what a teacher may say of the signal
          Depths,                  \* what a depth source may say
          MaxSkew, Low, High, DisagreementLimit

Sessions == DOMAIN Subject

VARIABLES raw,      \* the frames of the raw file
          teachers, \* the observations of one signal in a record, in order
          depths    \* the depth observations of a record, in order

vars == <<raw, teachers, depths>>

\* Contents: whether tracking was normal; whether the rule's blendshape is there, and the
\* value it maps to; whether there is depth, how far its time is from the image's, and
\* its confidence, which may be none.
Frame == [session : Sessions, sequence : 0 .. MaxSequence, time : 0 .. MaxTime,
          content : Contents]

\* A file, a record's observations and its depths are checked apart.
Init == raw = <<>> /\ teachers = <<>> /\ depths = <<>>

\* Whatever the files of several takes and sessions hold, one after the other.
RecordFrame(f) ==
    /\ teachers = <<>> /\ depths = <<>>
    /\ Len(raw) < MaxRaw /\ raw' = Append(raw, f)
    /\ UNCHANGED <<teachers, depths>>

Observe(o) ==
    /\ raw = <<>> /\ depths = <<>>
    /\ Len(teachers) < MaxTeachers /\ teachers' = Append(teachers, o)
    /\ UNCHANGED <<raw, depths>>

ObserveDepth(d) ==
    /\ raw = <<>> /\ teachers = <<>>
    /\ Len(depths) < MaxTeachers /\ depths' = Append(depths, d)
    /\ UNCHANGED <<raw, teachers>>

Next ==
    \/ \E f \in Frame : RecordFrame(f)
    \/ \E o \in Observations : Observe(o)
    \/ \E d \in Depths : ObserveDepth(d)

Spec == Init /\ [][Next]_vars

-----------------------------------------------------------------------------
(* convert_arkit_frames and _validate_record_contract both go through the   *)
(* frames in order and remember the last one of each session                *)

Follows(last, f) == f.sequence > last.sequence /\ f.time > last.time

Before(n) == {m \in 1 .. n - 1 : raw[m].session = raw[n].session}

\* _derive_arkit_label has something to derive a value from.
Derives(f) == f.content.tracked /\ f.content.present

\* It raises otherwise, also if a rule derives a value out of its range.
Converts ==
    /\ raw # <<>>
    /\ \A n \in DOMAIN raw : Before(n) # {} => Follows(raw[Max(Before(n))], raw[n])
    /\ \A n \in DOMAIN raw : Derives(raw[n]) => raw[n].content.value \in RuleMinimum .. RuleMaximum

\* Evidence and method of a label are its rule's: approved says if the strategy of the
\* signal takes them, from a source of this type.
DerivedLabel(f, approved) ==
    IF Derives(f)
    THEN [skew |-> 0, value |-> f.content.value, confidence |-> 1, approved |-> approved,
          state |-> "observed"]
    ELSE [skew |-> 0, value |-> Low - 1, confidence |-> 0, approved |-> approved,
          state |-> "unavailable"]

HasDepth(f) == f.content.tracked /\ f.content.depth

\* Variant: a depth gets the time of its frame.
DepthOfFrameTime(f) ==
    [skew |-> 0, confidence |-> IF HasDepth(f) THEN f.content.confidence ELSE 0, source |-> 1,
     direct |-> TRUE, state |-> IF HasDepth(f) THEN "observed" ELSE "unavailable"]

\* A depth keeps its own time and confidence, whatever becomes of the label.
DerivedDepth(f) ==
    [skew |-> f.content.skew, confidence |-> IF HasDepth(f) THEN f.content.confidence ELSE 0,
     source |-> 1, direct |-> TRUE, state |-> IF HasDepth(f) THEN "observed" ELSE "unavailable"]

RecordOf(f, approved) ==
    [id |-> <<f.session, f.sequence>>, identity |-> Subject[f.session], session |-> f.session,
     sequence |-> f.sequence, time |-> f.time,
     teachers |-> <<DerivedLabel(f, approved)>>, depths |-> <<DerivedDepth(f)>>]

Records(approved) == [n \in DOMAIN raw |-> RecordOf(raw[n], approved)]

\* The splits own identities; every identity of the dataset has one, and the
\* sources are those of its mappings.
ContractAccepts(rs) ==
    /\ \A m, n \in DOMAIN rs : rs[m].id = rs[n].id => m = n
    /\ \A m, n \in DOMAIN rs : rs[m].session = rs[n].session => rs[m].identity = rs[n].identity
    /\ \A n \in DOMAIN rs :
          LET before == {m \in 1 .. n - 1 : rs[m].session = rs[n].session}
          IN  before # {} => /\ rs[Max(before)].sequence < rs[n].sequence
                             /\ rs[Max(before)].time < rs[n].time

-----------------------------------------------------------------------------
(* _resolve_signal *)

Magnitude(n) == IF n < 0 THEN -n ELSE n

\* What a strategy may accept; predicted observations are never training truth.
AcceptedStates == {"observed", "fused"}

\* _matches_strategy
MatchesStrategy(o) == o.approved /\ o.state \in AcceptedStates

Reliable(o) == Magnitude(o.skew) <= MaxSkew /\ MatchesStrategy(o) /\ o.value \in Low .. High

Reason(o) ==
    IF Magnitude(o.skew) > MaxSkew THEN "unsynchronized"
    ELSE IF o.state \notin AcceptedStates THEN "unreliable_observation"
    ELSE IF ~o.approved THEN "unapproved_provenance" ELSE "invalid_value"

Unavailable(reason) == [state |-> "unavailable", reason |-> reason]

\* Variant: the first reliable teacher decides.
ResolveByFirst(ts) ==
    LET candidates == SelectSeq(ts, Reliable)
        first == Head(candidates)
    IN  IF candidates = <<>> THEN Unavailable("not_observed")
        ELSE IF first.confidence = 0 THEN Unavailable("zero_confidence")
        ELSE [state |-> "available", total |-> first.confidence,
              sum |-> first.value * first.confidence, least |-> first.confidence, spread |-> 0]

\* The weighted mean is kept as its numerator and denominator, the confidence as
\* the least weight and the spread that lowers it.
Resolve(ts) ==
    LET candidates == SelectSeq(ts, Reliable)
        rejected == SelectSeq(ts, LAMBDA o : ~Reliable(o))
        values == {o.value : o \in ToSet(candidates)}
        weights == [n \in DOMAIN candidates |-> candidates[n].confidence]
        spread == Max(values) - Min(values)
        total == FoldLeft(LAMBDA sum, o : sum + o.confidence, 0, candidates)
    IN  IF candidates = <<>>
        THEN Unavailable(IF rejected = <<>> THEN "not_observed" ELSE Reason(Last(rejected)))
        ELSE IF spread > DisagreementLimit THEN Unavailable("teacher_disagreement")
        ELSE IF total = 0 THEN Unavailable("zero_confidence")
        ELSE [state |-> "available", total |-> total,
              sum |-> FoldLeft(LAMBDA sum, o : sum + o.value * o.confidence, 0, candidates),
              least |-> Min({weights[n] : n \in DOMAIN weights}), spread |-> spread]

-----------------------------------------------------------------------------
(* _resolve_depth: the synchronized direct observation of the highest confidence *)

Direct(d) == Magnitude(d.skew) <= MaxSkew /\ d.direct /\ d.state = "observed"

Preferred(d, e) ==
    d.confidence > e.confidence \/ (d.confidence = e.confidence /\ d.source <= e.source)

ResolveDepth(ds) ==
    LET reliable == SelectSeq(ds, Direct)
    IN  IF reliable = <<>> THEN Unavailable("not_reliably_observed")
        ELSE LET best == CHOOSE d \in ToSet(reliable) : \A e \in ToSet(reliable) : Preferred(d, e)
             IN  [state |-> "available", confidence |-> best.confidence, source |-> best.source]

\* materialize_dataset
Materialized(rs) ==
    [n \in DOMAIN rs |-> [label |-> Resolve(rs[n].teachers), depth |-> ResolveDepth(rs[n].depths)]]

-----------------------------------------------------------------------------
(* Properties *)

TypeOK ==
    /\ raw \in Seq(Frame) /\ Len(raw) <= MaxRaw
    /\ teachers \in Seq(Observations) /\ Len(teachers) <= MaxTeachers
    /\ depths \in Seq(Depths) /\ Len(depths) <= MaxTeachers

\* A file of frames the conversion takes becomes records the labelling takes: the two
\* checks, written apart, agree on what an ordered session is.  A frame gets a label
\* exactly if it was tracked, has the blendshape, its rule is approved for the signal
\* and the value within the limits of the signal's type, and a depth exactly if it was
\* tracked and its depth is in step with the image: one without the other, either way.
ConvertedIsLabelled ==
    Converts => \A approved \in BOOLEAN :
        LET records == Records(approved)
            made == Materialized(records)
        IN  /\ ContractAccepts(records)
            /\ \A n \in DOMAIN raw :
                  LET content == raw[n].content
                  IN  /\ made[n].label =
                            IF ~(content.tracked /\ content.present)
                            THEN Unavailable("unreliable_observation")
                            ELSE IF ~approved THEN Unavailable("unapproved_provenance")
                            ELSE IF content.value \notin Low .. High
                            THEN Unavailable("invalid_value")
                            ELSE [state |-> "available", total |-> 1, sum |-> content.value,
                                  least |-> 1, spread |-> 0]
                      /\ made[n].depth.state = "available" <=>
                            /\ content.tracked /\ content.depth
                            /\ Magnitude(content.skew) <= MaxSkew

\* A label does not depend on the order in which the teachers are listed, only its
\* reason for being unavailable does; it lies between the values of the reliable
\* teachers, which differ by no more than the limit, and no unreliable one moves it.
LabelIsOfReliableTeachers ==
    LET reliable == SelectSeq(teachers, Reliable)
        label == Resolve(teachers)
    IN  /\ label.state = Resolve(Reverse(teachers)).state
        /\ label.state = "available" =>
              /\ label = Resolve(Reverse(teachers)) /\ label = Resolve(reliable)
              /\ \A o \in ToSet(reliable) :
                    Magnitude(label.sum - o.value * label.total) <= DisagreementLimit * label.total

\* Nor does the depth, which is never one that was predicted, fused or out of step.
DepthIsDirect ==
    /\ ResolveDepth(depths) = ResolveDepth(Reverse(depths))
    /\ ResolveDepth(depths) = ResolveDepth(SelectSeq(depths, Direct)) \/ SelectSeq(depths, Direct) = <<>>
=============================================================================
