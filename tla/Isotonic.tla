------------------------------- MODULE Isotonic -------------------------------
(***************************************************************************)
(* Monotone confidence calibration (evaluation/confidence.py): the bins of *)
(* a signal's evidence, in the order of the predicted confidence, are      *)
(* pooled where their shares of correct answers fall (_pav, one iteration  *)
(* of its loop a step), and bins of one predicted confidence are merged    *)
(* (fit_confidence_calibration).  A share is kept as correct over mass.    *)
(***************************************************************************)
EXTENDS Integers, Sequences, SequencesExt, FiniteSetsExt

CONSTANTS Bins, MaxMass, Thresholds

VARIABLES evidence,  \* of each bin: correct answers, samples, mean prediction
          blocks,    \* the pooled bins: their share and their first and last bin
          index,     \* counted from 1
          steps      \* ghost: iterations so far

vars == <<evidence, blocks, index, steps>>

Evidence == {e \in [correct : 0 .. MaxMass, mass : {MaxMass - 1, MaxMass}, at : Thresholds] :
                e.correct <= e.mass}

\* Sorted by prediction, so the means do not fall; the larger bins come first.
Init ==
    /\ evidence \in UNION {[1 .. n -> Evidence] : n \in 2 .. Bins}
    /\ \A i \in 1 .. Len(evidence) - 1 : /\ evidence[i].at <= evidence[i + 1].at
                                         /\ evidence[i].mass >= evidence[i + 1].mass
    /\ blocks = [i \in DOMAIN evidence |->
                    [correct |-> evidence[i].correct, mass |-> evidence[i].mass,
                     first |-> i, last |-> i]]
    /\ index = 1 /\ steps = 0

AtMost(a, b) == a.correct * b.mass <= b.correct * a.mass

Pool(a, b) ==
    [correct |-> a.correct + b.correct, mass |-> a.mass + b.mass, first |-> a.first, last |-> b.last]

Running == index < Len(blocks)

Advance ==
    /\ Running /\ AtMost(blocks[index], blocks[index + 1])
    /\ index' = index + 1 /\ steps' = steps + 1
    /\ UNCHANGED <<evidence, blocks>>

\* Variant: the search does not go back to the block before the pooled one.
Onward(i) == i

\* Where it goes on after it has pooled block i with the next.
Back(i) == IF i = 1 THEN 1 ELSE i - 1

PoolNext ==
    /\ Running /\ ~AtMost(blocks[index], blocks[index + 1])
    /\ blocks' = SubSeq(blocks, 1, index - 1) \o <<Pool(blocks[index], blocks[index + 1])>>
                   \o SubSeq(blocks, index + 2, Len(blocks))
    /\ index' = Back(index) /\ steps' = steps + 1
    /\ UNCHANGED evidence

Next == Advance \/ PoolNext

Spec == Init /\ [][Next]_vars

-----------------------------------------------------------------------------

BlockOf(i) == CHOOSE n \in DOMAIN blocks : i \in blocks[n].first .. blocks[n].last
Fitted == [i \in DOMAIN evidence |-> blocks[BlockOf(i)]]

LargerShare(a, b) == IF AtMost(a, b) THEN b ELSE a

\* Bins of one prediction become one point of the curve.
Curve ==
    LET point(i) == [at |-> evidence[i].at, share |-> Fitted[i]]
        merge(points, i) ==
            IF points # <<>> /\ evidence[i].at <= Last(points).at
            THEN [points EXCEPT ![Len(points)].share = LargerShare(@, Fitted[i])]
            ELSE Append(points, point(i))
    IN  FoldLeft(merge, <<>>, [i \in DOMAIN evidence |-> i])

-----------------------------------------------------------------------------
(* Properties *)

TypeOK ==
    /\ index \in 1 .. Len(blocks)
    /\ \A n \in 1 .. Len(blocks) - 1 : blocks[n + 1].first = blocks[n].last + 1
    /\ steps <= 2 * Len(evidence)

\* The share of correct answers in the bins i to j.
Between(i, j) ==
    LET sum(f(_)) == FoldLeft(LAMBDA s, k : s + f(k), 0, [k \in 1 .. j - i + 1 |-> i + k - 1])
    IN  [correct |-> sum(LAMBDA k : evidence[k].correct), mass |-> sum(LAMBDA k : evidence[k].mass)]

\* When pooling ends, every bin has the value of the isotonic regression: the
\* greatest over its left ends of the least over its right ends of the share
\* between them; and the curve the runtime looks a confidence up in never falls.
FitIsIsotonic ==
    ~Running =>
        /\ \A i \in DOMAIN evidence :
              /\ \A a \in 1 .. i : \E b \in i .. Len(evidence) : AtMost(Between(a, b), Fitted[i])
              /\ \E a \in 1 .. i : \A b \in i .. Len(evidence) : AtMost(Fitted[i], Between(a, b))
        /\ \A n \in 1 .. Len(Curve) - 1 :
              Curve[n].at < Curve[n + 1].at /\ AtMost(Curve[n].share, Curve[n + 1].share)
=============================================================================
