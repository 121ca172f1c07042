---------------------------- MODULE Reconciliation ----------------------------
(***************************************************************************)
(* Comparing a session's chunks with the acknowledgements of the other     *)
(* side (data/capture.py, reconcile_chunks): which have to be sent again,  *)
(* as ranges of frames, which arrived damaged and which nobody recorded.   *)
(* Acknowledgements come in any order, from any number of transfers; a     *)
(* chunk acknowledged twice is refused.                                    *)
(*                                                                         *)
(* A chunk stands for its id.  A take here is a take and a kind of chunk.  *)
(***************************************************************************)
EXTENDS Integers, Sequences, SequencesExt, FiniteSetsExt

CONSTANTS Takes, MaxFrame, MaxExpected, MaxReceived

Chunk == {c \in [take : Takes, first : 0 .. MaxFrame, last : 0 .. MaxFrame] : c.first <= c.last}

VARIABLES expected,  \* the session's chunks
          received,  \* acknowledgements: what each chunk's digest was, intact or not
          refused    \* a chunk was acknowledged twice

vars == <<expected, received, refused>>

Overlap(c, d) == c.take = d.take /\ c.first <= d.last /\ d.first <= c.last

\* A session's chunks of one take and kind do not overlap.
Init ==
    /\ expected \in UNION {kSubset(n, Chunk) : n \in 1 .. MaxExpected}
    /\ \A c, d \in expected : c # d => ~Overlap(c, d)
    /\ received = <<>> /\ refused = FALSE

Acknowledge(c, intact) ==
    /\ Cardinality(DOMAIN received) < MaxReceived
    /\ IF c \in DOMAIN received
       THEN refused' = TRUE /\ UNCHANGED received
       ELSE refused' = refused /\ received' = [d \in DOMAIN received \union {c} |->
                                                  IF d = c THEN intact ELSE received[d]]
    /\ UNCHANGED expected

\* What the acknowledgements may name: the session's chunks and one of another session.
Stranger == CHOOSE c \in Chunk : c \notin expected

Next == \E c \in expected \union {Stranger}, intact \in BOOLEAN : Acknowledge(c, intact)

Spec == Init /\ [][Next]_vars

-----------------------------------------------------------------------------

Mismatched == {c \in expected \intersect DOMAIN received : ~received[c]}
Missing == (expected \ DOMAIN received) \union Mismatched
Unexpected == DOMAIN received \ expected

\* One order of the takes; the chunks of a take by their first frame.
TakeNumber == CHOOSE f \in [Takes -> 1 .. Cardinality(Takes)] : \A t, u \in Takes : f[t] = f[u] => t = u

Before(c, d) ==
    \/ TakeNumber[c.take] < TakeNumber[d.take]
    \/ c.take = d.take /\ c.first < d.first

\* Variant: ranges of different takes are joined.
AdjacentFrames(range, c) == range.last + 1 = c.first

Adjacent(range, c) == range.take = c.take /\ range.last + 1 = c.first

Extend(ranges, c) ==
    IF ranges # <<>> /\ Adjacent(Last(ranges), c)
    THEN [ranges EXCEPT ![Len(ranges)].last = c.last, ![Len(ranges)].chunks = Append(@, c)]
    ELSE Append(ranges, [take |-> c.take, first |-> c.first, last |-> c.last, chunks |-> <<c>>])

\* _group_chunks and _merge_missing_ranges
MissingRanges == FoldLeft(Extend, <<>>, SetToSortSeq(Missing, Before))

Complete == MissingRanges = <<>> /\ Mismatched = {} /\ Unexpected = {}

-----------------------------------------------------------------------------
(* Properties *)

TypeOK ==
    /\ expected \subseteq Chunk /\ DOMAIN received \subseteq Chunk
    /\ \A c \in DOMAIN received : received[c] \in BOOLEAN

Frames(take, r) == {<<take, n>> : n \in r.first .. r.last}

\* What is to be sent again is exactly the frames that did not arrive whole: the
\* ranges name every one of them and no other, none is named twice, no two could be
\* one, and a session counts as complete only if every chunk arrived whole.
RangesAreExact ==
    LET ranges == ToSet(MissingRanges)
    IN  /\ UNION {Frames(r.take, r) : r \in ranges} = UNION {Frames(c.take, c) : c \in Missing}
        /\ \A r \in ranges : UNION {Frames(c.take, c) : c \in ToSet(r.chunks)} = Frames(r.take, r)
        /\ Len(MissingRanges) = Cardinality(ranges)
        /\ \A q, r \in ranges : q # r => ~Overlap(q, r) /\ ~(q.take = r.take /\ q.last + 1 = r.first)
        /\ Complete => expected \subseteq {c \in DOMAIN received : received[c]}
=============================================================================
