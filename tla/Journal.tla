------------------------------ MODULE Journal ------------------------------
(***************************************************************************)
(* The append-only JSONL journal both ends of a capture session keep on    *)
(* disk (data/journal.py and the private helpers of                        *)
(* LocalChunkRecorder.swift).  A journal is the sequence of its            *)
(* newline-terminated records and the state of what follows the last       *)
(* newline:                                                                *)
(*                                                                         *)
(*   "none"   nothing follows it;                                          *)
(*   "torn"   a fragment that does not parse follows it;                   *)
(*   "whole"  the LAST record of lines is complete but for its newline.    *)
(*                                                                         *)
(* A record that is glued to what an interrupted append left behind does   *)
(* not parse; such a line is the value Corrupt.                            *)
(***************************************************************************)
EXTENDS Integers, SequencesExt

CONSTANT Corrupt

TailState == {"none", "torn", "whole"}

\* The journals whose records are taken from Record.
JournalOf(Record) == [lines : Seq(Record \cup {Corrupt}), tail : TailState]

EmptyJournal == [lines |-> <<>>, tail |-> "none"]

\* The records a reader finds in a journal.
Records(j) == ToSet(j.lines)

(***************************************************************************)
(* append_jsonl: record and newline are written, flushed and synced.  The  *)
(* append never looks at what the file already ends with.                  *)
(***************************************************************************)
AppendRecord(j, r) ==
  CASE j.tail = "none"  -> [lines |-> Append(j.lines, r), tail |-> "none"]
    [] j.tail = "torn"  -> [lines |-> Append(j.lines, Corrupt), tail |-> "none"]
    [] j.tail = "whole" -> [lines |-> Append(Front(j.lines), Corrupt), tail |-> "none"]

(***************************************************************************)
(* What the file may hold when an append stops part-way, because the       *)
(* process dies in it or because write or fsync raises.                    *)
(***************************************************************************)
InterruptedAppend(j, r) ==
  {j, AppendRecord(j, r)} \cup
    CASE j.tail = "none"  -> {[lines |-> j.lines, tail |-> "torn"],
                              [lines |-> Append(j.lines, r), tail |-> "whole"]}
      [] j.tail = "torn"  -> {j}
      [] j.tail = "whole" -> {[lines |-> Front(j.lines), tail |-> "torn"]}

(***************************************************************************)
(* load_jsonl repairs what follows the last newline: a complete record     *)
(* gets its newline, a torn one is truncated.  A newline-terminated line   *)
(* that does not parse is an error, and the journal is refused.            *)
(***************************************************************************)
Readable(j) == Corrupt \notin Records(j)

\* Variants: nothing is repaired; a complete record without its newline is cut off as well.
Unrepaired(j) == j

Truncated(j) ==
  [lines |-> IF j.tail = "whole" THEN Front(j.lines) ELSE j.lines, tail |-> "none"]

Repaired(j) == [j EXCEPT !.tail = "none"]
=============================================================================
