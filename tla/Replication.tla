---------------------------- MODULE Replication ----------------------------
(***************************************************************************)
(* What local-first capture promises, with crashes, retries and messages   *)
(* out of sight: a chunk is recorded once and kept, is copied to a replica *)
(* only from the source, and is released at the source only after it has   *)
(* been copied.  docs/data/capture-archive-v1.md states it for the         *)
(* recorder and the studio.                                                *)
(***************************************************************************)
CONSTANT Descriptor

VARIABLES
  source,     \* the chunks the recorder holds durably
  replica,    \* the chunks the studio holds durably
  released    \* the chunks the recorder knows to be replicated

vars == <<source, replica, released>>

Init == source = {} /\ replica = {} /\ released = {}

Record(d) ==
  /\ \A e \in source : e.id # d.id
  /\ source' = source \cup {d}
  /\ UNCHANGED <<replica, released>>

Replicate(d) ==
  /\ d \in source
  /\ replica' = replica \cup {d}
  /\ UNCHANGED <<source, released>>

Release(d) ==
  /\ d \in replica
  /\ released' = released \cup {d}
  /\ UNCHANGED <<source, replica>>

Next == \E d \in Descriptor : Record(d) \/ Replicate(d) \/ Release(d)

Spec == Init /\ [][Next]_vars
=============================================================================
