-------------------------- MODULE MCStudioControl --------------------------
(* StudioControl on a small instance, for TLC.                             *)
EXTENDS StudioControl, TLC

\* Takes and callers are only ever compared: permuting them changes nothing.
ControlSymmetry == Permutations(Take) \cup Permutations(Caller)
=============================================================================
