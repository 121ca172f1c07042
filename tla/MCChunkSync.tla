---------------------------- MODULE MCChunkSync ----------------------------
(* ChunkSync on a small instance, for TLC.                                 *)
EXTENDS ChunkSync, TLC

\* Ids, contents and syncers are only ever compared: permuting them changes nothing.
SyncSymmetry == Permutations(Id) \cup Permutations(Data) \cup Permutations(Syncer)
=============================================================================
