---------------------------- MODULE MCSyncObject ----------------------------
(* Instances of SyncObject for TLC. *)
EXTENDS SyncObject, TLC

ThreadSymmetry == Permutations(Threads)
=============================================================================
