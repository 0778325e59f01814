---------------------------- MODULE MCSyncQueue ----------------------------
(* Instances of SyncQueue for TLC. *)
EXTENDS SyncQueue, TLC

Symmetry == Permutations(Threads) \union Permutations(Values)
=============================================================================
