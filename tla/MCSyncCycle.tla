---------------------------- MODULE MCSyncCycle ----------------------------
(* TLC instances of SyncCycle. *)
EXTENDS SyncCycleJournal, TLC

\* All versions have one size: only the bytes tell them apart.
MCSizeOf == [v \in Versions |-> 1]

PathSymmetry == Permutations(Paths)
=============================================================================
