---------------------------- MODULE MCReconcile ----------------------------
(* TLC instances of Reconcile. *)
EXTENDS Reconcile, TLC

\* Versions 1 and 2 have the same size, so only their bytes tell them apart;
\* version 3 is longer.
MCSizeOf == [v \in Versions |-> IF v = 3 THEN 2 ELSE 1]

PathSymmetry == Permutations(Paths)
=============================================================================
