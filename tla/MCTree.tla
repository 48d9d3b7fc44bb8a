------------------------------ MODULE MCTree ------------------------------
(* TLC instances of Tree. *)
EXTENDS Tree

\* All versions have one size: only the bytes tell them apart.
MCSizeOf == [v \in Versions |-> 1]
=============================================================================
