------------------------------ MODULE MCRunner ------------------------------
(* TLC instances of Runner. *)
EXTENDS Runner

\* Every directory of the instance overlaps every other: one holds the rest.
MCOverlaps == Dirs \X Dirs
=============================================================================
