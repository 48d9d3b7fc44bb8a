-------------------------- MODULE SyncCycleJournal --------------------------
(***************************************************************************)
(* The sync cycle implements the operation journal of OperationJournal.    *)
(***************************************************************************)
EXTENDS SyncCycle

\* How far operation o is, read off the journal and the next free ID.
StageOf(o) ==
  CASE o >= nextOp                                    -> "free"
    [] o < nextOp /\ journal[o] = Absent              -> "settled"
    [] o < nextOp /\ journal[o] # Absent ->
         IF journal[o].phase \in {"running", "recovering"} THEN "started"
                                                           ELSE journal[o].phase

Journal == INSTANCE OperationJournal WITH
             Ops   <- OpIds,
             stage <- [o \in OpIds |-> StageOf(o)],
             held  <- {o \in OpIds : slot[o] # Absent},
             done  <- applied

\* Through every crash, failing call, command and edit the journal is written
\* ahead of the effect, an operation is forgotten without an outcome only when
\* it did nothing, data is put aside at most once and never abandoned, and
\* only the operator moves a blocked operation on.
JournalKept == Journal!Spec
=============================================================================
