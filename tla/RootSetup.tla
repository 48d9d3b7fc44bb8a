----------------------------- MODULE RootSetup -----------------------------
(***************************************************************************)
(* How a local directory becomes a sync root and stops being one.  A root  *)
(* is a row of the sync_roots table plus a marker file in the directory    *)
(* that names the row's UUID; `root add` and `root remove` keep the two    *)
(* together although no transaction spans them.  The commands are          *)
(* processes of their own that interleave with each other and with the     *)
(* daemon (module Runner), and may be killed between any two steps.        *)
(*                                                                         *)
(* Each `root add` draws a fresh UUID, so the process is named by it.      *)
(***************************************************************************)
EXTENDS Naturals, FiniteSets

CONSTANTS Uuids,        \* UUIDs that `root add` may draw, each once
          Dirs,         \* local directories, paired with remote directories
          Overlaps,     \* pairs of directories of which one contains the other
          SymlinkModes, \* policies root config may choose from (copy excluded)
          None

ASSUME RootSetupAssumption ==
  /\ Overlaps \subseteq Dirs \X Dirs
  /\ \A d \in Dirs : <<d, d>> \in Overlaps
  /\ \A d, e \in Dirs : <<d, e>> \in Overlaps => <<e, d>> \in Overlaps
  /\ None \notin Uuids \union Dirs \union SymlinkModes

VARIABLES
  rows,    \* the sync_roots table: UUID -> row or None
  queued,  \* roots that have rows in the operations table
  writer,  \* the `root add` that holds SQLite's write lock, or None
  marker,  \* directory -> UUID in its marker file, or None
  adding,  \* progress of each `root add`
  removal, \* progress of `root remove`
  lease    \* owner of the per-user daemon lease

setupVars == <<rows, queued, writer, marker, adding, removal, lease>>

Rows == [dir : Dirs, enabled : BOOLEAN, mode : SymlinkModes]
Registered == {u \in Uuids : rows[u] # None}
Enabled(u) == u \in Registered /\ rows[u].enabled
MarkerHolds(u) == marker[rows[u].dir] = u

\* `root remove` works on one root: "checked" once its preconditions were
\* read, "unmarked" once the marker is gone, "failed" when the row stays.
Removals == [stage : {"checked", "unmarked", "failed"}, root : Uuids, missing : BOOLEAN]

\* No row, and no removal, is one of its own.
ASSUME NoneAssumption == None \notin Rows \union Removals

SetupTypeOK ==
  /\ rows \in [Uuids -> Rows \union {None}]
  /\ queued \subseteq Registered
  /\ writer \in Uuids \union {None}
  /\ marker \in [Dirs -> Uuids \union {None}]
  /\ adding \in [Uuids -> [stage : {"new", "reserved", "marked", "over"},
                           dir : Dirs \union {None}]]
  /\ removal \in Removals \union {None}
  /\ lease \in {"free", "daemon", "remove"}

SetupInit ==
  /\ rows = [u \in Uuids |-> None]
  /\ queued = {}
  /\ writer = None
  /\ marker = [d \in Dirs |-> None]
  /\ adding = [u \in Uuids |-> [stage |-> "new", dir |-> None]]
  /\ removal = None
  /\ lease = "free"

(***************************************************************************)
(* root add                                                                *)
(***************************************************************************)

\* Mutant of Reserve: a deferred transaction, whose ownership check is only a read.
ReserveDeferred(u, d) ==
  /\ adding[u].stage = "new"
  /\ \A v \in Registered : <<rows[v].dir, d>> \notin Overlaps
  /\ writer' = u
  /\ adding' = [adding EXCEPT ![u] = [stage |-> "reserved", dir |-> d]]
  /\ UNCHANGED <<rows, queued, marker, removal, lease>>

\* PrepareSyncRootCreate: BEGIN IMMEDIATE, then the ownership check, whose
\* outcome the write lock keeps true until the row is inserted.
Reserve(u, d) ==
  /\ adding[u].stage = "new"
  /\ writer = None
  /\ \A v \in Registered : <<rows[v].dir, d>> \notin Overlaps
  /\ writer' = u
  /\ adding' = [adding EXCEPT ![u] = [stage |-> "reserved", dir |-> d]]
  /\ UNCHANGED <<rows, queued, marker, removal, lease>>

\* rootmarker.Ensure creates the marker and never replaces another.
WriteMarker(u) ==
  /\ adding[u].stage = "reserved"
  /\ marker[adding[u].dir] = None
  /\ marker' = [marker EXCEPT ![adding[u].dir] = u]
  /\ adding' = [adding EXCEPT ![u].stage = "marked"]
  /\ UNCHANGED <<rows, queued, writer, removal, lease>>

\* --recover-orphan-marker: whatever marker the directory has is removed, and
\* Ensure runs again.
DropOrphanMarker(u) ==
  /\ adding[u].stage = "reserved"
  /\ marker[adding[u].dir] # None
  /\ marker' = [marker EXCEPT ![adding[u].dir] = None]
  /\ UNCHANGED <<rows, queued, writer, adding, removal, lease>>

\* Mutant of CommitRow: the row is committed before the marker is there.
CommitRowFirst(u) ==
  /\ adding[u].stage \in {"reserved", "marked"}
  /\ \E m \in SymlinkModes :
       rows' = [rows EXCEPT ![u] = [dir |-> adding[u].dir, enabled |-> TRUE, mode |-> m]]
  /\ writer' = None
  /\ adding' = [adding EXCEPT ![u].stage = "over"]
  /\ UNCHANGED <<queued, marker, removal, lease>>

CommitRow(u) ==
  /\ adding[u].stage = "marked"
  /\ \E m \in SymlinkModes :
       rows' = [rows EXCEPT ![u] = [dir |-> adding[u].dir, enabled |-> TRUE, mode |-> m]]
  /\ writer' = None
  /\ adding' = [adding EXCEPT ![u].stage = "over"]
  /\ UNCHANGED <<queued, marker, removal, lease>>

\* A marker of somebody else without the recovery flag, an error of Commit, or
\* the death of the process: SQLite rolls the reservation back and the marker,
\* if it was written, stays.
AbandonAdd(u) ==
  /\ adding[u].stage \in {"reserved", "marked"}
  /\ writer' = None
  /\ adding' = [adding EXCEPT ![u].stage = "over"]
  /\ UNCHANGED <<rows, queued, marker, removal, lease>>

(***************************************************************************)
(* root pause, resume, config and conflict resolve: single statements that *)
(* take no daemon lease.                                                   *)
(***************************************************************************)

SetSyncRootEnabled(u, enabled) ==
  /\ writer = None /\ u \in Registered
  /\ rows[u].enabled # enabled
  /\ rows' = [rows EXCEPT ![u].enabled = enabled]
  /\ UNCHANGED <<queued, writer, marker, adding, removal, lease>>

SetSyncRootSymlinkMode(u, mode) ==
  /\ writer = None /\ u \in Registered
  /\ ~rows[u].enabled /\ u \notin queued
  /\ rows[u].mode # mode
  /\ rows' = [rows EXCEPT ![u].mode = mode]
  /\ UNCHANGED <<queued, writer, marker, adding, removal, lease>>

\* Mutant of CreateOperation: foreign keys are not enforced.
CreateOperationUnchecked(u) ==
  /\ writer = None
  /\ queued' = queued \union {u}
  /\ UNCHANGED <<rows, writer, marker, adding, removal, lease>>

\* `conflict resolve` queues an operation; the insert fails without the row it
\* refers to. Which roots have conflicts to resolve is left open.
CreateOperation(u) ==
  /\ writer = None /\ u \in Registered
  /\ queued' = queued \union {u}
  /\ UNCHANGED <<rows, writer, marker, adding, removal, lease>>

(***************************************************************************)
(* root remove                                                             *)
(***************************************************************************)

\* Mutant of BeginRemove: `root remove` does not take the daemon lease.
BeginRemoveUnleased(u) ==
  /\ removal = None
  /\ u \in Registered /\ ~rows[u].enabled /\ u \notin queued
  /\ removal' = [stage |-> "checked", root |-> u, missing |-> FALSE]
  /\ UNCHANGED <<rows, queued, writer, marker, adding, lease>>

\* The command takes the daemon lease and holds it to its end.
BeginRemove(u) ==
  /\ lease = "free"
  /\ u \in Registered /\ ~rows[u].enabled /\ u \notin queued
  /\ lease' = "remove"
  /\ removal' = [stage |-> "checked", root |-> u, missing |-> FALSE]
  /\ UNCHANGED <<rows, queued, writer, marker, adding>>

\* rootmarker.Remove: a missing marker is what an earlier, interrupted removal
\* leaves behind and does not stop this one.
RemoveMarker ==
  /\ removal # None /\ removal.stage = "checked"
  /\ LET d == rows[removal.root].dir
     IN /\ marker[d] \in {None, removal.root}
        /\ marker' = [marker EXCEPT ![d] = None]
        /\ removal' = [removal EXCEPT !.stage = "unmarked", !.missing = marker[d] = None]
  /\ UNCHANGED <<rows, queued, writer, adding, lease>>

\* Mutant of Deletable: the DELETE trusts the checks made before the marker went.
DeletableAsChecked(u) == TRUE

\* DeleteSyncRoot: the guard is evaluated by the DELETE itself.
Deletable(u) == ~rows[u].enabled /\ u \notin queued

DeleteRow ==
  /\ removal # None /\ removal.stage = "unmarked"
  /\ writer = None /\ Deletable(removal.root)
  /\ rows' = [rows EXCEPT ![removal.root] = None]
  /\ queued' = queued \ {removal.root}
  /\ removal' = None
  /\ lease' = "free"
  /\ UNCHANGED <<writer, marker, adding>>

\* The guard does not hold any more, or the statement fails.
DeleteRefused ==
  /\ removal # None /\ removal.stage = "unmarked"
  /\ removal' = [removal EXCEPT !.stage = "failed"]
  /\ UNCHANGED <<rows, queued, writer, marker, adding, lease>>

RestoreMarker ==
  /\ removal # None /\ removal.stage = "failed"
  /\ LET d == rows[removal.root].dir
     IN marker' = IF removal.missing \/ marker[d] # None THEN marker
                  ELSE [marker EXCEPT ![d] = removal.root]
  /\ removal' = None
  /\ lease' = "free"
  /\ UNCHANGED <<rows, queued, writer, adding>>

\* The process dies, or a file operation on the marker fails: the lease is
\* free again and everything else stays as it is.
AbandonRemove ==
  /\ removal # None
  /\ removal' = None
  /\ lease' = "free"
  /\ UNCHANGED <<rows, queued, writer, marker, adding>>

AddStep(u) ==
  \/ \E d \in Dirs : Reserve(u, d)
  \/ WriteMarker(u) \/ DropOrphanMarker(u) \/ CommitRow(u) \/ AbandonAdd(u)

ConfigStep(u) ==
  \/ \E enabled \in BOOLEAN : SetSyncRootEnabled(u, enabled)
  \/ \E mode \in SymlinkModes : SetSyncRootSymlinkMode(u, mode)
  \/ CreateOperation(u)

RemoveStep ==
  \/ \E u \in Uuids : BeginRemove(u)
  \/ RemoveMarker \/ DeleteRow \/ DeleteRefused \/ RestoreMarker \/ AbandonRemove

CommandStep == (\E u \in Uuids : AddStep(u) \/ ConfigStep(u)) \/ RemoveStep

(***************************************************************************)
(* Properties                                                              *)
(***************************************************************************)

\* No two registered roots contain one another, however many `root add`
\* commands race: checkSyncRootOwnershipAgainst decides under the write lock.
RootsDisjoint ==
  \A u, v \in Registered : u # v => <<rows[u].dir, rows[v].dir>> \notin Overlaps

\* A root's row never comes into being without its marker, and a registered
\* root loses its marker to its own removal only, not to `root add
\* --recover-orphan-marker` for the same or another directory.
MarkerFences ==
  [][\A u \in Uuids :
       /\ rows[u] = None /\ rows'[u] # None => marker'[rows'[u].dir] = u
       /\ rows[u] # None /\ rows'[u] # None /\ MarkerHolds(u) /\ marker'[rows[u].dir] # u
            => removal # None /\ removal.root = u]_setupVars

\* `root remove` decides long before it deletes: a pause that was lifted or a
\* resolution that was queued meanwhile must keep the root and its operations.
RemovalKeepsWork ==
  [][\A u \in Uuids : rows[u] # None /\ rows'[u] = None
       => u \notin queued /\ ~rows[u].enabled]_setupVars
=============================================================================
