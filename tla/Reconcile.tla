----------------------------- MODULE Reconcile -----------------------------
(***************************************************************************)
(* One sync root whose reconciliation passes run undisturbed: what the     *)
(* planner and the coordinator promise when nothing changes between the    *)
(* scan and the last operation of a pass.  SyncCycle takes the same pass   *)
(* apart into the steps that users, other clients and crashes interleave   *)
(* with.                                                                   *)
(*                                                                         *)
(* Between passes the user edits the local tree, other clients edit the    *)
(* remote tree, and the user resolves recorded conflicts.  A path holds a  *)
(* file or a directory; nesting is left to a module of its own.            *)
(***************************************************************************)
EXTENDS Planner

CONSTANTS Paths,     \* relative paths of the root
          MaxEdits   \* bound: edits by the user and by other clients

ASSUME ReconcileAssumption == IsFiniteSet(Paths) /\ MaxEdits \in Nat

VARIABLES
  local,        \* local tree: path -> local fingerprint or Absent
  remote,       \* remote tree: path -> remote fingerprint or Absent
  baseline,     \* entry_baselines: what both sides held when last in sync
  conflicts,    \* unresolved rows of the conflicts table
  initialized,  \* sync_roots.initialized
  tick,         \* last remote object ID or revision the server gave out
  edits         \* edits made so far

vars == <<local, remote, baseline, conflicts, initialized, tick, edits>>

NoConflict == [kind |-> "none", local |-> Absent, remote |-> Absent]

LocalEntries == [kind : {"file"}, ver : Versions] \union [kind : {"dir"}, ver : {0}]

RemoteEntries ==
  [kind : {"file"}, id : 1..tick, rev : 1..tick, ver : Versions]
    \union [kind : {"dir"}, id : 1..tick, rev : {0}, ver : {0}]

\* The missing entry is told apart from every entry.
ASSUME AbsentAssumption ==
  Absent \notin LocalEntries \union [kind : Kinds, id : Nat, rev : Nat, ver : Nat]

\* The type invariant of the root's two trees and of the store rows about it.
TypeOK ==
  /\ local \in [Paths -> LocalEntries \union {Absent}]
  /\ remote \in [Paths -> RemoteEntries \union {Absent}]
  /\ baseline \in [Paths -> [local : LocalEntries \union {Absent},
                             remote : RemoteEntries \union {Absent}]]
  /\ conflicts \in [Paths -> [kind : ConflictKinds \union {"none"},
                              local : LocalEntries \union {Absent},
                              remote : RemoteEntries \union {Absent}]]
  /\ initialized \in BOOLEAN
  /\ tick \in Nat
  /\ edits \in 0..MaxEdits

Init ==
  /\ local = [p \in Paths |-> Absent]
  /\ remote = [p \in Paths |-> Absent]
  /\ baseline = [p \in Paths |-> EmptyBaseline]
  /\ conflicts = [p \in Paths |-> NoConflict]
  /\ initialized = FALSE
  /\ tick = 0
  /\ edits = 0

(***************************************************************************)
(* The pass                                                                *)
(***************************************************************************)

\* Mutant of ContentEvidence: only the sizes are compared.
SizeEvidence(p) ==
  IF PlanPath(initialized, baseline[p], local[p], remote[p], "unknown").kind
       # "compare-content" THEN "unknown"
  ELSE IF SizeOf[local[p].ver] = SizeOf[remote[p].ver] THEN "equal" ELSE "different"

\* The bytes of a path are compared exactly when the plan asks for it.
ContentEvidence(p) ==
  IF PlanPath(initialized, baseline[p], local[p], remote[p], "unknown").kind
       # "compare-content" THEN "unknown"
  ELSE IF local[p].ver = remote[p].ver THEN "equal" ELSE "different"

Plan == PlanFullSnapshot(initialized, baseline, local, remote,
                         [p \in Paths |-> ContentEvidence(p)])

Blocked == PlanBlocked(initialized, baseline, Plan)

\* The entry an upload leaves: the object keeps its ID, the revision is new.
Uploaded(l, r, newTick) ==
  IF l.kind = "dir" THEN [kind |-> "dir", id |-> newTick, rev |-> 0, ver |-> 0]
  ELSE [kind |-> "file", id |-> IF r = Absent THEN newTick ELSE r.id,
        rev |-> newTick, ver |-> l.ver]

\* Mutant of Downloaded: the remote fingerprint is kept for the local one.
DownloadedAsRemote(r) == r

Downloaded(r) == [kind |-> r.kind, ver |-> r.ver]

\* The local and remote entry of p after its decision has been executed.
LocalAfter(d, l, r) ==
  CASE d = "ensure-local" -> Downloaded(r)
    [] d = "delete-local" -> Absent
    [] d \notin {"ensure-local", "delete-local"} -> l

RemoteAfter(d, l, r, newTick) ==
  CASE d = "ensure-remote" -> Uploaded(l, r, newTick)
    [] d = "delete-remote" -> Absent
    [] d \notin {"ensure-remote", "delete-remote"} -> r

\* A completed operation and a commit-baseline both record the current pair,
\* a completed delete and a drop-baseline both remove the record.
BaselineAfter(d, b, l, r) ==
  IF d \in {"noop", "conflict"} THEN b
  ELSE IF l = Absent /\ r = Absent THEN EmptyBaseline
  ELSE [local |-> l, remote |-> r]

\* Mutant of ConflictAfter: conflicts are not recorded.
ConflictForgotten(d, l, r) == NoConflict

\* reconcileConflictRecords: a record that no longer describes the current
\* pair is resolved, a current conflict without a record gets one.
ConflictAfter(d, l, r) ==
  IF d.kind = "conflict" THEN [kind |-> d.conflict, local |-> l, remote |-> r]
                         ELSE NoConflict

External(plan) == {p \in Paths : plan[p].kind \in ExternalKinds}

\* What executing a plan leaves on both sides and in the conflicts table.
LocalLeft(plan) == [p \in Paths |-> LocalAfter(plan[p].kind, local[p], remote[p])]

RemoteLeft(plan) ==
  [p \in Paths |-> RemoteAfter(plan[p].kind, local[p], remote[p], tick + 1)]

ConflictsLeft(plan) == [p \in Paths |-> ConflictAfter(plan[p], local[p], remote[p])]

\* One pass of runRootCycle over an undisturbed root: conflicts, baselines,
\* then either the external operations or, when there are none, the end of
\* the initial pairing.
Pass ==
  LET plan == Plan
  IN /\ ~Blocked
     /\ conflicts' = ConflictsLeft(plan)
     /\ local' = LocalLeft(plan) /\ remote' = RemoteLeft(plan)
     /\ baseline' = [p \in Paths |->
                       BaselineAfter(plan[p].kind, baseline[p], local'[p], remote'[p])]
     /\ tick' = IF remote' = remote THEN tick ELSE tick + 1
     /\ initialized' = \/ initialized
                       \/ External(plan) = {} /\ conflicts' = [p \in Paths |-> NoConflict]
     /\ UNCHANGED edits

(***************************************************************************)
(* The user, other clients, and conflict resolution                        *)
(***************************************************************************)

Edit == edits < MaxEdits /\ edits' = edits + 1

LocalEdit(p) ==
  /\ Edit
  /\ \E e \in LocalEntries \union {Absent} : e # local[p] /\ local' = [local EXCEPT ![p] = e]
  /\ UNCHANGED <<remote, baseline, conflicts, initialized, tick>>

RemotePut(p) ==
  /\ Edit
  /\ \E l \in LocalEntries, keepId \in BOOLEAN :
       /\ keepId => remote[p] # Absent /\ remote[p].kind = "file" /\ l.kind = "file"
       /\ remote' = [remote EXCEPT ![p] =
                       Uploaded(l, IF keepId THEN remote[p] ELSE Absent, tick + 1)]
  /\ tick' = tick + 1
  /\ UNCHANGED <<local, baseline, conflicts, initialized>>

RemoteRemove(p) ==
  /\ Edit
  /\ remote[p] # Absent
  /\ remote' = [remote EXCEPT ![p] = Absent]
  /\ UNCHANGED <<local, baseline, conflicts, initialized, tick>>

Resolutions == {"keep-local", "keep-remote"}

\* OperationForConflictResolution, as the decision kind its operation has.
ResolutionKind(c, choice) ==
  CASE choice = "keep-local"  /\ c.local # Absent  -> "ensure-remote"
    [] choice = "keep-local"  /\ c.local = Absent  -> "delete-remote"
    [] choice = "keep-remote" /\ c.remote # Absent -> "ensure-local"
    [] choice = "keep-remote" /\ c.remote = Absent -> "delete-local"

Resolvable(c) ==
  /\ c.kind \notin {"none", "kind-mismatch"}
  /\ c.local # Absent => c.local.kind = "file"
  /\ c.remote # Absent => c.remote.kind = "file"

\* The user resolves a recorded conflict and the daemon executes the
\* operation; the operation is discarded when either side has moved on.
Resolve(p, choice) ==
  LET c == conflicts[p]
      d == ResolutionKind(c, choice)
  IN /\ Resolvable(c)
     /\ LocalEquivalent(c.local, local[p]) /\ RemoteEquivalent(c.remote, remote[p])
     /\ local' = [local EXCEPT ![p] = LocalAfter(d, local[p], remote[p])]
     /\ remote' = [remote EXCEPT ![p] = RemoteAfter(d, local[p], remote[p], tick + 1)]
     /\ baseline' = [baseline EXCEPT ![p] =
                       BaselineAfter(d, baseline[p], local'[p], remote'[p])]
     /\ tick' = IF remote' = remote THEN tick ELSE tick + 1
     /\ UNCHANGED <<conflicts, initialized, edits>>

UserNext ==
  \E p \in Paths : \/ LocalEdit(p) \/ RemotePut(p) \/ RemoteRemove(p)
                   \/ \E choice \in Resolutions : Resolve(p, choice)

Next == Pass \/ UserNext

Spec == Init /\ [][Next]_vars

(***************************************************************************)
(* Properties                                                              *)
(***************************************************************************)

InSync(l, r) ==
  \/ l = Absent /\ r = Absent
  \/ /\ l # Absent /\ r # Absent
     /\ l.kind = r.kind /\ l.ver = r.ver

\* A baseline never records two different contents as the common one: an
\* upload, a download and a content comparison all leave equal bytes behind,
\* although the planner itself only ever sees sizes and revisions.
BaselineAgrees == \A p \in Paths : InSync(baseline[p].local, baseline[p].remote)

Holds(side, p, ver) == side[p] # Absent /\ side[p].kind = "file" /\ side[p].ver = ver

\* A pass wipes out bytes (they were on a side of the path and are on neither
\* side afterwards) only if they are the bytes the baseline recorded as in
\* sync, so the other side has deliberately moved on from them.
PassLosesOnlySynced ==
  [][Pass => \A p \in Paths, ver \in Versions :
       /\ Holds(local, p, ver) \/ Holds(remote, p, ver)
       /\ ~Holds(local', p, ver) /\ ~Holds(remote', p, ver)
       => baseline[p].local # Absent /\ baseline[p].local.ver = ver]_vars

\* While a root is being paired for the first time a pass only adds: whatever
\* either side holds stays as it is, whatever partial baselines an earlier,
\* unfinished pairing left behind.
PairingOnlyAdds ==
  [][Pass /\ ~initialized => \A p \in Paths :
       /\ local[p] # Absent => local'[p] = local[p]
       /\ remote[p] # Absent => remote'[p] = remote[p]]_vars

\* A root leaves the pairing phase only when both sides agree everywhere:
\* from then on an absent entry means a deletion.
InitializedWhenPaired ==
  [][~initialized /\ initialized' =>
       \A p \in Paths : /\ InSync(local[p], remote[p])
                        /\ baseline'[p] # EmptyBaseline <=> local[p] # Absent]_vars

RemovedBy(before, after) == {p \in Paths : before[p] # Absent /\ after[p] = Absent}

\* The entries a pass removes, on both sides together, stay within the mass
\* delete limit.
MassDeleteBounded ==
  [][Pass /\ MaxDeleteCount > 0 =>
       Cardinality(RemovedBy(local, local')) + Cardinality(RemovedBy(remote, remote'))
         <= MaxDeleteCount]_vars

Settled(l, r, c) == InSync(l, r) \/ (c.kind # "none" /\ c.local = l /\ c.remote = r)

\* One pass is enough.  Whatever history left behind, the next pass that runs
\* undisturbed leaves every path in sync, or in a recorded conflict that
\* describes both sides as they are.  So a pass that finds nothing to change
\* has found everything settled: no state is silently skipped by every pass.
OnePassSettles ==
  LET plan == Plan
  IN \A p \in Paths : Settled(LocalLeft(plan)[p], RemoteLeft(plan)[p], ConflictsLeft(plan)[p])
=============================================================================
