------------------------------ MODULE Planner ------------------------------
(***************************************************************************)
(* The pure reconciliation planner: internal/reconcile (planner.go,        *)
(* root.go, safety.go) over the fingerprints of internal/domain/types.go.  *)
(*                                                                         *)
(* A missing entry is Absent.  A local fingerprint is a record with fields *)
(* kind and ver, a remote one a record with kind, id, rev and ver.  A      *)
(* version stands for a file's bytes together with the size and            *)
(* modification time that identify them: two fingerprints agree on (size,  *)
(* mtime) exactly when they agree on the version, and SizeOf gives the     *)
(* part of it that both sides can compare without reading the bytes.  The  *)
(* version of a directory is ignored, as its size and mtime are.           *)
(***************************************************************************)
EXTENDS Integers, FiniteSets

CONSTANTS Absent,           \* the missing entry
          Versions,         \* file versions
          SizeOf,           \* size of each version
          MaxDeleteCount,   \* DeletePolicy.MaxCount (0 disables it)
          MaxDeletePercent  \* DeletePolicy.MaxFraction, in percent (0 disables)

ASSUME PlannerAssumption ==
  /\ Versions \subseteq Nat
  /\ SizeOf \in [Versions -> Nat]
  /\ MaxDeleteCount \in Nat
  /\ MaxDeletePercent \in 0..100

Kinds == {"file", "dir"}

(***************************************************************************)
(* Fingerprint equivalence                                                 *)
(***************************************************************************)

LocalEquivalent(a, b) ==
  \/ a = Absent /\ b = Absent
  \/ /\ a # Absent /\ b # Absent
     /\ a.kind = b.kind
     /\ a.kind = "file" => a.ver = b.ver

RemoteEquivalent(a, b) ==
  \/ a = Absent /\ b = Absent
  \/ /\ a # Absent /\ b # Absent
     /\ a.kind = b.kind
     /\ a.id = b.id
     /\ a.kind = "file" => a.rev = b.rev /\ SizeOf[a.ver] = SizeOf[b.ver]

EmptyBaseline == [local |-> Absent, remote |-> Absent]

Unchanged(b, l, r) ==
  LocalEquivalent(b.local, l) /\ RemoteEquivalent(b.remote, r)

(***************************************************************************)
(* Decisions                                                               *)
(***************************************************************************)

ConflictKinds == {"both-modified", "local-delete-remote-edit",
                  "remote-delete-local-edit", "simultaneous-create",
                  "kind-mismatch"}

ExternalKinds == {"ensure-remote", "ensure-local",
                  "delete-remote", "delete-local"}

DeleteKinds == {"delete-remote", "delete-local"}

DecisionKinds == ExternalKinds \union
  {"noop", "commit-baseline", "drop-baseline", "compare-content", "conflict"}

Decide(kind) == [kind |-> kind, conflict |-> "none"]
Conflict(kind) == [kind |-> "conflict", conflict |-> kind]

Decisions == [kind : DecisionKinds, conflict : ConflictKinds \union {"none"}]

\* What is known of the bytes of a path whose two sides may agree.
Evidence == {"unknown", "equal", "different"}

\* Mutant of PlanContentConvergence: different bytes are passed over.
PlanContentQuietly(conflictKind, evidence) ==
  CASE evidence = "unknown"   -> Decide("compare-content")
    [] evidence = "equal"     -> Decide("commit-baseline")
    [] evidence = "different" -> Decide("noop")

PlanContentConvergence(conflictKind, evidence) ==
  CASE evidence = "unknown"   -> Decide("compare-content")
    [] evidence = "equal"     -> Decide("commit-baseline")
    [] evidence = "different" -> Conflict(conflictKind)

PlanFilePair(l, r, conflictKind, evidence) ==
  IF SizeOf[l.ver] # SizeOf[r.ver]
    THEN Conflict(conflictKind)
    ELSE PlanContentConvergence(conflictKind, evidence)

PlanInitial(l, r, evidence) ==
  CASE l = Absent /\ r = Absent -> Decide("noop")
    [] l # Absent /\ r = Absent -> Decide("ensure-remote")
    [] l = Absent /\ r # Absent -> Decide("ensure-local")
    [] l # Absent /\ r # Absent ->
         IF l.kind # r.kind THEN Conflict("kind-mismatch")
         ELSE IF l.kind = "dir" THEN Decide("commit-baseline")
         ELSE PlanFilePair(l, r, "simultaneous-create", evidence)

PlanLocalOnlyChange(l, r) ==
  CASE l # Absent                 -> Decide("ensure-remote")
    [] l = Absent /\ r # Absent   -> Decide("delete-remote")
    [] l = Absent /\ r = Absent   -> Decide("drop-baseline")

PlanRemoteOnlyChange(l, r) ==
  CASE r # Absent                 -> Decide("ensure-local")
    [] r = Absent /\ l # Absent   -> Decide("delete-local")
    [] r = Absent /\ l = Absent   -> Decide("drop-baseline")

\* Mutant of PlanBothChanged: the remote side wins.
PlanRemoteWins(b, l, r, evidence) ==
  IF r # Absent THEN Decide("ensure-local")
  ELSE IF l # Absent THEN Conflict("remote-delete-local-edit")
  ELSE Decide("drop-baseline")

\* Both sides moved away from the baseline b and are not both directories.
PlanBothChanged(b, l, r, evidence) ==
  CASE l = Absent /\ r = Absent -> Decide("drop-baseline")
    [] l = Absent /\ r # Absent -> Conflict("local-delete-remote-edit")
    [] l # Absent /\ r = Absent -> Conflict("remote-delete-local-edit")
    [] l # Absent /\ r # Absent ->
         PlanFilePair(l, r,
                      IF b = EmptyBaseline THEN "simultaneous-create"
                                           ELSE "both-modified",
                      evidence)

\* An entry whose kind is not the one of the other side, or not the one the
\* baseline recorded: PlanThreeWay reports it before anything else.
KindMismatch(b, l, r) ==
  /\ l # Absent /\ r # Absent
  /\ \/ l.kind # r.kind
     \/ b.local # Absent /\ b.local.kind # l.kind
     \/ b.remote # Absent /\ b.remote.kind # r.kind

PlanThreeWay(b, l, r, evidence) ==
  LET localChanged  == ~LocalEquivalent(b.local, l)
      remoteChanged == ~RemoteEquivalent(b.remote, r)
      bothDirs      == l # Absent /\ r # Absent /\ l.kind = "dir"
  IN CASE KindMismatch(b, l, r) -> Conflict("kind-mismatch")
       [] ~KindMismatch(b, l, r) /\ ~localChanged /\ ~remoteChanged ->
            Decide("noop")
       [] ~KindMismatch(b, l, r) /\ (localChanged \/ remoteChanged) /\ bothDirs ->
            Decide("commit-baseline")
       [] ~KindMismatch(b, l, r) /\ ~bothDirs /\ localChanged /\ ~remoteChanged ->
            PlanLocalOnlyChange(l, r)
       [] ~KindMismatch(b, l, r) /\ ~bothDirs /\ ~localChanged /\ remoteChanged ->
            PlanRemoteOnlyChange(l, r)
       [] ~KindMismatch(b, l, r) /\ ~bothDirs /\ localChanged /\ remoteChanged ->
            PlanBothChanged(b, l, r, evidence)

\* The decision for one path of a root that is still being paired.
PlanPairing(b, l, r, evidence) ==
  CASE b # EmptyBaseline /\ Unchanged(b, l, r) -> Decide("noop")
    [] b # EmptyBaseline /\ ~Unchanged(b, l, r) /\ l = Absent /\ r = Absent ->
         Decide("drop-baseline")
    [] b = EmptyBaseline \/ (~Unchanged(b, l, r) /\ (l # Absent \/ r # Absent)) ->
         PlanInitial(l, r, evidence)

\* Mutant of PlanPath: a root that is still being paired trusts its baselines.
PlanPathAlwaysThreeWay(initialized, b, l, r, evidence) == PlanThreeWay(b, l, r, evidence)

PlanPath(initialized, b, l, r, evidence) ==
  IF initialized THEN PlanThreeWay(b, l, r, evidence)
                 ELSE PlanPairing(b, l, r, evidence)

\* PlanFullSnapshot: one decision per path of the snapshot.  The arguments
\* are functions on the same set of paths.
PlanFullSnapshot(initialized, b, l, r, evidence) ==
  [p \in DOMAIN b |-> PlanPath(initialized, b[p], l[p], r[p], evidence[p])]

(***************************************************************************)
(* The mass-delete gate                                                    *)
(***************************************************************************)

\* Mutant of ProposedDeletes: removals of local files are not counted.
ProposedRemoteDeletes(plan) ==
  Cardinality({p \in DOMAIN plan : plan[p].kind = "delete-remote"})

ProposedDeletes(plan) ==
  Cardinality({p \in DOMAIN plan : plan[p].kind \in DeleteKinds})

\* evaluateDeleteGate with MassDeleteApproved unset: the daemon never sets it.
DeleteGateBlocks(baselineCount, deletes) ==
  /\ deletes > 0
  /\ \/ MaxDeleteCount = 0 /\ MaxDeletePercent = 0
     \/ MaxDeleteCount > 0 /\ deletes > MaxDeleteCount
     \/ /\ MaxDeletePercent > 0
        /\ baselineCount = 0 \/ deletes * 100 > MaxDeletePercent * baselineCount

PlanBlocked(initialized, b, plan) ==
  /\ initialized
  /\ DeleteGateBlocks(Cardinality({p \in DOMAIN b : b[p] # EmptyBaseline}),
                      ProposedDeletes(plan))
=============================================================================
