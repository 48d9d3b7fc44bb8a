-------------------------------- MODULE Tree --------------------------------
(***************************************************************************)
(* Directories and what is in them: the sync cycle of internal/syncer on   *)
(* an initialized root that holds one directory and the files in it, with  *)
(* the directory operations of internal/executor, while the user and other *)
(* clients create and remove directories and files.                        *)
(*                                                                         *)
(* SyncCycle takes the life of one file operation apart; here a file is    *)
(* moved, replaced or removed in one step, and what is observed at the end *)
(* of an operation is recorded in the step that observes it.  Creating,    *)
(* moving aside and removing a directory are steps of their own.           *)
(*                                                                         *)
(* The journal holds one operation at most: one is created when the last   *)
(* one is gone, and a new cycle settles or keeps it before it plans.       *)
(***************************************************************************)
EXTENDS Planner

CONSTANTS Dir,        \* the directory
          Files,      \* the files that may be in it
          UploadsMakeDirs, \* an upload makes the directory that is missing around
                           \* its file; when FALSE it may also fail
          MaxEdits,   \* bound: edits by the user and by other clients
          MaxCrashes  \* bound: crashes of the daemon

Paths == {Dir} \union Files

ASSUME TreeAssumption ==
  /\ IsFiniteSet(Files) /\ Dir \notin Files /\ Versions # {}
  /\ UploadsMakeDirs \in BOOLEAN
  /\ {MaxEdits, MaxCrashes} \subseteq Nat

VARIABLES
  baseline,  \* entry_baselines
  op,        \* the operation in the journal
  local, remote,
  aside,     \* what is in the recovery slot of the operation, by path
  tick,      \* last ino, object ID or revision given out
  \* the daemon's worker for the root
  pc, plan, seen,
  obs,       \* what the last call returned or checked
  \* history: the sides that were edited
  touched,
  \* what has been used of the bounds
  edits, crashes

storeVars == <<baseline, op>>
worldVars == <<local, remote, aside, tick>>
workerVars == <<pc, plan, seen, obs>>
boundVars == <<touched, edits, crashes>>
vars == <<storeVars, worldVars, workerVars, boundVars>>

KindOf(p) == IF p = Dir THEN "dir" ELSE "file"

LocalEntries == [kind : Kinds, ver : Versions \union {0}, ino : Nat]
LocalPrints == [kind : Kinds, ver : Versions \union {0}]
RemoteEntries == [kind : Kinds, id : Nat, rev : Nat, ver : Versions \union {0}]
Expectations == [id : Nat, rev : Nat]

LocalPrint(e) == IF e = Absent THEN Absent ELSE [kind |-> e.kind, ver |-> e.ver]
Expectation(r) == IF r = Absent THEN Absent ELSE [id |-> r.id, rev |-> r.rev]

\* pin is the ino of the object a local mutation is pinned to or, when it
\* expects nothing there, of the directory around it, 0 for the root's.
Operations ==
  [kind : ExternalKinds, path : Paths, expLocal : LocalPrints \union {Absent},
   expRemote : Expectations \union {Absent}, pinned : BOOLEAN, pin : Nat,
   phase : {"planned", "running", "recovering", "blocked"}]

\* The missing entry and the empty journal are told apart from every value.
ASSUME AbsentAssumption ==
  Absent \notin LocalEntries \union LocalPrints \union RemoteEntries
                \union Expectations \union Operations

Nothing == [p \in Paths |-> Absent]
NoPlan == [p \in Paths |-> Decide("noop")]
NoSnapshot == [local |-> Nothing, remote |-> Nothing]
NoObs == [result |-> Absent, tick |-> 0]

\* The type invariant of the store, the two trees and the worker: a baseline
\* has both sides of one kind, or neither (CommitBaselineAndDeleteOperation).
TypeOK ==
  /\ baseline \in [Paths -> [local : LocalPrints \union {Absent},
                             remote : RemoteEntries \union {Absent}]]
  /\ \A p \in Paths : \/ baseline[p] = EmptyBaseline
                      \/ /\ Absent \notin {baseline[p].local, baseline[p].remote}
                         /\ baseline[p].local.kind = baseline[p].remote.kind
  /\ op \in Operations \union {Absent}
  /\ {local, aside} \subseteq [Paths -> LocalEntries \union {Absent}]
  /\ remote \in [Paths -> RemoteEntries \union {Absent}] /\ tick \in Nat
  /\ pc \in {"idle", "recover", "pin", "check", "exec", "mutate", "remove", "settle",
             "scan", "plan", "dispatch"}
  /\ plan \in [Paths -> Decisions]
  /\ seen \in [local : [Paths -> LocalPrints \union {Absent}],
               remote : [Paths -> RemoteEntries \union {Absent}]]
  /\ obs \in [result : LocalPrints \union RemoteEntries \union {Absent}, tick : Nat]
  /\ touched \subseteq {"local", "remote"} /\ {edits, crashes} \subseteq Nat

\* Where the pairing may leave a root: the directory and some of the files are
\* in sync.
Init ==
  /\ \E synced \in SUBSET Files :
       LET there(p) == p = Dir \/ p \in synced
           ver(p) == IF p = Dir THEN 0 ELSE CHOOSE v \in Versions : TRUE
       IN /\ local = [p \in Paths |->
                IF there(p) THEN [kind |-> KindOf(p), ver |-> ver(p), ino |-> 1] ELSE Absent]
          /\ remote = [p \in Paths |->
                IF there(p) THEN [kind |-> KindOf(p), id |-> 1, ver |-> ver(p),
                                  rev |-> IF p = Dir THEN 0 ELSE 1] ELSE Absent]
          /\ baseline = [p \in Paths |->
                [local |-> LocalPrint(local[p]), remote |-> remote[p]]]
  /\ op = Absent /\ aside = Nothing /\ tick = 1
  /\ pc = "idle" /\ plan = NoPlan /\ seen = NoSnapshot /\ obs = NoObs
  /\ touched = {} /\ edits = 0 /\ crashes = 0

(***************************************************************************)
(* What an operation needs and promises                                    *)
(***************************************************************************)

LocalMutation(o) == o.kind \in {"ensure-local", "delete-local"}

LocalAsExpected == LocalEquivalent(LocalPrint(local[op.path]), op.expLocal)
RemoteAsExpected == Expectation(remote[op.path]) = op.expRemote

LocalParent(p) == p = Dir \/ local[Dir] # Absent
ParentIno(p) == IF p = Dir THEN 0 ELSE local[Dir].ino

\* verifyPinnedLocalMutationAnchor
AnchorHolds ==
  IF op.expLocal = Absent THEN LocalParent(op.path) /\ op.pin = ParentIno(op.path)
  ELSE local[op.path] # Absent /\ local[op.path].ino = op.pin

SameContent(l, r) == l # Absent /\ r # Absent /\ l.kind = r.kind /\ l.ver = r.ver

\* proveRecoveredPostcondition
Proven(l, r) ==
  CASE op.kind \in DeleteKinds -> l = Absent /\ r = Absent
    [] op.kind = "ensure-remote" -> /\ LocalEquivalent(l, op.expLocal) /\ SameContent(l, r)
                                    /\ op.expRemote # Expectation(r)
    [] op.kind = "ensure-local" -> Expectation(r) = op.expRemote /\ SameContent(l, r)

\* Mutant of Postcondition: the side that was acted on is enough.
PostconditionOneSided(l, r) ==
  CASE op.kind = "delete-remote" -> r = Absent
    [] op.kind = "delete-local" -> l = Absent
    [] op.kind = "ensure-remote" -> r # Absent
    [] op.kind = "ensure-local" -> l # Absent

\* postconditionAfterSuccessfulCall, and what the transfer returned.
Postcondition(l, r) ==
  CASE op.kind \in DeleteKinds -> l = Absent /\ r = Absent
    [] op.kind = "ensure-remote" ->
         /\ LocalEquivalent(l, op.expLocal) /\ l # Absent /\ r # Absent
         /\ op.path \in Files => RemoteEquivalent(r, obs.result)
    [] op.kind = "ensure-local" ->
         /\ Expectation(r) = op.expRemote /\ l # Absent
         /\ op.path \in Files => LocalEquivalent(l, obs.result)

(***************************************************************************)
(* Moves of the worker                                                     *)
(***************************************************************************)

Goto(label) == pc' = label /\ UNCHANGED <<plan, seen, obs>>

Leave(label) == pc' = label /\ plan' = NoPlan /\ seen' = NoSnapshot /\ obs' = NoObs
EndCycle == Leave("idle")

SetPhase(phase) == op' = [op EXCEPT !.phase = phase]

\* Mutant of Fail: every operation that failed is given up.
FailForget == op' = Absent /\ EndCycle

\* The executor returned an error: an operation that did not start is discarded.
Fail ==
  /\ IF op.phase = "planned" THEN op' = Absent ELSE SetPhase("recovering")
  /\ EndCycle

External(decisions) == {p \in Paths : decisions[p].kind \in ExternalKinds}

\* The next decision, or the next pass, whose number nothing depends on here;
\* recovery is over with the one operation.
NextDecision ==
  LET rest == [plan EXCEPT ![op.path] = Decide("noop")]
  IN IF External(rest) = {} THEN Leave("scan")
     ELSE pc' = "dispatch" /\ plan' = rest /\ obs' = NoObs /\ UNCHANGED seen

\* commitCompletedOperation
CommitBaseline(l, r) ==
  /\ baseline' = [baseline EXCEPT ![op.path] =
                    IF l = Absent THEN EmptyBaseline ELSE [local |-> l, remote |-> r]]
  /\ op' = Absent /\ NextDecision

(***************************************************************************)
(* Recovery                                                                *)
(***************************************************************************)

BeginCycle ==
  /\ pc = "idle" /\ Goto(IF op = Absent THEN "scan" ELSE "recover")
  /\ UNCHANGED <<storeVars, worldVars, boundVars>>

RecoverPlanned ==
  /\ pc = "recover" /\ op.phase = "planned"
  /\ Goto(IF LocalMutation(op) /\ ~op.pinned THEN "pin" ELSE "check")
  /\ UNCHANGED <<storeVars, worldVars, boundVars>>

\* pinLocalMutationTarget: there must be a directory to act in.
Pin ==
  /\ pc = "pin"
  /\ IF LocalAsExpected /\ LocalParent(op.path)
       THEN /\ op' = [op EXCEPT !.pinned = TRUE,
                        !.pin = IF op.expLocal = Absent THEN ParentIno(op.path)
                                                        ELSE local[op.path].ino]
            /\ Goto(IF plan = NoPlan THEN "check" ELSE "exec")
       ELSE op' = Absent /\ EndCycle
  /\ UNCHANGED <<baseline, worldVars, boundVars>>

CheckPlanned ==
  /\ pc = "check"
  /\ IF LocalAsExpected /\ RemoteAsExpected THEN Goto("exec") /\ UNCHANGED op
                                            ELSE op' = Absent /\ Leave("scan")
  /\ UNCHANGED <<baseline, worldVars, boundVars>>

\* Mutant of Cleanable: whatever is in the directory goes with it.
CleanableTree == aside[Dir].ino = op.pin

\* CleanupLocalRecoveryArtifact removes the pinned directory when it is empty,
\* and fails otherwise.
Cleanable == aside[Dir].ino = op.pin /\ \A p \in Files : aside[p] = Absent

RecoverStarted ==
  /\ pc = "recover" /\ op.phase \in {"running", "recovering"}
  /\ IF Proven(LocalPrint(local[op.path]), remote[op.path])
       THEN IF aside = Nothing \/ Cleanable
              THEN /\ CommitBaseline(LocalPrint(local[op.path]), remote[op.path])
                   /\ aside' = Nothing
              ELSE SetPhase("recovering") /\ EndCycle /\ UNCHANGED <<baseline, aside>>
     ELSE /\ IF aside = Nothing /\ LocalAsExpected /\ RemoteAsExpected
                  /\ (LocalMutation(op) => AnchorHolds)
               THEN SetPhase("recovering") /\ Goto("exec")
               ELSE SetPhase("blocked") /\ EndCycle
          /\ UNCHANGED <<baseline, aside>>
  /\ UNCHANGED <<local, remote, tick, boundVars>>

RecoverBlocked ==
  /\ pc = "recover" /\ op.phase = "blocked" /\ EndCycle
  /\ UNCHANGED <<storeVars, worldVars, boundVars>>

(***************************************************************************)
(* A pass                                                                  *)
(***************************************************************************)

Scan ==
  /\ pc = "scan"
  /\ seen' = [seen EXCEPT !.local = [p \in Paths |-> LocalPrint(local[p])]]
  /\ pc' = "plan" /\ UNCHANGED <<plan, obs>>
  /\ UNCHANGED <<storeVars, worldVars, boundVars>>

\* The remote scan and the plan, whose baseline decisions are carried out.
PlanPass ==
  LET evidence == [p \in Paths |-> IF SameContent(seen.local[p], remote[p]) THEN "equal"
                                                                            ELSE "different"]
      decisions == PlanFullSnapshot(TRUE, baseline, seen.local, remote, evidence)
  IN /\ pc = "plan"
     /\ IF PlanBlocked(TRUE, baseline, decisions) THEN EndCycle /\ UNCHANGED baseline
        ELSE /\ baseline' = [p \in Paths |->
                  CASE decisions[p].kind = "commit-baseline" ->
                         [local |-> seen.local[p], remote |-> remote[p]]
                    [] decisions[p].kind = "drop-baseline" -> EmptyBaseline
                    [] decisions[p].kind \notin {"commit-baseline", "drop-baseline"} ->
                         baseline[p]]
             /\ IF External(decisions) = {} THEN EndCycle
                ELSE /\ pc' = "dispatch" /\ plan' = decisions
                     /\ seen' = [seen EXCEPT !.remote = remote] /\ UNCHANGED obs
     /\ UNCHANGED <<op, worldVars, boundVars>>

\* Mutant of DecisionGroup: directories before files, for deletes too.
GroupDirsFirst(p) ==
  IF plan[p].kind \in DeleteKinds THEN IF p \in Files THEN 3 ELSE 2
                                  ELSE IF p = Dir THEN 0 ELSE 1

\* decisionGroup
DecisionGroup(p) ==
  IF plan[p].kind \in DeleteKinds THEN IF p \in Files THEN 2 ELSE 3
                                  ELSE IF p = Dir THEN 0 ELSE 1

\* The next external decision, in the order of sortExternalDecisions.
Dispatch(p) ==
  /\ pc = "dispatch" /\ p \in External(plan)
  /\ \A other \in External(plan) : DecisionGroup(p) <= DecisionGroup(other)
  /\ op' = [kind |-> plan[p].kind, path |-> p, expLocal |-> seen.local[p],
            expRemote |-> Expectation(seen.remote[p]), pinned |-> FALSE, pin |-> 0,
            phase |-> "planned"]
  /\ Goto(IF LocalMutation(op') THEN "pin" ELSE "exec")
  /\ UNCHANGED <<baseline, worldVars, boundVars>>

(***************************************************************************)
(* Executing a remote mutation                                             *)
(***************************************************************************)

\* Mutant of EmptyDir: the listing is not looked at.
EmptyDirUnlisted(tree) == tree[Dir] # Absent

EmptyDir(tree) == tree[Dir] # Absent /\ \A p \in Files : tree[p] = Absent

\* The operation is running; then the preconditions are checked.  A remote
\* directory to delete must be the expected one, and empty.
BeginRemote ==
  /\ pc = "exec" /\ ~LocalMutation(op)
  /\ IF /\ RemoteAsExpected
        /\ op.kind = "ensure-remote" /\ op.path \in Files => LocalAsExpected
        /\ op.kind = "delete-remote" /\ op.path = Dir => EmptyDir(remote)
       THEN /\ SetPhase("running")
            /\ pc' = "mutate" /\ obs' = [obs EXCEPT !.tick = tick] /\ UNCHANGED <<plan, seen>>
       ELSE SetPhase("recovering") /\ EndCycle
  /\ UNCHANGED <<baseline, worldVars, boundVars>>

NewRemote(p, ver, r) ==
  [kind |-> KindOf(p), id |-> IF r = Absent THEN tick + 1 ELSE r.id,
   rev |-> IF p = Dir THEN 0 ELSE tick + 1, ver |-> ver]

\* Mkdir is content with a directory that is there by now.
MakeRemoteDir ==
  /\ pc = "mutate" /\ op.kind = "ensure-remote" /\ op.path = Dir
  /\ IF remote[Dir] = Absent
       THEN remote' = [remote EXCEPT ![Dir] = NewRemote(Dir, 0, Absent)] /\ tick' = tick + 1
       ELSE UNCHANGED <<remote, tick>>
  /\ Goto("settle")
  /\ UNCHANGED <<storeVars, local, aside, boundVars>>

\* The upload of a file, through rclone and its backend, which are not here.
UploadFile ==
  /\ pc = "mutate" /\ op.kind = "ensure-remote" /\ op.path \in Files
  /\ LET file == NewRemote(op.path, op.expLocal.ver, remote[op.path])
         parent == IF remote[Dir] = Absent THEN NewRemote(Dir, 0, Absent) ELSE remote[Dir]
     IN \/ /\ LocalAsExpected /\ RemoteAsExpected
           /\ remote' = [remote EXCEPT ![op.path] = file, ![Dir] = parent]
           /\ tick' = tick + 1
           /\ pc' = "settle" /\ obs' = [obs EXCEPT !.result = file]
           /\ UNCHANGED <<plan, seen, op>>
        \/ /\ \/ ~(LocalAsExpected /\ RemoteAsExpected)
              \/ remote[Dir] = Absent /\ ~UploadsMakeDirs
           /\ Fail /\ UNCHANGED <<remote, tick>>
  /\ UNCHANGED <<baseline, local, aside, boundVars>>

\* By ID alone; a directory goes with everything that is in it by now.
DeleteRemote ==
  /\ pc = "mutate" /\ op.kind = "delete-remote"
  /\ IF remote[op.path] # Absent /\ remote[op.path].id = op.expRemote.id
       THEN /\ remote' = IF op.path = Dir THEN Nothing ELSE [remote EXCEPT ![op.path] = Absent]
            /\ Goto("settle") /\ UNCHANGED op
       ELSE Fail /\ UNCHANGED remote
  /\ UNCHANGED <<baseline, local, aside, tick, boundVars>>

(***************************************************************************)
(* Executing a local mutation                                              *)
(***************************************************************************)

Download == op.kind = "ensure-local" /\ op.path \in Files

\* The last checks (and the download), then the durable running boundary.
BeginLocal ==
  /\ pc = "exec" /\ LocalMutation(op)
  /\ IF /\ LocalAsExpected /\ AnchorHolds
        /\ Download => RemoteAsExpected
       THEN /\ SetPhase("running") /\ pc' = "mutate" /\ UNCHANGED <<plan, seen>>
            /\ obs' = IF Download THEN [obs EXCEPT !.result = [kind |-> "file",
                                                              ver |-> remote[op.path].ver]]
                                  ELSE obs
       ELSE Fail
  /\ UNCHANGED <<baseline, worldVars, boundVars>>

MakeLocalDir ==
  /\ pc = "mutate" /\ op.kind = "ensure-local" /\ op.path = Dir
  /\ IF local[Dir] = Absent
       THEN /\ local' = [local EXCEPT ![Dir] = [kind |-> "dir", ver |-> 0, ino |-> tick + 1]]
            /\ tick' = tick + 1 /\ Goto("settle") /\ UNCHANGED op
       ELSE Fail /\ UNCHANGED <<local, tick>>
  /\ UNCHANGED <<baseline, remote, aside, boundVars>>

\* The file to replace or to remove must be the pinned one, and the name of a
\* new one free, in a directory that is there.
FileAsPinned ==
  IF op.expLocal = Absent THEN local[op.path] = Absent /\ LocalParent(op.path)
  ELSE LocalAsExpected /\ AnchorHolds

InstallFile ==
  /\ pc = "mutate" /\ Download
  /\ IF FileAsPinned
       THEN /\ local' = [local EXCEPT ![op.path] = [kind |-> "file", ver |-> obs.result.ver,
                                                   ino |-> tick + 1]]
            /\ tick' = tick + 1 /\ Goto("settle") /\ UNCHANGED op
       ELSE Fail /\ UNCHANGED <<local, tick>>
  /\ UNCHANGED <<baseline, remote, aside, boundVars>>

DeleteLocalFile ==
  /\ pc = "mutate" /\ op.kind = "delete-local" /\ op.path \in Files
  /\ IF FileAsPinned
       THEN local' = [local EXCEPT ![op.path] = Absent] /\ Goto("settle") /\ UNCHANGED op
       ELSE Fail /\ UNCHANGED local
  /\ UNCHANGED <<baseline, remote, aside, tick, boundVars>>

\* A directory is moved aside with all that is in it ...
MoveDirAside ==
  /\ pc = "mutate" /\ op.kind = "delete-local" /\ op.path = Dir
  /\ IF local[Dir] # Absent /\ aside = Nothing
       THEN aside' = local /\ local' = Nothing /\ Goto("remove") /\ UNCHANGED op
       ELSE Fail /\ UNCHANGED <<local, aside>>
  /\ UNCHANGED <<baseline, remote, tick, boundVars>>

\* ... and removed if it is the pinned one and empty; otherwise it goes back,
\* unless there is a new one by now.
RemoveDir ==
  /\ pc = "remove"
  /\ IF Cleanable THEN aside' = Nothing /\ Goto("settle") /\ UNCHANGED <<op, local>>
     ELSE /\ IF local[Dir] = Absent THEN local' = aside /\ aside' = Nothing
                                    ELSE UNCHANGED <<local, aside>>
          /\ Fail
  /\ UNCHANGED <<baseline, remote, tick, boundVars>>

Settle ==
  /\ pc = "settle"
  /\ IF Postcondition(LocalPrint(local[op.path]), remote[op.path])
       THEN CommitBaseline(LocalPrint(local[op.path]), remote[op.path])
       ELSE SetPhase("recovering") /\ EndCycle /\ UNCHANGED baseline
  /\ UNCHANGED <<worldVars, boundVars>>

(***************************************************************************)
(* Crashes, and the operator                                               *)
(***************************************************************************)

\* The daemon dies and is started again; the store and both trees survive.
Crash ==
  /\ pc # "idle" /\ crashes < MaxCrashes /\ crashes' = crashes + 1
  /\ EndCycle /\ UNCHANGED <<storeVars, worldVars, touched, edits>>

Blocked == op # Absent /\ op.phase = "blocked"

\* operation resolve --retry
ResolveRetry ==
  /\ pc = "idle" /\ Blocked /\ SetPhase("recovering")
  /\ UNCHANGED <<baseline, worldVars, workerVars, boundVars>>

\* operation resolve --restore-recovery puts the pinned directory back where
\* nothing is, then queues the operation.
ResolveRestore ==
  /\ pc = "idle" /\ Blocked /\ aside # Nothing
  /\ local[Dir] = Absent /\ aside[Dir].ino = op.pin
  /\ local' = aside /\ aside' = Nothing /\ SetPhase("recovering")
  /\ UNCHANGED <<baseline, remote, tick, workerVars, boundVars>>

(***************************************************************************)
(* The user and other clients of the drive                                 *)
(***************************************************************************)

Edit(side) ==
  /\ edits < MaxEdits /\ edits' = edits + 1 /\ touched' = touched \union {side}
  /\ UNCHANGED <<storeVars, aside, workerVars, crashes>>

LocalMkdir ==
  /\ local[Dir] = Absent
  /\ local' = [local EXCEPT ![Dir] = [kind |-> "dir", ver |-> 0, ino |-> tick + 1]]
  /\ tick' = tick + 1 /\ UNCHANGED remote /\ Edit("local")

LocalPut(p, ver) ==
  /\ local[Dir] # Absent
  /\ local' = [local EXCEPT ![p] = [kind |-> "file", ver |-> ver, ino |-> tick + 1]]
  /\ tick' = tick + 1 /\ UNCHANGED remote /\ Edit("local")

LocalRemove(p) ==
  /\ local[p] # Absent
  /\ local' = IF p = Dir THEN Nothing ELSE [local EXCEPT ![p] = Absent]
  /\ UNCHANGED <<remote, tick>> /\ Edit("local")

RemoteMkdir ==
  /\ remote[Dir] = Absent
  /\ remote' = [remote EXCEPT ![Dir] = NewRemote(Dir, 0, Absent)]
  /\ tick' = tick + 1 /\ UNCHANGED local /\ Edit("remote")

RemotePut(p, ver) ==
  /\ remote[Dir] # Absent
  /\ remote' = [remote EXCEPT ![p] = NewRemote(p, ver, remote[p])]
  /\ tick' = tick + 1 /\ UNCHANGED local /\ Edit("remote")

RemoteRemove(p) ==
  /\ remote[p] # Absent
  /\ remote' = IF p = Dir THEN Nothing ELSE [remote EXCEPT ![p] = Absent]
  /\ UNCHANGED <<local, tick>> /\ Edit("remote")

(***************************************************************************)
(* The specification                                                       *)
(***************************************************************************)

WorkerStep ==
  \/ BeginCycle \/ RecoverPlanned \/ Pin \/ CheckPlanned \/ RecoverStarted \/ RecoverBlocked
  \/ Scan \/ PlanPass \/ \E p \in Paths : Dispatch(p)
  \/ BeginRemote \/ MakeRemoteDir \/ UploadFile \/ DeleteRemote
  \/ BeginLocal \/ MakeLocalDir \/ InstallFile \/ DeleteLocalFile \/ MoveDirAside \/ RemoveDir
  \/ Settle

CliNext == ResolveRetry \/ ResolveRestore

UserNext ==
  \/ LocalMkdir \/ RemoteMkdir
  \/ \E p \in Files, ver \in Versions : LocalPut(p, ver) \/ RemotePut(p, ver)
  \/ \E p \in Paths : LocalRemove(p) \/ RemoteRemove(p)

Next == WorkerStep \/ Crash \/ CliNext \/ UserNext

Spec == Init /\ [][Next]_vars

\* A cycle in progress goes on, and a new one is started at every interval.
FairSpec == Spec /\ WF_vars(WorkerStep)

(***************************************************************************)
(* Properties                                                              *)
(***************************************************************************)

\* What is in a recovery slot is there for the delete that moved it, which is
\* started and in the journal: nothing is left hidden with no owner.
AsideOwned ==
  aside = Nothing \/ /\ op # Absent /\ op.kind = "delete-local" /\ op.path = Dir
                      /\ op.phase # "planned"

Held(p) == {local[p], aside[p]} \ {Absent}

\* The daemon takes away no local file but the one its operation is about, with
\* the bytes the baseline has: what was put into a directory that is being
\* deleted survives, wherever it was moved meanwhile (DeleteLocal,
\* CleanupLocalRecoveryArtifact).
ChildrenSurvive ==
  [][edits' = edits =>
       \A p \in Files : \A file \in Held(p) \ Held(p)' :
         op.path = p /\ LocalEquivalent(LocalPrint(file), baseline[p].local)]_vars

\* The daemon takes away no remote file but the one its operation is about, in
\* the revision the baseline has, or one that was written after the last check
\* (docs/architecture.md:89 concedes that window for both deletes).
RemoteChildrenSurvive ==
  [][edits' = edits =>
       \A p \in Files : remote[p] # Absent /\ remote'[p] = Absent =>
         \/ op.path = p /\ RemoteEquivalent(remote[p], baseline[p].remote)
         \/ remote[p].rev > obs.tick]_vars

\* Nothing is left to do, or what is left is a conflict.
Settled ==
  op = Absent /\ \A p \in Paths :
    PlanThreeWay(baseline[p], LocalPrint(local[p]), remote[p],
                 IF SameContent(local[p], remote[p]) THEN "equal" ELSE "different").kind
      \in {"noop", "conflict"}

\* However the directory and its files were created and removed on one side,
\* both sides settle in the end, unless an operation is blocked: a delete of
\* the directory waits for those of its files, a create for the directory.
OneSideSettles == \/ <>[]Settled \/ []<>Blocked \/ <>(touched = {"local", "remote"})

\* Whatever is edited, both sides settle in the end, or an operation is blocked
\* and the operator knows.
TreeSettles == <>[]Settled \/ []<>Blocked
=============================================================================
