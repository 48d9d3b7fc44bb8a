----------------------------- MODULE SyncCycle -----------------------------
(***************************************************************************)
(* The sync cycle of one root: internal/syncer/cycle.go over the operation *)
(* journal of internal/store and the guarded mutations of                  *)
(* internal/executor, interleaved with the user, other remote clients,     *)
(* the conflict and operation commands of the CLI, failing calls and       *)
(* crashes.                                                                *)
(*                                                                         *)
(* The paths of the root hold regular files.  A local file has a version   *)
(* (its bytes and the size and mtime that go with them) and an ino, the    *)
(* physical object it is; a remote file has an object ID, a revision and a *)
(* version.  Renaming a local file keeps its ino, writing it in place      *)
(* keeps the ino and changes the version.  A staged download is its bytes  *)
(* only: which object it is does not matter before it is installed.        *)
(*                                                                         *)
(* One action is one observation, one store transaction or one change of   *)
(* user data.  A check is one step with the check or the transaction it    *)
(* immediately precedes when no effect lies between them.                  *)
(***************************************************************************)
EXTENDS Planner

CONSTANTS Paths,         \* relative paths of the root
          MaxCyclePasses,\* maxCyclePasses
          InPlaceWrites, \* whether users also write files in place
          MaxOps,        \* bound: operations ever journaled
          MaxEdits,      \* bound: edits by the user and by other clients
          MaxCrashes,    \* bound: crashes and stops of the daemon
          MaxFaults,     \* bound: failing calls and lost replies
          MaxCommands    \* bound: pause, resume and conflict resolve commands

ASSUME SyncCycleAssumption ==
  /\ IsFiniteSet(Paths)
  /\ MaxCyclePasses \in Nat \ {0}
  /\ InPlaceWrites \in BOOLEAN
  /\ {MaxOps, MaxEdits, MaxCrashes, MaxFaults, MaxCommands} \subseteq Nat

OpIds == 1..MaxOps

VARIABLES
  \* the state store
  enabled,      \* sync_roots.enabled
  initialized,  \* sync_roots.initialized
  baseline,     \* entry_baselines
  conflicts,    \* unresolved conflicts
  journal,      \* operations, by ID
  nextOp,       \* next operation ID; IDs are never used twice
  \* the file system and the remote drive
  local, remote,
  slot,         \* recovery slot of each operation
  temp,         \* download staging slot of each operation
  tick,         \* last ino, object ID or revision given out
  \* the daemon's worker for the root
  pc,           \* where it is
  queue,        \* operations it still has to recover
  cur,          \* operation it is executing, 0 if none
  pass,         \* pass of the cycle, 0 during recovery
  plan,         \* decisions of the pass not yet carried out
  left,         \* paths whose conflict and baseline are still to be recorded
  seen,         \* the complete snapshot of the pass
  obs,          \* what it observed or received for the current operation
  \* a conflict resolve command between its check and its insert
  cli,
  \* history: operations whose effect on user data is complete
  applied,
  \* what has been used of the bounds
  edits, crashes, faults, commands

storeVars == <<enabled, initialized, baseline, conflicts, journal, nextOp>>
worldVars == <<local, remote, slot, temp, tick>>
daemonVars == <<pc, queue, cur, pass, plan, left, seen, obs>>
boundVars == <<edits, crashes, faults, commands>>
vars == <<storeVars, worldVars, daemonVars, cli, applied, boundVars>>

(***************************************************************************)
(* Values                                                                  *)
(***************************************************************************)

LocalFiles == [kind : {"file"}, ver : Versions, ino : Nat]
LocalPrints == [kind : {"file"}, ver : Versions]
RemoteFiles == [kind : {"file"}, id : Nat, rev : Nat, ver : Versions]

LocalPrint(f) == IF f = Absent THEN Absent ELSE [kind |-> f.kind, ver |-> f.ver]

\* domain.RemoteExpectation
Expectations == [id : Nat, rev : Nat]
Expectation(r) == IF r = Absent THEN Absent ELSE [id |-> r.id, rev |-> r.rev]

MatchesExpectation(r, expected) == Expectation(r) = expected

Phases == {"planned", "running", "recovering", "blocked"}

\* An operation; pin is the ino of the object a local mutation is pinned to,
\* or 0 for an absent target, whose anchor is the parent directory; resolves
\* says that it came from conflict resolve.
Operations ==
  [kind : ExternalKinds, path : Paths, expLocal : LocalPrints \union {Absent},
   expRemote : Expectations \union {Absent}, phase : Phases, pinned : BOOLEAN,
   pin : Nat, resolves : BOOLEAN]

\* The missing entry is no entry.
ASSUME AbsentAssumption ==
  Absent \notin LocalFiles \union LocalPrints \union RemoteFiles
                \union Expectations \union Operations

LocalMutation(op) == op.kind \in {"ensure-local", "delete-local"}

Live == {o \in OpIds : journal[o] # Absent}

Started(op) == op.phase # "planned"

\* ownedOperationArtifacts
OwnsRecoverySlot(o) ==
  /\ journal[o] # Absent
  /\ LocalMutation(journal[o]) /\ journal[o].pinned /\ Started(journal[o])

OwnsDownloadSlot(o) ==
  /\ journal[o] # Absent
  /\ journal[o].kind = "ensure-local" /\ journal[o].pinned

Artifacts == {o \in OpIds : slot[o] # Absent \/ temp[o] # Absent}

ArtifactsOwned ==
  \A o \in OpIds : /\ slot[o] # Absent => OwnsRecoverySlot(o)
                   /\ temp[o] # Absent => OwnsDownloadSlot(o)

NoConflict == [kind |-> "none", local |-> Absent, remote |-> Absent]
NoPlan == [p \in Paths |-> Decide("noop")]
NoSnapshot == [local |-> [p \in Paths |-> Absent], remote |-> [p \in Paths |-> Absent]]
NoObs == [local |-> Absent, remote |-> Absent, result |-> Absent]

Pcs == {"down", "idle", "recover", "pin", "check", "exec", "upload",
        "remoteDelete", "begin", "preserve", "validate", "install", "restore",
        "drop", "observe", "settle", "prove", "compare", "cleanup", "commit", "retry", "scan",
        "plan", "record", "decide", "dispatch"}

StoreTypeOK ==
  /\ enabled \in BOOLEAN /\ initialized \in BOOLEAN
  /\ baseline \in [Paths -> [local : LocalPrints \union {Absent},
                             remote : RemoteFiles \union {Absent}]]
  /\ conflicts \in [Paths -> [kind : ConflictKinds \union {"none"},
                              local : LocalPrints \union {Absent},
                              remote : RemoteFiles \union {Absent}]]
  /\ journal \in [OpIds -> Operations \union {Absent}]
  /\ nextOp \in Nat \ {0}

WorldTypeOK ==
  /\ local \in [Paths -> LocalFiles \union {Absent}]
  /\ remote \in [Paths -> RemoteFiles \union {Absent}]
  /\ slot \in [OpIds -> LocalFiles \union {Absent}]
  /\ temp \in [OpIds -> LocalPrints \union {Absent}]
  /\ tick \in Nat

DaemonTypeOK ==
  /\ pc \in Pcs /\ queue \subseteq OpIds /\ cur \in OpIds \union {0}
  /\ pass \in 0..MaxCyclePasses
  /\ plan \in [Paths -> Decisions] /\ left \subseteq Paths
  /\ seen \in [local : [Paths -> LocalPrints \union {Absent}],
               remote : [Paths -> RemoteFiles \union {Absent}]]
  /\ obs \in [local : LocalPrints \union {Absent},
              remote : RemoteFiles \union {Absent},
              result : LocalPrints \union RemoteFiles \union {Absent}]

BoundTypeOK == {edits, crashes, faults, commands} \subseteq Nat

\* The type invariant of the store, the two trees, the worker and the history.
TypeOK ==
  /\ StoreTypeOK /\ WorldTypeOK /\ DaemonTypeOK /\ BoundTypeOK
  /\ cli \in Operations \union {Absent}
  /\ applied \subseteq OpIds

Init ==
  /\ enabled = TRUE /\ initialized = FALSE
  /\ baseline = [p \in Paths |-> EmptyBaseline]
  /\ conflicts = [p \in Paths |-> NoConflict]
  /\ journal = [o \in OpIds |-> Absent] /\ nextOp = 1
  /\ local = [p \in Paths |-> Absent] /\ remote = [p \in Paths |-> Absent]
  /\ slot = [o \in OpIds |-> Absent] /\ temp = [o \in OpIds |-> Absent]
  /\ tick = 0
  /\ pc = "idle" /\ queue = {} /\ cur = 0 /\ pass = 0
  /\ plan = NoPlan /\ left = {} /\ seen = NoSnapshot /\ obs = NoObs
  /\ cli = Absent /\ applied = {}
  /\ edits = 0 /\ crashes = 0 /\ faults = 0 /\ commands = 0

(***************************************************************************)
(* Moves of the worker                                                     *)
(***************************************************************************)

Op == journal[cur]

Stay == UNCHANGED <<queue, cur, pass, plan, left, seen>>

Goto(label) == pc' = label /\ UNCHANGED obs /\ Stay

\* The cycle returns, with a result or an error.
EndCycle ==
  /\ pc' = "idle" /\ queue' = {} /\ cur' = 0 /\ pass' = 0
  /\ plan' = NoPlan /\ left' = {} /\ seen' = NoSnapshot /\ obs' = NoObs

BeginPass(n) ==
  /\ pc' = "scan" /\ pass' = n
  /\ queue' = {} /\ cur' = 0 /\ plan' = NoPlan /\ left' = {}
  /\ seen' = NoSnapshot /\ obs' = NoObs

External(decisions) == {p \in Paths : decisions[p].kind \in ExternalKinds}

\* Recovery is over with operation o: the next one, or the first pass.
RecoveredOp(o) ==
  IF queue \ {o} = {} THEN BeginPass(1)
  ELSE /\ pc' = "recover" /\ queue' = queue \ {o} /\ cur' = 0 /\ obs' = NoObs
       /\ UNCHANGED <<pass, plan, left, seen>>

\* Mutant of DispatchedOp: the passes are not counted.
DispatchedUncounted(p) ==
  LET rest == [plan EXCEPT ![p] = Decide("noop")]
  IN IF External(rest) # {}
       THEN /\ pc' = "dispatch" /\ plan' = rest /\ cur' = 0 /\ obs' = NoObs
            /\ UNCHANGED <<queue, pass, left, seen>>
     ELSE BeginPass(pass)

\* Mutant of DispatchedOp: one pass too many.
DispatchedOnePassTooMany(p) ==
  LET rest == [plan EXCEPT ![p] = Decide("noop")]
  IN IF External(rest) # {}
       THEN /\ pc' = "dispatch" /\ plan' = rest /\ cur' = 0 /\ obs' = NoObs
            /\ UNCHANGED <<queue, pass, left, seen>>
     ELSE IF pass <= MaxCyclePasses THEN BeginPass(pass + 1)
     ELSE EndCycle

\* The pass is over with the decision for path p: the next decision, the
\* next pass, or "did not stabilize".
DispatchedOp(p) ==
  LET rest == [plan EXCEPT ![p] = Decide("noop")]
  IN IF External(rest) # {}
       THEN /\ pc' = "dispatch" /\ plan' = rest /\ cur' = 0 /\ obs' = NoObs
            /\ UNCHANGED <<queue, pass, left, seen>>
     ELSE IF pass < MaxCyclePasses THEN BeginPass(pass + 1)
     ELSE EndCycle

FinishedOp == IF pass = 0 THEN RecoveredOp(cur) ELSE DispatchedOp(Op.path)

SetPhase(phase) == journal' = [journal EXCEPT ![cur].phase = phase]

DeleteOp == journal' = [journal EXCEPT ![cur] = Absent]

\* executePersistedOperation gives up on the current operation: it is
\* forgotten if no attempt was ever recorded, else its outcome is unknown.
GiveUp ==
  /\ IF Op.phase = "planned" THEN DeleteOp ELSE SetPhase("recovering")
  /\ EndCycle

\* The same with the deferred removal of the download.
Fail == GiveUp /\ temp' = [temp EXCEPT ![cur] = Absent]

\* Guards on what a step sees now.
LocalAsExpected == LocalEquivalent(LocalPrint(local[Op.path]), Op.expLocal)
RemoteAsExpected == MatchesExpectation(remote[Op.path], Op.expRemote)

\* Mutant of AnchorHolds: a file at the target is taken for the pinned one.
AnchorByName == Op.expLocal # Absent => local[Op.path] # Absent

\* verifyPinnedLocalMutationAnchor: the anchor of an absent target is its
\* parent directory, which nobody replaces here.
AnchorHolds ==
  Op.expLocal # Absent => local[Op.path] # Absent /\ local[Op.path].ino = Op.pin

(***************************************************************************)
(* The cycle up to the first pass: preflight and recovery                  *)
(***************************************************************************)

\* runRootCycle: list the operations; with any, the preflight scan must find
\* every artifact in the tree owned by one of them.
BeginCycle ==
  /\ pc = "idle" /\ enabled
  /\ Live # {} => ArtifactsOwned
  /\ IF Live = {} THEN BeginPass(1)
     ELSE /\ pc' = "recover" /\ queue' = Live
          /\ UNCHANGED <<cur, pass, plan, left, seen, obs>>
  /\ UNCHANGED <<storeVars, worldVars, cli, applied, boundVars>>

NextInQueue(o) == o \in queue /\ \A other \in queue : o <= other

\* Mutant of RecoverBlocked: recovery passes over blocked operations.
SkipBlocked ==
  /\ pc = "recover"
  /\ \E o \in queue : NextInQueue(o) /\ journal[o].phase = "blocked" /\ RecoveredOp(o)
  /\ UNCHANGED <<storeVars, worldVars, cli, applied, boundVars>>

RecoverBlocked ==
  /\ pc = "recover"
  /\ \E o \in queue : NextInQueue(o) /\ journal[o].phase = "blocked"
  /\ EndCycle
  /\ UNCHANGED <<storeVars, worldVars, cli, applied, boundVars>>

RecoverPlanned ==
  /\ pc = "recover"
  /\ \E o \in queue :
       /\ NextInQueue(o) /\ journal[o].phase = "planned"
       /\ cur' = o
       /\ pc' = IF LocalMutation(journal[o]) /\ ~journal[o].pinned THEN "pin" ELSE "check"
  /\ UNCHANGED <<queue, pass, plan, left, seen, obs>>
  /\ UNCHANGED <<storeVars, worldVars, cli, applied, boundVars>>

\* The local half of proveRecoveredPostcondition.
RecoverStarted ==
  /\ pc = "recover"
  /\ \E o \in queue :
       /\ NextInQueue(o) /\ journal[o].phase \in {"running", "recovering"}
       /\ cur' = o
       /\ journal' = [journal EXCEPT ![o].phase = "recovering"]
       /\ obs' = [obs EXCEPT !.local = LocalPrint(local[journal[o].path])]
  /\ pc' = "prove"
  /\ UNCHANGED <<queue, pass, plan, left, seen>>
  /\ UNCHANGED <<enabled, initialized, baseline, conflicts, nextOp>>
  /\ UNCHANGED <<worldVars, cli, applied, boundVars>>

\* pinLocalMutationTarget: the object to mutate is fixed in the journal, or
\* the operation is discarded and the cycle fails.
Pin ==
  /\ pc = "pin"
  /\ IF LocalAsExpected
       THEN /\ journal' = [journal EXCEPT
                 ![cur].pinned = TRUE,
                 ![cur].pin = IF Op.expLocal = Absent THEN 0 ELSE local[Op.path].ino]
            /\ Goto(IF pass = 0 THEN "check" ELSE "exec")
       ELSE DeleteOp /\ EndCycle
  /\ UNCHANGED <<enabled, initialized, baseline, conflicts, nextOp>>
  /\ UNCHANGED <<worldVars, cli, applied, boundVars>>

\* Mutant of CheckPlanned: an operation with stale preconditions is kept.
CheckPlannedKeeps ==
  /\ pc = "check"
  /\ temp' = [temp EXCEPT ![cur] = Absent]
  /\ IF LocalAsExpected /\ RemoteAsExpected THEN Goto("exec") ELSE EndCycle
  /\ UNCHANGED <<storeVars, local, remote, slot, tick, cli, applied, boundVars>>

\* A planned operation of an earlier cycle: its download slot is removed and
\* it is discarded unless both sides still are as planned.
CheckPlanned ==
  /\ pc = "check"
  /\ temp' = [temp EXCEPT ![cur] = Absent]
  /\ IF LocalAsExpected /\ RemoteAsExpected
       THEN Goto("exec") /\ UNCHANGED journal
       ELSE DeleteOp /\ RecoveredOp(cur)
  /\ UNCHANGED <<enabled, initialized, baseline, conflicts, nextOp>>
  /\ UNCHANGED <<local, remote, slot, tick, cli, applied, boundVars>>

\* Mutant of SameBytes: only the sizes are compared.
SameSize(l, r) == SizeOf[l.ver] = SizeOf[r.ver]

SameBytes(l, r) == l.ver = r.ver

\* What both sides must look like for the effect of an operation to be taken
\* as done, before their bytes are compared.
Plausible(op, l, r) ==
  CASE op.kind \in DeleteKinds -> l = Absent /\ r = Absent
    [] op.kind = "ensure-remote" ->
         /\ LocalEquivalent(l, op.expLocal)
         /\ r # Absent /\ SizeOf[l.ver] = SizeOf[r.ver]
         /\ op.expRemote # Absent => ~MatchesExpectation(r, op.expRemote)
    [] op.kind = "ensure-local" ->
         /\ MatchesExpectation(r, op.expRemote)
         /\ l # Absent /\ SizeOf[l.ver] = SizeOf[r.ver]

\* downloadToPhysicalTemp: the expected revision is in the download slot.
Staged == [temp EXCEPT ![cur] = LocalPrint(remote[Op.path])]

\* The remote half of proveRecoveredPostcondition.  CompareFileContent
\* refuses a local file that changed since it was observed.
Prove ==
  LET now    == LocalPrint(local[Op.path])
      r      == remote[Op.path]
      stable == LocalEquivalent(now, obs.local)
      done   == Plausible(Op, obs.local, r)
  IN /\ pc = "prove" /\ ~(done /\ Op.kind = "ensure-local")
     /\ IF ~done THEN Goto("retry")
        ELSE IF Op.kind \in DeleteKinds \/ (stable /\ SameBytes(now, r))
          THEN /\ pc' = "cleanup" /\ obs' = [obs EXCEPT !.remote = r]
               /\ Stay
        ELSE IF stable THEN Goto("retry")
        ELSE EndCycle
     /\ UNCHANGED <<storeVars, worldVars, cli, applied, boundVars>>

\* ComparePinnedFileContent looks at the target again and downloads the
\* expected revision into the operation's own download slot, whatever was
\* left in it ...
FetchPinned ==
  LET r == remote[Op.path]
  IN /\ pc = "prove" /\ Op.kind = "ensure-local" /\ Plausible(Op, obs.local, r)
     /\ IF local[Op.path] = Absent
          THEN Goto("retry") /\ UNCHANGED temp
          ELSE /\ temp' = Staged
               /\ pc' = "compare" /\ Stay
               /\ obs' = [obs EXCEPT !.remote = r, !.result = LocalPrint(local[Op.path])]
     /\ UNCHANGED <<storeVars, local, remote, slot, tick, cli, applied, boundVars>>

\* Mutant of ComparePinned: what was downloaded is not removed.
ComparePinnedKeeps ==
  LET now == LocalPrint(local[Op.path])
  IN /\ pc = "compare"
     /\ IF ~LocalEquivalent(now, obs.result) \/ ~RemoteAsExpected THEN EndCycle
        ELSE IF ~SameBytes(now, temp[cur]) THEN Goto("retry")
        ELSE IF LocalEquivalent(now, obs.local) THEN Goto("cleanup")
        ELSE EndCycle
     /\ UNCHANGED <<storeVars, worldVars, cli, applied, boundVars>>

\* ... compares and removes it.  The target must not have changed meanwhile,
\* nor, to be taken as done, since it was first observed.
ComparePinned ==
  LET now == LocalPrint(local[Op.path])
  IN /\ pc = "compare"
     /\ temp' = [temp EXCEPT ![cur] = Absent]
     /\ IF ~LocalEquivalent(now, obs.result) \/ ~RemoteAsExpected THEN EndCycle
        ELSE IF ~SameBytes(now, temp[cur]) THEN Goto("retry")
        ELSE IF LocalEquivalent(now, obs.local) THEN Goto("cleanup")
        ELSE EndCycle
     /\ UNCHANGED <<storeVars, local, remote, slot, tick, cli, applied, boundVars>>

\* Mutant of Cleanup: the slot is emptied whatever it holds.
CleanupUnchecked ==
  /\ pc = "cleanup" /\ Goto("commit")
  /\ slot' = [slot EXCEPT ![cur] = Absent] /\ applied' = applied \union {cur}
  /\ UNCHANGED <<storeVars, local, remote, temp, tick, cli, boundVars>>

\* CleanupLocalRecoveryArtifact: what is in the recovery slot is removed when
\* it is the pinned object.
Cleanup ==
  /\ pc = "cleanup"
  /\ IF slot[cur] = Absent THEN Goto("commit") /\ UNCHANGED <<slot, applied>>
     ELSE IF slot[cur].ino = Op.pin
       THEN /\ slot' = [slot EXCEPT ![cur] = Absent] /\ Goto("commit")
            /\ applied' = applied \union {cur}
     ELSE EndCycle /\ UNCHANGED <<slot, applied>>
  /\ UNCHANGED <<storeVars, local, remote, temp, tick, cli, boundVars>>

\* commitCompletedOperation, one transaction: the observed pair becomes the
\* baseline and the operation is gone.
CommitBaseline(l, r) ==
  /\ baseline' = [baseline EXCEPT ![Op.path] =
                    IF l = Absent /\ r = Absent THEN EmptyBaseline
                    ELSE [local |-> l, remote |-> r]]
  /\ DeleteOp
  /\ FinishedOp

Commit ==
  /\ pc = "commit"
  /\ CommitBaseline(obs.local, obs.remote)
  /\ UNCHANGED <<enabled, initialized, conflicts, nextOp>>
  /\ UNCHANGED <<worldVars, cli, applied, boundVars>>

\* The effect is not proven: execute again if nothing is preserved and both
\* sides are still as planned, else leave the operation to the user.
Retry ==
  /\ pc = "retry"
  /\ IF /\ LocalMutation(Op) => slot[cur] = Absent /\ AnchorHolds
        /\ LocalAsExpected /\ RemoteAsExpected
       THEN Goto("exec") /\ UNCHANGED journal
       ELSE SetPhase("blocked") /\ EndCycle
  /\ UNCHANGED <<enabled, initialized, baseline, conflicts, nextOp>>
  /\ UNCHANGED <<worldVars, cli, applied, boundVars>>

(***************************************************************************)
(* Executing an operation: remote mutations                                *)
(***************************************************************************)

\* The operation is running before anything else; Upload and sync-delete then
\* check their preconditions.
BeginRemote ==
  /\ pc = "exec" /\ ~LocalMutation(Op)
  /\ IF RemoteAsExpected /\ (Op.kind = "ensure-remote" => LocalAsExpected)
       THEN /\ SetPhase("running")
            /\ Goto(IF Op.kind = "ensure-remote" THEN "upload" ELSE "remoteDelete")
       ELSE SetPhase("recovering") /\ EndCycle
  /\ UNCHANGED <<enabled, initialized, baseline, conflicts, nextOp>>
  /\ UNCHANGED <<worldVars, cli, applied, boundVars>>

Fault == faults < MaxFaults /\ faults' = faults + 1

\* What an upload leaves: the object keeps its ID, the revision is new.
Uploaded(ver, r, newTick) ==
  [kind |-> "file", id |-> IF r = Absent THEN newTick ELSE r.id,
   rev |-> newTick, ver |-> ver]

\* Mutant of UploadAccepted: the server is not told the expected revision.
UploadUnconditional == LocalAsExpected

\* The copy itself: the server stores the bytes only on the expected revision,
\* and rclone refuses a source that changed after it was opened.
UploadAccepted == LocalAsExpected /\ RemoteAsExpected

Upload ==
  /\ pc = "upload" /\ UploadAccepted
  /\ remote' = [remote EXCEPT ![Op.path] =
                  Uploaded(Op.expLocal.ver, remote[Op.path], tick + 1)]
  /\ tick' = tick + 1
  /\ applied' = applied \union {cur}
  /\ \/ /\ pc' = "observe" /\ obs' = [obs EXCEPT !.result = remote'[Op.path]] /\ Stay
        /\ UNCHANGED <<storeVars, temp, faults>>
     \/ Fault /\ Fail /\ UNCHANGED <<enabled, initialized, baseline, conflicts, nextOp>>
  /\ UNCHANGED <<local, slot, cli, edits, crashes, commands>>

UploadRefused ==
  /\ pc = "upload" /\ ~UploadAccepted
  /\ Fail
  /\ UNCHANGED <<enabled, initialized, baseline, conflicts, nextOp>>
  /\ UNCHANGED <<local, remote, slot, tick, cli, applied, boundVars>>

\* The object is deleted by its ID alone: the revision was checked before.
ObjectStillThere == remote[Op.path] # Absent /\ remote[Op.path].id = Op.expRemote.id

RemoteDelete ==
  /\ pc = "remoteDelete" /\ ObjectStillThere
  /\ remote' = [remote EXCEPT ![Op.path] = Absent]
  /\ applied' = applied \union {cur}
  /\ \/ Goto("observe") /\ UNCHANGED <<storeVars, temp, faults>>
     \/ Fault /\ Fail /\ UNCHANGED <<enabled, initialized, baseline, conflicts, nextOp>>
  /\ UNCHANGED <<local, slot, tick, cli, edits, crashes, commands>>

RemoteDeleteRefused ==
  /\ pc = "remoteDelete" /\ ~ObjectStillThere
  /\ Fail
  /\ UNCHANGED <<enabled, initialized, baseline, conflicts, nextOp>>
  /\ UNCHANGED <<local, remote, slot, tick, cli, applied, boundVars>>

(***************************************************************************)
(* Executing an operation: local mutations                                 *)
(***************************************************************************)

\* EnsureLocalFile up to the end of the download of the expected revision.
\* What an earlier attempt left in the download slot is replaced, but stays
\* when the local side is not as planned.
Download ==
  /\ pc = "exec" /\ Op.kind = "ensure-local"
  /\ IF LocalAsExpected /\ AnchorHolds /\ RemoteAsExpected
       THEN temp' = Staged /\ Goto("begin") /\ UNCHANGED journal
     ELSE IF LocalAsExpected /\ AnchorHolds THEN Fail
     ELSE GiveUp /\ UNCHANGED temp
  /\ UNCHANGED <<enabled, initialized, baseline, conflicts, nextOp>>
  /\ UNCHANGED <<local, remote, slot, tick, cli, applied, boundVars>>

\* Mutant of BeginLocal: the durable boundary is not written.
BeginLocalUnrecorded ==
  /\ \/ pc = "begin"
     \/ pc = "exec" /\ Op.kind = "delete-local"
  /\ IF LocalAsExpected /\ AnchorHolds /\ (Op.kind = "ensure-local" => RemoteAsExpected)
       THEN /\ UNCHANGED <<journal, temp>>
            /\ Goto(IF Op.expLocal = Absent THEN "install" ELSE "preserve")
       ELSE Fail
  /\ UNCHANGED <<enabled, initialized, baseline, conflicts, nextOp>>
  /\ UNCHANGED <<local, remote, slot, tick, cli, applied, boundVars>>

\* The last checks before user data is touched, then the durable running
\* boundary (beginLocalSideEffect).
BeginLocal ==
  /\ \/ pc = "begin"
     \/ pc = "exec" /\ Op.kind = "delete-local"
  /\ IF LocalAsExpected /\ AnchorHolds /\ (Op.kind = "ensure-local" => RemoteAsExpected)
       THEN /\ SetPhase("running") /\ UNCHANGED temp
            /\ Goto(IF Op.expLocal = Absent THEN "install" ELSE "preserve")
       ELSE Fail
  /\ UNCHANGED <<enabled, initialized, baseline, conflicts, nextOp>>
  /\ UNCHANGED <<local, remote, slot, tick, cli, applied, boundVars>>

\* preserveExpectedLocalEntryAt: whatever is at the target is moved aside,
\* without replacing what is in the recovery slot ...
Preserve ==
  /\ pc = "preserve"
  /\ IF local[Op.path] # Absent /\ slot[cur] = Absent
       THEN /\ slot' = [slot EXCEPT ![cur] = local[Op.path]]
            /\ local' = [local EXCEPT ![Op.path] = Absent]
            /\ Goto("validate") /\ UNCHANGED <<journal, temp>>
       ELSE Fail /\ UNCHANGED <<slot, local>>
  /\ UNCHANGED <<enabled, initialized, baseline, conflicts, nextOp>>
  /\ UNCHANGED <<remote, tick, cli, applied, boundVars>>

\* Mutant of RestoreSlot: what is at the target by now is overwritten.
RestoreOver ==
  /\ local' = [local EXCEPT ![Op.path] = slot[cur]]
  /\ slot' = [slot EXCEPT ![cur] = Absent]

\* restorePreservedLocalEntry: back to the target, unless something is there.
RestoreSlot ==
  IF local[Op.path] = Absent
    THEN /\ local' = [local EXCEPT ![Op.path] = slot[cur]]
         /\ slot' = [slot EXCEPT ![cur] = Absent]
    ELSE UNCHANGED <<local, slot>>

\* Mutant of Validate: the moved object is not compared with the expectation.
ValidateByIdentity ==
  /\ pc = "validate"
  /\ IF slot[cur].ino = Op.pin
       THEN Goto(IF Op.kind = "ensure-local" THEN "install" ELSE "drop")
       ELSE Goto("restore")
  /\ UNCHANGED <<storeVars, worldVars, cli, applied, boundVars>>

\* ... and what was actually moved is validated.
Validate ==
  /\ pc = "validate"
  /\ IF LocalEquivalent(LocalPrint(slot[cur]), Op.expLocal) /\ slot[cur].ino = Op.pin
       THEN Goto(IF Op.kind = "ensure-local" THEN "install" ELSE "drop")
       ELSE Goto("restore")
  /\ UNCHANGED <<storeVars, worldVars, cli, applied, boundVars>>

\* The downloaded file takes the name, unless something else has it by now.
Install ==
  /\ pc = "install"
  /\ IF local[Op.path] = Absent /\ temp[cur] # Absent
       THEN /\ local' = [local EXCEPT ![Op.path] =
                           [kind |-> "file", ver |-> temp[cur].ver, ino |-> tick + 1]]
            /\ tick' = tick + 1 /\ temp' = [temp EXCEPT ![cur] = Absent]
            /\ pc' = IF slot[cur] = Absent THEN "observe" ELSE "drop"
            /\ obs' = [obs EXCEPT !.result = temp[cur]] /\ Stay
            /\ applied' = IF slot[cur] = Absent THEN applied \union {cur} ELSE applied
            /\ UNCHANGED journal
       ELSE /\ IF slot[cur] = Absent THEN Fail ELSE Goto("restore") /\ UNCHANGED <<journal, temp>>
            /\ UNCHANGED <<local, tick, applied>>
  /\ UNCHANGED <<enabled, initialized, baseline, conflicts, nextOp>>
  /\ UNCHANGED <<remote, slot, cli, boundVars>>

\* The mutation is given up; what was moved aside goes back if it can.
Restore ==
  /\ pc = "restore"
  /\ RestoreSlot /\ Fail
  /\ UNCHANGED <<enabled, initialized, baseline, conflicts, nextOp>>
  /\ UNCHANGED <<remote, tick, cli, applied, boundVars>>

\* The preserved file is removed for good.
Drop ==
  /\ pc = "drop"
  /\ slot' = [slot EXCEPT ![cur] = Absent]
  /\ applied' = applied \union {cur}
  /\ Goto("observe")
  /\ UNCHANGED <<storeVars, local, remote, temp, tick, cli, boundVars>>

(***************************************************************************)
(* Executing an operation: the end                                         *)
(***************************************************************************)

Observe ==
  /\ pc = "observe"
  /\ pc' = "settle" /\ obs' = [obs EXCEPT !.local = LocalPrint(local[Op.path])] /\ Stay
  /\ UNCHANGED <<storeVars, worldVars, cli, applied, boundVars>>

\* postconditionAfterSuccessfulCall, after the comparison with the exact
\* object the upload or the download returned.
Postcondition(op, l, r) ==
  CASE op.kind \in DeleteKinds -> l = Absent /\ r = Absent
    [] op.kind = "ensure-remote" ->
         /\ RemoteEquivalent(r, obs.result)
         /\ LocalEquivalent(l, op.expLocal) /\ r # Absent
         /\ SizeOf[l.ver] = SizeOf[r.ver]
         /\ op.expRemote # Absent => r.id = op.expRemote.id /\ r.rev # op.expRemote.rev
    [] op.kind = "ensure-local" ->
         /\ LocalEquivalent(l, obs.result)
         /\ MatchesExpectation(r, op.expRemote) /\ l # Absent
         /\ SizeOf[l.ver] = SizeOf[r.ver]

Settle ==
  /\ pc = "settle"
  /\ IF Postcondition(Op, obs.local, remote[Op.path])
       THEN CommitBaseline(obs.local, remote[Op.path])
       ELSE SetPhase("recovering") /\ EndCycle /\ UNCHANGED baseline
  /\ UNCHANGED <<enabled, initialized, conflicts, nextOp>>
  /\ UNCHANGED <<worldVars, cli, applied, boundVars>>

(***************************************************************************)
(* A pass                                                                  *)
(***************************************************************************)

\* The local half of the complete snapshot.  Journaled operations are not
\* consulted any more: an artifact in the tree fails the scan.
ScanLocal ==
  /\ pc = "scan"
  /\ IF enabled /\ Artifacts = {}
       THEN /\ seen' = [seen EXCEPT !.local = [p \in Paths |-> LocalPrint(local[p])]]
            /\ pc' = "plan" /\ UNCHANGED <<queue, cur, pass, plan, left, obs>>
       ELSE EndCycle
  /\ UNCHANGED <<storeVars, worldVars, cli, applied, boundVars>>

\* The remote half, the plan, and the content comparisons it asks for.
\* CompareFileContent fails when a file is not the scanned one any more.
PlanPass ==
  LET decide(evidence) == PlanFullSnapshot(initialized, baseline, seen.local, remote, evidence)
      first    == decide([p \in Paths |-> "unknown"])
      compared == {p \in Paths : first[p].kind = "compare-content"}
      evidence == [p \in Paths |->
                     IF p \notin compared THEN "unknown"
                     ELSE IF SameBytes(seen.local[p], remote[p]) THEN "equal" ELSE "different"]
      unchanged(p) == LocalEquivalent(LocalPrint(local[p]), seen.local[p])
  IN /\ pc = "plan"
     /\ IF PlanBlocked(initialized, baseline, first) \/ ~\A p \in compared : unchanged(p)
          THEN EndCycle
          ELSE /\ plan' = decide(evidence)
               /\ seen' = [seen EXCEPT !.remote = remote]
               /\ left' = Paths /\ pc' = "record"
               /\ UNCHANGED <<queue, cur, pass, obs>>
     /\ UNCHANGED <<storeVars, worldVars, cli, applied, boundVars>>

\* reconcileConflictRecords and the baseline decisions, path by path.
RecordPath(p) ==
  LET l == seen.local[p]
      r == seen.remote[p]
      d == plan[p]
  IN /\ pc = "record" /\ p \in left
     /\ conflicts' = [conflicts EXCEPT ![p] =
                        IF d.kind = "conflict"
                          THEN [kind |-> d.conflict, local |-> l, remote |-> r]
                          ELSE NoConflict]
     /\ baseline' = [baseline EXCEPT ![p] =
                       CASE d.kind = "commit-baseline" -> [local |-> l, remote |-> r]
                         [] d.kind = "drop-baseline"   -> EmptyBaseline
                         [] d.kind \notin {"commit-baseline", "drop-baseline"} -> baseline[p]]
     /\ left' = left \ {p}
     /\ pc' = IF left' = {} THEN "decide" ELSE "record"
     /\ UNCHANGED <<queue, cur, pass, plan, seen, obs>>
     /\ UNCHANGED <<enabled, initialized, journal, nextOp>>
     /\ UNCHANGED <<worldVars, cli, applied, boundVars>>

\* Mutant of DecidePass: the pairing ends although operations are still to come.
InitializeEarly ==
  /\ pc = "decide"
  /\ initialized' = (initialized \/ conflicts = [p \in Paths |-> NoConflict])
  /\ IF External(plan) = {} THEN EndCycle ELSE Goto("dispatch")
  /\ UNCHANGED <<enabled, baseline, conflicts, journal, nextOp>>
  /\ UNCHANGED <<worldVars, cli, applied, boundVars>>

\* Nothing to do outside the store: the cycle is over, and with it the initial
\* pairing unless a conflict is open.
DecidePass ==
  /\ pc = "decide"
  /\ IF External(plan) = {}
       THEN /\ initialized' = (initialized \/ conflicts = [p \in Paths |-> NoConflict])
            /\ EndCycle
       ELSE Goto("dispatch") /\ UNCHANGED initialized
  /\ UNCHANGED <<enabled, baseline, conflicts, journal, nextOp>>
  /\ UNCHANGED <<worldVars, cli, applied, boundVars>>

NewOp(kind, p, l, r, resolves) ==
  [kind |-> kind, path |-> p, expLocal |-> l, expRemote |-> Expectation(r),
   phase |-> "planned", pinned |-> FALSE, pin |-> 0, resolves |-> resolves]

CreateOperation(op) ==
  /\ nextOp <= MaxOps
  /\ journal' = [journal EXCEPT ![nextOp] = op]
  /\ nextOp' = nextOp + 1

\* The next external decision, deletes last, becomes a journaled operation.
Dispatch(p) ==
  /\ pc = "dispatch" /\ p \in External(plan)
  /\ plan[p].kind \in DeleteKinds =>
       \A other \in External(plan) : plan[other].kind \in DeleteKinds
  /\ CreateOperation(NewOp(plan[p].kind, p, seen.local[p], seen.remote[p], FALSE))
  /\ cur' = nextOp
  /\ pc' = IF plan[p].kind \in {"ensure-local", "delete-local"} THEN "pin" ELSE "exec"
  /\ UNCHANGED <<queue, pass, plan, left, seen, obs>>
  /\ UNCHANGED <<enabled, initialized, baseline, conflicts>>
  /\ UNCHANGED <<worldVars, cli, applied, boundVars>>

(***************************************************************************)
(* Failing calls and crashes                                               *)
(***************************************************************************)

Executing == {"exec", "upload", "remoteDelete", "begin", "preserve", "validate",
              "install", "restore", "drop", "observe", "settle"}

\* A file system, network or database call fails, or the worker is cancelled.
\* Moved-aside data goes back where the code puts it back: whenever its own
\* removal or the installation fails, but not when a download is installed
\* already.  What is in the download slot is removed if the call was made after
\* the download began.  The write of the new phase is best effort.
CallFails ==
  /\ Fault
  /\ pc \notin {"down", "idle"}
  /\ \/ UNCHANGED journal
     \/ /\ pc \in Executing \union {"pin"} /\ Op.phase = "planned" /\ LocalMutation(Op)
        /\ DeleteOp
     \/ /\ pc \in Executing \union {"prove", "compare", "cleanup"} /\ Started(Op)
        /\ SetPhase("recovering")
  /\ \/ pc \in Executing \union {"prove", "compare"} /\ temp' = [temp EXCEPT ![cur] = Absent]
     \/ pc \notin (Executing \ {"exec"}) \union {"compare"} /\ UNCHANGED temp
  /\ IF /\ pc \in {"validate", "install", "drop"} /\ slot[cur] # Absent
        /\ ~(pc = "drop" /\ Op.kind = "ensure-local")
       THEN RestoreSlot ELSE UNCHANGED <<local, slot>>
  /\ EndCycle
  /\ UNCHANGED <<enabled, initialized, baseline, conflicts, nextOp>>
  /\ UNCHANGED <<remote, tick, cli, applied, edits, crashes, commands>>

Crash ==
  /\ pc # "down" /\ crashes < MaxCrashes /\ crashes' = crashes + 1
  /\ pc' = "down" /\ queue' = {} /\ cur' = 0 /\ pass' = 0
  /\ plan' = NoPlan /\ left' = {} /\ seen' = NoSnapshot /\ obs' = NoObs
  /\ UNCHANGED <<storeVars, worldVars, cli, applied, edits, faults, commands>>

Start ==
  /\ pc = "down" /\ pc' = "idle"
  /\ UNCHANGED <<queue, cur, pass, plan, left, seen, obs>>
  /\ UNCHANGED <<storeVars, worldVars, cli, applied, boundVars>>

(***************************************************************************)
(* The CLI                                                                 *)
(***************************************************************************)

Command == commands < MaxCommands /\ commands' = commands + 1

\* Pausing also cancels the worker: a CallFails step may follow.
SetEnabled ==
  /\ Command /\ enabled' = ~enabled
  /\ UNCHANGED <<initialized, baseline, conflicts, journal, nextOp>>
  /\ UNCHANGED <<worldVars, daemonVars, cli, applied, edits, crashes, faults>>

\* OperationForConflictResolution for a conflict between files.
ResolutionKind(c, keepLocal) ==
  CASE keepLocal  /\ c.local # Absent  -> "ensure-remote"
    [] keepLocal  /\ c.local = Absent  -> "delete-remote"
    [] ~keepLocal /\ c.remote # Absent -> "ensure-local"
    [] ~keepLocal /\ c.remote = Absent -> "delete-local"

\* conflict resolve holds no lock against the daemon.  It refuses a path with
\* a pending operation ...
CheckResolve(p, keepLocal) ==
  /\ cli = Absent /\ Command
  /\ conflicts[p].kind \notin {"none", "kind-mismatch"}
  /\ \A o \in Live : journal[o].path # p
  /\ cli' = NewOp(ResolutionKind(conflicts[p], keepLocal), p,
                  conflicts[p].local, conflicts[p].remote, TRUE)
  /\ UNCHANGED <<storeVars, worldVars, daemonVars, applied, edits, crashes, faults>>

\* ... and queues the resolution in a later transaction.
QueueResolve ==
  /\ cli # Absent
  /\ CreateOperation(cli) /\ cli' = Absent
  /\ UNCHANGED <<enabled, initialized, baseline, conflicts>>
  /\ UNCHANGED <<worldVars, daemonVars, applied, boundVars>>

\* Mutant of ResolveRetry: the operation starts over as a planned one.
RetryAsPlanned(o) ==
  /\ pc = "down" /\ o \in Live /\ journal[o].phase = "blocked"
  /\ journal' = [journal EXCEPT ![o].phase = "planned"]
  /\ UNCHANGED <<enabled, initialized, baseline, conflicts, nextOp>>
  /\ UNCHANGED <<worldVars, daemonVars, cli, applied, boundVars>>

\* operation resolve --retry takes the daemon's lock.
ResolveRetry(o) ==
  /\ pc = "down" /\ o \in Live /\ journal[o].phase = "blocked"
  /\ journal' = [journal EXCEPT ![o].phase = "recovering"]
  /\ UNCHANGED <<enabled, initialized, baseline, conflicts, nextOp>>
  /\ UNCHANGED <<worldVars, daemonVars, cli, applied, boundVars>>

\* operation resolve --restore-recovery puts the pinned object back at an
\* absent target, then queues the operation like --retry.
ResolveRestore(o) ==
  /\ pc = "down" /\ o \in Live /\ journal[o].phase = "blocked"
  /\ slot[o] # Absent /\ local[journal[o].path] = Absent
  /\ LocalEquivalent(LocalPrint(slot[o]), journal[o].expLocal)
  /\ slot[o].ino = journal[o].pin
  /\ local' = [local EXCEPT ![journal[o].path] = slot[o]]
  /\ slot' = [slot EXCEPT ![o] = Absent]
  /\ journal' = [journal EXCEPT ![o].phase = "recovering"]
  /\ UNCHANGED <<enabled, initialized, baseline, conflicts, nextOp>>
  /\ UNCHANGED <<remote, temp, tick, daemonVars, cli, applied, boundVars>>

(***************************************************************************)
(* The user and other clients of the drive                                 *)
(***************************************************************************)

Edit ==
  /\ edits < MaxEdits /\ edits' = edits + 1
  /\ UNCHANGED <<storeVars, slot, temp, daemonVars, cli, applied, crashes, faults, commands>>

\* A new file, or one renamed over the old one.
LocalPut(p, ver) ==
  /\ local' = [local EXCEPT ![p] = [kind |-> "file", ver |-> ver, ino |-> tick + 1]]
  /\ tick' = tick + 1
  /\ Edit /\ UNCHANGED remote

LocalWrite(p, ver) ==
  /\ InPlaceWrites
  /\ local[p] # Absent /\ local[p].ver # ver
  /\ local' = [local EXCEPT ![p].ver = ver]
  /\ Edit /\ UNCHANGED <<remote, tick>>

LocalRemove(p) ==
  /\ local[p] # Absent
  /\ local' = [local EXCEPT ![p] = Absent]
  /\ Edit /\ UNCHANGED <<remote, tick>>

RemotePut(p, ver) ==
  /\ remote' = [remote EXCEPT ![p] = Uploaded(ver, remote[p], tick + 1)]
  /\ tick' = tick + 1
  /\ Edit /\ UNCHANGED local

RemoteRemove(p) ==
  /\ remote[p] # Absent
  /\ remote' = [remote EXCEPT ![p] = Absent]
  /\ Edit /\ UNCHANGED <<local, tick>>

(***************************************************************************)
(* The specification                                                       *)
(***************************************************************************)

RecoveryStep ==
  \/ BeginCycle \/ RecoverBlocked \/ RecoverPlanned \/ RecoverStarted
  \/ Pin \/ CheckPlanned \/ Prove \/ FetchPinned \/ ComparePinned
  \/ Cleanup \/ Commit \/ Retry

ExecutionStep ==
  \/ BeginRemote \/ Upload \/ UploadRefused \/ RemoteDelete \/ RemoteDeleteRefused
  \/ Download \/ BeginLocal \/ Preserve \/ Validate \/ Install \/ Restore
  \/ Drop \/ Observe \/ Settle

PassStep ==
  \/ ScanLocal \/ PlanPass \/ DecidePass
  \/ \E p \in Paths : RecordPath(p) \/ Dispatch(p)

WorkerStep == RecoveryStep \/ ExecutionStep \/ PassStep

DaemonNext == WorkerStep \/ CallFails

CliNext ==
  \/ SetEnabled \/ QueueResolve
  \/ \E p \in Paths, keepLocal \in BOOLEAN : CheckResolve(p, keepLocal)
  \/ \E o \in OpIds : ResolveRetry(o) \/ ResolveRestore(o)

UserNext ==
  \E p \in Paths : \/ \E ver \in Versions : LocalPut(p, ver) \/ LocalWrite(p, ver)
                                            \/ RemotePut(p, ver)
                   \/ LocalRemove(p) \/ RemoteRemove(p)

Next == DaemonNext \/ Crash \/ Start \/ CliNext \/ UserNext

Spec == Init /\ [][Next]_vars

\* A cycle in progress goes on, a new one is started at every poll interval,
\* and the service manager restarts the daemon.
FairSpec == Spec /\ WF_vars(WorkerStep) /\ WF_vars(Start)

(***************************************************************************)
(* Safety                                                                  *)
(***************************************************************************)

\* The baseline of a path never pairs two different contents, whatever was
\* edited, lost or replayed between the observations it was made from.  The
\* planner reads "unchanged since the baseline" as "may be overwritten".
BaselineAgrees ==
  \A p \in Paths :
    LET b == baseline[p]
    IN b # EmptyBaseline => /\ b.local # Absent /\ b.remote # Absent
                            /\ b.local.ver = b.remote.ver

\* User data in a recovery slot always has a started operation in the journal
\* that owns it: no crash or failure leaves it behind unaccounted for.
PreservedHasOwner == \A o \in OpIds : slot[o] # Absent => OwnsRecoverySlot(o)

\* So has a staged download: "deleting the operation row cannot orphan a
\* reserved artifact that wedges the next complete scan" (docs/architecture.md).
DownloadHasOwner == \A o \in OpIds : temp[o] # Absent => OwnsDownloadSlot(o)

\* Nothing the daemon put beside the user's files is ever left behind.  A crash
\* may leave it at any point, also in the middle of recovery; whatever then takes
\* the operation out of the journal takes its files away first.  So a pass,
\* whose scan refuses such files, never finds one.
NothingLeftBehind ==
  /\ PreservedHasOwner /\ DownloadHasOwner
  /\ pc = "scan" => Artifacts = {}

\* The daemon never overwrites a local file: when it takes one away, the very
\* object is in a recovery slot afterwards.
LocalFileMovedAside ==
  [][DaemonNext => \A p \in Paths :
       local[p] # Absent /\ local'[p] # local[p] => \E o \in OpIds : slot'[o] = local[p]]_vars

\* What a step removes for good out of a recovery slot has the version its
\* operation was journaled for.
DestroyedIsKnown ==
  \A o \in OpIds :
    /\ slot[o] # Absent /\ slot'[o] = Absent
    /\ local'[journal[o].path] # slot[o]
    => slot[o].ver = journal[o].expLocal.ver

\* An operation of a pass that takes a local file away is journaled for the
\* version the baseline records as in sync at that moment.
JournaledAsSynced ==
  \A o \in OpIds :
    LET op == journal'[o]
    IN journal[o] = Absent /\ op # Absent /\ LocalMutation(op) /\ op.expLocal # Absent
       => /\ baseline[op.path].local # Absent
          /\ op.expLocal.ver = baseline[op.path].local.ver

\* The daemon destroys no local edit it has not seen, neither when it executes
\* an operation nor when it cleans up after one: what it destroys was in sync
\* when the operation was journaled, or was given up by the user who resolved a
\* conflict.  This is the promise; with writes in place the cleanup breaks it.
OnlySyncedBytesDestroyed == [][DaemonNext => DestroyedIsKnown /\ JournaledAsSynced]_vars

\* Executing an operation never destroys an unseen edit, even when files are
\* written in place and any call may fail: the moved object is validated.
ExecutionDestroysOnlySynced ==
  [][DaemonNext => (ExecutionStep => DestroyedIsKnown) /\ JournaledAsSynced]_vars

\* A remote object the daemon overwrites is exactly the revision the baseline
\* or the resolved conflict recorded; one it deletes is at least the same
\* object (the server deletes by ID, whatever the revision).
OnlySyncedRemoteReplaced ==
  [][DaemonNext => \A p \in Paths :
       remote[p] # Absent /\ remote'[p] # remote[p] =>
         LET known == IF Op.resolves THEN Op.expRemote ELSE Expectation(baseline[p].remote)
         IN /\ known # Absent /\ remote[p].id = known.id
            /\ remote'[p] # Absent => remote[p].rev = known.rev]_vars

\* Until the root is initialized the daemon takes nothing away on either side,
\* unless the user resolved a conflict.
PairingOnlyAdds ==
  [][DaemonNext /\ ~initialized =>
       \A p \in Paths :
         /\ local[p] # Absent /\ local'[p] # local[p] => Op.resolves
         /\ remote[p] # Absent /\ remote'[p] # remote[p] => Op.resolves]_vars

\* The pairing ends only on a snapshot whose every path is in sync and
\* recorded in the baseline; no conflict is open and no operation of an
\* earlier pass of the cycle is left over.
InitializedWhenPaired ==
  [][~initialized /\ initialized' =>
       /\ \A p \in Paths :
            /\ Unchanged(baseline[p], seen.local[p], seen.remote[p])
            /\ conflicts[p].kind = "none"
       /\ \A o \in Live : journal[o].resolves]_vars

InSync(l, r) == LocalPrint(l) = IF r = Absent THEN Absent ELSE LocalPrint(r)

\* A cycle that finds nothing left to do is right: in the snapshot of its last
\* pass every path is in sync and known to be, or is in a recorded conflict of
\* exactly the two files the pass saw.  Nothing is passed over in silence.
QuietCycleSettles ==
  [][DecidePass /\ External(plan) = {} =>
       \A p \in Paths :
         LET l == seen.local[p]
             r == seen.remote[p]
             c == conflicts[p]
         IN IF c.kind = "none" THEN InSync(l, r) /\ Unchanged(baseline[p], l, r)
                               ELSE c.local = l /\ c.remote = r]_vars

\* How far the worker is within a pass; operations come last.
Stage ==
  CASE pc = "scan" -> 1 [] pc = "plan" -> 2 [] pc = "record" -> 3 [] pc = "decide" -> 4
    [] pc \notin {"scan", "plan", "record", "decide"} -> 5

\* What there is still to be done at this stage.
Outstanding ==
  CASE pc = "record" -> left
    [] pc # "record" /\ pass = 0 -> queue
    [] pc # "record" /\ pass # 0 -> External(plan)

\* How far the operation in hand is, counted in the steps it can still take.
StepsLeft ==
  CASE pc \in {"recover", "dispatch"} -> 14
    [] pc \in {"pin", "prove"} -> 13
    [] pc = "compare" -> 12
    [] pc \in {"check", "retry"} -> 11
    [] pc = "exec" -> 10
    [] pc \in {"begin", "upload", "remoteDelete"} -> 9
    [] pc = "preserve" -> 8
    [] pc = "validate" -> 7
    [] pc = "install" -> 6
    [] pc \in {"drop", "restore"} -> 5
    [] pc = "observe" -> 4
    [] pc \in {"settle", "cleanup"} -> 3
    [] pc = "commit" -> 2
    [] pc \in {"scan", "plan", "record", "decide", "idle", "down"} -> 0

\* The next pass, or the next stage, or less outstanding, or one step further
\* with an operation.
Advances ==
  \/ pass < pass' /\ pass' <= MaxCyclePasses
  \/ pass' = pass /\ Stage < Stage'
  \/ /\ pass' = pass /\ Stage' = Stage
     /\ Outstanding' \subseteq Outstanding
     /\ Outstanding' = Outstanding => StepsLeft' < StepsLeft

\* A cycle ends after a bounded number of its own steps, whatever the user,
\* other clients and commands do meanwhile: no step of the worker goes back in
\* the order of passes, stages, operations and their steps, and no step of
\* anybody else moves it at all but to end it.  A retried or recovered
\* operation cannot keep a cycle going.
CycleAdvances ==
  [][pc \notin {"idle", "down"} =>
       \/ pc' \in {"idle", "down"}
       \/ Advances
       \/ ~DaemonNext /\ UNCHANGED daemonVars]_vars

\* While an operation is blocked the daemon starts nothing behind it: no later
\* operation is journaled or moves on, so nothing is built on its unknown
\* outcome.
BlockedFreezes ==
  [][DaemonNext => \A o \in Live : journal[o].phase = "blocked" =>
       /\ nextOp' = nextOp
       /\ \A later \in OpIds : later >= o => journal'[later] = journal[later]]_vars

\* An operation that replaces or removes existing data takes effect at most
\* once, however often it is recovered.
DestroysOnce ==
  [][DaemonNext => \A o \in applied \intersect Live :
       /\ o = cur
       /\ IF LocalMutation(journal[o]) THEN journal[o].expLocal # Absent
                                       ELSE journal[o].expRemote # Absent
       => UNCHANGED <<local, remote, slot>>]_vars

(***************************************************************************)
(* Liveness                                                                *)
(***************************************************************************)

PathSettled(p) ==
  \/ InSync(local[p], remote[p])
  \/ /\ conflicts[p].kind # "none"
     /\ conflicts[p].local = LocalPrint(local[p]) /\ conflicts[p].remote = remote[p]

WaitsForUser ==
  \/ ~enabled
  \/ \E o \in Live : journal[o].phase = "blocked"

\* When edits, faults and crashes stop, every path ends up in sync or in a
\* recorded conflict, or the root waits for the user.
Settles == <>[](WaitsForUser \/ \A p \in Paths : PathSettled(p))

=============================================================================
