----------------------- MODULE SyncCyclePass_proofs -----------------------
(***************************************************************************)
(* Proofs about what a pass of SyncCycle decides and records: the pairing  *)
(* of a new root only adds, the baseline pairs equal bytes, a remote       *)
(* object is replaced only in the state the baseline knows, and nothing is *)
(* left behind in the root when a pass scans it.  Then the proof that the  *)
(* cycle implements the operation journal: every step of the daemon, the   *)
(* CLI, the user and the other clients maps to one step of                 *)
(* OperationJournal, or to none.                                           *)
(***************************************************************************)
EXTENDS SyncCycleJournal, SyncCycleEffects_proofs

(***************************************************************************)
(* What the outstanding decisions of a pass rest on                        *)
(***************************************************************************)

\* One side of path p is as it was when it was last in sync.
RemoteAsSynced(p) == Expectation(baseline[p].remote) = Expectation(seen.remote[p])

LocalAsSynced(p) == LocalEquivalent(baseline[p].local, seen.local[p])

\* An operation the plan asks for is right: it only adds, or the root is
\* initialized and the side it changes has not moved since the baseline.
SoundDecision(p) ==
  /\ plan[p].kind = "ensure-remote" =>
       seen.remote[p] = Absent \/ (initialized /\ RemoteAsSynced(p))
  /\ plan[p].kind = "ensure-local" =>
       seen.local[p] = Absent \/ (initialized /\ LocalAsSynced(p))
  /\ plan[p].kind = "delete-remote" =>
       initialized /\ seen.remote[p] # Absent /\ RemoteAsSynced(p)
  /\ plan[p].kind = "delete-local" => initialized /\ LocalAsSynced(p)

\* The decision for p is being carried out.
TakenOn(p) == pc \in OpPcs /\ Op.path = p

PlanInv ==
  /\ pass = 0 => External(plan) = {}
  /\ \A p \in Paths : plan[p].kind \in ExternalKinds /\ ~TakenOn(p) => SoundDecision(p)

\* Two sides that agree, in a file or in having none.
Agree(l, r) == l # Absent /\ r # Absent /\ l.ver = r.ver

Pair(l, r) == (l = Absent /\ r = Absent) \/ Agree(l, r)

\* What a path is recorded as, once its decision is recorded.
Recorded(p) ==
  /\ plan[p].kind \in {"commit-baseline", "drop-baseline"} =>
       Unchanged(baseline[p], seen.local[p], seen.remote[p])
  /\ plan[p].kind = "conflict" => conflicts[p] =
       [kind |-> plan[p].conflict, local |-> seen.local[p], remote |-> seen.remote[p]]
  /\ plan[p].kind # "conflict" => conflicts[p] = NoConflict

RecordInv ==
  /\ pc = "decide" => left = {}
  /\ \A p \in Paths : conflicts[p].kind # "none" =>
                        conflicts[p].local # Absent \/ conflicts[p].remote # Absent
  /\ pc \in {"record", "decide"} => \A p \in Paths :
       /\ plan[p].kind # "compare-content"
       /\ plan[p].kind = "noop" => Unchanged(baseline[p], seen.local[p], seen.remote[p])
       /\ plan[p].kind = "commit-baseline" => Agree(seen.local[p], seen.remote[p])
       /\ plan[p].kind = "drop-baseline" => seen.local[p] = Absent /\ seen.remote[p] = Absent
       /\ plan[p].kind = "conflict" => /\ plan[p].conflict \in ConflictKinds
                                       /\ seen.local[p] # Absent \/ seen.remote[p] # Absent
       /\ p \notin left => Recorded(p)

(***************************************************************************)
(* What the operations rest on                                             *)
(***************************************************************************)

\* The operation creates a file where there is none.
OnlyAdds(op) ==
  \/ op.kind = "ensure-local" /\ op.expLocal = Absent
  \/ op.kind = "ensure-remote" /\ op.expRemote = Absent

\* The remote object the operation replaces or deletes is the one of record b,
\* unless it is another one by now and the operation will be refused.
Backed(op, b) ==
  /\ op.kind = "ensure-remote" /\ op.expRemote # Absent =>
       (MatchesExpectation(remote[op.path], op.expRemote) => Expectation(b) = op.expRemote)
  /\ op.kind = "delete-remote" =>
       (remote[op.path] # Absent /\ remote[op.path].id = op.expRemote.id =>
          b # Absent /\ b.id = op.expRemote.id)

\* Where the worker has observed the remote side it may commit.
ProvenPcs == {"compare", "cleanup", "commit"}

OriginInv ==
  /\ \A o \in Live : journal[o].kind = "delete-remote" => journal[o].expRemote # Absent
  /\ cli # Absent /\ cli.kind = "delete-remote" => cli.expRemote # Absent
  /\ \A o \in Live : ~journal[o].resolves =>
       /\ initialized \/ OnlyAdds(journal[o])
       /\ Backed(journal[o], baseline[journal[o].path].remote)
       /\ pc \in ProvenPcs /\ journal[o].path = Op.path => Backed(journal[o], obs.remote)

(***************************************************************************)
(* Which bytes the worker knows to be on both sides                        *)
(***************************************************************************)

\* As long as the remote file of path p is in revision e, it has version ver.
InRevision(p, e, ver) == MatchesExpectation(remote[p], e) => remote[p].ver = ver

\* The revision the upload left has the uploaded bytes.
UploadKnown ==
  /\ obs.result \in RemoteFiles /\ obs.result.rev <= tick
  /\ obs.result.ver = Op.expLocal.ver
  /\ InRevision(Op.path, Expectation(obs.result), obs.result.ver)

\* The download, and what was installed, has the bytes of the revision.
DownloadKnown == temp[cur] # Absent /\ InRevision(Op.path, Op.expRemote, temp[cur].ver)

InstalledKnown == obs.result # Absent /\ InRevision(Op.path, Op.expRemote, obs.result.ver)

\* What recovery has downloaded to compare has the bytes of the revision it
\* observed, and there was a file to compare it with.
FetchedKnown ==
  /\ obs.remote # Absent /\ obs.result # Absent
  /\ temp[cur] # Absent /\ temp[cur].ver = obs.remote.ver

BytesInv ==
  /\ BaselineAgrees
  /\ pc \in {"cleanup", "commit"} => Pair(obs.local, obs.remote)
  /\ pc = "compare" => FetchedKnown
  /\ pc \in {"observe", "settle"} /\ Op.kind = "ensure-remote" => UploadKnown
  /\ pc \in {"begin", "preserve", "validate", "install"} /\ Op.kind = "ensure-local"
       => DownloadKnown
  /\ pc \in {"drop", "observe", "settle"} /\ Op.kind = "ensure-local" => InstalledKnown

PassInv == EffectInv /\ PlanInv /\ RecordInv /\ OriginInv /\ BytesInv

(***************************************************************************)
(* How a step moves the plan                                               *)
(***************************************************************************)

\* Completing an operation records the observed pair.
RecordsPair(l, r) ==
  /\ pc \in OpPcs /\ CommitBaseline(l, r) /\ UNCHANGED worldVars
  /\ \/ Commit /\ l = obs.local /\ r = obs.remote
     \/ Settle /\ Postcondition(Op, l, r) /\ l = obs.local /\ r = remote[Op.path]

\* What a step with an operation in hand does to the store.
LEMMA StoreInHand ==
  ASSUME StepInHand
  PROVE  /\ UNCHANGED <<initialized, conflicts, cli>>
         /\ UNCHANGED baseline \/ \E l, r : RecordsPair(l, r)
<1>1. UNCHANGED <<initialized, conflicts, cli>>
  BY DEF StepInHand, ExecutionStep, Pin, CheckPlanned, Prove, FetchPinned, ComparePinned,
         Cleanup, Commit, Retry, BeginRemote, Upload, UploadRefused, RemoteDelete,
         RemoteDeleteRefused, Download, BeginLocal, Preserve, Validate, Install, Restore, Drop,
         Observe, Settle, CallFails, storeVars
<1>2. Commit => RecordsPair(obs.local, obs.remote)
  BY DEF Commit, RecordsPair, OpPcs
<1>3. Settle => UNCHANGED baseline \/ RecordsPair(obs.local, remote[Op.path])
  BY DEF Settle, RecordsPair, OpPcs, Executing
<1>4. Commit \/ Settle \/ UNCHANGED baseline
  BY DEF StepInHand, ExecutionStep, Pin, CheckPlanned, Prove, FetchPinned, ComparePinned,
         Cleanup, Retry, BeginRemote, Upload, UploadRefused, RemoteDelete, RemoteDeleteRefused,
         Download, BeginLocal, Preserve, Validate, Install, Restore, Drop, Observe, CallFails,
         storeVars
<1> QED  BY <1>1, <1>2, <1>3, <1>4

\* Initialization is never taken back.
LEMMA StaysInitialized == ASSUME [Next]_vars PROVE initialized => initialized'
<1>1. StepInHand => UNCHANGED initialized
  BY StoreInHand
<1>2. BeginCycle \/ RecoverBlocked \/ RecoverPlanned \/ RecoverStarted => UNCHANGED initialized
  BY DEF BeginCycle, RecoverBlocked, RecoverPlanned, RecoverStarted, storeVars
<1>3. CASE PassStep
  BY <1>3 DEF PassStep, ScanLocal, PlanPass, DecidePass, RecordPath, Dispatch, storeVars
<1>4. CASE CallFails \/ Crash \/ Start \/ CliNext \/ UserNext \/ UNCHANGED vars
  BY <1>4
     DEF CallFails, Crash, Start, CliNext, SetEnabled, QueueResolve, CheckResolve, ResolveRetry,
         ResolveRestore, UserNext, LocalPut, LocalWrite, LocalRemove, RemotePut, RemoteRemove,
         Edit, vars, storeVars
<1> QED  BY <1>1, <1>2, <1>3, <1>4
         DEF Next, DaemonNext, WorkerStep, RecoveryStep, StepInHand

\* The pass goes on to its next decision.
NextDecision ==
  /\ pc \in OpPcs /\ pass # 0 /\ Op.path \in Paths /\ pc' = "dispatch"
  /\ plan' = [plan EXCEPT ![Op.path] = Decide("noop")] /\ UNCHANGED <<pass, seen>>
  /\ \A p \in Paths : p # Op.path => baseline'[p] = baseline[p]

\* The plan is as before, and an operation of a pass in hand is still in hand.
Quiet ==
  /\ UNCHANGED <<plan, seen, pass>>
  /\ pass # 0 => UNCHANGED baseline
  /\ pass # 0 /\ pc \in OpPcs => pc' \in OpPcs /\ journal'[cur'].path = Op.path

LEMMA QuietCases ==
  /\ UNCHANGED <<daemonVars, baseline>> /\ (pc \in OpPcs => journal'[cur] = journal[cur]) => Quiet
  /\ UNCHANGED <<plan, seen, pass, baseline>> /\ pc \notin OpPcs => Quiet
  /\ UNCHANGED <<plan, seen, pass>> /\ pass = 0 => Quiet
BY DEF Quiet, daemonVars, Op

LEMMA PlanMoves ==
  ASSUME OwnerInv, OrderInv, [Next]_vars
  PROVE  \/ PlanPass /\ ~EndCycle
         \/ \E p \in Paths : RecordPath(p)
         \/ \E p \in Paths : Dispatch(p)
         \/ plan' = NoPlan
         \/ NextDecision
         \/ Quiet
<1>0. /\ TypeInv /\ (pc \in OpPcs => cur \in OpIds /\ cur \in Live /\ Op.path \in Paths)
      /\ baseline \in [Paths -> [local : LocalPrints \union {Absent},
                                remote : RemoteFiles \union {Absent}]]
      /\ nextOp \in Nat
  BY CurrentOp DEF OwnerInv, TypeInv, TypeOK, StoreTypeOK
<1> DEFINE Goal == \/ PlanPass /\ ~EndCycle
                   \/ \E p \in Paths : RecordPath(p)
                   \/ \E p \in Paths : Dispatch(p)
                   \/ plan' = NoPlan
                   \/ NextDecision
                   \/ Quiet
<1>1. EndCycle \/ (\E n \in Nat : BeginPass(n)) => plan' = NoPlan
  BY DEF EndCycle, BeginPass
<1>2. RecoveredOp(cur) => Goal \/ (pass # 0)
  BY <1>1, QuietCases DEF RecoveredOp
<1>3. CASE StepInHand
  <2>1. pc \in OpPcs
    BY <1>0, <1>3, InHand
  <2>2. \A p \in Paths : p # Op.path => baseline'[p] = baseline[p]
    BY <1>0, <1>3, <2>1, StoreInHand DEF RecordsPair, CommitBaseline
  <2>3. CASE GoesOnWith
    <3>1. UNCHANGED <<plan, seen, pass, cur>> /\ pc' \in OpPcs
      BY <2>3 DEF GoesOnWith, Stay
    <3>2. cur \in Live'
      BY <1>0, <2>1, <2>3 DEF GoesOnWith
    <3>3. journal'[cur].path = Op.path
      BY <1>3, <3>2, InHandSteady DEF Steady, Live, Op
    <3>4. UNCHANGED baseline
      BY <1>0, <1>3, <2>1, <3>1, StoreInHand, LeavesOperation DEF RecordsPair, CommitBaseline
    <3> QED  BY <3>1, <3>3, <3>4 DEF Quiet
  <2>4. CASE EndCycle
    BY <1>1, <2>4
  <2>5. CASE pass = 0 /\ RecoveredOp(cur)
    BY <1>2, <2>5
  <2>6. CASE pass # 0 /\ DispatchedOp(Op.path)
    <3> DEFINE rest == [plan EXCEPT ![Op.path] = Decide("noop")]
    <3>1. CASE External(rest) # {}
      <4>1. pc' = "dispatch" /\ plan' = rest /\ UNCHANGED <<pass, seen>>
        BY <2>6, <3>1 DEF DispatchedOp
      <4> QED  BY <1>0, <2>1, <2>2, <2>6, <4>1 DEF NextDecision
    <3>2. CASE External(rest) = {}
      BY <1>1, <2>6, <3>2 DEF DispatchedOp, BeginPass, EndCycle
    <3> QED  BY <3>1, <3>2
  <2> QED  BY <1>0, <1>3, <2>3, <2>4, <2>5, <2>6, InHand
<1>4. CASE BeginCycle \/ RecoverBlocked \/ RecoverPlanned \/ RecoverStarted
  <2>1. pass = 0
    BY <1>0, <1>4
       DEF BeginCycle, RecoverBlocked, RecoverPlanned, RecoverStarted, TypeInv, WorkerOK
  <2>2. plan' = NoPlan \/ UNCHANGED <<plan, seen, pass>>
    BY <1>1, <1>4 DEF BeginCycle, RecoverBlocked, RecoverPlanned, RecoverStarted
  <2> QED  BY <2>1, <2>2, QuietCases
<1>5. CASE PassStep
  <2>1. CASE ScanLocal
    BY <1>0, <1>1, <2>1 DEF ScanLocal, TypeInv, WorkerOK
  <2>2. CASE PlanPass
    BY <1>1, <2>2
  <2>3. CASE DecidePass
    <3>1. CASE Goto("dispatch")
      <4>1. UNCHANGED <<plan, seen, pass, baseline>> /\ pc \notin OpPcs
        BY <2>3, <3>1 DEF DecidePass, Goto, Stay, OpPcs, Executing
      <4> QED  BY <4>1, QuietCases
    <3> QED  BY <1>1, <2>3, <3>1 DEF DecidePass
  <2> QED  BY <1>5, <2>1, <2>2, <2>3 DEF PassStep
<1>6. CASE CallFails \/ Crash
  BY <1>1, <1>6 DEF CallFails, Crash
<1>7. CASE Start
  BY <1>0, <1>7, QuietCases DEF Start, TypeInv, WorkerOK
<1>8. CASE QueueResolve
  <2>1. /\ UNCHANGED <<daemonVars, baseline>> /\ journal' = [journal EXCEPT ![nextOp] = cli]
    BY <1>8 DEF QueueResolve, CreateOperation
  <2>2. pc \in OpPcs => cur # nextOp
    BY <1>0 DEF TypeInv, OpsShape, OpIds
  <2>3. pc \in OpPcs => journal'[cur] = journal[cur]
    BY <1>0, <2>1, <2>2 DEF TypeInv, TypeOK, StoreTypeOK
  <2> QED  BY <2>1, <2>3, QuietCases
<1>9. CASE UserNext \/ UNCHANGED vars
  <2>1. UNCHANGED <<daemonVars, baseline, journal>>
    BY <1>9 DEF UserNext, LocalPut, LocalWrite, LocalRemove, RemotePut, RemoteRemove, Edit, vars,
                storeVars
  <2> QED  BY <2>1, QuietCases
<1>10. CASE CliNext
  <2>1. CASE UNCHANGED <<daemonVars, baseline, journal>>
    BY <2>1, QuietCases
  <2>2. CASE UNCHANGED <<daemonVars, baseline>> /\ pc = "down"
    BY <2>2, QuietCases DEF OpPcs, Executing
  <2> QED  BY <1>8, <1>10, <2>1, <2>2
           DEF CliNext, SetEnabled, CheckResolve, ResolveRetry, ResolveRestore, storeVars
<1>11. CASE DaemonNext
  BY <1>3, <1>4, <1>5, <1>6, <1>11
     DEF DaemonNext, WorkerStep, RecoveryStep, StepInHand
<1> QED  BY <1>6, <1>7, <1>9, <1>10, <1>11 DEF Next

\* A new plan: every decision is justified by what the pass has scanned, none
\* asks for a comparison any more, and "equal" means equal bytes.
LEMMA PlannedPass ==
  ASSUME TypeInv, PlanPass, ~EndCycle
  PROVE  /\ pc = "plan" /\ pc' = "record" /\ left' = Paths
         /\ UNCHANGED <<storeVars, worldVars, cli, queue, cur, pass, obs>>
         /\ seen'.local = seen.local /\ seen'.remote = remote
         /\ \A p \in Paths :
              /\ plan'[p].kind # "compare-content"
              /\ \E e \in Evidence :
                   /\ Justified(plan'[p], initialized, baseline[p], seen.local[p], remote[p], e)
                   /\ e = "equal" => SameBytes(seen.local[p], remote[p])
<1> DEFINE decide(evidence) == PlanFullSnapshot(initialized, baseline, seen.local, remote, evidence)
           first == decide([p \in Paths |-> "unknown"])
           compared == {p \in Paths : first[p].kind = "compare-content"}
           evidence == [p \in Paths |->
                          IF p \notin compared THEN "unknown"
                          ELSE IF SameBytes(seen.local[p], remote[p]) THEN "equal" ELSE "different"]
<1>1. /\ initialized \in BOOLEAN /\ DOMAIN baseline = Paths
      /\ seen \in [local : [Paths -> LocalPrints \union {Absent}],
                   remote : [Paths -> RemoteFiles \union {Absent}]]
  BY DEF TypeInv, TypeOK, StoreTypeOK, DaemonTypeOK
<1>2. /\ pc = "plan" /\ pc' = "record" /\ left' = Paths
      /\ UNCHANGED <<storeVars, worldVars, cli, queue, cur, pass, obs>>
      /\ plan' = decide(evidence) /\ seen' = [seen EXCEPT !.remote = remote]
  BY DEF PlanPass
<1>3. seen'.local = seen.local /\ seen'.remote = remote
  BY <1>1, <1>2
<1>4. ASSUME NEW p \in Paths
      PROVE  /\ plan'[p].kind # "compare-content"
             /\ \E e \in Evidence :
                  /\ Justified(plan'[p], initialized, baseline[p], seen.local[p], remote[p], e)
                  /\ e = "equal" => SameBytes(seen.local[p], remote[p])
  <2>1. /\ first[p] = PlanPath(initialized, baseline[p], seen.local[p], remote[p], "unknown")
        /\ plan'[p] = PlanPath(initialized, baseline[p], seen.local[p], remote[p], evidence[p])
    BY <1>1, <1>2 DEF PlanFullSnapshot
  <2>2. /\ evidence[p] \in Evidence
        /\ evidence[p] = "equal" => SameBytes(seen.local[p], remote[p])
        /\ evidence[p] = "unknown" => p \notin compared
    BY DEF Evidence
  <2>3. p \notin compared => first[p].kind # "compare-content"
    OBVIOUS
  <2> HIDE DEF decide, first, compared, evidence
  <2>4. Justified(plan'[p], initialized, baseline[p], seen.local[p], remote[p], evidence[p])
    BY <1>1, <2>1, <2>2, PlanPathJustified
  <2>5. plan'[p].kind # "compare-content"
    BY <2>1, <2>2, <2>3, <2>4 DEF Justified
  <2> QED  BY <2>2, <2>4, <2>5
<1> QED  BY <1>2, <1>3, <1>4

LEMMA NoPlanInv == ASSUME plan' = NoPlan PROVE PlanInv'
<1>1. \A p \in Paths : plan'[p].kind \notin ExternalKinds
  BY ConstantTypes DEF Decide, ExternalKinds
<1> QED  BY <1>1 DEF PlanInv, External

\* A sound decision stays sound while it waits its turn.
LEMMA PlanInvStep ==
  ASSUME OwnerInv, OrderInv, PlanInv, [Next]_vars PROVE PlanInv'
<1>0. /\ TypeInv /\ (initialized => initialized')
      /\ plan \in [Paths -> Decisions]
      /\ remote \in [Paths -> RemoteFiles \union {Absent}]
      /\ baseline \in [Paths -> [local : LocalPrints \union {Absent},
                                 remote : RemoteFiles \union {Absent}]]
      /\ PassPcs \intersect OpPcs = {}
  BY StaysInitialized
     DEF OwnerInv, TypeInv, TypeOK, StoreTypeOK, WorldTypeOK, DaemonTypeOK, PassPcs, OpPcs, Executing
<1>1. ASSUME NEW p \in Paths, plan'[p] = plan[p], UNCHANGED seen, baseline'[p] = baseline[p],
             SoundDecision(p)
      PROVE  SoundDecision(p)'
  BY <1>0, <1>1 DEF SoundDecision, RemoteAsSynced, LocalAsSynced, Expectation
<1>2. CASE plan' = NoPlan
  BY <1>2, NoPlanInv
<1>3. CASE NextDecision
  <2>1. /\ plan'[Op.path] = Decide("noop") /\ pass' # 0
        /\ \A p \in Paths : p # Op.path => plan'[p] = plan[p]
    BY <1>0, <1>3 DEF NextDecision
  <2>2. ASSUME NEW p \in Paths, plan'[p].kind \in ExternalKinds PROVE SoundDecision(p)'
    <3>1. p # Op.path
      BY <2>1, <2>2 DEF Decide, ExternalKinds
    <3>2. SoundDecision(p)
      BY <2>1, <2>2, <3>1 DEF PlanInv, TakenOn
    <3> QED  BY <1>1, <1>3, <2>1, <3>1, <3>2 DEF NextDecision
  <2> QED  BY <2>1, <2>2 DEF PlanInv
<1>4. CASE Quiet
  <2>1. CASE pass = 0
    BY <1>4, <2>1 DEF Quiet, PlanInv, External
  <2>2. CASE pass # 0
    <3>1. ASSUME NEW p \in Paths, plan'[p].kind \in ExternalKinds, ~TakenOn(p)'
          PROVE  SoundDecision(p)'
      <4>1. ~TakenOn(p)
        BY <1>4, <2>2, <3>1 DEF Quiet, TakenOn, Op
      <4>2. SoundDecision(p)
        BY <1>4, <3>1, <4>1 DEF Quiet, PlanInv
      <4> QED  BY <1>1, <1>4, <2>2, <4>2 DEF Quiet
    <3> QED  BY <1>4, <2>2, <3>1 DEF Quiet, PlanInv
  <2> QED  BY <2>1, <2>2
<1>5. ASSUME NEW q \in Paths, Dispatch(q) PROVE PlanInv'
  <2>1. UNCHANGED <<plan, seen, pass, baseline>> /\ pc = "dispatch"
    BY <1>5 DEF Dispatch
  <2>2. pass # 0 /\ pc \notin OpPcs
    BY <1>0, <2>1 DEF OrderInv, PassPcs
  <2>3. \A p \in Paths : plan[p].kind \in ExternalKinds => SoundDecision(p)
    BY <2>2 DEF PlanInv, TakenOn
  <2> QED  BY <1>1, <2>1, <2>2, <2>3 DEF PlanInv
<1>6. ASSUME NEW q \in Paths, RecordPath(q) PROVE PlanInv'
  <2>1. UNCHANGED <<plan, seen, pass>> /\ pc = "record"
    BY <1>6 DEF RecordPath
  <2>2. pass # 0 /\ pc \notin OpPcs
    BY <1>0, <2>1 DEF OrderInv, PassPcs
  <2>3. \A p \in Paths : plan[p].kind \in ExternalKinds => SoundDecision(p)
    BY <2>2 DEF PlanInv, TakenOn
  <2>4. \A p \in Paths : plan[p].kind \in ExternalKinds => baseline'[p] = baseline[p]
    BY <1>0, <1>6 DEF RecordPath, ExternalKinds
  <2> QED  BY <1>1, <2>1, <2>2, <2>3, <2>4 DEF PlanInv
<1>7. CASE PlanPass /\ ~EndCycle
  <2>1. pass' # 0 /\ UNCHANGED <<initialized, baseline>>
    BY <1>0, <1>7, PlannedPass DEF OrderInv, PassPcs, storeVars
  <2>2. ASSUME NEW p \in Paths PROVE SoundDecision(p)'
    <3>1. PICK e \in Evidence :
            Justified(plan'[p], initialized, baseline[p], seen.local[p], remote[p], e)
      BY <1>0, <1>7, PlannedPass
    <3>2. seen'.local[p] = seen.local[p] /\ seen'.remote[p] = remote[p]
      BY <1>0, <1>7, PlannedPass
    <3>3. RemoteEquivalent(baseline[p].remote, remote[p]) /\ remote[p] # Absent
            => Expectation(baseline[p].remote) = Expectation(remote[p])
      BY <1>0 DEF RemoteEquivalent, Expectation, RemoteFiles
    <3>4. RemoteAsSynced(p)' <=> Expectation(baseline[p].remote) = Expectation(remote[p])
      BY <2>1, <3>2 DEF RemoteAsSynced, Expectation
    <3>5. LocalAsSynced(p)' <=> LocalEquivalent(baseline[p].local, seen.local[p])
      BY <2>1, <3>2 DEF LocalAsSynced
    <3> QED  BY <2>1, <3>1, <3>2, <3>3, <3>4, <3>5 DEF SoundDecision, Justified
  <2> QED  BY <2>1, <2>2 DEF PlanInv
<1> QED  BY <1>2, <1>3, <1>4, <1>5, <1>6, <1>7, PlanMoves

\* The worker is between the plan and its first effect on user data only by
\* planning or recording, and nothing else touches what is recorded meanwhile.
LEMMA RecordMoves ==
  ASSUME OwnerInv, OrderInv, [Next]_vars
  PROVE  \/ PlanPass /\ ~EndCycle
         \/ \E p \in Paths : RecordPath(p)
         \/ /\ UNCHANGED conflicts
            /\ pc' \in {"record", "decide"} => UNCHANGED <<daemonVars, baseline>>
<1> DEFINE Other == /\ UNCHANGED conflicts
                    /\ pc' \in {"record", "decide"} => UNCHANGED <<daemonVars, baseline>>
<1>0. TypeInv
  BY DEF OwnerInv
<1>1. /\ EndCycle => pc' \notin {"record", "decide"}
      /\ \A n \in Nat : BeginPass(n) => pc' \notin {"record", "decide"}
  BY DEF EndCycle, BeginPass
<1>2. CASE StepInHand
  <2>1. pc' \notin {"record", "decide"}
    BY <1>0, <1>1, <1>2, InHand
       DEF GoesOnWith, RecoveredOp, DispatchedOp, BeginPass, EndCycle, OpPcs, Executing
  <2> QED  BY <1>2, <2>1, StoreInHand
<1>3. CASE BeginCycle \/ RecoverBlocked \/ RecoverPlanned \/ RecoverStarted
  BY <1>1, <1>3
     DEF BeginCycle, RecoverBlocked, RecoverPlanned, RecoverStarted, storeVars
<1>4. CASE ScanLocal \/ DecidePass \/ \E p \in Paths : Dispatch(p)
  BY <1>1, <1>4 DEF ScanLocal, DecidePass, Dispatch, Goto, storeVars
<1>5. CASE (PlanPass /\ EndCycle) \/ CallFails \/ Crash \/ Start
  BY <1>1, <1>5 DEF PlanPass, CallFails, Crash, Start, storeVars
<1>6. CASE CliNext \/ UserNext \/ UNCHANGED vars
  <2>1. UNCHANGED <<daemonVars, baseline, conflicts>>
    BY <1>6 DEF CliNext, SetEnabled, QueueResolve, CheckResolve, ResolveRetry, ResolveRestore,
                UserNext, LocalPut, LocalWrite, LocalRemove, RemotePut, RemoteRemove, Edit, vars,
                storeVars
  <2> QED  BY <2>1
<1>7. CASE DaemonNext
  BY <1>2, <1>3, <1>4, <1>5, <1>7
     DEF DaemonNext, WorkerStep, RecoveryStep, PassStep, StepInHand
<1> QED  BY <1>5, <1>6, <1>7 DEF Next

LEMMA EquivalentToItself ==
  /\ \A f : LocalEquivalent(f, f) /\ RemoteEquivalent(f, f)
BY DEF LocalEquivalent, RemoteEquivalent

\* What a pass has recorded of a path is what it has seen of it.
LEMMA RecordInvStep ==
  ASSUME OwnerInv, OrderInv, RecordInv, [Next]_vars PROVE RecordInv'
<1>0. /\ TypeInv /\ plan \in [Paths -> Decisions] /\ left \subseteq Paths
      /\ remote \in [Paths -> RemoteFiles \union {Absent}]
      /\ seen.local \in [Paths -> LocalPrints \union {Absent}]
      /\ seen.remote \in [Paths -> RemoteFiles \union {Absent}]
      /\ baseline \in [Paths -> [local : LocalPrints \union {Absent},
                                 remote : RemoteFiles \union {Absent}]]
      /\ conflicts \in [Paths -> [kind : ConflictKinds \union {"none"},
                                  local : LocalPrints \union {Absent},
                                  remote : RemoteFiles \union {Absent}]]
  BY DEF OwnerInv, TypeInv, TypeOK, StoreTypeOK, WorldTypeOK, DaemonTypeOK
<1>1. CASE /\ UNCHANGED conflicts
           /\ pc' \in {"record", "decide"} => UNCHANGED <<daemonVars, baseline>>
  BY <1>1 DEF RecordInv, Recorded, Unchanged, LocalEquivalent, RemoteEquivalent, daemonVars
<1>2. CASE PlanPass /\ ~EndCycle
  <2>1. /\ pc' = "record" /\ left' = Paths /\ UNCHANGED <<conflicts, baseline>>
        /\ seen'.local = seen.local /\ seen'.remote = remote
    BY <1>0, <1>2, PlannedPass DEF storeVars
  <2>2. ASSUME NEW p \in Paths
        PROVE  /\ plan'[p].kind # "compare-content"
               /\ plan'[p].kind = "noop" =>
                    Unchanged(baseline[p], seen.local[p], seen.remote[p])'
               /\ plan'[p].kind = "commit-baseline" => Agree(seen.local[p], seen.remote[p])'
               /\ plan'[p].kind = "drop-baseline" =>
                    seen'.local[p] = Absent /\ seen'.remote[p] = Absent
               /\ plan'[p].kind = "conflict" =>
                    /\ plan'[p].conflict \in ConflictKinds
                    /\ seen'.local[p] # Absent \/ seen'.remote[p] # Absent
    <3>1. PICK e \in Evidence :
            /\ Justified(plan'[p], initialized, baseline[p], seen.local[p], remote[p], e)
            /\ e = "equal" => SameBytes(seen.local[p], remote[p])
      BY <1>0, <1>2, PlannedPass
    <3>2. plan'[p].kind # "compare-content"
      BY <1>0, <1>2, PlannedPass
    <3>3. plan'[p].kind = "commit-baseline" => Agree(seen.local[p], remote[p])
      <4>1. seen.local[p] # Absent => seen.local[p].kind = "file"
        BY <1>0 DEF LocalPrints
      <4> QED  BY <3>1, <4>1 DEF Justified, Agree, SameBytes
    <3>4. Unchanged(baseline[p], seen.local[p], remote[p])
            => Unchanged(baseline[p], seen.local[p], seen.remote[p])'
      BY <2>1 DEF Unchanged, LocalEquivalent, RemoteEquivalent
    <3>5. Agree(seen.local[p], remote[p]) => Agree(seen.local[p], seen.remote[p])'
      BY <2>1 DEF Agree
    <3> QED  BY <2>1, <3>1, <3>2, <3>3, <3>4, <3>5 DEF Justified
  <2> QED  BY <2>1, <2>2 DEF RecordInv
<1>3. ASSUME NEW q \in Paths, RecordPath(q) PROVE RecordInv'
  <2>1. /\ pc = "record" /\ UNCHANGED <<plan, seen>> /\ left' = left \ {q}
        /\ pc' = IF left' = {} THEN "decide" ELSE "record"
    BY <1>3 DEF RecordPath
  <2>2. /\ plan[q].kind = "conflict" => conflicts'[q] =
             [kind |-> plan[q].conflict, local |-> seen.local[q], remote |-> seen.remote[q]]
        /\ plan[q].kind # "conflict" => conflicts'[q] = NoConflict
        /\ \A p \in Paths : p # q => conflicts'[p] = conflicts[p]
    BY <1>0, <1>3 DEF RecordPath
  <2>3. /\ plan[q].kind = "commit-baseline" =>
             baseline'[q] = [local |-> seen.local[q], remote |-> seen.remote[q]]
        /\ plan[q].kind = "drop-baseline" => baseline'[q] = EmptyBaseline
        /\ plan[q].kind \notin {"commit-baseline", "drop-baseline"} => baseline'[q] = baseline[q]
        /\ \A p \in Paths : p # q => baseline'[p] = baseline[p]
    BY <1>0, <1>3 DEF RecordPath
  <2>4. ASSUME NEW p \in Paths
        PROVE  conflicts'[p].kind # "none" =>
                 conflicts'[p].local # Absent \/ conflicts'[p].remote # Absent
    BY <2>1, <2>2 DEF RecordInv, NoConflict
  <2>5. ASSUME NEW p \in Paths, plan[p].kind = "noop"
        PROVE  Unchanged(baseline[p], seen.local[p], seen.remote[p])'
    <3>1. baseline'[p] = baseline[p]
      BY <2>3, <2>5
    <3> QED  BY <2>1, <2>5, <3>1 DEF RecordInv, Unchanged, LocalEquivalent, RemoteEquivalent
  <2>6. ASSUME NEW p \in Paths, p \notin left' PROVE Recorded(p)'
    <3>1. CASE p # q
      <4>1. p \notin left /\ baseline'[p] = baseline[p] /\ conflicts'[p] = conflicts[p]
        BY <2>1, <2>2, <2>3, <2>6, <3>1
      <4> QED  BY <2>1, <4>1 DEF RecordInv, Recorded, Unchanged, LocalEquivalent, RemoteEquivalent
    <3>2. CASE p = q
      <4>1. plan[q].kind = "commit-baseline" =>
              Unchanged(baseline[q], seen.local[q], seen.remote[q])'
        BY <2>1, <2>3, EquivalentToItself DEF Unchanged
      <4>2. plan[q].kind = "drop-baseline" =>
              Unchanged(baseline[q], seen.local[q], seen.remote[q])'
        BY <2>1, <2>3 DEF RecordInv, Unchanged, EmptyBaseline, LocalEquivalent, RemoteEquivalent
      <4> QED  BY <2>1, <2>2, <3>2, <4>1, <4>2 DEF Recorded
    <3> QED  BY <3>1, <3>2
  <2>7. \A p \in Paths : Agree(seen.local[p], seen.remote[p])
                           => Agree(seen.local[p], seen.remote[p])'
    BY <2>1 DEF Agree
  <2> QED  BY <2>1, <2>4, <2>5, <2>6, <2>7 DEF RecordInv
<1> QED  BY <1>1, <1>2, <1>3, RecordMoves

(***************************************************************************)
(* An operation replaces and deletes only what the baseline knows          *)
(***************************************************************************)

\* The baseline changes only when a pass records a path and when an operation
\* is completed.
LEMMA BaselineMoves ==
  ASSUME [Next]_vars
  PROVE  \/ UNCHANGED baseline
         \/ \E p \in Paths : RecordPath(p)
         \/ StepInHand /\ \E l, r : RecordsPair(l, r)
<1>1. BeginCycle \/ RecoverBlocked \/ RecoverPlanned \/ RecoverStarted => UNCHANGED baseline
  BY DEF BeginCycle, RecoverBlocked, RecoverPlanned, RecoverStarted, storeVars
<1>2. ScanLocal \/ PlanPass \/ DecidePass \/ (\E p \in Paths : Dispatch(p)) => UNCHANGED baseline
  BY DEF ScanLocal, PlanPass, DecidePass, Dispatch, storeVars
<1>3. CallFails \/ Crash \/ Start \/ CliNext \/ UserNext \/ UNCHANGED vars => UNCHANGED baseline
  BY DEF CallFails, Crash, Start, CliNext, SetEnabled, QueueResolve, CheckResolve, ResolveRetry,
         ResolveRestore, UserNext, LocalPut, LocalWrite, LocalRemove, RemotePut, RemoteRemove,
         Edit, vars, storeVars
<1> QED  BY <1>1, <1>2, <1>3, StoreInHand
         DEF Next, DaemonNext, WorkerStep, RecoveryStep, PassStep, StepInHand

\* How the worker gets to the commit of a recovered operation.
LEMMA CommitMoves ==
  ASSUME TypeInv, [Next]_vars, pc' \in ProvenPcs
  PROVE  Prove \/ FetchPinned \/ ComparePinned \/ Cleanup \/ UNCHANGED <<daemonVars, temp>>
<1>1. /\ EndCycle => pc' = "idle"
      /\ \A n \in Nat : BeginPass(n) => pc' = "scan"
      /\ RecoveredOp(cur) => pc' \in {"scan", "recover"}
      /\ FinishedOp => pc' \in {"scan", "recover", "dispatch", "idle"}
  BY DEF EndCycle, BeginPass, RecoveredOp, FinishedOp, DispatchedOp
<1>2. GiveUp \/ Fail => pc' = "idle"
  BY <1>1 DEF GiveUp, Fail
<1>3. ~(BeginCycle \/ RecoverBlocked \/ RecoverPlanned \/ RecoverStarted \/ Pin \/ CheckPlanned
         \/ Commit \/ Retry)
  BY <1>1 DEF BeginCycle, RecoverBlocked, RecoverPlanned, RecoverStarted, Pin, CheckPlanned,
              Commit, CommitBaseline, Retry, Goto, ProvenPcs
<1>4. ~ExecutionStep
  BY <1>1, <1>2
     DEF ExecutionStep, BeginRemote, Upload, UploadRefused, RemoteDelete, RemoteDeleteRefused,
         Download, BeginLocal, Preserve, Validate, Install, Restore, Drop, Observe, Settle,
         CommitBaseline, Goto, ProvenPcs
<1>5. ~PassStep
  BY <1>1 DEF PassStep, ScanLocal, PlanPass, DecidePass, RecordPath, Dispatch, Goto, ProvenPcs
<1>6. ~(CallFails \/ Crash \/ Start)
  BY <1>1 DEF CallFails, Crash, Start, ProvenPcs
<1>7. CliNext \/ UserNext \/ UNCHANGED vars => UNCHANGED <<daemonVars, temp>>
  BY DEF CliNext, SetEnabled, QueueResolve, CheckResolve, ResolveRetry, ResolveRestore,
         UserNext, LocalPut, LocalWrite, LocalRemove, RemotePut, RemoteRemove, Edit, vars,
         worldVars
<1> QED  BY <1>3, <1>4, <1>5, <1>6, <1>7 DEF Next, DaemonNext, WorkerStep, RecoveryStep

\* A resolution that deletes the remote file has one to delete.
LEMMA CliOrigin ==
  ASSUME TypeInv, RecordInv, OriginInv, [Next]_vars, cli' # Absent, cli'.kind = "delete-remote"
  PROVE  cli'.expRemote # Absent
<1>1. CASE UNCHANGED cli
  BY <1>1 DEF OriginInv
<1>2. ASSUME NEW p \in Paths, NEW keepLocal \in BOOLEAN, CheckResolve(p, keepLocal)
      PROVE  cli'.expRemote # Absent
  <2>1. cli' = NewOp(ResolutionKind(conflicts[p], keepLocal), p,
                     conflicts[p].local, conflicts[p].remote, TRUE)
        /\ conflicts[p].kind # "none"
    BY <1>2 DEF CheckResolve
  <2>2. ResolutionKind(conflicts[p], keepLocal) = "delete-remote"
    BY <2>1 DEF NewOp
  <2>3. conflicts[p].local = Absent
    BY <2>2 DEF ResolutionKind
  <2>4. conflicts[p].remote # Absent /\ conflicts[p].remote \in RemoteFiles \union {Absent}
    BY <2>1, <2>3 DEF RecordInv, TypeInv, TypeOK, StoreTypeOK
  <2> QED  BY <2>1, <2>4, Prints DEF NewOp
<1>3. StepInHand => UNCHANGED cli
  BY StoreInHand
<1>4. BeginCycle \/ RecoverBlocked \/ RecoverPlanned \/ RecoverStarted => UNCHANGED cli
  BY DEF BeginCycle, RecoverBlocked, RecoverPlanned, RecoverStarted
<1>5. PassStep => UNCHANGED cli
  BY DEF PassStep, ScanLocal, PlanPass, DecidePass, RecordPath, Dispatch
<1>6. CallFails \/ Crash \/ Start \/ UserNext \/ UNCHANGED vars => UNCHANGED cli
  BY DEF CallFails, Crash, Start, UserNext, LocalPut, LocalWrite, LocalRemove, RemotePut,
         RemoteRemove, Edit, vars
<1>7. CliNext => UNCHANGED cli \/ \E p \in Paths, keepLocal \in BOOLEAN : CheckResolve(p, keepLocal)
  BY DEF CliNext, SetEnabled, QueueResolve, ResolveRetry, ResolveRestore
<1> QED  BY <1>1, <1>2, <1>3, <1>4, <1>5, <1>6, <1>7
         DEF Next, DaemonNext, WorkerStep, RecoveryStep, StepInHand

\* What backs an operation goes on backing it, however the remote side moves.
LEMMA BackedStays ==
  ASSUME TypeInv, RemoteMoves, NEW op \in Operations, NEW b, KnownRemote(op.expRemote),
         op.kind = "delete-remote" => op.expRemote # Absent, Backed(op, b)
  PROVE  Backed(op, b)'
<1>1. /\ tick \in Nat /\ remote[op.path] \in RemoteFiles \union {Absent}
      /\ op.path \in Paths
  BY DEF TypeInv, TypeOK, WorldTypeOK, Operations
<1>2. \/ remote'[op.path] = remote[op.path]
      \/ remote'[op.path] = Absent
      \/ /\ remote'[op.path] # Absent /\ remote'[op.path].rev = tick + 1
         /\ remote'[op.path].id = IF remote[op.path] = Absent THEN tick + 1
                                                             ELSE remote[op.path].id
  BY <1>1 DEF RemoteMoves
<1>3. op.expRemote # Absent => /\ op.expRemote.id \in Nat /\ op.expRemote.id <= tick
                               /\ op.expRemote.rev \in Nat /\ op.expRemote.rev <= tick
  BY DEF Operations, Expectations, KnownRemote
<1>4. CASE op.kind = "ensure-remote"
  <2>1. op.expRemote # Absent /\ Expectation(remote'[op.path]) = op.expRemote
          => Expectation(remote[op.path]) = op.expRemote
    BY <1>1, <1>2, <1>3 DEF Expectation
  <2>2. MatchesExpectation(remote[op.path], op.expRemote)'
          <=> Expectation(remote'[op.path]) = op.expRemote
    BY DEF MatchesExpectation, Expectation
  <2>3. op.kind # "delete-remote"
    BY <1>4
  <2> QED  BY <2>1, <2>2, <2>3 DEF Backed, MatchesExpectation, Expectation
<1>5. CASE op.kind = "delete-remote"
  BY <1>1, <1>2, <1>3, <1>5 DEF Backed
<1>6. CASE op.kind \notin {"ensure-remote", "delete-remote"}
  BY <1>6 DEF Backed
<1> QED  BY <1>4, <1>5, <1>6

\* What is backed by a record is backed by the same record afterwards, when
\* neither the remote side nor the operation moves.
LEMMA BackedByCurrent ==
  ASSUME TypeInv, NEW op \in Operations PROVE Backed(op, remote[op.path])
BY DEF Backed, MatchesExpectation

\* An operation of the daemon goes on resting on what is recorded.
LEMMA SteadyOrigin ==
  ASSUME OwnerInv, OrderInv, RevisionsInv, OriginInv, [Next]_vars,
         NEW o \in OpIds, o \in Live, o \in Live', NEW old \in Operations, NEW new \in Operations,
         old = journal[o], new = journal'[o], Steady(new, old), ~new.resolves
  PROVE  /\ initialized' \/ OnlyAdds(new)
         /\ \A b : b = baseline'[new.path].remote => Backed(new, b)'
         /\ pc' \in ProvenPcs /\ new.path = Op'.path =>
              \A b : b = obs'.remote => Backed(new, b)'
<1>0. /\ TypeInv /\ RemoteMoves /\ KnownRemote(old.expRemote) /\ old.path \in Paths
      /\ old.kind = "delete-remote" => old.expRemote # Absent
      /\ new.kind = old.kind /\ new.path = old.path /\ new.expLocal = old.expLocal
      /\ new.expRemote = old.expRemote /\ ~old.resolves
      /\ pc \in OpPcs => Op.path \in Paths
      /\ baseline \in [Paths -> [local : LocalPrints \union {Absent},
                                 remote : RemoteFiles \union {Absent}]]
  BY RemoteStep, CurrentOp
     DEF OwnerInv, RevisionsInv, OriginInv, Steady, Operations, TypeInv, TypeOK, StoreTypeOK
<1>1. initialized' \/ OnlyAdds(new)
  BY <1>0, StaysInitialized DEF OriginInv, OnlyAdds
<1>2. ASSUME NEW b, Backed(old, b) PROVE Backed(new, b)'
  <2>1. Backed(old, b)'
    BY <1>0, <1>2, BackedStays
  <2> QED  BY <1>0, <2>1 DEF Backed, MatchesExpectation, Expectation
<1>3. Backed(old, remote[old.path])
  BY <1>0, BackedByCurrent
<1>4. ASSUME NEW b, b = baseline'[new.path].remote PROVE Backed(new, b)'
  <2>1. Backed(old, baseline[old.path].remote)
    BY <1>0 DEF OriginInv
  <2>2. CASE UNCHANGED baseline
    BY <1>0, <1>2, <1>4, <2>1, <2>2
  <2>3. ASSUME NEW p \in Paths, RecordPath(p) PROVE FALSE
    <3>1. pc = "record" /\ queue = {} /\ cur = 0
      BY <1>0, <2>3 DEF RecordPath, OrderInv, OpPcs, Executing
    <3>2. old.resolves
      BY <3>1 DEF OrderInv, Queued, OpIds
    <3> QED  BY <1>0, <3>2
  <2>4. ASSUME NEW l, NEW r, RecordsPair(l, r) PROVE Backed(new, b)'
    <3>1. /\ pc \in OpPcs /\ Op.path \in Paths
          /\ baseline' = [baseline EXCEPT ![Op.path] =
                            IF l = Absent /\ r = Absent THEN EmptyBaseline
                            ELSE [local |-> l, remote |-> r]]
      BY <1>0, <2>4 DEF RecordsPair, CommitBaseline
    <3>2. CASE old.path # Op.path
      BY <1>0, <1>2, <1>4, <2>1, <3>1, <3>2
    <3>3. CASE old.path = Op.path
      <4>1. b = r
        BY <1>0, <1>4, <3>1, <3>3 DEF EmptyBaseline
      <4>2. Backed(old, obs.remote) \/ r = remote[old.path]
        BY <1>0, <2>4, <3>3 DEF RecordsPair, Commit, OriginInv, ProvenPcs
      <4>3. Backed(old, r)
        BY <1>3, <2>4, <4>2, <3>3, <1>0 DEF RecordsPair, Commit, OriginInv, ProvenPcs
      <4> QED  BY <1>2, <4>1, <4>3
    <3> QED  BY <3>2, <3>3
  <2> QED  BY <2>2, <2>3, <2>4, BaselineMoves
<1>5. ASSUME pc' \in ProvenPcs, new.path = Op'.path, NEW b, b = obs'.remote
      PROVE  Backed(new, b)'
  <2>0. obs \in [local : LocalPrints \union {Absent}, remote : RemoteFiles \union {Absent},
                 result : LocalPrints \union RemoteFiles \union {Absent}]
    BY <1>0 DEF TypeInv, TypeOK, DaemonTypeOK
  <2>1. Prove \/ FetchPinned \/ ComparePinned \/ Cleanup \/ UNCHANGED <<daemonVars, temp>>
    BY <1>0, <1>5, CommitMoves
  <2>2. CASE Prove \/ FetchPinned
    <3>1. UNCHANGED <<cur, journal>> /\ pc = "prove" /\ obs'.remote = remote[Op.path]
      BY <1>5, <2>0, <2>2 DEF Prove, FetchPinned, storeVars, Goto, Stay, EndCycle, ProvenPcs
    <3>2. Op' = Op
      BY <3>1 DEF Op
    <3> QED  BY <1>0, <1>2, <1>3, <1>5, <3>1, <3>2
  <2>3. CASE ComparePinned \/ Cleanup \/ UNCHANGED <<daemonVars, temp>>
    <3>1. pc \in ProvenPcs /\ UNCHANGED <<obs, cur>>
      BY <1>5, <2>3 DEF ComparePinned, Cleanup, Goto, Stay, EndCycle, daemonVars, ProvenPcs
    <3>2. cur \in Live /\ cur \in Live'
      <4>1. TypeInv' /\ pc' \in OpPcs /\ pc \in OpPcs
        BY <1>0, <1>5, <3>1, OwnerInvStep DEF OwnerInv, OpPcs, ProvenPcs
      <4> QED  BY <1>0, <3>1, <4>1 DEF TypeInv, WorkerOK
    <3>3. Op'.path = Op.path
      <4>1. Steady(journal'[cur], journal[cur])
        BY <3>2, JournalStep DEF Created
      <4> QED  BY <3>1, <4>1 DEF Steady, Op
    <3>4. Backed(old, obs.remote)
      BY <1>0, <1>5, <3>1, <3>3 DEF OriginInv
    <3> QED  BY <1>2, <1>5, <3>1, <3>4
  <2> QED  BY <2>1, <2>2, <2>3
<1> QED  BY <1>1, <1>4, <1>5

\* A new operation of the daemon rests on the plan.
LEMMA CreatedOrigin ==
  ASSUME OwnerInv, OrderInv, RevisionsInv, PlanInv, [Next]_vars,
         NEW p \in Paths, plan[p].kind \in ExternalKinds, pc = "dispatch", nextOp' = nextOp + 1,
         NEW new \in Operations,
         new = NewOp(plan[p].kind, p, seen.local[p], seen.remote[p], FALSE)
  PROVE  /\ new.kind = "delete-remote" => new.expRemote # Absent
         /\ initialized' \/ OnlyAdds(new)
         /\ \A b : b = baseline'[new.path].remote => Backed(new, b)'
         /\ pc' \notin ProvenPcs
<1>0. /\ TypeInv /\ RemoteMoves /\ nextOp \in Nat /\ pc \notin OpPcs
      /\ seen.remote[p] \in RemoteFiles \union {Absent}
      /\ baseline[p].remote \in RemoteFiles \union {Absent}
  BY RemoteStep
     DEF OwnerInv, TypeInv, TypeOK, StoreTypeOK, DaemonTypeOK, OpPcs, Executing
<1>1. SoundDecision(p)
  BY <1>0 DEF PlanInv, TakenOn
<1>2. /\ new.kind = plan[p].kind /\ new.path = p /\ new.expLocal = seen.local[p]
      /\ new.expRemote = Expectation(seen.remote[p])
  BY DEF NewOp
<1>3. seen.remote[p] = Absent <=> new.expRemote = Absent
  BY <1>0, <1>2, Prints DEF Expectation
<1>4. KnownRemote(new.expRemote)
  BY <1>0, <1>2, KnownExpectation DEF RevisionsInv
<1>5. UNCHANGED baseline
  <2>1. ~StepInHand
    BY <1>0, InHand
  <2>2. ~\E q \in Paths : RecordPath(q)
    BY DEF RecordPath
  <2> QED  BY <2>1, <2>2, BaselineMoves
<1>6. Backed(new, baseline[p].remote)
  <2>1. new.kind = "ensure-remote" /\ new.expRemote # Absent
          => Expectation(baseline[p].remote) = new.expRemote
    BY <1>1, <1>2, <1>3 DEF SoundDecision, RemoteAsSynced
  <2>2. new.kind = "delete-remote" =>
          baseline[p].remote # Absent /\ baseline[p].remote.id = new.expRemote.id
    <3>1. new.kind = "delete-remote" =>
            Expectation(baseline[p].remote) = new.expRemote /\ new.expRemote # Absent
      BY <1>1, <1>2, <1>3 DEF SoundDecision, RemoteAsSynced
    <3>2. \A r, e : Expectation(r) = e /\ e # Absent => r # Absent /\ r.id = e.id
      BY DEF Expectation
    <3> QED  BY <3>1, <3>2
  <2> QED  BY <2>1, <2>2 DEF Backed
<1>7. initialized' \/ OnlyAdds(new)
  <2>1. initialized \/ OnlyAdds(new)
    BY <1>1, <1>2, <1>3 DEF SoundDecision, OnlyAdds, ExternalKinds
  <2> QED  BY <2>1, StaysInitialized DEF OnlyAdds
<1>8. new.kind = "delete-remote" => new.expRemote # Absent
  BY <1>1, <1>2, <1>3 DEF SoundDecision
<1>9. ASSUME NEW b, b = baseline'[new.path].remote PROVE Backed(new, b)'
  <2>1. b = baseline[p].remote
    BY <1>2, <1>5, <1>9
  <2>2. Backed(new, b)
    BY <1>6, <2>1
  <2> QED  BY <1>0, <1>4, <1>8, <2>2, BackedStays
<1>10. pc' \notin ProvenPcs
  BY <1>0, CommitMoves DEF Prove, FetchPinned, ComparePinned, Cleanup, daemonVars, ProvenPcs
<1> QED  BY <1>7, <1>8, <1>9, <1>10

LEMMA OriginInvStep ==
  ASSUME OwnerInv, OrderInv, RevisionsInv, PlanInv, RecordInv, OriginInv, [Next]_vars
  PROVE  OriginInv'
<1>0. /\ TypeInv /\ TypeInv' /\ journal \in [OpIds -> Operations \union {Absent}]
      /\ journal' \in [OpIds -> Operations \union {Absent}]
  BY OwnerInvStep DEF OwnerInv, TypeInv, TypeOK, StoreTypeOK
<1>1. cli' # Absent /\ cli'.kind = "delete-remote" => cli'.expRemote # Absent
  BY <1>0, CliOrigin
<1>2. ASSUME NEW o \in Live'
      PROVE  /\ journal'[o].kind = "delete-remote" => journal'[o].expRemote # Absent
             /\ ~journal'[o].resolves =>
                  /\ initialized' \/ OnlyAdds(journal'[o])
                  /\ Backed(journal[o], baseline[journal[o].path].remote)'
                  /\ pc' \in ProvenPcs /\ journal'[o].path = Op'.path =>
                       Backed(journal[o], obs.remote)'
  <2>1. o \in OpIds /\ journal'[o] # Absent /\ journal'[o] \in Operations
    BY <1>0 DEF Live
  <2>2. PICK new \in Operations : new = journal'[o]
    BY <2>1
  <2>3. SUFFICES /\ new.kind = "delete-remote" => new.expRemote # Absent
                 /\ ~new.resolves =>
                      /\ initialized' \/ OnlyAdds(new)
                      /\ \A b : b = baseline'[new.path].remote => Backed(new, b)'
                      /\ pc' \in ProvenPcs /\ new.path = Op'.path =>
                           \A b : b = obs'.remote => Backed(new, b)'
    BY <2>2 DEF Backed
  <2>4. CASE o \in Live /\ Steady(journal'[o], journal[o])
    <3>1. PICK old \in Operations : old = journal[o]
      BY <1>0, <2>4 DEF Live
    <3>2. Steady(new, old)
      BY <2>2, <2>4, <3>1
    <3>3. new.kind = "delete-remote" => new.expRemote # Absent
      BY <2>4, <3>1, <3>2 DEF OriginInv, Steady
    <3> QED  BY <2>1, <2>2, <2>4, <3>1, <3>2, <3>3, SteadyOrigin
  <2>5. CASE Created(o)
    <3>1. CASE cli # Absent /\ journal'[o] = cli
      BY <2>2, <3>1 DEF OriginInv, OrderInv
    <3>2. CASE /\ pc = "dispatch"
               /\ \E p \in Paths : /\ plan[p].kind \in ExternalKinds
                                   /\ journal'[o] = NewOp(plan[p].kind, p, seen.local[p],
                                                          seen.remote[p], FALSE)
      <4>1. nextOp' = nextOp + 1
        BY Zenon, <2>5 DEF Created
      <4> QED  BY <2>2, <3>2, <4>1, CreatedOrigin
    <3> QED  BY Zenon, <2>5, <3>1, <3>2 DEF Created
  <2> QED  BY <2>4, <2>5, JournalStep
<1> QED  BY <1>1, <1>2 DEF OriginInv

(***************************************************************************)
(* The baseline pairs equal bytes                                          *)
(***************************************************************************)

\* What the worker knows of the bytes stays true: a revision never comes back
\* with other bytes.
LEMMA KnownStays ==
  ASSUME TypeInv, RevisionsInv, RemoteMoves, tick' \in Nat, tick <= tick', pc \in OpPcs,
         cur' = cur, journal'[cur] # Absent, Steady(journal'[cur], journal[cur])
  PROVE  /\ UploadKnown /\ obs'.result = obs.result => UploadKnown'
         /\ DownloadKnown /\ Op.kind = "ensure-local" /\ temp'[cur] = temp[cur]
              => DownloadKnown'
         /\ InstalledKnown /\ Op.kind = "ensure-local" /\ obs'.result = obs.result
              => InstalledKnown'
         /\ DownloadKnown /\ Op.kind = "ensure-local" /\ obs'.result = temp[cur]
              => InstalledKnown'
<1>0. /\ tick \in Nat /\ remote \in [Paths -> RemoteFiles \union {Absent}]
      /\ cur \in Live /\ Op \in Operations /\ Op.path \in Paths /\ WellFormed(Op)
      /\ KnownRemote(Op.expRemote) /\ temp \in [OpIds -> LocalPrints \union {Absent}]
      /\ cur \in OpIds
  BY CurrentOp DEF TypeInv, TypeOK, WorldTypeOK, RevisionsInv, Op
<1>1. /\ Op'.kind = Op.kind /\ Op'.path = Op.path /\ Op'.expLocal = Op.expLocal
      /\ Op'.expRemote = Op.expRemote
  BY DEF Op, Steady
<1>2. ASSUME NEW p \in Paths, NEW e \in Expectations, e.rev <= tick, NEW ver,
             InRevision(p, e, ver)
      PROVE  InRevision(p, e, ver)'
  <2>1. \/ remote'[p] = remote[p]
        \/ remote'[p] = Absent
        \/ remote'[p] # Absent /\ remote'[p].rev = tick + 1
    BY <1>0 DEF RemoteMoves
  <2>2. e # Absent /\ e.rev \in Nat
    BY <1>2, AbsentAssumption DEF Expectations
  <2>3. Expectation(remote'[p]) = e => remote'[p] = remote[p]
    BY <1>0, <1>2, <2>1, <2>2 DEF Expectation
  <2>4. InRevision(p, e, ver)' <=> (Expectation(remote'[p]) = e => remote'[p].ver = ver)
    BY DEF InRevision, MatchesExpectation, Expectation
  <2> QED  BY <1>2, <2>3, <2>4 DEF InRevision, MatchesExpectation
<1>3. Op.kind = "ensure-local" => Op.expRemote \in Expectations /\ Op.expRemote.rev <= tick
  BY <1>0, AbsentAssumption DEF WellFormed, Operations, KnownRemote
<1>4. ASSUME NEW ver, Op.kind = "ensure-local", InRevision(Op.path, Op.expRemote, ver)
      PROVE  InRevision(Op.path, Op.expRemote, ver)'
  <2>1. PICK p \in Paths : p = Op.path
    BY <1>0
  <2>2. PICK e \in Expectations : e = Op.expRemote
    BY <1>3, <1>4
  <2>3. InRevision(p, e, ver)'
    BY <1>2, <1>3, <1>4, <2>1, <2>2
  <2> QED  BY <1>1, <2>1, <2>2, <2>3 DEF InRevision, MatchesExpectation, Expectation
<1>5. ASSUME UploadKnown, obs'.result = obs.result PROVE UploadKnown'
  <2>1. PICK res \in RemoteFiles : res = obs.result
    BY <1>5 DEF UploadKnown
  <2>2. PICK e \in Expectations : e = Expectation(res)
    BY Prints, AbsentAssumption
  <2>3. PICK p \in Paths : p = Op.path
    BY <1>0
  <2>4. PICK ver : ver = res.ver
    OBVIOUS
  <2>5. e.rev <= tick /\ InRevision(p, e, ver)
    <3>1. e.rev = res.rev
      BY <2>2, AbsentAssumption DEF Expectation
    <3> QED  BY <1>5, <2>1, <2>2, <2>3, <2>4, <3>1 DEF UploadKnown
  <2>6. InRevision(p, e, ver)'
    BY <1>2, <2>5
  <2>7. InRevision(Op.path, Expectation(obs.result), obs.result.ver)'
    BY <1>1, <1>5, <2>1, <2>2, <2>3, <2>4, <2>6
       DEF InRevision, MatchesExpectation, Expectation
  <2>8. obs'.result \in RemoteFiles /\ obs'.result.rev <= tick'
    BY <1>0, <1>5 DEF UploadKnown, RemoteFiles
  <2> QED  BY <1>1, <1>5, <2>7, <2>8 DEF UploadKnown
<1>6. ASSUME DownloadKnown, Op.kind = "ensure-local", temp'[cur] = temp[cur]
      PROVE  DownloadKnown'
  <2>1. PICK ver : ver = temp[cur].ver
    OBVIOUS
  <2>2. InRevision(Op.path, Op.expRemote, ver)'
    BY <1>4, <1>6, <2>1 DEF DownloadKnown
  <2> QED  BY <1>6, <2>1, <2>2 DEF DownloadKnown, InRevision
<1>7. ASSUME Op.kind = "ensure-local", obs'.result # Absent,
             NEW ver, ver = obs'.result.ver, InRevision(Op.path, Op.expRemote, ver)
      PROVE  InstalledKnown'
  <2>1. InRevision(Op.path, Op.expRemote, ver)'
    BY <1>4, <1>7
  <2> QED  BY <1>7, <2>1 DEF InstalledKnown, InRevision
<1>8. InstalledKnown /\ Op.kind = "ensure-local" /\ obs'.result = obs.result => InstalledKnown'
  BY <1>7 DEF InstalledKnown
<1>9. DownloadKnown /\ Op.kind = "ensure-local" /\ obs'.result = temp[cur] => InstalledKnown'
  BY <1>7 DEF DownloadKnown
<1> QED  BY <1>5, <1>6, <1>8, <1>9

\* What is recorded as in sync is a pair of equal bytes.
LEMMA RecordedPair ==
  ASSUME TypeInv, BytesInv, NEW l, NEW r, RecordsPair(l, r)
  PROVE  Pair(l, r)
<1>0. /\ Op \in Operations /\ WellFormed(Op) /\ Op.path \in Paths
      /\ remote \in [Paths -> RemoteFiles \union {Absent}]
      /\ obs.local \in LocalPrints \union {Absent}
  BY CurrentOp DEF RecordsPair, TypeInv, TypeOK, WorldTypeOK, DaemonTypeOK
<1>1. CASE Commit /\ l = obs.local /\ r = obs.remote
  BY <1>1 DEF Commit, BytesInv
<1>2. CASE Settle /\ Postcondition(Op, l, r) /\ l = obs.local /\ r = remote[Op.path]
  <2>1. CASE Op.kind \in DeleteKinds
    BY <1>2, <2>1 DEF Postcondition, DeleteKinds, Pair
  <2>2. CASE Op.kind = "ensure-remote"
    <3>1. UploadKnown
      BY <1>2, <2>2 DEF Settle, BytesInv
    <3>2. RemoteEquivalent(r, obs.result) /\ LocalEquivalent(l, Op.expLocal) /\ r # Absent
      BY <1>2, <2>2 DEF Postcondition, DeleteKinds
    <3>3. obs.result # Absent /\ obs.result.kind = "file"
      BY <3>1, AbsentAssumption DEF UploadKnown, RemoteFiles
    <3>4. Expectation(r) = Expectation(obs.result)
      BY <1>0, <1>2, <3>2, <3>3 DEF RemoteEquivalent, Expectation, RemoteFiles
    <3>5. r.ver = Op.expLocal.ver
      BY <1>2, <3>1, <3>4 DEF UploadKnown, InRevision, MatchesExpectation
    <3>6. Op.expLocal \in LocalPrints /\ Op.expLocal # Absent
      BY <1>0, <2>2 DEF WellFormed, Operations
    <3>7. l # Absent /\ l.ver = Op.expLocal.ver
      BY <1>0, <1>2, <3>2, <3>6 DEF LocalEquivalent, LocalPrints
    <3> QED  BY <3>2, <3>5, <3>7 DEF Pair, Agree
  <2>3. CASE Op.kind = "ensure-local"
    <3>1. InstalledKnown
      BY <1>2, <2>3 DEF Settle, BytesInv
    <3>2. /\ LocalEquivalent(l, obs.result) /\ MatchesExpectation(r, Op.expRemote)
          /\ l # Absent
      BY <1>2, <2>3 DEF Postcondition, DeleteKinds
    <3>3. r # Absent
      BY <1>0, <2>3, <3>2 DEF WellFormed, MatchesExpectation, Expectation
    <3>4. r.ver = obs.result.ver
      BY <1>2, <3>1, <3>2 DEF InstalledKnown, InRevision
    <3>5. l.ver = obs.result.ver
      BY <1>0, <1>2, <3>2 DEF LocalEquivalent, LocalPrints
    <3> QED  BY <3>2, <3>3, <3>4, <3>5 DEF Pair, Agree
  <2>4. Op.kind \in ExternalKinds
    BY <1>0 DEF Operations
  <2> QED  BY <2>1, <2>2, <2>3, <2>4 DEF ExternalKinds, DeleteKinds
<1> QED  BY <1>1, <1>2 DEF RecordsPair

LEMMA AgreementStep ==
  ASSUME TypeInv, RecordInv, BytesInv, [Next]_vars PROVE BaselineAgrees'
<1>0. /\ BaselineAgrees
      /\ baseline \in [Paths -> [local : LocalPrints \union {Absent},
                                 remote : RemoteFiles \union {Absent}]]
  BY DEF BytesInv, TypeInv, TypeOK, StoreTypeOK
<1>1. CASE UNCHANGED baseline
  BY <1>0, <1>1 DEF BaselineAgrees
<1>2. ASSUME NEW q \in Paths, NEW b, baseline' = [baseline EXCEPT ![q] = b],
             b = baseline[q] \/ b = EmptyBaseline \/ Agree(b.local, b.remote)
      PROVE  BaselineAgrees'
  BY <1>0, <1>2 DEF BaselineAgrees, Agree
<1>3. ASSUME NEW q \in Paths, RecordPath(q) PROVE BaselineAgrees'
  <2> DEFINE b == CASE plan[q].kind = "commit-baseline" ->
                         [local |-> seen.local[q], remote |-> seen.remote[q]]
                    [] plan[q].kind = "drop-baseline"   -> EmptyBaseline
                    [] plan[q].kind \notin {"commit-baseline", "drop-baseline"} -> baseline[q]
  <2>1. baseline' = [baseline EXCEPT ![q] = b] /\ pc = "record"
    BY <1>3 DEF RecordPath
  <2>2. CASE plan[q].kind = "commit-baseline"
    <3>1. Agree(seen.local[q], seen.remote[q])
      BY <2>1, <2>2 DEF RecordInv
    <3>2. b = [local |-> seen.local[q], remote |-> seen.remote[q]]
      BY <2>2
    <3> HIDE DEF b
    <3>3. Agree(b.local, b.remote)
      BY <3>1, <3>2
    <3> QED  BY <1>2, <2>1, <3>3
  <2>3. CASE plan[q].kind # "commit-baseline"
    <3>1. b = EmptyBaseline \/ b = baseline[q]
      BY <2>3
    <3> QED  BY <1>2, <2>1, <3>1
  <2> QED  BY <2>2, <2>3
<1>4. ASSUME NEW l, NEW r, RecordsPair(l, r) PROVE BaselineAgrees'
  <2> DEFINE b == IF l = Absent /\ r = Absent THEN EmptyBaseline ELSE [local |-> l, remote |-> r]
  <2>1. Op.path \in Paths /\ Pair(l, r)
    BY <1>4, RecordedPair, CurrentOp DEF RecordsPair
  <2>2. baseline' = [baseline EXCEPT ![Op.path] = b]
    BY <1>4 DEF RecordsPair, CommitBaseline
  <2>3. b = EmptyBaseline \/ Agree(b.local, b.remote)
    BY <2>1 DEF Pair, Agree
  <2> HIDE DEF b
  <2> QED  BY <1>2, <2>1, <2>2, <2>3
<1> QED  BY <1>1, <1>3, <1>4, BaselineMoves

\* The bytes a recovery has compared are equal.
LEMMA ProvenPair ==
  ASSUME TypeInv, BytesInv, [Next]_vars, pc' \in {"cleanup", "commit"}
  PROVE  Pair(obs.local, obs.remote)'
<1>0. obs \in [local : LocalPrints \union {Absent}, remote : RemoteFiles \union {Absent},
               result : LocalPrints \union RemoteFiles \union {Absent}]
  BY DEF TypeInv, TypeOK, DaemonTypeOK
<1>1. CASE Cleanup \/ UNCHANGED <<daemonVars, temp>>
  <2>1. pc \in {"cleanup", "commit"} /\ UNCHANGED obs
    BY <1>1 DEF Cleanup, Goto, EndCycle, daemonVars
  <2> QED  BY <2>1 DEF BytesInv, Pair, Agree
<1>2. CASE Prove
  <2> DEFINE now == LocalPrint(local[Op.path])
             r   == remote[Op.path]
  <2>1. /\ Op \in Operations /\ WellFormed(Op) /\ Op.path \in Paths
        /\ local[Op.path] \in LocalFiles \union {Absent} /\ r \in RemoteFiles \union {Absent}
    BY <1>2, CurrentOp DEF Prove, OpPcs, TypeInv, TypeOK, WorldTypeOK
  <2>2. /\ Plausible(Op, obs.local, r) /\ Op.kind # "ensure-local"
        /\ obs' = [obs EXCEPT !.remote = r]
        /\ \/ Op.kind \in DeleteKinds
           \/ LocalEquivalent(now, obs.local) /\ SameBytes(now, r)
    BY <1>2 DEF Prove, Goto, EndCycle
  <2>3. obs'.local = obs.local /\ obs'.remote = r
    BY <1>0, <2>2
  <2>4. Pair(obs.local, r)
    <3>1. CASE Op.kind \in DeleteKinds
      BY <2>2, <3>1 DEF Plausible, DeleteKinds, Pair
    <3>2. CASE Op.kind \notin DeleteKinds
      <4>1. Op.kind = "ensure-remote"
        BY <2>1, <2>2, <3>2 DEF Operations, ExternalKinds, DeleteKinds
      <4>2. LocalEquivalent(obs.local, Op.expLocal) /\ r # Absent
        BY <2>2, <4>1 DEF Plausible, DeleteKinds
      <4>3. obs.local # Absent /\ obs.local.ver = now.ver
        <5>1. Op.expLocal # Absent /\ Op.expLocal \in LocalPrints
          BY <2>1, <4>1 DEF WellFormed, Operations
        <5>2. now \in LocalPrints \union {Absent} /\ obs.local \in LocalPrints \union {Absent}
          BY <1>0, <2>1, Prints
        <5> HIDE DEF now
        <5> QED  BY <2>2, <3>2, <4>2, <5>1, <5>2, AbsentAssumption DEF LocalEquivalent, LocalPrints
      <4> HIDE DEF now, r
      <4> QED  BY <2>2, <3>2, <4>2, <4>3 DEF Pair, Agree, SameBytes
    <3> QED  BY <3>1, <3>2
  <2> QED  BY <2>3, <2>4 DEF Pair, Agree
<1>3. CASE ComparePinned
  <2> DEFINE now == LocalPrint(local[Op.path])
  <2>1. /\ Op.path \in Paths /\ local[Op.path] \in LocalFiles \union {Absent}
    BY <1>3, CurrentOp DEF ComparePinned, OpPcs, TypeInv, TypeOK, WorldTypeOK
  <2>2. /\ FetchedKnown /\ UNCHANGED obs /\ SameBytes(now, temp[cur])
        /\ LocalEquivalent(now, obs.result) /\ LocalEquivalent(now, obs.local)
    BY <1>3 DEF ComparePinned, Goto, EndCycle, BytesInv
  <2>3. now \in LocalPrints \union {Absent}
    BY <2>1, Prints
  <2> HIDE DEF now
  <2>4. obs.local # Absent /\ obs.local.ver = now.ver
    BY <2>2, <2>3, AbsentAssumption DEF FetchedKnown, LocalEquivalent, LocalPrints
  <2> QED  BY <2>2, <2>4 DEF FetchedKnown, SameBytes, Pair, Agree
<1>4. ~FetchPinned
  BY DEF FetchPinned, Goto
<1> QED  BY <1>1, <1>2, <1>3, <1>4, CommitMoves DEF ProvenPcs

\* What recovery has downloaded to compare is what it observed.
LEMMA FetchedStays ==
  ASSUME TypeInv, BytesInv, [Next]_vars, pc' = "compare" PROVE FetchedKnown'
<1>0. /\ obs \in [local : LocalPrints \union {Absent}, remote : RemoteFiles \union {Absent},
                  result : LocalPrints \union RemoteFiles \union {Absent}]
      /\ temp \in [OpIds -> LocalPrints \union {Absent}]
  BY DEF TypeInv, TypeOK, DaemonTypeOK, WorldTypeOK
<1>1. CASE UNCHANGED <<daemonVars, temp>>
  BY <1>1 DEF BytesInv, FetchedKnown, daemonVars
<1>2. CASE FetchPinned
  <2> DEFINE now == LocalPrint(local[Op.path])
             r   == remote[Op.path]
  <2>1. /\ cur \in OpIds /\ Op \in Operations /\ WellFormed(Op) /\ Op.path \in Paths
        /\ local[Op.path] \in LocalFiles \union {Absent} /\ r \in RemoteFiles \union {Absent}
    BY <1>2, CurrentOp DEF FetchPinned, OpPcs, TypeInv, TypeOK, WorldTypeOK, WorkerOK
  <2>2. /\ Plausible(Op, obs.local, r) /\ Op.kind = "ensure-local" /\ local[Op.path] # Absent
        /\ temp' = [temp EXCEPT ![cur] = LocalPrint(r)] /\ cur' = cur
        /\ obs' = [obs EXCEPT !.remote = r, !.result = now]
    BY <1>2 DEF FetchPinned, Goto, Staged, Stay
  <2>3. MatchesExpectation(r, Op.expRemote)
    BY <2>2 DEF Plausible, DeleteKinds
  <2>4. r \in RemoteFiles
    BY <2>1, <2>2, <2>3 DEF WellFormed, MatchesExpectation, Expectation
  <2>5. now \in LocalPrints /\ LocalPrint(r) \in LocalPrints /\ LocalPrint(r).ver = r.ver
    <3>1. r # Absent /\ LocalPrint(r) # Absent
      BY <2>1, <2>4, Prints, AbsentAssumption
    <3>2. now \in LocalPrints /\ LocalPrint(r) \in LocalPrints
      BY <2>1, <2>2, <3>1, Prints
    <3> QED  BY <3>1, <3>2 DEF LocalPrint
  <2> HIDE DEF now, r
  <2>6. temp'[cur] = LocalPrint(r) /\ obs'.remote = r /\ obs'.result = now
    BY <1>0, <2>1, <2>2
  <2> QED  BY <2>2, <2>4, <2>5, <2>6, AbsentAssumption DEF FetchedKnown
<1>3. ~(Prove \/ ComparePinned \/ Cleanup)
  BY DEF Prove, ComparePinned, Cleanup, Goto, EndCycle
<1> QED  BY <1>1, <1>2, <1>3, CommitMoves DEF ProvenPcs

\* Where the worker is when it knows the bytes of its operation.
WorkPcs == {"begin", "preserve", "validate", "install", "drop", "observe", "settle"}

LEMMA WorkMoves ==
  ASSUME TypeInv, [Next]_vars, pc' \in WorkPcs
  PROVE  \/ Upload \/ RemoteDelete \/ Download \/ BeginLocal \/ Preserve \/ Validate \/ Install
         \/ Drop \/ Observe
         \/ UNCHANGED <<daemonVars, slot, temp>>
<1>1. /\ EndCycle => pc' = "idle"
      /\ \A n \in Nat : BeginPass(n) => pc' = "scan"
      /\ RecoveredOp(cur) => pc' \in {"scan", "recover"}
      /\ FinishedOp => pc' \in {"scan", "recover", "dispatch", "idle"}
  BY DEF EndCycle, BeginPass, RecoveredOp, FinishedOp, DispatchedOp
<1>2. Fail => pc' = "idle"
  BY <1>1 DEF GiveUp, Fail
<1>3. ~RecoveryStep
  BY <1>1 DEF RecoveryStep, BeginCycle, RecoverBlocked, RecoverPlanned, RecoverStarted, Pin,
              CheckPlanned, Prove, FetchPinned, ComparePinned, Cleanup, Commit, CommitBaseline,
              Retry, Goto, WorkPcs
<1>4. ~(BeginRemote \/ UploadRefused \/ RemoteDeleteRefused \/ Restore \/ Settle)
  BY <1>1, <1>2
     DEF BeginRemote, UploadRefused, RemoteDeleteRefused, Restore, Settle, CommitBaseline, Goto,
         WorkPcs
<1>5. ~PassStep
  BY <1>1 DEF PassStep, ScanLocal, PlanPass, DecidePass, RecordPath, Dispatch, Goto, WorkPcs
<1>6. ~(CallFails \/ Crash \/ Start)
  BY <1>1 DEF CallFails, Crash, Start, WorkPcs
<1>7. ~\E o \in OpIds : ResolveRestore(o)
  BY DEF ResolveRestore, daemonVars, WorkPcs
<1>8. CliNext \/ UserNext \/ UNCHANGED vars => UNCHANGED <<daemonVars, slot, temp>>
  BY <1>7
     DEF CliNext, SetEnabled, QueueResolve, CheckResolve, ResolveRetry, UserNext, LocalPut,
         LocalWrite, LocalRemove, RemotePut, RemoteRemove, Edit, vars, worldVars
<1> QED  BY <1>3, <1>4, <1>5, <1>6, <1>8 DEF Next, DaemonNext, WorkerStep, ExecutionStep

\* The worker knows the bytes of what it has uploaded, downloaded, installed.
WorkKnown ==
  /\ pc \in {"observe", "settle"} /\ Op.kind = "ensure-remote" => UploadKnown
  /\ pc \in {"begin", "preserve", "validate", "install"} /\ Op.kind = "ensure-local"
       => DownloadKnown
  /\ pc \in {"drop", "observe", "settle"} /\ Op.kind = "ensure-local" => InstalledKnown

LEMMA WorkKnownStep ==
  ASSUME EffectInv, BytesInv, [Next]_vars, pc' \in WorkPcs PROVE WorkKnown'
<1>0. /\ OwnerInv /\ OrderInv /\ TypeInv /\ RevisionsInv /\ StepInv /\ StageOK /\ WorkKnown
      /\ TypeInv' /\ RemoteMoves /\ tick' \in Nat /\ tick <= tick' /\ tick \in Nat
      /\ obs \in [local : LocalPrints \union {Absent}, remote : RemoteFiles \union {Absent},
                  result : LocalPrints \union RemoteFiles \union {Absent}]
      /\ temp \in [OpIds -> LocalPrints \union {Absent}]
      /\ remote \in [Paths -> RemoteFiles \union {Absent}]
  BY OwnerInvStep, RemoteStep, ObjectsStep
     DEF EffectInv, OwnerInv, BytesInv, WorkKnown, TypeInv, TypeOK, WorldTypeOK, DaemonTypeOK
<1>1. pc \in OpPcs /\ cur' = cur
  BY <1>0, WorkMoves
     DEF Upload, RemoteDelete, Download, BeginLocal, Preserve, Validate, Install, Drop, Observe,
         Goto, Stay, GiveUp, Fail, EndCycle, daemonVars, WorkPcs, OpPcs, Executing
<1>2. /\ cur \in Live /\ cur \in OpIds /\ journal'[cur] # Absent /\ Op \in Operations
      /\ WellFormed(Op) /\ Op.path \in Paths
      /\ cur \in Live'
  BY <1>0, <1>1, CurrentOp DEF TypeInv, WorkerOK, Live, WorkPcs, OpPcs, Executing
<1>3. Steady(journal'[cur], journal[cur])
  BY <1>0, <1>2, JournalStep DEF Created
<1>4. /\ UploadKnown /\ obs'.result = obs.result => UploadKnown'
      /\ DownloadKnown /\ Op.kind = "ensure-local" /\ temp'[cur] = temp[cur] => DownloadKnown'
      /\ InstalledKnown /\ Op.kind = "ensure-local" /\ obs'.result = obs.result
           => InstalledKnown'
      /\ DownloadKnown /\ Op.kind = "ensure-local" /\ obs'.result = temp[cur]
           => InstalledKnown'
  BY <1>0, <1>1, <1>2, <1>3, KnownStays
<1>5. /\ Op'.kind = Op.kind /\ Op'.path = Op.path /\ Op'.expLocal = Op.expLocal
      /\ Op'.expRemote = Op.expRemote
  BY <1>1, <1>3 DEF Op, Steady
<1>6. CASE UNCHANGED <<daemonVars, slot, temp>>
  BY <1>0, <1>4, <1>5, <1>6 DEF WorkKnown, daemonVars
<1>7. CASE Upload
  <2>1. /\ Op.kind = "ensure-remote" /\ pc' = "observe"
        /\ remote' = [remote EXCEPT ![Op.path] =
                        Uploaded(Op.expLocal.ver, remote[Op.path], tick + 1)]
        /\ tick' = tick + 1 /\ obs' = [obs EXCEPT !.result = remote'[Op.path]]
    BY <1>0, <1>7 DEF Upload, TypeInv, WorkerOK, Op, GiveUp, Fail, EndCycle, WorkPcs
  <2>2. Op.expLocal \in LocalPrints /\ Op.expLocal.ver \in Versions
    BY <1>2, <2>1 DEF WellFormed, Operations, LocalPrints
  <2>3. /\ obs'.result = remote'[Op.path] /\ remote'[Op.path] \in RemoteFiles
        /\ obs'.result.rev = tick + 1 /\ obs'.result.ver = Op.expLocal.ver
    BY <1>0, <1>2, <2>1, <2>2, UploadedType DEF Uploaded
  <2>4. UploadKnown'
    BY <1>0, <1>5, <2>1, <2>3 DEF UploadKnown, InRevision
  <2> QED  BY <1>5, <2>1, <2>4 DEF WorkKnown
<1>8. CASE RemoteDelete
  BY <1>0, <1>5, <1>8 DEF RemoteDelete, StepInv, WorkKnown, Goto, GiveUp, Fail, EndCycle, WorkPcs
<1>9. CASE Download
  <2>1. /\ temp' = [temp EXCEPT ![cur] = LocalPrint(remote[Op.path])]
        /\ pc' = "begin" /\ UNCHANGED remote /\ RemoteAsExpected
    BY <1>9 DEF Download, Staged, GiveUp, Fail, EndCycle, Goto, WorkPcs
  <2>2. temp'[cur] # Absent /\ temp'[cur].ver = remote[Op.path].ver
    <3>1. temp'[cur] = LocalPrint(remote[Op.path])
      BY <1>0, <1>2, <2>1
    <3>2. remote[Op.path] \in RemoteFiles
      <4>1. Op.kind = "ensure-local"
        BY <1>9 DEF Download
      <4> QED  BY <1>0, <1>2, <2>1, <4>1
               DEF RemoteAsExpected, MatchesExpectation, Expectation, WellFormed
    <3> QED  BY <3>1, <3>2, Prints, AbsentAssumption DEF LocalPrint
  <2>3. DownloadKnown'
    BY <1>1, <1>5, <2>1, <2>2 DEF DownloadKnown, InRevision
  <2> QED  BY <2>1, <2>3 DEF WorkKnown
<1>10. CASE BeginLocal
  <2>1. /\ UNCHANGED <<temp, obs>> /\ pc' \in {"preserve", "install"}
        /\ pc = "begin" \/ Op.kind = "delete-local"
    BY <1>10 DEF BeginLocal, Goto, GiveUp, Fail, EndCycle, WorkPcs
  <2> QED  BY <1>0, <1>4, <1>5, <2>1 DEF WorkKnown
<1>11. CASE Preserve
  <2>1. UNCHANGED <<temp, obs>> /\ pc = "preserve" /\ pc' = "validate"
    BY <1>11 DEF Preserve, Goto, GiveUp, Fail, EndCycle, WorkPcs
  <2> QED  BY <1>0, <1>4, <1>5, <2>1 DEF WorkKnown
<1>12. CASE Validate
  <2>1. /\ UNCHANGED <<temp, obs>> /\ pc = "validate"
        /\ pc' = IF Op.kind = "ensure-local" THEN "install" ELSE "drop"
    BY <1>12 DEF Validate, Goto, worldVars, WorkPcs
  <2>2. Op.kind \in {"ensure-local", "delete-local"}
    BY <1>0, <2>1 DEF StageOK, Moving, LocalMutation
  <2> QED  BY <1>0, <1>4, <1>5, <2>1, <2>2 DEF WorkKnown
<1>13. CASE Install
  <2>1. /\ obs' = [obs EXCEPT !.result = temp[cur]] /\ pc' \in {"observe", "drop"}
        /\ pc = "install"
    BY <1>13 DEF Install, Goto, GiveUp, Fail, EndCycle, WorkPcs
  <2>2. obs'.result = temp[cur]
    BY <1>0, <2>1
  <2>3. Op.kind \in {"ensure-local", "delete-local"}
    BY <1>0, <2>1 DEF StageOK, Moving, LocalMutation
  <2> QED  BY <1>0, <1>4, <1>5, <2>1, <2>2, <2>3 DEF WorkKnown
<1>14. CASE Drop
  <2>1. UNCHANGED obs /\ pc = "drop" /\ pc' = "observe"
    BY <1>14 DEF Drop, Goto
  <2>2. Op.kind \in {"ensure-local", "delete-local"}
    BY <1>0, <2>1 DEF StageOK, Moving, LocalMutation
  <2> QED  BY <1>0, <1>4, <1>5, <2>1, <2>2 DEF WorkKnown
<1>15. CASE Observe
  <2>1. obs' = [obs EXCEPT !.local = LocalPrint(local[Op.path])] /\ pc = "observe" /\ pc' = "settle"
    BY <1>15 DEF Observe
  <2>2. obs'.result = obs.result
    BY <1>0, <2>1
  <2> QED  BY <1>0, <1>4, <1>5, <2>1, <2>2 DEF WorkKnown
<1> QED  BY <1>0, <1>6, <1>7, <1>8, <1>9, <1>10, <1>11, <1>12, <1>13, <1>14, <1>15, WorkMoves

LEMMA BytesInvStep ==
  ASSUME EffectInv, RecordInv, BytesInv, [Next]_vars PROVE BytesInv'
<1>1. TypeInv
  BY DEF EffectInv, OwnerInv
<1>2. WorkKnown'
  <2>1. CASE pc' \in WorkPcs
    BY <2>1, WorkKnownStep
  <2>2. CASE pc' \notin WorkPcs
    BY <2>2 DEF WorkPcs, WorkKnown
  <2> QED  BY <2>1, <2>2
<1>3. BaselineAgrees'
  BY <1>1, AgreementStep
<1>4. pc' \in {"cleanup", "commit"} => Pair(obs.local, obs.remote)'
  BY <1>1, ProvenPair
<1>5. pc' = "compare" => FetchedKnown'
  BY <1>1, FetchedStays
<1> QED  BY <1>2, <1>3, <1>4, <1>5 DEF BytesInv, WorkKnown

LEMMA PassInvStep == ASSUME PassInv, [Next]_vars PROVE PassInv'
<1>1. OwnerInv /\ OrderInv /\ RevisionsInv
  BY DEF PassInv, EffectInv
<1> QED  BY <1>1, EffectStep, PlanInvStep, RecordInvStep, OriginInvStep, BytesInvStep DEF PassInv

LEMMA InitPass == Init => PassInv
<1> SUFFICES ASSUME Init PROVE PassInv
  OBVIOUS
<1>1. EffectInv
  BY InitEffect
<1>2. PlanInv
  <2>1. \A p \in Paths : plan[p].kind \notin ExternalKinds
    BY ConstantTypes DEF Init, Decide, ExternalKinds
  <2> QED  BY <2>1 DEF PlanInv, External
<1>3. RecordInv
  BY DEF Init, RecordInv, NoConflict
<1>4. OriginInv
  BY DEF Init, OriginInv, Live
<1>5. BytesInv
  BY DEF Init, BytesInv, BaselineAgrees
<1> QED  BY <1>1, <1>2, <1>3, <1>4, <1>5 DEF PassInv

\* Whatever was edited, lost or replayed, the planner never takes two different
\* contents for a pair that is in sync.
THEOREM BaselinesAgree == Spec => []BaselineAgrees
<1>1. PassInv /\ [Next]_vars => PassInv'
  BY PassInvStep
<1>2. PassInv => BaselineAgrees
  BY DEF PassInv, BytesInv
<1> QED  BY <1>1, <1>2, InitPass, PTL DEF Spec

(***************************************************************************)
(* What the daemon does to existing data                                   *)
(***************************************************************************)

\* The daemon changes an existing remote file only by its upload or its delete.
LEMMA RemoteTaken ==
  ASSUME TypeInv, DaemonNext, NEW p \in Paths, remote[p] # Absent, remote'[p] # remote[p]
  PROVE  /\ Upload \/ RemoteDelete
         /\ p = Op.path /\ cur \in Live /\ Op \in Operations
<1>1. ~UNCHANGED remote
  OBVIOUS
<1>2. ~(RecoveryStep \/ PassStep)
  BY <1>1
     DEF RecoveryStep, BeginCycle, RecoverBlocked, RecoverPlanned, RecoverStarted, Pin,
         CheckPlanned, Prove, FetchPinned, ComparePinned, Cleanup, Commit, Retry, PassStep,
         ScanLocal, PlanPass, DecidePass, RecordPath, Dispatch, worldVars
<1>3. ~CallFails
  BY <1>1 DEF CallFails
<1>4. ExecutionStep => Upload \/ RemoteDelete
  BY <1>1
     DEF ExecutionStep, BeginRemote, UploadRefused, RemoteDeleteRefused, Download, BeginLocal,
         Preserve, Validate, Install, Restore, Drop, Observe, Settle, worldVars
<1>5. Upload \/ RemoteDelete
  BY <1>2, <1>3, <1>4 DEF DaemonNext, WorkerStep
<1>6. pc \in OpPcs
  BY <1>5 DEF Upload, RemoteDelete, OpPcs, Executing
<1>7. remote \in [Paths -> RemoteFiles \union {Absent}]
  BY DEF TypeInv, TypeOK, WorldTypeOK
<1>8. \E v : remote' = [remote EXCEPT ![Op.path] = v]
  BY <1>5 DEF Upload, RemoteDelete
<1>9. p = Op.path
  BY <1>7, <1>8
<1> QED  BY <1>5, <1>6, <1>9, CurrentOp

\* While a root is paired for the first time, nothing is taken away on either
\* side but what the user gave up by resolving a conflict.
THEOREM FirstPairingOnlyAdds == Spec => PairingOnlyAdds
<1> DEFINE Adds == DaemonNext /\ ~initialized =>
       \A p \in Paths :
         /\ local[p] # Absent /\ local'[p] # local[p] => Op.resolves
         /\ remote[p] # Absent /\ remote'[p] # remote[p] => Op.resolves
<1>1. PassInv /\ [Next]_vars => PassInv'
  BY PassInvStep
<1>2. ASSUME PassInv PROVE Adds
  <2> SUFFICES ASSUME DaemonNext, ~initialized, NEW p \in Paths
               PROVE  /\ local[p] # Absent /\ local'[p] # local[p] => Op.resolves
                      /\ remote[p] # Absent /\ remote'[p] # remote[p] => Op.resolves
    OBVIOUS
  <2>1. TypeInv /\ StageOK /\ StepInv /\ OriginInv
    BY <1>2 DEF PassInv, EffectInv, OwnerInv
  <2>2. ASSUME cur \in Live, ~Op.resolves PROVE OnlyAdds(Op)
    BY <2>1, <2>2 DEF OriginInv, Op
  <2>3. ASSUME local[p] # Absent, local'[p] # local[p] PROVE Op.resolves
    <3>1. Preserve
      BY <2>1, <2>3, LocalTaken
    <3>2. cur \in Live /\ LocalMutation(Op) /\ Op.expLocal # Absent
      BY <2>1, <3>1, CurrentOp DEF Preserve, StageOK, Moving, StepInv, OpPcs, Executing
    <3> QED  BY <2>2, <3>2 DEF OnlyAdds, LocalMutation
  <2>4. ASSUME remote[p] # Absent, remote'[p] # remote[p] PROVE Op.resolves
    <3>1. (Upload \/ RemoteDelete) /\ p = Op.path /\ cur \in Live
      BY <2>1, <2>4, RemoteTaken
    <3>2. Upload => Op.kind = "ensure-remote" /\ Op.expRemote # Absent
      <4>1. Expectation(remote[p]) # Absent
        BY <2>1, <2>4, Prints DEF TypeInv, TypeOK, WorldTypeOK
      <4> QED  BY <2>1, <3>1, <4>1
               DEF Upload, UploadAccepted, RemoteAsExpected, MatchesExpectation, TypeInv,
                   WorkerOK, Op
    <3>3. RemoteDelete => Op.kind = "delete-remote"
      BY <2>1 DEF RemoteDelete, StepInv
    <3> QED  BY <2>2, <3>1, <3>2, <3>3 DEF OnlyAdds
  <2> QED  BY <2>3, <2>4
<1>3. PassInv => [Adds]_vars
  BY <1>2
<1> QED  BY <1>1, <1>3, InitPass, PTL DEF Spec, PairingOnlyAdds, Adds

\* Only the end of a pass initializes a root.
LEMMA InitializedByPass ==
  ASSUME [Next]_vars, ~initialized, initialized' PROVE DecidePass
<1>1. StepInHand => UNCHANGED initialized
  BY StoreInHand
<1>2. BeginCycle \/ RecoverBlocked \/ RecoverPlanned \/ RecoverStarted => UNCHANGED initialized
  BY DEF BeginCycle, RecoverBlocked, RecoverPlanned, RecoverStarted, storeVars
<1>3. ScanLocal \/ PlanPass \/ (\E p \in Paths : RecordPath(p) \/ Dispatch(p))
        => UNCHANGED initialized
  BY DEF ScanLocal, PlanPass, RecordPath, Dispatch, storeVars
<1>4. CallFails \/ Crash \/ Start \/ CliNext \/ UserNext \/ UNCHANGED vars
        => UNCHANGED initialized
  BY DEF CallFails, Crash, Start, CliNext, SetEnabled, QueueResolve, CheckResolve, ResolveRetry,
         ResolveRestore, UserNext, LocalPut, LocalWrite, LocalRemove, RemotePut, RemoteRemove,
         Edit, vars, storeVars
<1> QED  BY <1>1, <1>2, <1>3, <1>4
         DEF Next, DaemonNext, WorkerStep, RecoveryStep, PassStep, StepInHand

\* The pairing of a root ends only on a snapshot all of which is recorded as in
\* sync, with no conflict and no operation of the daemon left over.
THEOREM PairingIsComplete == Spec => InitializedWhenPaired
<1> DEFINE Paired == ~initialized /\ initialized' =>
       /\ \A p \in Paths :
            /\ Unchanged(baseline[p], seen.local[p], seen.remote[p])
            /\ conflicts[p].kind = "none"
       /\ \A o \in Live : journal[o].resolves
<1>1. PassInv /\ [Next]_vars => PassInv'
  BY PassInvStep
<1>2. ASSUME PassInv, [Next]_vars PROVE Paired
  <2> SUFFICES ASSUME ~initialized, initialized'
               PROVE  /\ \A p \in Paths :
                           /\ Unchanged(baseline[p], seen.local[p], seen.remote[p])
                           /\ conflicts[p].kind = "none"
                      /\ \A o \in Live : journal[o].resolves
    OBVIOUS
  <2>1. /\ TypeInv /\ OrderInv /\ RecordInv /\ plan \in [Paths -> Decisions]
    BY <1>2 DEF PassInv, EffectInv, OwnerInv, TypeInv, TypeOK, DaemonTypeOK
  <2>2. DecidePass
    BY <1>2, InitializedByPass
  <2>3. /\ pc = "decide" /\ External(plan) = {}
        /\ conflicts = [p \in Paths |-> NoConflict] /\ left = {}
    BY <2>1, <2>2 DEF DecidePass, RecordInv
  <2>4. ASSUME NEW p \in Paths
        PROVE  Unchanged(baseline[p], seen.local[p], seen.remote[p]) /\ conflicts[p].kind = "none"
    <3>1. conflicts[p].kind = "none"
      BY <2>3 DEF NoConflict
    <3>2. plan[p].kind \in DecisionKinds /\ plan[p].kind \notin ExternalKinds
      BY <2>1, <2>3 DEF Decisions, External
    <3>3. plan[p].kind \notin {"conflict", "compare-content"} /\ Recorded(p)
      BY <2>1, <2>3, <3>1 DEF RecordInv, Recorded, ConflictKinds
    <3>4. plan[p].kind \in {"noop", "commit-baseline", "drop-baseline"}
      BY <3>2, <3>3 DEF DecisionKinds, ExternalKinds
    <3>5. plan[p].kind = "noop" => Unchanged(baseline[p], seen.local[p], seen.remote[p])
      BY <2>1, <2>3 DEF RecordInv
    <3> QED  BY <3>1, <3>3, <3>4, <3>5 DEF Recorded
  <2>5. \A o \in Live : journal[o].resolves
    BY <2>1, <2>3 DEF OrderInv, Queued, OpPcs, Executing, Live, OpIds
  <2> QED  BY <2>4, <2>5
<1>3. PassInv /\ [Next]_vars => [Paired]_vars
  BY <1>2
<1> QED  BY <1>1, <1>3, InitPass, PTL DEF Spec, InitializedWhenPaired, Paired

\* A remote file the daemon replaces is the one, in the revision, that the
\* baseline or the resolved conflict recorded; one it deletes is that object.
THEOREM SyncedRemoteOnly == Spec => OnlySyncedRemoteReplaced
<1> DEFINE Known(p) == IF Op.resolves THEN Op.expRemote ELSE Expectation(baseline[p].remote)
           Synced == DaemonNext => \A p \in Paths :
              remote[p] # Absent /\ remote'[p] # remote[p] =>
                LET known == IF Op.resolves THEN Op.expRemote
                                            ELSE Expectation(baseline[p].remote)
                IN /\ known # Absent /\ remote[p].id = known.id
                   /\ remote'[p] # Absent => remote[p].rev = known.rev
<1>1. PassInv /\ [Next]_vars => PassInv'
  BY PassInvStep
<1>2. ASSUME PassInv PROVE Synced
  <2> SUFFICES ASSUME DaemonNext, NEW p \in Paths, remote[p] # Absent, remote'[p] # remote[p]
               PROVE  /\ Known(p) # Absent /\ remote[p].id = Known(p).id
                      /\ remote'[p] # Absent => remote[p].rev = Known(p).rev
    OBVIOUS
  <2>1. /\ TypeInv /\ OriginInv /\ StepInv
        /\ remote \in [Paths -> RemoteFiles \union {Absent}]
        /\ baseline[p].remote \in RemoteFiles \union {Absent}
    BY <1>2 DEF PassInv, EffectInv, OwnerInv, TypeInv, TypeOK, StoreTypeOK, WorldTypeOK
  <2>2. (Upload \/ RemoteDelete) /\ p = Op.path /\ cur \in Live
    BY <2>1, RemoteTaken
  <2>3. ~Op.resolves => Backed(Op, baseline[p].remote)
    BY <2>1, <2>2 DEF OriginInv, Op
  <2>4. Expectation(baseline[p].remote) = Absent <=> baseline[p].remote = Absent
    BY <2>1, Prints
  <2>5. CASE Upload
    <3>1. Expectation(remote[p]) = Op.expRemote /\ Op.kind = "ensure-remote"
      BY <2>1, <2>2, <2>5
         DEF Upload, UploadAccepted, RemoteAsExpected, MatchesExpectation, TypeInv, WorkerOK, Op
    <3>2. Op.expRemote # Absent /\ Op.expRemote.id = remote[p].id /\ Op.expRemote.rev = remote[p].rev
      <4>1. Expectation(remote[p]) # Absent
        BY <2>1, Prints
      <4> QED  BY <3>1, <4>1 DEF Expectation
    <3>3. Known(p) = Op.expRemote
      BY <2>2, <2>3, <3>1, <3>2 DEF Backed, MatchesExpectation
    <3> QED  BY <3>2, <3>3
  <2>6. CASE RemoteDelete
    <3>1. /\ remote'[p] = Absent /\ remote[p].id = Op.expRemote.id
          /\ Op.kind = "delete-remote" /\ Op.expRemote # Absent
      BY <2>1, <2>2, <2>6 DEF RemoteDelete, ObjectStillThere, StepInv, OriginInv, Op
    <3>2. ~Op.resolves => baseline[p].remote # Absent /\ baseline[p].remote.id = Op.expRemote.id
      BY <2>2, <2>3, <3>1 DEF Backed
    <3>3. ~Op.resolves => /\ Expectation(baseline[p].remote) # Absent
                          /\ Expectation(baseline[p].remote).id = Op.expRemote.id
      BY <2>4, <3>2 DEF Expectation
    <3> QED  BY <3>1, <3>3
  <2> QED  BY <2>2, <2>5, <2>6
<1>3. PassInv => [Synced]_vars
  BY <1>2
<1> QED  BY <1>1, <1>3, InitPass, PTL DEF Spec, OnlySyncedRemoteReplaced, Synced

(***************************************************************************)
(* The steps of the journal, one operation at a time                       *)
(***************************************************************************)

Held(o) == slot[o] # Absent

Done(o) == o \in applied

\* Nothing the journal knows of operation o changes.
KeepsData(o) == (Held(o)' <=> Held(o)) /\ (Done(o)' <=> Done(o))

Stays(o) == StageOf(o)' = StageOf(o) /\ KeepsData(o)

Goes(o, from, to) == StageOf(o) = from /\ StageOf(o)' = to

\* The step of the journal that operation o takes.
Steps(o) ==
  \/ Stays(o)
  \/ /\ Goes(o, "free", "planned") /\ KeepsData(o)
     /\ \A earlier \in OpIds : earlier < o => StageOf(earlier) # "free"
  \/ Goes(o, "planned", "settled") /\ KeepsData(o) /\ ~Held(o) /\ ~Done(o)
  \/ /\ Goes(o, "planned", "started") /\ KeepsData(o)
     /\ \A earlier \in OpIds : earlier < o => StageOf(earlier) # "blocked"
  \/ Goes(o, "started", "started") /\ ~Held(o) /\ Held(o)' /\ ~Done(o) /\ ~Done(o)'
  \/ Goes(o, "started", "started") /\ Held(o) /\ ~Held(o)' /\ ~Done(o) /\ ~Done(o)'
  \/ Goes(o, "started", "started") /\ ~Held(o)' /\ Done(o)'
  \/ Goes(o, "started", "settled") /\ KeepsData(o) /\ ~Held(o)
  \/ Goes(o, "started", "blocked") /\ KeepsData(o)
  \/ Goes(o, "blocked", "started") /\ KeepsData(o)
  \/ Goes(o, "blocked", "started") /\ Held(o) /\ ~Held(o)' /\ ~Done(o) /\ ~Done(o)'

Implements == Journal!Next \/ UNCHANGED Journal!journalVars

\* When one operation takes such a step and the others none, the journal does.
LEMMA OneStep ==
  ASSUME applied \subseteq OpIds, applied' \subseteq OpIds, NEW o \in OpIds, Steps(o),
         \A other \in OpIds : other # o => Stays(other)
  PROVE  Implements
<1> DEFINE stage == [u \in OpIds |-> StageOf(u)]
           held == {u \in OpIds : slot[u] # Absent}
<1>1. stage' = [stage EXCEPT ![o] = StageOf(o)']
  BY DEF Stays
<1>2. KeepsData(o) => held' = held /\ applied' = applied
  BY DEF Stays, KeepsData, Held, Done
<1>3. Held(o)' => held' = held \union {o}
  BY DEF Stays, KeepsData, Held
<1>4. ~Held(o)' => held' = held \ {o}
  BY DEF Stays, KeepsData, Held
<1>5. o \in held <=> Held(o)
  BY DEF Held
<1>6. ~Done(o)' /\ ~Done(o) => applied' = applied
  BY DEF Stays, KeepsData, Done
<1>7. Done(o)' => applied' = applied \union {o}
  BY DEF Stays, KeepsData, Done
<1>8. stage[o] = StageOf(o)
  OBVIOUS
<1>9. \A u \in OpIds : stage[u] = StageOf(u)
  OBVIOUS
<1>10. o \in applied <=> Done(o)
  BY DEF Done
<1>11. ASSUME Stays(o) PROVE UNCHANGED Journal!journalVars
  <2>1. stage' = stage
    BY <1>1, <1>8, <1>11 DEF Stays
  <2>2. held' = held /\ applied' = applied
    BY <1>2, <1>11 DEF Stays
  <2> QED  BY <2>1, <2>2 DEF Journal!journalVars
<1>12. ASSUME Goes(o, "free", "planned"), KeepsData(o),
              \A earlier \in OpIds : earlier < o => StageOf(earlier) # "free"
       PROVE  Journal!Plan(o)
  BY <1>1, <1>2, <1>8, <1>9, <1>12 DEF Goes, Journal!Plan, Journal!Move
<1>13. ASSUME Goes(o, "planned", "settled"), KeepsData(o), ~Held(o), ~Done(o)
       PROVE  Journal!Discard(o)
  BY <1>1, <1>2, <1>5, <1>8, <1>10, <1>13 DEF Goes, Journal!Discard, Journal!Move
<1>14. ASSUME Goes(o, "planned", "started"), KeepsData(o),
              \A earlier \in OpIds : earlier < o => StageOf(earlier) # "blocked"
       PROVE  Journal!Start(o)
  BY <1>1, <1>2, <1>8, <1>9, <1>14 DEF Goes, Journal!Start, Journal!Move
<1>15. Goes(o, "started", "started") => StageOf(o) = "started" /\ stage' = stage
  BY <1>1, <1>8 DEF Goes
<1>16. ASSUME Goes(o, "started", "started"), ~Held(o), Held(o)', ~Done(o), ~Done(o)'
       PROVE  Journal!Hold(o)
  BY <1>3, <1>5, <1>6, <1>8, <1>10, <1>15, <1>16 DEF Journal!Hold
<1>17. ASSUME Goes(o, "started", "started"), Held(o), ~Held(o)', ~Done(o), ~Done(o)'
       PROVE  Journal!PutBack(o)
  BY <1>4, <1>5, <1>6, <1>8, <1>10, <1>15, <1>17 DEF Journal!PutBack
<1>18. ASSUME Goes(o, "started", "started"), ~Held(o)', Done(o)'
       PROVE  Journal!Complete(o)
  BY <1>4, <1>7, <1>8, <1>15, <1>18 DEF Journal!Complete
<1>19. ASSUME Goes(o, "started", "settled"), KeepsData(o), ~Held(o)
       PROVE  Journal!Settle(o)
  BY <1>1, <1>2, <1>5, <1>8, <1>19 DEF Goes, Journal!Settle, Journal!Move
<1>20. ASSUME Goes(o, "started", "blocked"), KeepsData(o) PROVE Journal!Block(o)
  BY <1>1, <1>2, <1>8, <1>20 DEF Goes, Journal!Block, Journal!Move
<1>21. ASSUME Goes(o, "blocked", "started"), KeepsData(o) PROVE Journal!Resume(o)
  BY <1>1, <1>2, <1>8, <1>21 DEF Goes, Journal!Resume, Journal!Move
<1>22. ASSUME Goes(o, "blocked", "started"), Held(o), ~Held(o)', ~Done(o), ~Done(o)'
       PROVE  Journal!Resume(o)
  BY <1>1, <1>4, <1>5, <1>6, <1>8, <1>10, <1>22 DEF Goes, Journal!Resume, Journal!Move
<1>23. Journal!Next <=> \E u \in OpIds :
         \/ Journal!Plan(u) \/ Journal!Discard(u) \/ Journal!Start(u) \/ Journal!Hold(u)
         \/ Journal!PutBack(u) \/ Journal!Complete(u) \/ Journal!Settle(u)
         \/ Journal!Block(u) \/ Journal!Resume(u)
  BY DEF Journal!Next
<1> HIDE DEF stage, held
<1> QED
  BY <1>11, <1>12, <1>13, <1>14, <1>16, <1>17, <1>18, <1>19, <1>20, <1>21, <1>22, <1>23
     DEF Steps, Implements

(***************************************************************************)
(* The steps of the worker with an operation in hand                       *)
(***************************************************************************)

\* Where the operation in hand stands, before the step and after it.
LEMMA StageInHand ==
  ASSUME EffectInv, StepInHand, NEW o \in OpIds, o = cur
  PROVE  /\ StageOf(o) = IF Op.phase = "planned" THEN "planned" ELSE "started"
         /\ Op.phase = "planned" => ~Held(o) /\ ~Done(o)
         /\ Held(o) => ~Done(o) /\ LocalMutation(Op)
         /\ UNCHANGED journal => StageOf(o)' = StageOf(o)
         /\ DeleteOp => StageOf(o)' = "settled"
         /\ \A phase \in {"running", "recovering"} : SetPhase(phase) => StageOf(o)' = "started"
         /\ SetPhase("blocked") => StageOf(o)' = "blocked"
         /\ \A u \in OpIds : u # o => StageOf(u)' = StageOf(u)
<1>0. /\ TypeInv /\ OrderInv /\ PreservedHasOwner /\ AppliedInv /\ nextOp \in Nat
      /\ pc \in OpPcs /\ cur \in Live /\ OnlyCur /\ nextOp' = nextOp
  BY InHand DEF EffectInv, OwnerInv, TypeInv, TypeOK, StoreTypeOK
<1>1. o < nextOp /\ o \in Nat /\ journal[o] # Absent /\ Op = journal[o] /\ Op.phase \in Phases
      /\ Op.phase # "blocked"
  BY <1>0, CurrentOp DEF TypeInv, OpsShape, OrderInv, OpIds, Live, Op, Operations
<1>2. StageOf(o) = IF Op.phase = "planned" THEN "planned" ELSE "started"
  BY <1>0, <1>1 DEF StageOf, Phases
<1>3. Op.phase = "planned" => ~Held(o) /\ ~Done(o)
  BY <1>0, <1>1
     DEF PreservedHasOwner, OwnsRecoverySlot, Started, AppliedInv, Held, Done, Live
<1>4. Held(o) => ~Done(o) /\ LocalMutation(Op)
  BY <1>0, <1>1 DEF PreservedHasOwner, OwnsRecoverySlot, AppliedInv, Held, Done
<1>5. UNCHANGED journal => StageOf(o)' = StageOf(o)
  BY <1>0 DEF StageOf
<1>6. DeleteOp => StageOf(o)' = "settled"
  BY <1>0, <1>1, DeleteEffect DEF StageOf
<1>7. ASSUME NEW phase \in Phases, SetPhase(phase)
      PROVE  StageOf(o)' = IF phase \in {"running", "recovering"} THEN "started" ELSE phase
  <2>1. journal'[o] # Absent /\ journal'[o].phase = phase
    BY <1>0, <1>7, PhaseEffect
  <2> QED  BY <1>0, <1>1, <2>1 DEF StageOf
<1>8. \A u \in OpIds : u # o => StageOf(u)' = StageOf(u)
  BY <1>0 DEF StageOf, OnlyCur
<1> QED  BY <1>2, <1>3, <1>4, <1>5, <1>6, <1>7, <1>8 DEF Phases

\* The step changes the data of the operation in hand at most.
DataElsewhere(o) ==
  \A u \in OpIds : u # o => slot'[u] = slot[u] /\ (u \in applied' <=> u \in applied)

\* The journal moves and the data stays.
LEMMA RecordStep ==
  ASSUME EffectInv, StepInHand, NEW o \in OpIds, o = cur,
         slot'[o] = slot[o], o \in applied' <=> o \in applied,
         \/ UNCHANGED journal
         \/ StageOf(o)' = StageOf(o)
         \/ SetPhase("running") \/ SetPhase("recovering")
         \/ SetPhase("blocked") /\ Op.phase # "planned"
         \/ DeleteOp /\ (Op.phase = "planned" \/ slot[o] = Absent)
         \/ GiveUp
  PROVE  Steps(o)
<1>0. /\ StageOf(o) = IF Op.phase = "planned" THEN "planned" ELSE "started"
      /\ Op.phase = "planned" => ~Held(o) /\ ~Done(o)
      /\ UNCHANGED journal => StageOf(o)' = StageOf(o)
      /\ DeleteOp => StageOf(o)' = "settled"
      /\ \A phase \in {"running", "recovering"} : SetPhase(phase) => StageOf(o)' = "started"
      /\ SetPhase("blocked") => StageOf(o)' = "blocked"
  BY StageInHand
<1>1. KeepsData(o)
  BY DEF KeepsData, Held, Done
<1>2. \A earlier \in OpIds : earlier < o => StageOf(earlier) # "blocked"
  <2>1. TypeInv /\ OrderInv /\ pc \in OpPcs
    BY InHand DEF EffectInv, OwnerInv
  <2>2. \A earlier \in Live : earlier < o => journal[earlier].phase # "blocked"
    BY <2>1, BlockedAhead DEF OpIds, Live
  <2>3. \A earlier \in OpIds : StageOf(earlier) = "blocked"
          => journal[earlier] # Absent /\ journal[earlier].phase = "blocked"
    <3>1. nextOp \in Nat
      BY <2>1 DEF TypeInv, TypeOK, StoreTypeOK
    <3> QED  BY <3>1 DEF StageOf, OpIds
  <2> QED  BY <2>2, <2>3 DEF Live
<1>3. CASE StageOf(o)' = StageOf(o)
  BY <1>1, <1>3 DEF Steps, Stays
<1>4. CASE SetPhase("running") \/ SetPhase("recovering")
  BY <1>0, <1>1, <1>2, <1>3, <1>4 DEF Steps, Goes
<1>5. CASE SetPhase("blocked") /\ Op.phase # "planned"
  BY <1>0, <1>1, <1>5 DEF Steps, Goes
<1>6. CASE DeleteOp /\ (Op.phase = "planned" \/ slot[o] = Absent)
  BY <1>0, <1>1, <1>6 DEF Steps, Goes, Held
<1>7. CASE GiveUp
  BY <1>4, <1>6, <1>7 DEF GiveUp
<1> QED  BY <1>0, <1>3, <1>4, <1>5, <1>6, <1>7

\* The effect of a started operation is complete.
LEMMA CompletionStep ==
  ASSUME EffectInv, StepInHand, NEW o \in OpIds, o = cur, Op.phase # "planned",
         slot'[o] = Absent, o \in applied', UNCHANGED journal \/ Fail
  PROVE  Steps(o)
<1>1. StageOf(o) = "started" /\ StageOf(o)' = "started"
  BY StageInHand DEF GiveUp, Fail
<1> QED  BY <1>1 DEF Steps, Goes, Held, Done

\* What was moved aside goes back where it was, if it can.
LEMMA RestoreStep ==
  ASSUME EffectInv, StepInHand, NEW o \in OpIds, o = cur, Op.phase # "planned",
         RestoreSlot, UNCHANGED applied, UNCHANGED journal \/ SetPhase("recovering") \/ Fail
  PROVE  Steps(o) /\ DataElsewhere(o)
<1>0. slot \in [OpIds -> LocalFiles \union {Absent}]
  BY DEF EffectInv, OwnerInv, TypeInv, TypeOK, WorldTypeOK
<1>1. slot'[o] \in {slot[o], Absent} /\ DataElsewhere(o)
  BY <1>0 DEF RestoreSlot, DataElsewhere
<1>2. CASE slot'[o] = slot[o]
  BY <1>1, <1>2, RecordStep DEF Fail
<1>3. CASE slot'[o] # slot[o]
  <2>1. Held(o) /\ ~Held(o)'
    BY <1>1, <1>3 DEF Held
  <2>2. StageOf(o) = "started" /\ StageOf(o)' = "started" /\ ~Done(o)
    BY <2>1, StageInHand DEF GiveUp, Fail
  <2>3. ~Done(o)'
    BY <2>2 DEF Done
  <2> QED  BY <1>1, <2>1, <2>2, <2>3 DEF Steps, Goes
<1> QED  BY <1>2, <1>3

LEMMA RecoveryInHand ==
  ASSUME EffectInv, NEW o \in OpIds, o = cur,
         Pin \/ CheckPlanned \/ Prove \/ FetchPinned \/ ComparePinned \/ Cleanup \/ Commit
        \/ Retry
  PROVE  Steps(o) /\ DataElsewhere(o)
<1>0. /\ StepInHand /\ TypeInv /\ StageOK /\ slot \in [OpIds -> LocalFiles \union {Absent}]
      /\ pc \in OpPcs /\ cur \in Live /\ Op.phase # "blocked"
      /\ journal \in [OpIds -> Operations \union {Absent}] /\ nextOp \in Nat
  BY DEF StepInHand, EffectInv, OwnerInv, OrderInv, TypeInv, TypeOK, StoreTypeOK, WorldTypeOK,
         Pin, CheckPlanned, Prove, FetchPinned, ComparePinned, Cleanup, Commit, Retry, OpPcs,
         WorkerOK
<1>1. CASE UNCHANGED <<slot, applied>>
  <2>1. DataElsewhere(o)
    BY <1>1 DEF DataElsewhere
  <2>2. CASE Pin /\ LocalAsExpected
    <3> DEFINE target == IF Op.expLocal = Absent THEN 0 ELSE local[Op.path].ino
               new == [journal[o] EXCEPT !.pinned = TRUE, !.pin = target]
    <3>1. journal[o] \in Operations /\ journal[o] # Absent
      BY <1>0 DEF Live
    <3>2. journal' = [journal EXCEPT ![o] = new] /\ nextOp' = nextOp
      BY <2>2 DEF Pin
    <3>3. new.phase = journal[o].phase /\ new # Absent
      <4>1. new.phase = journal[o].phase
        BY <3>1 DEF Operations
      <4>2. new \in Operations
        <5>1. target \in Nat
          <6>1. Op.path \in Paths /\ local \in [Paths -> LocalFiles \union {Absent}]
            BY <1>0, CurrentOp DEF TypeInv, TypeOK, WorldTypeOK
          <6>2. Op.expLocal # Absent => local[Op.path] # Absent
            BY <2>2, <6>1, Prints DEF LocalAsExpected, LocalEquivalent
          <6> QED  BY <6>1, <6>2 DEF LocalFiles
        <5> QED  BY <3>1, <5>1 DEF Operations
      <4> QED  BY <4>1, <4>2, AbsentAssumption
    <3> HIDE DEF new
    <3>4. journal'[o] = new
      BY <1>0, <3>2
    <3>5. StageOf(o)' = StageOf(o)
      BY <3>1, <3>2, <3>3, <3>4 DEF StageOf
    <3> QED  BY <1>0, <1>1, <2>1, <3>5, RecordStep
  <2>3. CASE Pin /\ ~LocalAsExpected
    BY <1>0, <1>1, <2>1, <2>3, RecordStep DEF Pin, StageOK
  <2>4. CASE CheckPlanned
    BY <1>0, <1>1, <2>1, <2>4, RecordStep DEF CheckPlanned, StageOK
  <2>5. CASE Prove \/ FetchPinned \/ ComparePinned \/ Cleanup
    BY <1>0, <1>1, <2>1, <2>5, RecordStep DEF Prove, FetchPinned, ComparePinned, Cleanup, storeVars
  <2>6. CASE Commit
    BY <1>0, <1>1, <2>1, <2>6, RecordStep DEF Commit, CommitBaseline, StageOK, Ending
  <2>7. CASE Retry
    BY <1>0, <1>1, <2>1, <2>7, RecordStep DEF Retry, StageOK, Started
  <2> QED  BY <2>2, <2>3, <2>4, <2>5, <2>6, <2>7
<1>2. CASE Cleanup /\ ~UNCHANGED <<slot, applied>>
  <2>1. /\ slot' = [slot EXCEPT ![o] = Absent] /\ applied' = applied \union {o}
        /\ UNCHANGED journal /\ Op.phase # "planned"
    BY <1>0, <1>2 DEF Cleanup, storeVars, StageOK, Started
  <2>2. slot'[o] = Absent /\ o \in applied' /\ DataElsewhere(o)
    BY <1>0, <2>1 DEF DataElsewhere
  <2> QED  BY <1>0, <2>1, <2>2, CompletionStep
<1> QED  BY <1>1, <1>2 DEF Pin, CheckPlanned, Prove, FetchPinned, ComparePinned, Commit, Retry,
                           worldVars

LEMMA RemoteInHand ==
  ASSUME EffectInv, NEW o \in OpIds, o = cur,
         BeginRemote \/ Upload \/ UploadRefused \/ RemoteDelete \/ RemoteDeleteRefused
  PROVE  Steps(o) /\ DataElsewhere(o)
<1>0. /\ StepInHand /\ StageOK /\ pc \in OpPcs
  BY DEF StepInHand, ExecutionStep, EffectInv, OwnerInv, BeginRemote, Upload, UploadRefused,
         RemoteDelete, RemoteDeleteRefused, OpPcs, Executing
<1>1. CASE BeginRemote \/ UploadRefused \/ RemoteDeleteRefused
  <2>1. UNCHANGED <<slot, applied>>
    BY <1>1 DEF BeginRemote, UploadRefused, RemoteDeleteRefused, worldVars
  <2>2. SetPhase("running") \/ SetPhase("recovering") \/ GiveUp
    BY <1>1 DEF Fail, BeginRemote, UploadRefused, RemoteDeleteRefused
  <2>3. DataElsewhere(o)
    BY <2>1 DEF DataElsewhere
  <2> QED  BY <1>0, <2>1, <2>2, <2>3, RecordStep
<1>2. CASE Upload \/ RemoteDelete
  <2>1. /\ UNCHANGED slot /\ applied' = applied \union {o} /\ (UNCHANGED journal \/ Fail)
        /\ pc \in Sending
    BY <1>2 DEF Upload, RemoteDelete, storeVars, Sending
  <2>2. Op.phase # "planned" /\ ~LocalMutation(Op)
    BY <1>0, <2>1 DEF StageOK, Started
  <2>3. slot[o] = Absent
    BY <1>0, <2>2, StageInHand DEF Held
  <2>4. DataElsewhere(o)
    BY <2>1 DEF DataElsewhere
  <2> QED  BY <1>0, <2>1, <2>2, <2>3, <2>4, CompletionStep
<1> QED  BY <1>1, <1>2

LEMMA LocalInHand ==
  ASSUME EffectInv, NEW o \in OpIds, o = cur,
         Download \/ BeginLocal \/ Preserve \/ Validate \/ Install \/ Restore \/ Drop
  PROVE  Steps(o) /\ DataElsewhere(o)
<1>0. /\ StepInHand /\ StageOK /\ StepInv /\ pc \in OpPcs
      /\ slot \in [OpIds -> LocalFiles \union {Absent}]
      /\ local \in [Paths -> LocalFiles \union {Absent}]
      /\ pc \in Moving => Op.phase # "planned" /\ LocalMutation(Op)
  BY DEF StepInHand, ExecutionStep, EffectInv, OwnerInv, TypeInv, TypeOK, WorldTypeOK, Download,
         BeginLocal, Preserve, Validate, Install, Restore, Drop, OpPcs, Executing, StageOK, Started
<1>1. CASE UNCHANGED <<slot, applied>> /\ (UNCHANGED journal \/ SetPhase("running") \/ GiveUp)
  BY <1>0, <1>1, RecordStep DEF DataElsewhere
<1>2. CASE Download \/ BeginLocal \/ Validate
  BY <1>1, <1>2 DEF Fail, Download, BeginLocal, Validate, storeVars, worldVars
<1>3. CASE Preserve
  <2>1. CASE local[Op.path] # Absent /\ slot[cur] = Absent
    <3>1. /\ slot' = [slot EXCEPT ![o] = local[Op.path]] /\ UNCHANGED <<journal, applied>>
          /\ pc = "preserve"
      BY <1>3, <2>1 DEF Preserve
    <3>2. Held(o)' /\ ~Held(o)
      BY <1>0, <2>1, <3>1 DEF Held
    <3>3. ~Done(o) /\ ~Done(o)'
      BY <1>0, <3>1 DEF StepInv, Moving, Done
    <3>4. StageOf(o) = "started" /\ StageOf(o)' = "started"
      BY <1>0, <3>1, StageInHand DEF Moving
    <3>5. DataElsewhere(o)
      BY <1>0, <3>1 DEF DataElsewhere
    <3> QED  BY <3>2, <3>3, <3>4, <3>5 DEF Steps, Goes
  <2> QED  BY <1>1, <1>3, <2>1 DEF Fail, Preserve
<1>4. CASE Install
  <2>1. CASE local[Op.path] = Absent /\ temp[cur] # Absent /\ slot[cur] = Absent
    <3>1. /\ UNCHANGED <<slot, journal>> /\ applied' = applied \union {o} /\ pc \in Moving
      BY <1>4, <2>1 DEF Install, Moving
    <3>2. DataElsewhere(o)
      BY <3>1 DEF DataElsewhere
    <3> QED  BY <1>0, <2>1, <3>1, <3>2, CompletionStep
  <2> QED  BY <1>1, <1>4, <2>1 DEF Fail, Install
<1>5. CASE Restore
  BY <1>0, <1>5, RestoreStep DEF Restore, Moving
<1>6. CASE Drop
  <2>1. /\ slot' = [slot EXCEPT ![o] = Absent] /\ applied' = applied \union {o}
        /\ UNCHANGED journal /\ pc \in Moving
    BY <1>6 DEF Drop, storeVars, Moving
  <2>2. slot'[o] = Absent /\ o \in applied' /\ DataElsewhere(o)
    BY <1>0, <2>1 DEF DataElsewhere
  <2> QED  BY <1>0, <2>1, <2>2, CompletionStep
<1> QED  BY <1>2, <1>3, <1>4, <1>5, <1>6

LEMMA EndInHand ==
  ASSUME EffectInv, NEW o \in OpIds, o = cur,
         Observe \/ Settle \/ (CallFails /\ pc \in OpPcs)
  PROVE  Steps(o) /\ DataElsewhere(o)
<1>0. StepInHand /\ StageOK
  BY DEF StepInHand, ExecutionStep, EffectInv, OwnerInv
<1>1. CASE Observe \/ Settle
  <2>1. UNCHANGED <<slot, applied>> /\ DataElsewhere(o)
    BY <1>1 DEF Observe, Settle, worldVars, DataElsewhere
  <2>2. UNCHANGED journal \/ SetPhase("recovering") \/ (DeleteOp /\ slot[o] = Absent)
    BY <1>0, <1>1 DEF Observe, Settle, CommitBaseline, storeVars, StageOK, Ending
  <2> QED  BY <1>0, <2>1, <2>2, RecordStep
<1>2. CASE CallFails
  <2>1. /\ UNCHANGED applied
        /\ \/ UNCHANGED journal
           \/ DeleteOp /\ Op.phase = "planned"
           \/ SetPhase("recovering")
    BY <1>2 DEF CallFails
  <2>2. CASE UNCHANGED <<local, slot>>
    <3>1. DataElsewhere(o)
      BY <2>1, <2>2 DEF DataElsewhere
    <3> QED  BY <1>0, <2>1, <2>2, <3>1, RecordStep
  <2>3. CASE RestoreSlot /\ pc \in {"validate", "install", "drop"}
    <3>1. Op.phase # "planned"
      BY <1>0, <2>3 DEF StageOK, Moving, Started
    <3> QED  BY <1>0, <2>1, <2>3, <3>1, RestoreStep
  <2> QED  BY <1>2, <2>2, <2>3 DEF CallFails
<1> QED  BY <1>1, <1>2

\* Every step with an operation in hand moves that operation on as the journal
\* promises, and leaves the others alone.
LEMMA InHandImplements ==
  ASSUME EffectInv, [Next]_vars, StepInHand PROVE Implements
<1>1. PICK o \in OpIds : o = cur
  BY InHand DEF EffectInv, OwnerInv, Live
<1>2. Steps(o) /\ DataElsewhere(o)
  BY <1>1, RecoveryInHand, RemoteInHand, LocalInHand, EndInHand DEF StepInHand, ExecutionStep
<1>3. applied \subseteq OpIds /\ applied' \subseteq OpIds
  BY EffectStep DEF EffectInv, OwnerInv, TypeInv, TypeOK
<1>4. \A u \in OpIds : u # o => Stays(u)
  BY <1>1, <1>2, StageInHand DEF DataElsewhere, Stays, KeepsData, Held, Done
<1> QED  BY <1>2, <1>3, <1>4, OneStep

(***************************************************************************)
(* The other steps                                                         *)
(***************************************************************************)

\* The journal is not touched.
LEMMA SilentImplements ==
  ASSUME UNCHANGED <<journal, nextOp, slot, applied>> PROVE Implements
BY DEF Implements, Journal!journalVars, StageOf

\* An operation is added.
LEMMA AddedImplements ==
  ASSUME TypeInv, NEW op \in Operations, op.phase = "planned", CreateOperation(op),
         UNCHANGED <<slot, applied>>
  PROVE  Implements
<1>1. /\ nextOp \in Nat \ {0} /\ MaxOps \in Nat /\ applied \subseteq OpIds
      /\ journal \in [OpIds -> Operations \union {Absent}]
  BY SyncCycleAssumption DEF TypeInv, TypeOK, StoreTypeOK
<1>2. PICK o \in OpIds : o = nextOp
  BY <1>1 DEF CreateOperation, OpIds
<1>3. /\ journal' = [journal EXCEPT ![o] = op] /\ nextOp' = nextOp + 1
  BY <1>2 DEF CreateOperation
<1>4. journal'[o] = op /\ op # Absent
  BY <1>1, <1>3, AbsentAssumption
<1>5. StageOf(o) = "free" /\ StageOf(o)' = "planned"
  BY <1>1, <1>2, <1>3, <1>4 DEF StageOf, OpIds
<1>6. \A u \in OpIds : u # o => StageOf(u)' = StageOf(u)
  BY <1>1, <1>2, <1>3 DEF StageOf, OpIds
<1>7. \A u \in OpIds : u < o => StageOf(u) # "free"
  BY <1>1, <1>2 DEF StageOf, OpIds, Operations, Phases
<1>8. \A u \in OpIds : KeepsData(u)
  BY DEF KeepsData, Held, Done
<1>9. Steps(o) /\ \A u \in OpIds : u # o => Stays(u)
  BY <1>5, <1>6, <1>7, <1>8 DEF Steps, Goes, Stays
<1> QED  BY <1>1, <1>9, OneStep

\* A blocked operation is queued again, with its data or without.
LEMMA ResumedImplements ==
  ASSUME EffectInv, NEW o \in OpIds, ResolveRetry(o) \/ ResolveRestore(o) PROVE Implements
<1>1. /\ TypeInv /\ AppliedInv /\ OpsShape /\ nextOp \in Nat /\ applied \subseteq OpIds
      /\ journal \in [OpIds -> Operations \union {Absent}]
      /\ slot \in [OpIds -> LocalFiles \union {Absent}]
  BY DEF EffectInv, OwnerInv, TypeInv, TypeOK, StoreTypeOK, WorldTypeOK
<1>2. /\ o \in Live /\ journal[o].phase = "blocked" /\ UNCHANGED <<nextOp, applied>>
      /\ journal' = [journal EXCEPT ![o].phase = "recovering"]
  BY DEF ResolveRetry, ResolveRestore
<1> DEFINE new == [journal[o] EXCEPT !.phase = "recovering"]
<1>3. journal[o] \in Operations /\ new \in Operations /\ new.phase = "recovering"
  BY <1>1, <1>2 DEF Live, Operations, Phases
<1>4. journal' = [journal EXCEPT ![o] = new]
  BY <1>2
<1> HIDE DEF new
<1>5. journal'[o] = new /\ new # Absent /\ \A u \in OpIds : u # o => journal'[u] = journal[u]
  BY <1>1, <1>3, <1>4, AbsentAssumption
<1>6. StageOf(o) = "blocked" /\ StageOf(o)' = "started"
  BY <1>1, <1>2, <1>3, <1>5 DEF StageOf, OpsShape, OpIds, Live
<1>7. \A u \in OpIds : u # o => StageOf(u)' = StageOf(u)
  BY <1>2, <1>5 DEF StageOf
<1>8. CASE UNCHANGED slot
  <2>1. \A u \in OpIds : KeepsData(u)
    BY <1>2, <1>8 DEF KeepsData, Held, Done
  <2>2. Steps(o) /\ \A u \in OpIds : u # o => Stays(u)
    BY <1>6, <1>7, <2>1 DEF Steps, Goes, Stays
  <2> QED  BY <1>1, <1>2, <2>2, OneStep
<1>9. CASE slot[o] # Absent /\ slot' = [slot EXCEPT ![o] = Absent]
  <2>1. \A u \in OpIds : u # o => KeepsData(u)
    BY <1>1, <1>2, <1>9 DEF KeepsData, Held, Done
  <2>2. Held(o) /\ ~Held(o)' /\ ~Done(o) /\ ~Done(o)'
    BY <1>1, <1>2, <1>9 DEF Held, Done, AppliedInv
  <2>3. Steps(o) /\ \A u \in OpIds : u # o => Stays(u)
    BY <1>6, <1>7, <2>1, <2>2 DEF Steps, Goes, Stays
  <2> QED  BY <1>1, <1>2, <2>3, OneStep
<1> QED  BY <1>8, <1>9 DEF ResolveRetry, ResolveRestore, worldVars

\* A started operation is marked as recovering.
LEMMA MarkedImplements ==
  ASSUME EffectInv, RecoverStarted PROVE Implements
<1>1. /\ nextOp \in Nat /\ applied \subseteq OpIds
      /\ journal \in [OpIds -> Operations \union {Absent}] /\ queue \subseteq Live
  BY DEF EffectInv, OwnerInv, TypeInv, TypeOK, StoreTypeOK, WorkerOK
<1>2. PICK o \in OpIds : /\ o \in Live /\ journal[o].phase \in {"running", "recovering"}
                         /\ journal' = [journal EXCEPT ![o].phase = "recovering"]
                         /\ UNCHANGED <<nextOp, slot, applied>>
  BY <1>1 DEF RecoverStarted, Live, worldVars
<1> DEFINE new == [journal[o] EXCEPT !.phase = "recovering"]
<1>3. journal[o] \in Operations /\ new \in Operations /\ new.phase = "recovering"
  BY <1>1, <1>2 DEF Live, Operations, Phases
<1>4. journal' = [journal EXCEPT ![o] = new]
  BY <1>2
<1> HIDE DEF new
<1>5. journal'[o] = new /\ new # Absent /\ \A u \in OpIds : u # o => journal'[u] = journal[u]
  BY <1>1, <1>3, <1>4, AbsentAssumption
<1>6. StageOf(o)' = StageOf(o)
  BY <1>1, <1>2, <1>3, <1>5 DEF StageOf, Live
<1>7. \A u \in OpIds : Stays(u)
  BY <1>2, <1>5, <1>6 DEF StageOf, Stays, KeepsData, Held, Done
<1> QED  BY <1>1, <1>2, <1>7, OneStep DEF Steps

(***************************************************************************)
(* The refinement                                                          *)
(***************************************************************************)

LEMMA StepImplements == ASSUME EffectInv, [Next]_vars PROVE Implements
<1>0. TypeInv /\ TypeInv' /\ journal \in [OpIds -> Operations \union {Absent}]
  BY EffectStep DEF EffectInv, OwnerInv, TypeInv, TypeOK, StoreTypeOK
<1>1. CASE StepInHand
  BY <1>1, InHandImplements
<1>2. CASE BeginCycle \/ RecoverBlocked \/ RecoverPlanned
  BY <1>2, SilentImplements DEF BeginCycle, RecoverBlocked, RecoverPlanned, storeVars, worldVars
<1>3. CASE RecoverStarted
  BY <1>3, MarkedImplements
<1>4. CASE ScanLocal \/ PlanPass \/ DecidePass \/ \E p \in Paths : RecordPath(p)
  <2>1. UNCHANGED <<journal, nextOp, slot, applied>>
    BY <1>4 DEF ScanLocal, PlanPass, DecidePass, RecordPath, storeVars, worldVars
  <2> QED  BY <2>1, SilentImplements
<1>5. ASSUME NEW p \in Paths, Dispatch(p) PROVE Implements
  <2> DEFINE op == NewOp(plan[p].kind, p, seen.local[p], seen.remote[p], FALSE)
  <2>1. op \in Operations
    BY <1>0, <1>5, NewOpType DEF Dispatch, External, TypeInv, TypeOK, DaemonTypeOK
  <2>2. op.phase = "planned"
    BY DEF NewOp
  <2>3. CreateOperation(op) /\ UNCHANGED <<slot, applied>>
    BY <1>5 DEF Dispatch, worldVars
  <2> HIDE DEF op
  <2> QED  BY <1>0, <2>1, <2>2, <2>3, AddedImplements
<1>6. CASE CallFails /\ pc \notin OpPcs
  <2>1. UNCHANGED <<journal, nextOp, slot, applied>>
    BY <1>6 DEF CallFails, OpPcs, Executing
  <2> QED  BY <2>1, SilentImplements
<1>7. CASE Crash \/ Start \/ UserNext \/ UNCHANGED vars
  <2>1. UNCHANGED <<journal, nextOp, slot, applied>>
    BY <1>7 DEF Crash, Start, UserNext, LocalPut, LocalWrite, LocalRemove, RemotePut,
                RemoteRemove, Edit, vars, storeVars, worldVars
  <2> QED  BY <2>1, SilentImplements
<1>8. CASE QueueResolve
  BY <1>0, <1>8, AddedImplements
     DEF QueueResolve, TypeInv, TypeOK, OpsShape, worldVars
<1>9. CASE SetEnabled \/ \E p \in Paths, keepLocal \in BOOLEAN : CheckResolve(p, keepLocal)
  <2>1. UNCHANGED <<journal, nextOp, slot, applied>>
    BY <1>9 DEF SetEnabled, CheckResolve, storeVars, worldVars
  <2> QED  BY <2>1, SilentImplements
<1>10. CASE \E o \in OpIds : ResolveRetry(o) \/ ResolveRestore(o)
  BY <1>10, ResumedImplements
<1> QED  BY <1>1, <1>2, <1>3, <1>4, <1>5, <1>6, <1>7, <1>8, <1>9, <1>10
         DEF Next, DaemonNext, WorkerStep, RecoveryStep, PassStep, CliNext, StepInHand

\* The sync cycle keeps the promise of the journal for any number of paths,
\* operations, crashes, failing calls, commands and edits.
THEOREM JournalIsKept == Spec => JournalKept
<1>1. Init => Journal!Init
  <2> SUFFICES ASSUME Init PROVE Journal!Init
    OBVIOUS
  <2>1. nextOp = 1 /\ slot = [o \in OpIds |-> Absent] /\ applied = {}
    BY DEF Init
  <2>2. \A o \in OpIds : StageOf(o) = "free"
    BY <2>1 DEF StageOf, OpIds
  <2> QED  BY <2>1, <2>2 DEF Journal!Init
<1>2. EffectInv /\ [Next]_vars => EffectInv'
  BY EffectStep
<1>3. EffectInv /\ [Next]_vars => [Journal!Next]_(Journal!journalVars)
  BY StepImplements DEF Implements
<1> QED  BY <1>1, <1>2, <1>3, InitEffect, PTL DEF Spec, JournalKept, Journal!Spec

(***************************************************************************)
(* What the daemon destroys                                                *)
(***************************************************************************)

\* A step of the daemon removes data from a recovery slot for good only where
\* the code says so.
LEMMA SlotEmptied ==
  ASSUME TypeInv, DaemonNext, NEW o \in OpIds, slot[o] # Absent, slot'[o] = Absent,
         local'[journal[o].path] # slot[o]
  PROVE  o = cur /\ (Drop \/ (Cleanup /\ slot[cur].ino = Op.pin))
<1>1. /\ slot \in [OpIds -> LocalFiles \union {Absent}]
      /\ local \in [Paths -> LocalFiles \union {Absent}]
      /\ pc \in OpPcs => cur \in OpIds /\ Op.path \in Paths
  BY CurrentOp DEF TypeInv, TypeOK, WorldTypeOK
<1>2. ~UNCHANGED slot
  OBVIOUS
<1>3. ~(pc \in OpPcs /\ RestoreSlot)
  BY <1>1 DEF RestoreSlot, Op
<1>4. CASE Preserve
  <2>1. pc \in OpPcs /\ slot[cur] = Absent /\ slot' = [slot EXCEPT ![cur] = local[Op.path]]
    BY <1>2, <1>4 DEF Preserve, OpPcs, Executing
  <2> QED  BY <1>1, <2>1
<1>5. CASE Drop \/ Cleanup
  <2>1. /\ pc \in OpPcs /\ slot' = [slot EXCEPT ![cur] = Absent]
        /\ Cleanup => slot[cur].ino = Op.pin
    BY <1>2, <1>5 DEF Drop, Cleanup, OpPcs, Executing, worldVars
  <2> QED  BY <1>1, <1>5, <2>1
<1>6. CASE RecoveryStep
  BY <1>2, <1>5, <1>6
     DEF RecoveryStep, BeginCycle, RecoverBlocked, RecoverPlanned, RecoverStarted, Pin,
         CheckPlanned, Prove, FetchPinned, ComparePinned, Commit, Retry, worldVars
<1>7. CASE ExecutionStep
  BY <1>2, <1>3, <1>4, <1>5, <1>7
     DEF ExecutionStep, BeginRemote, Upload, UploadRefused, RemoteDelete, RemoteDeleteRefused,
         Download, BeginLocal, Validate, Install, Restore, Observe, Settle, worldVars, OpPcs,
         Executing
<1>8. ~PassStep
  BY <1>2 DEF PassStep, ScanLocal, PlanPass, DecidePass, RecordPath, Dispatch, worldVars
<1>9. ~CallFails
  BY <1>2, <1>3 DEF CallFails, OpPcs, Executing
<1> QED  BY <1>6, <1>7, <1>8, <1>9 DEF DaemonNext, WorkerStep

\* A step of the daemon adds an operation to the journal only as the plan says.
LEMMA DaemonCreates ==
  ASSUME TypeInv, OrderInv, DaemonNext, NEW o \in OpIds, journal[o] = Absent, journal'[o] # Absent
  PROVE  \E p \in Paths : Dispatch(p) /\ o = nextOp
<1>0. o \notin Live /\ ~UNCHANGED journal
  BY DEF Live
<1>1. ~StepInHand
  <2> SUFFICES ASSUME StepInHand PROVE FALSE
    OBVIOUS
  <2>1. cur \in Live /\ OnlyCur
    BY InHand
  <2> QED  BY <1>0, <2>1 DEF OnlyCur
<1>2. ~RecoverStarted
  <2> SUFFICES ASSUME RecoverStarted PROVE FALSE
    OBVIOUS
  <2>1. PICK u \in queue : journal' = [journal EXCEPT ![u].phase = "recovering"]
    BY DEF RecoverStarted
  <2>2. u # o /\ journal \in [OpIds -> Operations \union {Absent}]
    BY <1>0 DEF TypeInv, TypeOK, StoreTypeOK, WorkerOK
  <2> QED  BY <2>1, <2>2
<1>3. ~RecoveryStep
  BY <1>0, <1>1, <1>2
     DEF RecoveryStep, BeginCycle, RecoverBlocked, RecoverPlanned, StepInHand, storeVars
<1>4. ~ExecutionStep /\ ~CallFails
  BY <1>0, <1>1 DEF StepInHand, CallFails, OpPcs
<1>5. PICK p \in Paths : Dispatch(p)
  BY <1>0, <1>3, <1>4
     DEF DaemonNext, WorkerStep, PassStep, ScanLocal, PlanPass, DecidePass, RecordPath, storeVars
<1>6. journal \in [OpIds -> Operations \union {Absent}]
      /\ \E op : journal' = [journal EXCEPT ![nextOp] = op]
  BY <1>5 DEF Dispatch, CreateOperation, TypeInv, TypeOK, StoreTypeOK
<1>7. o = nextOp
  BY <1>6
<1> QED  BY <1>5, <1>7

\* What the planner takes for in sync is what the baseline records.
LEMMA JournaledInSync == ASSUME PassInv, DaemonNext PROVE JournaledAsSynced
<1> SUFFICES ASSUME NEW o \in OpIds, journal[o] = Absent, journal'[o] # Absent,
                    LocalMutation(journal'[o]), journal'[o].expLocal # Absent
             PROVE  LET op == journal'[o]
                    IN /\ baseline[op.path].local # Absent
                       /\ op.expLocal.ver = baseline[op.path].local.ver
  BY DEF JournaledAsSynced
<1>0. /\ TypeInv /\ OrderInv /\ PlanInv
      /\ journal \in [OpIds -> Operations \union {Absent}]
      /\ \A p \in Paths : /\ seen.local[p] \in LocalPrints \union {Absent}
                          /\ baseline[p].local \in LocalPrints \union {Absent}
  BY DEF PassInv, EffectInv, OwnerInv, TypeInv, TypeOK, StoreTypeOK, DaemonTypeOK
<1>1. PICK p \in Paths : Dispatch(p) /\ o = nextOp
  BY <1>0, DaemonCreates
<1> DEFINE new == NewOp(plan[p].kind, p, seen.local[p], seen.remote[p], FALSE)
<1>2. journal' = [journal EXCEPT ![o] = new] /\ pc = "dispatch" /\ plan[p].kind \in ExternalKinds
  BY <1>1 DEF Dispatch, CreateOperation, External
<1>3. new.kind = plan[p].kind /\ new.path = p /\ new.expLocal = seen.local[p]
  BY DEF NewOp
<1> HIDE DEF new
<1>4. journal'[o] = new
  BY <1>0, <1>2
<1>5. SoundDecision(p)
  BY <1>0, <1>2 DEF PlanInv, TakenOn, OpPcs, Executing
<1>6. seen.local[p] # Absent /\ LocalAsSynced(p)
  BY <1>3, <1>4, <1>5 DEF SoundDecision, LocalMutation
<1>7. baseline[p].local # Absent /\ seen.local[p].ver = baseline[p].local.ver
  BY <1>0, <1>6 DEF LocalAsSynced, LocalEquivalent, LocalPrints
<1> QED  BY <1>3, <1>4, <1>7

\* Past its validation, what was moved aside has the version it was moved for.
MovedInv ==
  pc \in {"install", "drop"} /\ slot[cur] # Absent => slot[cur].ver = Op.expLocal.ver

LEMMA MovedInvStep ==
  ASSUME EffectInv, MovedInv, [Next]_vars PROVE MovedInv'
<1> SUFFICES ASSUME pc' \in {"install", "drop"}, slot'[cur'] # Absent
             PROVE  slot'[cur'].ver = Op'.expLocal.ver
  BY DEF MovedInv
<1>0. /\ OwnerInv /\ OrderInv /\ TypeInv /\ StepInv /\ TypeInv' /\ pc' \in WorkPcs
      /\ slot \in [OpIds -> LocalFiles \union {Absent}]
  BY OwnerInvStep DEF EffectInv, OwnerInv, TypeInv, TypeOK, WorldTypeOK, WorkPcs
<1>1. CASE BeginLocal
  BY <1>0, <1>1
     DEF BeginLocal, StepInv, StageOK, OwnerInv, Goto, Stay, GiveUp, Fail, EndCycle, LocalMutation
<1>2. ~(Upload \/ RemoteDelete \/ Download \/ Preserve \/ Drop \/ Observe)
  BY DEF Upload, RemoteDelete, Download, Preserve, Drop, Observe, Goto, GiveUp, Fail, EndCycle
<1>3. CASE Validate
  <2>1. /\ UNCHANGED <<slot, journal, cur>> /\ cur \in OpIds
        /\ LocalEquivalent(LocalPrint(slot[cur]), Op.expLocal)
    BY <1>0, <1>3, CurrentOp DEF Validate, Goto, Stay, storeVars, worldVars, OpPcs, Executing
  <2>2. slot[cur] \in LocalFiles
    BY <1>0, <2>1
  <2>3. slot[cur].ver = Op.expLocal.ver
    BY <2>1, <2>2, Prints DEF LocalEquivalent, LocalPrint, LocalFiles
  <2> QED  BY <2>1, <2>3 DEF Op
<1>4. CASE Install
  <2>1. /\ UNCHANGED <<slot, journal, cur>> /\ pc = "install"
    BY <1>4 DEF Install, Goto, Stay, GiveUp, Fail, EndCycle
  <2> QED  BY <2>1 DEF MovedInv, Op
<1>5. CASE UNCHANGED <<daemonVars, slot, temp>>
  <2>1. pc \in {"install", "drop"} /\ cur' = cur /\ pc \in OpPcs
    BY <1>5 DEF daemonVars, OpPcs, Executing
  <2>2. cur \in OpIds /\ cur \in Live /\ cur \in Live'
    <3>1. pc' \in OpPcs /\ WorkerOK' /\ cur' = cur
      BY <1>0, <2>1 DEF TypeInv, OpPcs, Executing, WorkPcs
    <3>2. cur' \in Live'
      BY <3>1 DEF WorkerOK
    <3> QED  BY <1>0, <2>1, <3>1, <3>2, CurrentOp
  <2>3. journal'[cur].expLocal = journal[cur].expLocal
    BY <1>0, <2>2, JournalStep DEF Created, Steady
  <2> QED  BY <1>5, <2>1, <2>3 DEF MovedInv, Op
<1> QED  BY <1>0, <1>1, <1>2, <1>3, <1>4, <1>5, WorkMoves

\* Executing an operation never destroys an edit the daemon has not seen, even
\* if files are written in place: what is removed was compared after it was
\* moved aside, and what is journaled is taken from a sound plan.
THEOREM ExecutionKeepsEdits == Spec => ExecutionDestroysOnlySynced
<1> DEFINE Inv == PassInv /\ MovedInv
           Safe == DaemonNext => (ExecutionStep => DestroyedIsKnown) /\ JournaledAsSynced
<1>1. Inv /\ [Next]_vars => Inv'
  BY PassInvStep, MovedInvStep DEF PassInv
<1>2. ASSUME Inv PROVE Safe
  <2>1. ASSUME ExecutionStep, DaemonNext, NEW o \in OpIds, slot[o] # Absent, slot'[o] = Absent,
               local'[journal[o].path] # slot[o]
        PROVE  slot[o].ver = journal[o].expLocal.ver
    <3>1. TypeInv
      BY <1>2 DEF PassInv, EffectInv, OwnerInv
    <3>2. ~Cleanup
      BY <2>1
         DEF ExecutionStep, Cleanup, BeginRemote, Upload, UploadRefused, RemoteDelete,
             RemoteDeleteRefused, Download, BeginLocal, Preserve, Validate, Install, Restore,
             Drop, Observe, Settle
    <3>3. o = cur /\ pc = "drop"
      BY <2>1, <3>1, <3>2, SlotEmptied DEF Drop
    <3> QED  BY <1>2, <2>1, <3>3 DEF MovedInv, Op
  <2> QED  BY <1>2, <2>1, JournaledInSync DEF DestroyedIsKnown
<1>3. Inv => [Safe]_vars
  BY <1>2
<1>4. Init => Inv
  BY InitPass DEF Init, MovedInv
<1> QED  BY <1>1, <1>3, <1>4, PTL DEF Spec, ExecutionDestroysOnlySynced, Safe

(***************************************************************************)
(* The bytes of a local object, when no program writes in place            *)
(***************************************************************************)

\* Wherever the object with this ino is, it has version ver.
Holds(ino, ver) ==
  /\ \A p \in Paths : local[p] # Absent /\ local[p].ino = ino => local[p].ver = ver
  /\ \A o \in OpIds : slot[o] # Absent /\ slot[o].ino = ino => slot[o].ver = ver

\* The object was somewhere before, or is a new one.
Sourced(f) ==
  \/ f = Absent
  \/ \E p \in Paths : f = local[p]
  \/ \E o \in OpIds : f = slot[o]
  \/ f.ino = tick + 1

AllSourced ==
  /\ \A p \in Paths : Sourced(local[p]')
  /\ \A o \in OpIds : Sourced(slot[o]')

\* Objects are moved or removed, and the new ones get a new ino: without writes
\* in place nobody changes an object.
LEMMA SourcesStep ==
  ASSUME TypeInv, [Next]_vars, ~InPlaceWrites PROVE AllSourced
<1>0. /\ local \in [Paths -> LocalFiles \union {Absent}] /\ tick \in Nat
      /\ slot \in [OpIds -> LocalFiles \union {Absent}]
      /\ pc \in OpPcs => cur \in OpIds /\ Op.path \in Paths
  BY CurrentOp DEF TypeInv, TypeOK, WorldTypeOK
<1> DEFINE LocalOK == \A p \in Paths : Sourced(local[p]')
           SlotOK  == \A o \in OpIds : Sourced(slot[o]')
<1>1. /\ Sourced(Absent)
      /\ \A p \in Paths : Sourced(local[p])
      /\ \A o \in OpIds : Sourced(slot[o])
      /\ \A ver : Sourced([kind |-> "file", ver |-> ver, ino |-> tick + 1])
  BY DEF Sourced
<1>2. /\ UNCHANGED local => LocalOK
      /\ UNCHANGED slot => SlotOK
  BY <1>1
<1>3. ASSUME NEW p \in Paths, NEW v, Sourced(v), local' = [local EXCEPT ![p] = v] PROVE LocalOK
  <2>1. \A q \in Paths : local'[q] = IF q = p THEN v ELSE local[q]
    BY <1>0, <1>3
  <2> QED  BY <1>1, <1>3, <2>1
<1>4. ASSUME NEW o \in OpIds, NEW v, Sourced(v), slot' = [slot EXCEPT ![o] = v] PROVE SlotOK
  <2>1. \A u \in OpIds : slot'[u] = IF u = o THEN v ELSE slot[u]
    BY <1>0, <1>4
  <2> QED  BY <1>1, <1>4, <2>1
<1> HIDE DEF LocalOK, SlotOK
<1>5. LocalOK /\ SlotOK => AllSourced
  BY DEF LocalOK, SlotOK, AllSourced
<1>6. pc \in OpPcs /\ RestoreSlot => AllSourced
  BY <1>0, <1>1, <1>2, <1>3, <1>4, <1>5 DEF RestoreSlot
<1>7. CASE UNCHANGED <<local, slot>>
  BY <1>2, <1>5, <1>7
<1>8. ASSUME pc \in OpPcs, UNCHANGED local, slot' = [slot EXCEPT ![cur] = Absent]
      PROVE  AllSourced
  BY <1>0, <1>1, <1>2, <1>4, <1>5, <1>8
<1>9. CASE RecoveryStep
  <2>1. CASE Cleanup
    <3>1. /\ UNCHANGED local /\ pc \in OpPcs
          /\ UNCHANGED slot \/ slot' = [slot EXCEPT ![cur] = Absent]
      BY <2>1 DEF Cleanup, OpPcs
    <3> QED  BY <1>7, <1>8, <3>1
  <2> QED  BY <1>7, <1>9, <2>1
       DEF RecoveryStep, BeginCycle, RecoverBlocked, RecoverPlanned, RecoverStarted, Pin,
           CheckPlanned, Prove, FetchPinned, ComparePinned, Commit, Retry, worldVars
<1>10. CASE ExecutionStep
  <2>0. pc \in OpPcs
    BY <1>10
       DEF ExecutionStep, BeginRemote, Upload, UploadRefused, RemoteDelete, RemoteDeleteRefused,
           Download, BeginLocal, Preserve, Validate, Install, Restore, Drop, Observe, Settle,
           OpPcs, Executing
  <2>1. CASE BeginRemote \/ Upload \/ UploadRefused \/ RemoteDelete \/ RemoteDeleteRefused
    BY <1>7, <2>1
       DEF BeginRemote, Upload, UploadRefused, RemoteDelete, RemoteDeleteRefused, worldVars
  <2>2. CASE Download \/ BeginLocal \/ Validate \/ Observe \/ Settle
    BY <1>7, <2>2 DEF Download, BeginLocal, Validate, Observe, Settle, worldVars
  <2>3. CASE Preserve
    <3>1. CASE /\ slot' = [slot EXCEPT ![cur] = local[Op.path]]
               /\ local' = [local EXCEPT ![Op.path] = Absent]
      BY <1>0, <1>1, <1>3, <1>4, <1>5, <2>0, <3>1
    <3> QED  BY <1>7, <2>3, <3>1 DEF Preserve
  <2>4. CASE Install
    <3>1. CASE local[Op.path] = Absent /\ temp[cur] # Absent
      <4>1. /\ UNCHANGED slot
            /\ local' = [local EXCEPT ![Op.path] =
                           [kind |-> "file", ver |-> temp[cur].ver, ino |-> tick + 1]]
        BY <2>4, <3>1 DEF Install
      <4> QED  BY <1>0, <1>1, <1>2, <1>3, <1>5, <2>0, <4>1
    <3> QED  BY <1>7, <2>4, <3>1 DEF Install
  <2>5. CASE Restore
    BY <1>6, <2>0, <2>5 DEF Restore
  <2>6. CASE Drop
    BY <1>8, <2>0, <2>6 DEF Drop
  <2> QED  BY <1>10, <2>1, <2>2, <2>3, <2>4, <2>5, <2>6 DEF ExecutionStep
<1>11. CASE CallFails
  BY <1>6, <1>7, <1>11 DEF CallFails, OpPcs, Executing
<1>12. CASE PassStep \/ Crash \/ Start \/ UNCHANGED vars
  BY <1>7, <1>12
     DEF PassStep, ScanLocal, PlanPass, DecidePass, RecordPath, Dispatch, Crash, Start, vars,
         worldVars
<1>13. CASE CliNext
  <2>1. ASSUME NEW o \in OpIds, ResolveRestore(o) PROVE AllSourced
    <3>1. /\ local' = [local EXCEPT ![journal[o].path] = slot[o]]
          /\ slot' = [slot EXCEPT ![o] = Absent]
      BY <2>1 DEF ResolveRestore
    <3>2. journal[o].path \in Paths
      BY <2>1 DEF ResolveRestore, Live, TypeInv, TypeOK, StoreTypeOK, Operations
    <3> QED  BY <1>1, <1>3, <1>4, <1>5, <3>1, <3>2
  <2> QED  BY <1>7, <1>13, <2>1
       DEF CliNext, SetEnabled, QueueResolve, CheckResolve, ResolveRetry, worldVars
<1>14. CASE UserNext
  <2>1. UNCHANGED slot
    BY <1>14 DEF UserNext, LocalPut, LocalWrite, LocalRemove, RemotePut, RemoteRemove, Edit
  <2>2. \/ UNCHANGED local
        \/ \E p \in Paths : local' = [local EXCEPT ![p] = Absent]
        \/ \E p \in Paths, ver \in Versions :
             local' = [local EXCEPT ![p] = [kind |-> "file", ver |-> ver, ino |-> tick + 1]]
    BY <1>14 DEF UserNext, LocalPut, LocalWrite, LocalRemove, RemotePut, RemoteRemove
  <2> QED  BY <1>1, <1>2, <1>3, <1>5, <2>1, <2>2
<1> QED  BY <1>9, <1>10, <1>11, <1>12, <1>13, <1>14 DEF Next, DaemonNext, WorkerStep

\* So what is known of the bytes of an object stays true.
LEMMA HoldsStays ==
  ASSUME TypeInv, ~InPlaceWrites, [Next]_vars, NEW ino \in 1..tick, NEW ver, Holds(ino, ver)
  PROVE  Holds(ino, ver)'
<1>1. AllSourced /\ tick \in Nat
  BY SourcesStep DEF TypeInv, TypeOK, WorldTypeOK
<1>2. ASSUME NEW f, Sourced(f), f # Absent, f.ino = ino PROVE f.ver = ver
  BY <1>1, <1>2 DEF Sourced, Holds
<1> QED  BY <1>1, <1>2 DEF AllSourced, Holds

\* A pinned operation knows the bytes of the object it is pinned to, wherever
\* that object is by now.
PinKnown(op) ==
  IF op.expLocal = Absent THEN op.pin = 0
  ELSE op.pin \in 1..tick /\ Holds(op.pin, op.expLocal.ver)

PinInv ==
  /\ cli # Absent => ~cli.pinned
  /\ \A o \in Live : journal[o].pinned => PinKnown(journal[o])

\* Only Pin pins an operation, or changes what it is pinned to.
SamePin(new, old) == new.pinned = old.pinned /\ new.pin = old.pin

LEMMA InHandPinned ==
  ASSUME TypeInv, OrderInv, StepInHand, ~Pin
  PROVE  journal'[cur] = Absent \/ SamePin(journal'[cur], journal[cur])
<1> DEFINE Goal == journal'[cur] = Absent \/ SamePin(journal'[cur], journal[cur])
<1>0. cur \in Live /\ {"running", "recovering", "blocked"} \subseteq Phases
  BY InHand DEF Phases
<1>1. CASE UNCHANGED journal
  BY <1>1 DEF SamePin
<1>2. ASSUME NEW phase \in {"running", "recovering", "blocked"}, SetPhase(phase) PROVE Goal
  BY <1>0, <1>2, PhaseEffect DEF SameButPhase, SamePin
<1>3. CASE DeleteOp
  BY <1>0, <1>3, DeleteEffect
<1>4. CASE GiveUp
  BY <1>2, <1>3, <1>4 DEF GiveUp
<1>5. CASE CheckPlanned \/ Prove \/ FetchPinned \/ ComparePinned \/ Cleanup \/ Commit
        \/ Retry
  BY <1>1, <1>2, <1>3, <1>5
     DEF CheckPlanned, Prove, FetchPinned, ComparePinned, Cleanup, Commit, CommitBaseline,
         Retry, storeVars
<1>6. CASE BeginRemote \/ Upload \/ UploadRefused \/ RemoteDelete \/ RemoteDeleteRefused
  BY <1>1, <1>2, <1>4, <1>6
     DEF Fail, BeginRemote, Upload, UploadRefused, RemoteDelete, RemoteDeleteRefused, storeVars
<1>7. CASE Download \/ BeginLocal \/ Preserve \/ Validate \/ Install \/ Restore \/ Drop
  BY <1>1, <1>2, <1>4, <1>7
     DEF Fail, Download, BeginLocal, Preserve, Validate, Install, Restore, Drop, storeVars
<1>8. CASE Observe \/ Settle
  BY <1>1, <1>2, <1>3, <1>8 DEF Observe, Settle, CommitBaseline, storeVars
<1>9. CASE CallFails
  BY <1>1, <1>2, <1>3, <1>9 DEF CallFails
<1> QED  BY <1>5, <1>6, <1>7, <1>8, <1>9 DEF StepInHand, ExecutionStep

LEMMA PinMoves ==
  ASSUME OwnerInv, OrderInv, PinInv, [Next]_vars, ~Pin, NEW o \in Live', journal'[o].pinned
  PROVE  /\ o \in Live /\ SamePin(journal'[o], journal[o])
         /\ journal'[o].expLocal = journal[o].expLocal
<1>0. /\ TypeInv /\ o \in OpIds /\ journal \in [OpIds -> Operations \union {Absent}]
  BY DEF OwnerInv, TypeInv, TypeOK, StoreTypeOK, Live
<1>1. ~Created(o)
  <2>1. cli # Absent => journal'[o] # cli
    BY DEF PinInv
  <2>2. \A kind, p, l, r : journal'[o] # NewOp(kind, p, l, r, FALSE)
    BY DEF NewOp
  <2> QED  BY <2>1, <2>2 DEF Created
<1>2. o \in Live /\ Steady(journal'[o], journal[o])
  BY <1>1, JournalStep
<1> SUFFICES SamePin(journal'[o], journal[o])
  BY <1>2 DEF Steady
<1>3. CASE journal'[o] = journal[o] \/ Started(journal[o])
  BY <1>2, <1>3 DEF Steady, SamePin
<1>4. CASE StepInHand
  <2>1. OnlyCur
    BY <1>0, <1>4, InHand
  <2> QED  BY <1>0, <1>3, <1>4, <2>1, InHandPinned DEF OnlyCur, Live
<1>5. ASSUME NEW u \in OpIds, Started(journal[u]),
             journal' = [journal EXCEPT ![u].phase = "recovering"]
      PROVE  SamePin(journal'[o], journal[o])
  <2>1. u # o => journal'[o] = journal[o]
    BY <1>0, <1>5
  <2> QED  BY <1>3, <1>5, <2>1
<1>6. ASSUME NEW op, CreateOperation(op) PROVE SamePin(journal'[o], journal[o])
  <2>1. o # nextOp
    BY <1>0, <1>2 DEF TypeInv, OpsShape, TypeOK, StoreTypeOK
  <2> QED  BY <1>0, <1>3, <1>6, <2>1 DEF CreateOperation
<1>7. CASE BeginCycle \/ RecoverBlocked \/ RecoverPlanned
  BY <1>3, <1>7 DEF BeginCycle, RecoverBlocked, RecoverPlanned, storeVars
<1>8. CASE RecoverStarted
  <2>1. PICK u \in queue : /\ journal[u].phase \in {"running", "recovering"}
                          /\ journal' = [journal EXCEPT ![u].phase = "recovering"]
    BY <1>8 DEF RecoverStarted
  <2>2. u \in OpIds /\ Started(journal[u])
    BY <1>0, <2>1 DEF TypeInv, WorkerOK, Live, Started
  <2> QED  BY <1>5, <2>1, <2>2
<1>9. CASE PassStep
  BY <1>3, <1>6, <1>9
     DEF PassStep, ScanLocal, PlanPass, DecidePass, RecordPath, Dispatch, storeVars
<1>10. CASE CallFails
  BY <1>3, <1>4, <1>10 DEF CallFails, StepInHand, OpPcs
<1>11. CASE Crash \/ Start \/ UserNext \/ UNCHANGED vars
  BY <1>3, <1>11
     DEF Crash, Start, UserNext, LocalPut, LocalWrite, LocalRemove, RemotePut, RemoteRemove, Edit,
         vars, storeVars
<1>12. CASE CliNext
  <2>1. ASSUME NEW u \in OpIds, ResolveRetry(u) \/ ResolveRestore(u)
        PROVE  SamePin(journal'[o], journal[o])
    BY <1>5, <2>1 DEF ResolveRetry, ResolveRestore, Started
  <2> QED  BY <1>3, <1>6, <1>12, <2>1
           DEF CliNext, SetEnabled, QueueResolve, CheckResolve, storeVars
<1>13. RecoveryStep \/ ExecutionStep => StepInHand \/ BeginCycle \/ RecoverBlocked
                                        \/ RecoverPlanned \/ RecoverStarted
  BY DEF RecoveryStep, StepInHand
<1> QED  BY <1>4, <1>7, <1>8, <1>9, <1>10, <1>11, <1>12, <1>13 DEF Next, DaemonNext, WorkerStep

\* Where a resolution that is about to be queued comes from.
LEMMA CliUnpinned ==
  ASSUME PinInv, [Next]_vars PROVE cli' # Absent => ~cli'.pinned
<1>1. CASE UNCHANGED cli \/ cli' = Absent
  BY <1>1 DEF PinInv
<1>2. CASE \E p \in Paths, keepLocal \in BOOLEAN : CheckResolve(p, keepLocal)
  BY <1>2 DEF CheckResolve, NewOp
<1>3. StepInHand => UNCHANGED cli
  BY StoreInHand
<1>4. BeginCycle \/ RecoverBlocked \/ RecoverPlanned \/ RecoverStarted => UNCHANGED cli
  BY DEF BeginCycle, RecoverBlocked, RecoverPlanned, RecoverStarted
<1>5. PassStep => UNCHANGED cli
  BY DEF PassStep, ScanLocal, PlanPass, DecidePass, RecordPath, Dispatch
<1>6. CallFails \/ Crash \/ Start \/ UserNext \/ UNCHANGED vars => UNCHANGED cli
  BY DEF CallFails, Crash, Start, UserNext, LocalPut, LocalWrite, LocalRemove, RemotePut,
         RemoteRemove, Edit, vars
<1>7. CliNext => \/ UNCHANGED cli \/ cli' = Absent
                 \/ \E p \in Paths, keepLocal \in BOOLEAN : CheckResolve(p, keepLocal)
  BY DEF CliNext, SetEnabled, QueueResolve, ResolveRetry, ResolveRestore
<1> QED  BY <1>1, <1>2, <1>3, <1>4, <1>5, <1>6, <1>7
         DEF Next, DaemonNext, WorkerStep, RecoveryStep, StepInHand

LEMMA PinInvStep ==
  ASSUME EffectInv, PinInv, ~InPlaceWrites, [Next]_vars PROVE PinInv'
<1>0. /\ OwnerInv /\ OrderInv /\ TypeInv /\ ObjectsInv
      /\ tick \in Nat /\ tick' \in Nat /\ tick <= tick'
      /\ local \in [Paths -> LocalFiles \union {Absent}]
      /\ journal \in [OpIds -> Operations \union {Absent}]
  BY ObjectsStep DEF EffectInv, OwnerInv, TypeInv, TypeOK, WorldTypeOK, StoreTypeOK
<1> SUFFICES ASSUME NEW o \in Live', journal'[o].pinned PROVE PinKnown(journal[o])'
  BY CliUnpinned DEF PinInv
<1>2. ASSUME o \in Live, journal[o].pinned, SamePin(journal'[o], journal[o]),
             journal'[o].expLocal = journal[o].expLocal
      PROVE  PinKnown(journal[o])'
  <2>1. PinKnown(journal[o])
    BY <1>2 DEF PinInv
  <2>2. CASE journal[o].expLocal = Absent
    BY <1>2, <2>1, <2>2 DEF PinKnown, SamePin
  <2>3. CASE journal[o].expLocal # Absent
    <3>1. /\ journal[o].pin \in 1..tick
          /\ Holds(journal[o].pin, journal[o].expLocal.ver)
      BY <2>1, <2>3 DEF PinKnown
    <3>2. PICK ino \in 1..tick, ver \in {journal[o].expLocal.ver} : ino = journal[o].pin
      BY <3>1
    <3>3. journal'[o].pin = ino /\ journal'[o].expLocal.ver = ver /\ journal'[o].expLocal # Absent
      BY <1>2, <2>3, <3>2 DEF SamePin
    <3>4. Holds(ino, ver)'
      BY <1>0, <3>1, <3>2, HoldsStays
    <3> QED  BY <1>0, <3>3, <3>4 DEF PinKnown, Holds
  <2> QED  BY <2>2, <2>3
<1>3. CASE ~Pin
  <2>1. /\ o \in Live /\ SamePin(journal'[o], journal[o])
        /\ journal'[o].expLocal = journal[o].expLocal
    BY <1>0, <1>3, PinMoves
  <2>2. journal[o].pinned
    BY <2>1 DEF SamePin
  <2> QED  BY <1>2, <2>1, <2>2
<1>4. CASE Pin
  <2>1. pc \in OpPcs /\ cur \in Live /\ OnlyCur /\ UNCHANGED worldVars
    BY <1>0, <1>4, InHand DEF StepInHand, Pin
  <2>2. CASE o # cur
    BY <1>2, <2>1, <2>2 DEF OnlyCur, Live, SamePin
  <2>3. CASE o = cur
    <3> DEFINE target == IF Op.expLocal = Absent THEN 0 ELSE local[Op.path].ino
               new == [journal[cur] EXCEPT !.pinned = TRUE, !.pin = target]
    <3>1. ~DeleteOp
      BY <1>0, <2>1, <2>3, DeleteEffect DEF Live
    <3>2. LocalAsExpected /\ journal' = [journal EXCEPT ![cur] = new]
      BY <1>4, <3>1 DEF Pin
    <3>3. /\ cur \in OpIds /\ Op \in Operations /\ Op.path \in Paths
          /\ new.pin = target /\ new.expLocal = Op.expLocal
      BY <1>0, <2>1, CurrentOp DEF Op, Operations, Live
    <3> HIDE DEF new
    <3>4. journal'[o] = new
      BY <1>0, <2>3, <3>2, <3>3
    <3>5. CASE Op.expLocal = Absent
      BY <3>3, <3>4, <3>5 DEF PinKnown
    <3>6. CASE Op.expLocal # Absent
      <4> DEFINE f == local[Op.path]
      <4>1. f \in LocalFiles /\ f # Absent /\ f.ver = Op.expLocal.ver /\ f.ino \in 1..tick
        <5>1. f \in LocalFiles \union {Absent}
          BY <1>0, <3>3
        <5>2. f # Absent /\ LocalPrint(f).ver = Op.expLocal.ver /\ LocalPrint(f).kind = "file"
          BY <3>2, <3>3, <3>6, <5>1, Prints
             DEF LocalAsExpected, LocalEquivalent, LocalPrint, LocalFiles, Operations, LocalPrints
        <5> QED  BY <1>0, <3>3, <5>1, <5>2 DEF LocalPrint, ObjectsInv, Dated
      <4>2. Holds(f.ino, Op.expLocal.ver)
        BY <1>0, <3>3, <4>1 DEF Holds, ObjectsInv, Distinct
      <4>3. /\ journal'[o].pin = f.ino /\ journal'[o].expLocal = Op.expLocal
            /\ UNCHANGED <<local, slot, temp, tick>>
        BY <2>1, <3>3, <3>4, <3>6 DEF worldVars
      <4> HIDE DEF f
      <4> QED  BY <3>6, <4>1, <4>2, <4>3 DEF PinKnown, Holds
    <3> QED  BY <3>5, <3>6
  <2> QED  BY <2>2, <2>3
<1> QED  BY <1>3, <1>4

\* When no program writes files in place the daemon never destroys an edit it
\* has not seen, neither when it executes an operation nor when it cleans up
\* after one: what it removes is the object the operation is pinned to, with
\* the bytes it had when it was pinned.
THEOREM SyncedBytesOnly == ASSUME ~InPlaceWrites PROVE Spec => OnlySyncedBytesDestroyed
<1> DEFINE Inv == PassInv /\ PinInv
           Safe == DaemonNext => DestroyedIsKnown /\ JournaledAsSynced
<1>1. Inv /\ [Next]_vars => Inv'
  BY PassInvStep, PinInvStep DEF PassInv
<1>2. ASSUME Inv PROVE Safe
  <2>1. ASSUME DaemonNext, NEW o \in OpIds, slot[o] # Absent, slot'[o] = Absent,
               local'[journal[o].path] # slot[o]
        PROVE  slot[o].ver = journal[o].expLocal.ver
    <3>1. /\ OwnerInv /\ TypeInv /\ ObjectsInv /\ StepInv
      BY <1>2 DEF PassInv, EffectInv, OwnerInv
    <3>2. o = cur /\ slot[o].ino = journal[o].pin
      BY <2>1, <3>1, SlotEmptied DEF Drop, StepInv, Op
    <3>3. o \in Live /\ journal[o].pinned
      BY <2>1, <3>1 DEF OwnerInv, PreservedHasOwner, OwnsRecoverySlot, Live
    <3>4. slot[o].ino \in 1..tick
      BY <2>1, <3>1 DEF ObjectsInv, Dated
    <3>5. PinKnown(journal[o])
      BY <1>2, <3>3 DEF PinInv
    <3>6. Holds(journal[o].pin, journal[o].expLocal.ver)
      BY <3>1, <3>2, <3>4, <3>5 DEF PinKnown, TypeInv, TypeOK, WorldTypeOK
    <3> QED  BY <2>1, <3>2, <3>6 DEF Holds
  <2> QED  BY <1>2, <2>1, JournaledInSync DEF DestroyedIsKnown
<1>3. Inv => [Safe]_vars
  BY <1>2
<1>4. Init => Inv
  BY InitPass DEF Init, PinInv, Live
<1> QED  BY <1>1, <1>3, <1>4, PTL DEF Spec, OnlySyncedBytesDestroyed, Safe

(***************************************************************************)
(* A cycle is bounded                                                      *)
(***************************************************************************)

\* The operation of a pass in hand carries out a decision of its plan.
TakenInv == pc \in OpPcs /\ pass # 0 => Op.path \in External(plan)

LEMMA TakenInvStep ==
  ASSUME OwnerInv, OrderInv, TakenInv, [Next]_vars PROVE TakenInv'
<1>0. /\ TypeInv /\ TypeInv' /\ PassPcs \intersect OpPcs = {}
      /\ {"idle", "down", "recover"} \intersect OpPcs = {}
  BY TypeInvStep DEF OwnerInv, PassPcs, OpPcs, Executing
<1>1. CASE pc' \notin OpPcs \/ pass' = 0
  BY <1>1 DEF TakenInv
<1>2. EndCycle \/ (\E n \in Nat : BeginPass(n)) => pc' \notin OpPcs
  BY <1>0 DEF EndCycle, BeginPass, PassPcs
<1>3. CASE UNCHANGED <<cur, plan, pass>> /\ (pc \in OpPcs \/ pc' = pc)
  <2> SUFFICES ASSUME pc' \in OpPcs, pass' # 0 PROVE Op'.path \in External(plan)'
    BY DEF TakenInv
  <2>1. cur \in Live /\ cur \in Live' /\ Op.path \in External(plan)
    BY <1>0, <1>3 DEF TypeInv, WorkerOK, TakenInv
  <2>2. Steady(journal'[cur], journal[cur])
    BY <2>1, JournalStep DEF Created
  <2> QED  BY <1>3, <2>1, <2>2 DEF Steady, Op, External
<1>4. CASE StepInHand
  <2>1. RecoveredOp(cur) \/ DispatchedOp(Op.path) => pc' \notin OpPcs
    BY <1>0, <1>2 DEF RecoveredOp, DispatchedOp, BeginPass, PassPcs
  <2> QED  BY <1>0, <1>1, <1>2, <1>3, <1>4, <2>1, InHand DEF GoesOnWith, Stay
<1>5. CASE BeginCycle \/ RecoverBlocked \/ CallFails \/ Crash \/ Start
  BY <1>0, <1>1, <1>2, <1>5 DEF BeginCycle, RecoverBlocked, CallFails, Crash, Start
<1>6. CASE RecoverPlanned \/ RecoverStarted
  <2>1. pass = 0 /\ pass' = pass
    BY <1>0, <1>6 DEF RecoverPlanned, RecoverStarted, TypeInv, WorkerOK
  <2> QED  BY <1>1, <2>1
<1>7. ASSUME NEW p \in Paths, Dispatch(p) PROVE TakenInv'
  <2>1. /\ p \in External(plan) /\ plan' = plan /\ cur' = nextOp /\ nextOp \in OpIds
        /\ journal' = [journal EXCEPT ![nextOp] =
                         NewOp(plan[p].kind, p, seen.local[p], seen.remote[p], FALSE)]
    BY <1>0, <1>7 DEF Dispatch, CreateOperation, OpIds, TypeInv, TypeOK, StoreTypeOK
  <2>2. Op'.path = p
    BY <1>0, <2>1 DEF Op, NewOp, TypeInv, TypeOK, StoreTypeOK
  <2> QED  BY <2>1, <2>2 DEF TakenInv, External
<1>8. CASE ScanLocal \/ PlanPass \/ DecidePass \/ \E p \in Paths : RecordPath(p)
  <2>1. pc' \notin OpPcs
    BY <1>0, <1>2, <1>8
       DEF ScanLocal, PlanPass, DecidePass, RecordPath, Goto, PassPcs
  <2> QED  BY <1>1, <2>1
<1>9. CASE CliNext \/ UserNext \/ UNCHANGED vars
  <2>1. UNCHANGED daemonVars
    BY <1>9 DEF CliNext, SetEnabled, QueueResolve, CheckResolve, ResolveRetry, ResolveRestore,
                UserNext, LocalPut, LocalWrite, LocalRemove, RemotePut, RemoteRemove, Edit, vars
  <2> QED  BY <1>3, <2>1 DEF daemonVars
<1> QED  BY <1>4, <1>5, <1>6, <1>7, <1>8, <1>9
         DEF Next, DaemonNext, WorkerStep, RecoveryStep, PassStep, StepInHand

\* As long as an operation stays in hand, each step leaves fewer.
LEMMA StepsShrink ==
  ASSUME StepInHand, pc' \in OpPcs PROVE StepsLeft' < StepsLeft
<1>1. ~EndCycle /\ \A n \in Nat : ~BeginPass(n)
  BY DEF EndCycle, BeginPass, OpPcs, Executing
<1>2. ~RecoveredOp(cur) /\ ~DispatchedOp(Op.path)
  BY DEF RecoveredOp, DispatchedOp, BeginPass, EndCycle, OpPcs, Executing
<1>3. CASE Pin \/ CheckPlanned
  BY <1>1, <1>2, <1>3 DEF Pin, CheckPlanned, Goto, StepsLeft
<1>4. CASE Prove \/ FetchPinned \/ ComparePinned \/ Cleanup \/ Commit \/ Retry
  BY <1>1, <1>2, <1>4
     DEF Prove, FetchPinned, ComparePinned, Cleanup, Commit, CommitBaseline, FinishedOp, Retry,
         Goto, StepsLeft
<1>5. CASE BeginRemote \/ Upload \/ UploadRefused \/ RemoteDelete \/ RemoteDeleteRefused
  BY <1>1, <1>5
     DEF BeginRemote, Upload, UploadRefused, RemoteDelete, RemoteDeleteRefused, GiveUp, Fail, Goto,
         StepsLeft
<1>6. CASE Download \/ BeginLocal \/ Preserve \/ Validate
  BY <1>1, <1>6 DEF Download, BeginLocal, Preserve, Validate, GiveUp, Fail, Goto, StepsLeft
<1>7. CASE Install \/ Restore \/ Drop \/ Observe
  BY <1>1, <1>7 DEF Install, Restore, Drop, Observe, GiveUp, Fail, Goto, StepsLeft
<1>8. CASE Settle \/ CallFails
  BY <1>1, <1>2, <1>8 DEF Settle, CommitBaseline, FinishedOp, CallFails
<1> QED  BY <1>3, <1>4, <1>5, <1>6, <1>7, <1>8 DEF StepInHand, ExecutionStep

\* A step of the worker in a cycle ends it or takes it forward.
LEMMA WorkerAdvances ==
  ASSUME OwnerInv, OrderInv, TakenInv, DaemonNext, pc \notin {"idle", "down"}
  PROVE  pc' \in {"idle", "down"} \/ Advances
<1>0. /\ TypeInv /\ pass \in 0..MaxCyclePasses /\ queue \subseteq OpIds /\ left \subseteq Paths
      /\ plan \in [Paths -> Decisions] /\ MaxCyclePasses \in Nat \ {0}
      /\ PassPcs \intersect OpPcs = {} /\ {"idle", "down", "recover"} \intersect OpPcs = {}
  BY SyncCycleAssumption DEF OwnerInv, TypeInv, TypeOK, DaemonTypeOK, PassPcs, OpPcs, Executing
<1>1. EndCycle => pc' \in {"idle", "down"}
  BY DEF EndCycle
<1>2. ASSUME NEW n \in Nat, BeginPass(n), pass < n, n <= MaxCyclePasses PROVE Advances
  BY <1>2 DEF BeginPass, Advances
<1>3. /\ pc \in OpPcs \union {"recover", "dispatch"} => Stage = 5
      /\ pc' \in OpPcs \union {"recover", "dispatch"} => Stage' = 5
  BY DEF Stage, OpPcs, Executing
<1>4. /\ pc # "record" => Outstanding = IF pass = 0 THEN queue ELSE External(plan)
      /\ pc' # "record" => Outstanding' = IF pass' = 0 THEN queue' ELSE External(plan)'
      /\ pc = "record" => Outstanding = left
      /\ pc' = "record" => Outstanding' = left'
  BY DEF Outstanding
<1>5. /\ pc \in {"recover", "dispatch"} => StepsLeft = 14
      /\ pc' \in {"recover", "dispatch"} => StepsLeft' = 14
      /\ pc' \in {"pin", "prove"} => StepsLeft' = 13
      /\ pc' = "check" => StepsLeft' = 11
      /\ pc' = "exec" => StepsLeft' = 10
  BY DEF StepsLeft
<1>6. CASE StepInHand
  <2>1. CASE GoesOnWith
    <3>1. /\ pc \in OpPcs /\ pc' \in OpPcs /\ UNCHANGED <<queue, pass, plan, left>>
      BY <1>0, <1>6, <2>1, InHand DEF GoesOnWith, Stay
    <3>2. Stage' = Stage /\ Outstanding' = Outstanding
      BY <1>3, <1>4, <3>1 DEF External, OpPcs, Executing
    <3> QED  BY <1>6, <3>1, <3>2, StepsShrink DEF Advances
  <2>2. CASE pass = 0 /\ RecoveredOp(cur)
    <3>1. pc \in OpPcs /\ cur \in queue
      BY <1>0, <1>6, <2>2, InHand DEF OrderInv
    <3>2. CASE queue \ {cur} = {}
      BY <1>0, <1>2, <2>2, <3>2 DEF RecoveredOp
    <3>3. CASE queue \ {cur} # {}
      <4>1. pc' = "recover" /\ queue' = queue \ {cur} /\ pass' = pass
        BY <2>2, <3>3 DEF RecoveredOp
      <4>2. Outstanding = queue /\ Outstanding' = queue \ {cur} /\ Stage' = Stage
        BY <1>3, <1>4, <2>2, <3>1, <4>1 DEF OpPcs, Executing
      <4> QED  BY <3>1, <4>1, <4>2 DEF Advances
    <3> QED  BY <3>2, <3>3
  <2>3. CASE pass # 0 /\ DispatchedOp(Op.path)
    <3> DEFINE rest == [plan EXCEPT ![Op.path] = Decide("noop")]
    <3>1. pc \in OpPcs /\ Op.path \in External(plan)
      BY <1>0, <1>6, <2>3, InHand DEF TakenInv
    <3>2. CASE External(rest) = {}
      <4>1. IF pass < MaxCyclePasses THEN BeginPass(pass + 1) ELSE EndCycle
        BY <2>3, <3>2 DEF DispatchedOp
      <4>2. pass + 1 \in Nat /\ pass < pass + 1 /\ (pass < MaxCyclePasses => pass + 1 <= MaxCyclePasses)
        BY <1>0
      <4> QED  BY <1>1, <1>2, <4>1, <4>2
    <3>3. CASE External(rest) # {}
      <4>1. pc' = "dispatch" /\ plan' = rest /\ pass' = pass
        BY <2>3, <3>3 DEF DispatchedOp
      <4>2. External(rest) = External(plan) \ {Op.path}
        BY <1>0, ConstantTypes DEF External, Decide, ExternalKinds
      <4>3. External(plan)' = External(rest)
        BY <4>1 DEF External
      <4> HIDE DEF rest
      <4>4. Outstanding = External(plan) /\ Outstanding' = External(plan) \ {Op.path}
        BY <1>4, <2>3, <3>1, <4>1, <4>2, <4>3 DEF OpPcs, Executing
      <4> QED  BY <1>3, <3>1, <4>1, <4>4 DEF Advances
    <3> QED  BY <3>2, <3>3
  <2> QED  BY <1>0, <1>1, <1>6, <2>1, <2>2, <2>3, InHand
<1>7. CASE BeginCycle \/ RecoverBlocked \/ CallFails
  BY <1>1, <1>7 DEF BeginCycle, RecoverBlocked, CallFails
<1>8. CASE RecoverPlanned \/ RecoverStarted \/ \E p \in Paths : Dispatch(p)
  <2>1. /\ pc \in {"recover", "dispatch"} /\ pc' \in {"pin", "check", "prove", "exec"}
        /\ UNCHANGED <<queue, pass, plan>>
    BY <1>8 DEF RecoverPlanned, RecoverStarted, Dispatch
  <2>2. Stage' = Stage /\ Outstanding' = Outstanding
    BY <1>3, <1>4, <2>1 DEF External, OpPcs, Executing
  <2> QED  BY <1>5, <2>1, <2>2 DEF Advances
<1>9. CASE ScanLocal \/ PlanPass \/ DecidePass
  BY <1>1, <1>9 DEF ScanLocal, PlanPass, DecidePass, Goto, Stay, Stage, Advances
<1>10. ASSUME NEW p \in Paths, RecordPath(p) PROVE Advances
  <2>1. /\ pc = "record" /\ p \in left /\ left' = left \ {p} /\ UNCHANGED pass
        /\ pc' = IF left' = {} THEN "decide" ELSE "record"
    BY <1>10 DEF RecordPath
  <2>2. CASE pc' = "decide"
    BY <2>1, <2>2 DEF Stage, Advances
  <2>3. CASE pc' = "record"
    <3>1. Stage' = Stage /\ Outstanding = left /\ Outstanding' = left \ {p}
      BY <1>4, <2>1, <2>3 DEF Stage
    <3> QED  BY <2>1, <3>1 DEF Advances
  <2> QED  BY <2>1, <2>2, <2>3
<1> QED  BY <1>6, <1>7, <1>8, <1>9, <1>10
         DEF DaemonNext, WorkerStep, RecoveryStep, PassStep, StepInHand

\* A cycle is a bounded number of steps of its own.  Nobody else moves the
\* worker but to end its cycle, and none of its own steps goes back.
THEOREM CyclesAdvance == Spec => CycleAdvances
<1> DEFINE Inv == EffectInv /\ TakenInv
           Bounded == pc \notin {"idle", "down"} =>
                        \/ pc' \in {"idle", "down"}
                        \/ Advances
                        \/ ~DaemonNext /\ UNCHANGED daemonVars
<1>1. Init => Inv
  BY InitEffect DEF Init, TakenInv
<1>2. Inv /\ [Next]_vars => Inv'
  BY EffectStep, TakenInvStep DEF EffectInv
<1>3. ASSUME Inv, [Next]_vars PROVE [Bounded]_vars
  <2> SUFFICES ASSUME Next, pc \notin {"idle", "down"}
               PROVE  \/ pc' \in {"idle", "down"}
                      \/ Advances
                      \/ ~DaemonNext /\ UNCHANGED daemonVars
    BY <1>3
  <2>1. OwnerInv /\ OrderInv /\ TakenInv
    BY <1>3 DEF EffectInv
  <2>2. CASE DaemonNext
    BY <2>1, <2>2, WorkerAdvances
  <2>3. CASE Crash \/ Start
    BY <2>3 DEF Crash, Start
  <2>4. CASE CliNext \/ UserNext
    <3>1. UNCHANGED daemonVars
      BY <2>4 DEF CliNext, SetEnabled, QueueResolve, CheckResolve, ResolveRetry, ResolveRestore,
                  UserNext, LocalPut, LocalWrite, LocalRemove, RemotePut, RemoteRemove, Edit
    <3> QED  BY <2>2, <3>1
  <2> QED  BY <2>2, <2>3, <2>4 DEF Next
<1>4. Inv /\ [Next]_vars => [Bounded]_vars
  BY <1>3
<1> QED  BY <1>1, <1>2, <1>4, PTL DEF Spec, CycleAdvances, Bounded

(***************************************************************************)
(* A pass without work has found everything settled                        *)
(***************************************************************************)

\* One revision has one content.
OneContent(a, b) == a # Absent /\ b # Absent /\ a.rev = b.rev => a.ver = b.ver

\* As long as path p is in the revision of the recorded file e, it has its bytes.
Genuine(p, e) == e # Absent => e.rev <= tick /\ OneContent(remote[p], e)

GenuineInv ==
  /\ \A p \in Paths : Genuine(p, baseline[p].remote)
  /\ pc \in ProvenPcs => Genuine(Op.path, obs.remote)
  /\ pc \in {"record", "decide"} => \A p \in Paths :
       Genuine(p, seen.remote[p]) /\ OneContent(baseline[p].remote, seen.remote[p])

\* A revision never comes back with other bytes.
LEMMA GenuineStays ==
  ASSUME TypeInv, TypeInv', tick <= tick', RemoteMoves,
         NEW p \in Paths, NEW e \in RemoteFiles \union {Absent}, Genuine(p, e)
  PROVE  Genuine(p, e)'
<1>1. /\ tick \in Nat /\ tick' \in Nat
      /\ \/ remote'[p] = remote[p]
         \/ remote'[p] = Absent
         \/ remote'[p] # Absent /\ remote'[p].rev = tick + 1
  BY DEF RemoteMoves, TypeInv, TypeOK, WorldTypeOK
<1>2. CASE e = Absent
  BY <1>2 DEF Genuine
<1>3. CASE e # Absent
  <2>1. e.rev \in Nat /\ e.rev <= tick /\ OneContent(remote[p], e)
    BY <1>3 DEF Genuine, RemoteFiles
  <2>2. OneContent(remote'[p], e)
    BY <1>1, <2>1 DEF OneContent
  <2> QED  BY <1>1, <2>1, <2>2 DEF Genuine, OneContent
<1> QED  BY <1>2, <1>3

\* What is there now is genuine.
LEMMA NowGenuine ==
  ASSUME TypeInv, RevisionsInv, NEW p \in Paths PROVE Genuine(p, remote[p])
BY DEF RevisionsInv, KnownRemote, Genuine, OneContent

LEMMA GenuineInvStep ==
  ASSUME PassInv, GenuineInv, [Next]_vars PROVE GenuineInv'
<1>0. /\ EffectInv /\ OwnerInv /\ OrderInv /\ RevisionsInv /\ TypeInv /\ TypeInv'
      /\ RemoteMoves /\ tick <= tick'
  BY TypeInvStep, RemoteStep, ObjectsStep DEF PassInv, EffectInv, OwnerInv
<1>1. /\ baseline \in [Paths -> [local : LocalPrints \union {Absent},
                                remote : RemoteFiles \union {Absent}]]
      /\ baseline' \in [Paths -> [local : LocalPrints \union {Absent},
                                 remote : RemoteFiles \union {Absent}]]
      /\ remote \in [Paths -> RemoteFiles \union {Absent}]
      /\ seen.remote \in [Paths -> RemoteFiles \union {Absent}]
      /\ seen'.remote \in [Paths -> RemoteFiles \union {Absent}]
      /\ obs.remote \in RemoteFiles \union {Absent}
      /\ obs'.remote \in RemoteFiles \union {Absent}
  BY <1>0 DEF TypeInv, TypeOK, StoreTypeOK, WorldTypeOK, DaemonTypeOK
<1>2. ASSUME NEW p \in Paths PROVE Genuine(p, baseline'[p].remote)
  <2>1. CASE UNCHANGED baseline
    BY <2>1 DEF GenuineInv
  <2>2. ASSUME NEW q \in Paths, RecordPath(q) PROVE Genuine(p, baseline'[p].remote)
    <3>1. \/ baseline'[p] = baseline[p]
          \/ baseline'[p] = EmptyBaseline
          \/ baseline'[p] = [local |-> seen.local[p], remote |-> seen.remote[p]]
      BY <1>1, <2>2 DEF RecordPath
    <3>2. pc = "record"
      BY <2>2 DEF RecordPath
    <3> QED  BY <3>1, <3>2 DEF GenuineInv, EmptyBaseline, Genuine
  <2>3. ASSUME NEW l, NEW r, RecordsPair(l, r) PROVE Genuine(p, baseline'[p].remote)
    <3>1. Op.path \in Paths /\ Genuine(Op.path, r)
      BY <1>0, <2>3, CurrentOp, NowGenuine DEF RecordsPair, Commit, GenuineInv, ProvenPcs
    <3>2. \/ p # Op.path /\ baseline'[p] = baseline[p]
          \/ p = Op.path /\ baseline'[p] = EmptyBaseline
          \/ p = Op.path /\ baseline'[p] = [local |-> l, remote |-> r]
      BY <1>1, <2>3 DEF RecordsPair, CommitBaseline
    <3> QED  BY <3>1, <3>2 DEF GenuineInv, EmptyBaseline, Genuine
  <2> QED  BY <2>1, <2>2, <2>3, BaselineMoves
<1>3. ASSUME pc' \in ProvenPcs PROVE Genuine(Op.path, obs.remote)'
  <2>1. /\ cur' = cur /\ pc \in OpPcs /\ cur \in Live /\ Op.path \in Paths
        /\ Genuine(Op.path, obs'.remote)
    <3>1. CASE Prove \/ FetchPinned
      <4>1. cur' = cur /\ obs'.remote = remote[Op.path] /\ pc \in OpPcs
        <5>1. obs \in [local : LocalPrints \union {Absent}, remote : RemoteFiles \union {Absent},
                       result : LocalPrints \union RemoteFiles \union {Absent}]
          BY <1>0 DEF TypeInv, TypeOK, DaemonTypeOK
        <5> QED  BY <1>3, <3>1, <5>1
                 DEF Prove, FetchPinned, Goto, Stay, EndCycle, OpPcs, ProvenPcs
      <4>2. cur \in Live /\ Op.path \in Paths
        BY <1>0, <4>1, CurrentOp
      <4> QED  BY <1>0, <4>1, <4>2, NowGenuine
    <3>2. CASE ComparePinned \/ Cleanup \/ UNCHANGED <<daemonVars, temp>>
      <4>1. pc \in ProvenPcs /\ UNCHANGED <<cur, obs>>
        BY <1>3, <3>2 DEF ComparePinned, Cleanup, Goto, Stay, EndCycle, daemonVars, ProvenPcs
      <4> QED  BY <1>0, <4>1, CurrentOp DEF GenuineInv, OpPcs, ProvenPcs
    <3> QED  BY <1>0, <1>3, <3>1, <3>2, CommitMoves
  <2>2. journal'[cur].path = Op.path
    <3>1. cur \in Live'
      BY <1>0, <1>3, <2>1, CurrentOp DEF TypeInv, WorkerOK, OpPcs, ProvenPcs
    <3> QED  BY <1>0, <2>1, <3>1, JournalStep DEF Created, Steady, Op
  <2>3. Genuine(Op.path, obs.remote)'
    <3>1. PICK p \in Paths, e \in RemoteFiles \union {Absent} : p = Op.path /\ e = obs'.remote
      BY <1>1, <2>1
    <3>2. Genuine(p, e)'
      BY <1>0, <2>1, <3>1, GenuineStays
    <3> QED  BY <2>1, <2>2, <3>1, <3>2 DEF Genuine, OneContent, Op
  <2> QED  BY <2>3
<1>4. ASSUME NEW p \in Paths, pc' \in {"record", "decide"}
      PROVE  Genuine(p, seen'.remote[p]) /\ OneContent(baseline'[p].remote, seen'.remote[p])
  <2>1. CASE PlanPass /\ ~EndCycle
    <3>1. UNCHANGED baseline /\ seen'.remote = remote
      BY <1>0, <2>1, PlannedPass DEF storeVars
    <3>2. Genuine(p, remote[p]) /\ Genuine(p, baseline[p].remote)
      BY <1>0, NowGenuine DEF GenuineInv
    <3> QED  BY <3>1, <3>2 DEF Genuine, OneContent
  <2>2. ASSUME NEW q \in Paths, RecordPath(q)
        PROVE  Genuine(p, seen'.remote[p]) /\ OneContent(baseline'[p].remote, seen'.remote[p])
    <3>1. /\ pc = "record" /\ UNCHANGED seen
          /\ \/ baseline'[p] = baseline[p]
             \/ baseline'[p] = EmptyBaseline
             \/ baseline'[p] = [local |-> seen.local[p], remote |-> seen.remote[p]]
      BY <1>1, <2>2 DEF RecordPath
    <3> QED  BY <3>1 DEF GenuineInv, EmptyBaseline, OneContent
  <2>3. CASE UNCHANGED <<daemonVars, baseline>>
    BY <1>4, <2>3 DEF GenuineInv, daemonVars
  <2> QED  BY <1>0, <1>4, <2>1, <2>2, <2>3, RecordMoves
<1>5. ASSUME NEW p \in Paths PROVE Genuine(p, baseline[p].remote)'
  <2>1. PICK e \in RemoteFiles \union {Absent} : e = baseline'[p].remote
    BY <1>1
  <2>2. Genuine(p, e)'
    BY <1>0, <1>2, <2>1, GenuineStays
  <2> QED  BY <2>1, <2>2 DEF Genuine, OneContent
<1>6. ASSUME NEW p \in Paths, pc' \in {"record", "decide"}
      PROVE  (Genuine(p, seen.remote[p]) /\ OneContent(baseline[p].remote, seen.remote[p]))'
  <2>1. PICK e \in RemoteFiles \union {Absent} : e = seen'.remote[p]
    BY <1>1
  <2>2. Genuine(p, e)'
    BY <1>0, <1>4, <1>6, <2>1, GenuineStays
  <2> QED  BY <1>4, <1>6, <2>1, <2>2 DEF Genuine, OneContent
<1> QED  BY <1>3, <1>5, <1>6 DEF GenuineInv

\* The last pass of a cycle that succeeds has found every path in sync, by its
\* bytes, or has recorded the conflict it saw.
THEOREM QuietCyclesSettle == Spec => QuietCycleSettles
<1> DEFINE Inv == PassInv /\ GenuineInv
           Quiescent == DecidePass /\ External(plan) = {} =>
             \A p \in Paths :
               LET l == seen.local[p]
                   r == seen.remote[p]
                   c == conflicts[p]
               IN IF c.kind = "none" THEN InSync(l, r) /\ Unchanged(baseline[p], l, r)
                                     ELSE c.local = l /\ c.remote = r
<1>1. Init => Inv
  BY InitPass DEF Init, GenuineInv, Genuine, EmptyBaseline, ProvenPcs
<1>2. Inv /\ [Next]_vars => Inv'
  BY PassInvStep, GenuineInvStep
<1>3. ASSUME Inv, DecidePass, External(plan) = {}, NEW p \in Paths
      PROVE  IF conflicts[p].kind = "none"
               THEN /\ InSync(seen.local[p], seen.remote[p])
                    /\ Unchanged(baseline[p], seen.local[p], seen.remote[p])
               ELSE conflicts[p].local = seen.local[p] /\ conflicts[p].remote = seen.remote[p]
  <2>1. /\ TypeInv /\ RecordInv /\ BaselineAgrees /\ pc = "decide" /\ left = {}
        /\ plan[p] \in Decisions /\ plan[p].kind \notin ExternalKinds
        /\ seen.local[p] \in LocalPrints \union {Absent}
        /\ seen.remote[p] \in RemoteFiles \union {Absent}
        /\ baseline[p] \in [local : LocalPrints \union {Absent}, remote : RemoteFiles \union {Absent}]
        /\ OneContent(baseline[p].remote, seen.remote[p])
    BY <1>3 DEF PassInv, EffectInv, OwnerInv, TypeInv, TypeOK, StoreTypeOK, DaemonTypeOK,
                DecidePass, RecordInv, BytesInv, External, GenuineInv
  <2>2. Recorded(p)
    BY <2>1 DEF RecordInv
  <2>3. CASE plan[p].kind = "conflict"
    BY <2>1, <2>2, <2>3 DEF Recorded, RecordInv, ConflictKinds
  <2>4. CASE plan[p].kind # "conflict"
    <3>1. conflicts[p].kind = "none"
      BY <2>2, <2>4 DEF Recorded, NoConflict
    <3>2. plan[p].kind \in {"noop", "commit-baseline", "drop-baseline"}
      BY <2>1, <2>4 DEF RecordInv, Decisions, DecisionKinds, ExternalKinds
    <3>3. Unchanged(baseline[p], seen.local[p], seen.remote[p])
      BY <2>1, <2>2, <3>2 DEF RecordInv, Recorded
    <3>4. \/ seen.local[p] = Absent /\ seen.remote[p] = Absent
          \/ /\ seen.local[p] \in LocalPrints /\ seen.remote[p] \in RemoteFiles
             /\ seen.local[p].ver = seen.remote[p].ver
      <4>1. CASE baseline[p] = EmptyBaseline
        BY <3>3, <4>1 DEF Unchanged, LocalEquivalent, RemoteEquivalent, EmptyBaseline
      <4>2. CASE baseline[p] # EmptyBaseline
        <5>1. /\ baseline[p].local # Absent /\ baseline[p].remote # Absent
              /\ baseline[p].local.ver = baseline[p].remote.ver
          BY <2>1, <4>2 DEF BaselineAgrees
        <5>2. /\ seen.local[p] # Absent /\ seen.local[p].ver = baseline[p].local.ver
              /\ seen.remote[p] # Absent /\ seen.remote[p].rev = baseline[p].remote.rev
          BY <2>1, <3>3, <5>1
             DEF Unchanged, LocalEquivalent, RemoteEquivalent, LocalPrints, RemoteFiles
        <5> QED  BY <2>1, <5>1, <5>2 DEF OneContent
      <4> QED  BY <4>1, <4>2
    <3>5. InSync(seen.local[p], seen.remote[p])
      BY <2>1, <3>4, AbsentAssumption DEF InSync, LocalPrint, LocalPrints, RemoteFiles
    <3> QED  BY <3>1, <3>3, <3>5
  <2> QED  BY <2>3, <2>4
<1>4. ASSUME Inv, [Next]_vars PROVE [Quiescent]_vars
  BY <1>3, <1>4
<1>5. Inv /\ [Next]_vars => [Quiescent]_vars
  BY <1>4
<1> QED  BY <1>1, <1>2, <1>5, PTL DEF Spec, QuietCycleSettles, Quiescent

(***************************************************************************)
(* Nothing is left behind                                                  *)
(***************************************************************************)

\* A download is out of its slot before its operation can leave the journal by
\* one of these, which do not look at the slot.
ClearedPcs == {"pin", "drop", "observe", "settle", "cleanup", "commit"}

\* A staged download belongs to a pinned operation in the journal, and is gone
\* before that operation is settled, committed or discarded.
StagingInv ==
  /\ DownloadHasOwner
  /\ pc \in ClearedPcs => temp[cur] = Absent
  /\ pc = "exec" /\ Op.phase = "planned" => temp[cur] = Absent

\* Only a step with an operation in hand takes one out of the journal.
LEMMA InHandForgets ==
  ASSUME TypeInv, OrderInv, [Next]_vars, NEW o \in Live, o \notin Live'
  PROVE  StepInHand /\ o = cur
<1>0. /\ o \in OpIds /\ journal[o] \in Operations /\ journal[o] # Absent /\ journal'[o] = Absent
      /\ journal \in [OpIds -> Operations \union {Absent}]
  BY DEF Live, TypeInv, TypeOK, StoreTypeOK
<1>1. journal' # journal
  BY <1>0
<1>2. ASSUME NEW u \in OpIds, u \in Live, journal' = [journal EXCEPT ![u].phase = "recovering"]
      PROVE  FALSE
  <2>1. journal[u] \in Operations
    BY <1>0, <1>2 DEF Live
  <2> DEFINE new == [journal[u] EXCEPT !.phase = "recovering"]
  <2>2. new \in Operations
    BY <2>1 DEF Operations, Phases
  <2>3. journal' = [journal EXCEPT ![u] = new]
    BY <1>2
  <2> HIDE DEF new
  <2> QED  BY <1>0, <2>2, <2>3, AbsentAssumption
<1>3. ASSUME NEW op, CreateOperation(op) PROVE FALSE
  <2>1. o # nextOp /\ nextOp \in Nat
    BY <1>0 DEF TypeInv, OpsShape, TypeOK, StoreTypeOK
  <2> QED  BY <1>0, <1>3, <2>1 DEF CreateOperation
<1>4. CASE RecoverStarted
  <2>1. PICK u \in queue : journal' = [journal EXCEPT ![u].phase = "recovering"]
    BY <1>4 DEF RecoverStarted
  <2> QED  BY <1>2, <2>1 DEF TypeInv, WorkerOK, Live
<1>5. CASE BeginCycle \/ RecoverBlocked \/ RecoverPlanned \/ ScanLocal \/ PlanPass \/ DecidePass
           \/ \E p \in Paths : RecordPath(p)
  BY <1>1, <1>5 DEF BeginCycle, RecoverBlocked, RecoverPlanned, ScanLocal, PlanPass, DecidePass,
                    RecordPath, storeVars
<1>6. CASE \E p \in Paths : Dispatch(p)
  BY <1>3, <1>6 DEF Dispatch
<1>7. CASE CallFails /\ pc \notin OpPcs
  BY <1>1, <1>7 DEF CallFails, OpPcs
<1>8. CASE Crash \/ Start \/ UserNext \/ UNCHANGED vars
  BY <1>1, <1>8
     DEF Crash, Start, UserNext, LocalPut, LocalWrite, LocalRemove, RemotePut, RemoteRemove, Edit,
         vars, storeVars
<1>9. CASE CliNext
  BY <1>1, <1>2, <1>3, <1>9
     DEF CliNext, SetEnabled, CheckResolve, QueueResolve, ResolveRetry, ResolveRestore, storeVars
<1>10. StepInHand
  BY <1>4, <1>5, <1>6, <1>7, <1>8, <1>9
     DEF Next, DaemonNext, WorkerStep, RecoveryStep, PassStep, StepInHand
<1>11. OnlyCur
  BY <1>10, InHand
<1> QED  BY <1>0, <1>1, <1>10, <1>11 DEF OnlyCur

\* What a step does with the download slots.
Stages == pc' \in {"begin", "compare"} /\ cur' = cur /\ UNCHANGED journal /\ temp' = Staged

LEMMA TempMoves ==
  ASSUME TypeInv, StageOK, [Next]_vars
  PROVE  \/ UNCHANGED temp
         \/ cur \in Live /\ temp' = [temp EXCEPT ![cur] = Absent]
         \/ Stages /\ OwnsDownloadSlot(cur)
<1>0. pc \in OpPcs => cur \in Live
  BY DEF TypeInv, WorkerOK
<1>1. CASE Fail /\ pc \in OpPcs
  BY <1>0, <1>1 DEF Fail
<1>2. CASE BeginCycle \/ RecoverBlocked \/ RecoverPlanned \/ RecoverStarted \/ Pin \/ CheckPlanned
             \/ Prove \/ ComparePinned \/ Cleanup \/ Commit \/ Retry
  BY <1>0, <1>2
     DEF BeginCycle, RecoverBlocked, RecoverPlanned, RecoverStarted, Pin, CheckPlanned, Prove,
         ComparePinned, Cleanup, Commit, Retry, worldVars, OpPcs
<1>3. CASE FetchPinned
  <2>1. pc \in OpPcs \ {"pin"} /\ Op.kind = "ensure-local"
    BY <1>3 DEF FetchPinned, OpPcs
  <2>2. OwnsDownloadSlot(cur)
    BY <1>0, <2>1 DEF StageOK, LocalMutation, OwnsDownloadSlot, Live, Op
  <2> QED  BY <1>3, <2>2 DEF FetchPinned, Stages, Goto, Stay, storeVars
<1>4. CASE Download
  <2>1. pc \in OpPcs \ {"pin"} /\ Op.kind = "ensure-local"
    BY <1>4 DEF Download, OpPcs, Executing
  <2>2. OwnsDownloadSlot(cur)
    BY <1>0, <2>1 DEF StageOK, LocalMutation, OwnsDownloadSlot, Live, Op
  <2> QED  BY <1>1, <1>4, <2>1, <2>2 DEF Download, Stages, Goto, Stay
<1>5. CASE BeginRemote \/ Upload \/ UploadRefused \/ RemoteDelete \/ RemoteDeleteRefused
             \/ BeginLocal \/ Preserve \/ Validate \/ Restore \/ Drop
  BY <1>1, <1>5
     DEF BeginRemote, Upload, UploadRefused, RemoteDelete, RemoteDeleteRefused, BeginLocal,
         Preserve, Validate, Restore, Drop, storeVars, worldVars, OpPcs, Executing
<1>6. CASE Install
  BY <1>0, <1>1, <1>6 DEF Install, OpPcs, Executing
<1>7. CASE Observe \/ Settle \/ PassStep
  BY <1>7 DEF Observe, Settle, PassStep, ScanLocal, PlanPass, DecidePass, RecordPath, Dispatch,
              worldVars
<1>8. CASE CallFails
  BY <1>0, <1>8 DEF CallFails, OpPcs
<1>9. CASE Crash \/ Start \/ UserNext \/ UNCHANGED vars
  BY <1>9
     DEF Crash, Start, UserNext, LocalPut, LocalWrite, LocalRemove, RemotePut, RemoteRemove, Edit,
         vars, worldVars
<1>10. CASE CliNext
  BY <1>10
     DEF CliNext, SetEnabled, CheckResolve, QueueResolve, ResolveRetry, ResolveRestore, worldVars
<1> QED  BY <1>2, <1>3, <1>4, <1>5, <1>6, <1>7, <1>8, <1>9, <1>10
         DEF Next, DaemonNext, WorkerStep, RecoveryStep, ExecutionStep

\* From where an operation comes to the points at which its download is out of
\* the slot.
LEMMA PcMoves ==
  ASSUME TypeInv, [Next]_vars, pc' \in ClearedPcs \union {"exec"}
  PROVE  \/ UNCHANGED <<pc, cur>>
         \/ RecoverPlanned \/ \E p \in Paths : Dispatch(p)
         \/ Pin \/ CheckPlanned \/ Prove \/ ComparePinned \/ Cleanup \/ Retry
         \/ Validate \/ Upload \/ RemoteDelete \/ Install \/ Drop \/ Observe
<1>0. pc' \notin {"idle", "down", "scan", "recover", "dispatch"}
  BY DEF ClearedPcs
<1>1. ~EndCycle /\ ~GiveUp /\ ~Fail /\ \A n : ~BeginPass(n)
  BY <1>0 DEF EndCycle, GiveUp, Fail, BeginPass
<1>2. /\ \A o : ~RecoveredOp(o)
      /\ \A p : ~DispatchedOp(p)
  BY <1>0, <1>1 DEF RecoveredOp, DispatchedOp
<1>3. ~FinishedOp
  BY <1>2 DEF FinishedOp
<1>4. ~(BeginCycle \/ RecoverBlocked \/ RecoverStarted \/ FetchPinned \/ Commit)
  BY <1>0, <1>1, <1>3
     DEF BeginCycle, RecoverBlocked, RecoverStarted, FetchPinned, Commit, CommitBaseline, Goto,
         ClearedPcs
<1>5. ~(BeginRemote \/ UploadRefused \/ RemoteDeleteRefused \/ Download \/ BeginLocal
          \/ Preserve \/ Restore \/ Settle)
  BY <1>1, <1>3
     DEF BeginRemote, UploadRefused, RemoteDeleteRefused, Download, BeginLocal, Preserve,
         Restore, Settle, CommitBaseline, Goto, ClearedPcs
<1>6. ~(ScanLocal \/ PlanPass \/ DecidePass \/ \E p \in Paths : RecordPath(p))
  BY <1>1 DEF ScanLocal, PlanPass, DecidePass, RecordPath, Goto, ClearedPcs
<1>7. ~(CallFails \/ Crash \/ Start)
  BY <1>0, <1>1 DEF CallFails, Crash, Start
<1>8. CliNext \/ UserNext \/ UNCHANGED vars => UNCHANGED <<pc, cur>>
  BY DEF CliNext, SetEnabled, CheckResolve, QueueResolve, ResolveRetry, ResolveRestore, UserNext,
         LocalPut, LocalWrite, LocalRemove, RemotePut, RemoteRemove, Edit, vars, daemonVars
<1> QED  BY <1>4, <1>5, <1>6, <1>7, <1>8
         DEF Next, DaemonNext, WorkerStep, RecoveryStep, ExecutionStep, PassStep

\* An operation is taken out of the journal with its download, or where there
\* is none.
LEMMA InHandCleans ==
  ASSUME TypeInv, OrderInv, StepInHand, journal'[cur] = Absent
  PROVE  \/ temp' = [temp EXCEPT ![cur] = Absent]
         \/ pc \in {"pin", "settle", "commit"}
         \/ pc = "exec" /\ Op.phase = "planned"
<1>0. /\ cur \in Live /\ journal[cur] # Absent
      /\ {"running", "recovering", "blocked"} \subseteq Phases
  BY InHand DEF Live, Phases
<1>1. journal' # journal
  BY <1>0
<1>2. ASSUME NEW phase \in Phases, SetPhase(phase) PROVE FALSE
  BY <1>0, <1>2, PhaseEffect
<1>3. Fail => temp' = [temp EXCEPT ![cur] = Absent]
  BY DEF Fail
<1>4. CASE Pin \/ CheckPlanned \/ Prove \/ FetchPinned \/ ComparePinned \/ Cleanup \/ Commit
             \/ Retry
  BY <1>0, <1>1, <1>2, <1>4
     DEF Pin, CheckPlanned, Prove, FetchPinned, ComparePinned, Cleanup, Commit, Retry, storeVars
<1>5. CASE BeginRemote \/ Upload \/ UploadRefused \/ RemoteDelete \/ RemoteDeleteRefused
  BY <1>0, <1>1, <1>2, <1>3, <1>5
     DEF BeginRemote, Upload, UploadRefused, RemoteDelete, RemoteDeleteRefused, storeVars
<1>6. CASE Download
  <2>1. Op.phase # "planned" => ~GiveUp
    BY <1>0, <1>2 DEF GiveUp
  <2> QED  BY <1>1, <1>3, <1>6, <2>1 DEF Download
<1>7. CASE BeginLocal \/ Preserve \/ Validate \/ Install \/ Restore \/ Drop
  BY <1>0, <1>1, <1>2, <1>3, <1>7
     DEF BeginLocal, Preserve, Validate, Install, Restore, Drop, storeVars
<1>8. CASE Observe \/ Settle
  BY <1>1, <1>8 DEF Observe, Settle, storeVars
<1>9. CASE CallFails
  BY <1>0, <1>1, <1>2, <1>9 DEF CallFails
<1> QED  BY <1>4, <1>5, <1>6, <1>7, <1>8, <1>9 DEF StepInHand, ExecutionStep

\* Every download keeps its owner.
LEMMA DownloadStaysOwned ==
  ASSUME EffectInv, StagingInv, [Next]_vars PROVE DownloadHasOwner'
<1>0. /\ TypeInv /\ OwnerInv /\ OrderInv /\ StageOK
      /\ temp \in [OpIds -> LocalPrints \union {Absent}]
  BY DEF EffectInv, OwnerInv, TypeInv, TypeOK, WorldTypeOK
<1> SUFFICES ASSUME NEW o \in OpIds, temp'[o] # Absent PROVE OwnsDownloadSlot(o)'
  BY DEF DownloadHasOwner
<1>1. CASE Stages /\ OwnsDownloadSlot(cur) /\ o = cur
  BY <1>1 DEF Stages, OwnsDownloadSlot
<1>2. CASE temp[o] # Absent
  <2>1. o \in Live /\ OwnsDownloadSlot(o)
    BY <1>2 DEF StagingInv, DownloadHasOwner, OwnsDownloadSlot, Live
  <2>2. CASE o \in Live'
    <3>1. Steady(journal'[o], journal[o])
      BY <1>0, <2>1, <2>2, JournalStep DEF Created
    <3> QED  BY <2>1, <2>2, <3>1 DEF OwnsDownloadSlot, Steady, Live
  <2>3. CASE o \notin Live'
    <3>1. StepInHand /\ o = cur /\ journal'[cur] = Absent
      BY <1>0, <2>1, <2>3, InHandForgets DEF Live
    <3>2. temp' = [temp EXCEPT ![cur] = Absent] \/ temp[cur] = Absent
      BY <1>0, <3>1, InHandCleans DEF StagingInv, ClearedPcs
    <3> QED  BY <1>0, <1>2, <3>1, <3>2
  <2> QED  BY <2>2, <2>3
<1> QED  BY <1>0, <1>1, <1>2, TempMoves DEF Stages, Staged

LEMMA StagingInvStep ==
  ASSUME EffectInv, StagingInv, [Next]_vars PROVE StagingInv'
<1>0. /\ TypeInv /\ OwnerInv /\ OrderInv /\ StageOK /\ TypeInv'
      /\ journal \in [OpIds -> Operations \union {Absent}]
      /\ temp \in [OpIds -> LocalPrints \union {Absent}]
  BY TypeInvStep DEF EffectInv, OwnerInv, TypeInv, TypeOK, StoreTypeOK, WorldTypeOK
<1> DEFINE Cleared == temp'[cur'] = Absent
<1>1. ASSUME NEW o \in OpIds, temp[o] = Absent, ~Stages PROVE temp'[o] = Absent
  BY <1>0, <1>1, TempMoves
<1>2. \A o \in OpIds : temp[o] # Absent => OwnsDownloadSlot(o)
  BY DEF StagingInv, DownloadHasOwner
<1>3. ASSUME pc' \in ClearedPcs \union {"exec"}, pc' = "exec" => Op'.phase = "planned"
      PROVE  Cleared
  <2>0. ~Stages
    BY <1>3 DEF Stages, ClearedPcs
  <2>1. CASE UNCHANGED <<pc, cur>>
    <3>1. cur \in OpIds /\ cur \in Live /\ cur \in Live'
      BY <1>0, <1>3, <2>1, CurrentOp DEF ClearedPcs, OpPcs, Executing, Live, TypeInv, WorkerOK
    <3>2. Steady(journal'[cur], journal[cur])
      BY <1>0, <3>1, JournalStep DEF Created
    <3>3. pc = "exec" => Op.phase = "planned"
      BY <1>3, <2>1, <3>1, <3>2 DEF Steady, Started, Op
    <3> QED  BY <1>1, <1>3, <2>0, <2>1, <3>1, <3>3 DEF StagingInv
  <2>2. CASE RecoverPlanned
    <3>1. PICK o \in queue :
            /\ cur' = o
            /\ pc' = IF LocalMutation(journal[o]) /\ ~journal[o].pinned THEN "pin" ELSE "check"
      BY <2>2 DEF RecoverPlanned
    <3>2. o \in Live /\ ~journal[o].pinned /\ UNCHANGED temp
      BY <1>0, <1>3, <2>2, <3>1 DEF RecoverPlanned, TypeInv, WorkerOK, worldVars, ClearedPcs
    <3> QED  BY <1>2, <3>1, <3>2 DEF OwnsDownloadSlot, Live
  <2>3. ASSUME NEW p \in Paths, Dispatch(p) PROVE Cleared
    <3>1. cur' = nextOp /\ nextOp \in OpIds /\ UNCHANGED temp
      BY <1>0, <2>3 DEF Dispatch, CreateOperation, worldVars, OpIds, TypeInv, TypeOK, StoreTypeOK
    <3>2. nextOp \notin Live
      BY <1>0, <3>1 DEF TypeInv, OpsShape, OpIds
    <3> QED  BY <1>2, <3>1, <3>2 DEF OwnsDownloadSlot, Live
  <2>4. CASE Pin
    <3>1. cur' = cur /\ temp[cur] = Absent /\ UNCHANGED temp
      BY <1>3, <2>4 DEF Pin, Goto, Stay, EndCycle, StagingInv, worldVars, ClearedPcs
    <3> QED  BY <3>1
  <2>5. CASE CheckPlanned \/ ComparePinned \/ Install
    <3>1. cur \in OpIds
      BY <1>0, <2>5, CurrentOp DEF CheckPlanned, ComparePinned, Install, OpPcs, Executing, Live
    <3>2. cur' = cur /\ temp' = [temp EXCEPT ![cur] = Absent]
      <4>1. CASE CheckPlanned
        BY <1>3, <4>1
           DEF CheckPlanned, Goto, Stay, RecoveredOp, BeginPass, ClearedPcs
      <4>2. CASE ComparePinned
        BY <1>3, <4>2 DEF ComparePinned, Goto, Stay, EndCycle, ClearedPcs
      <4>3. CASE Install
        BY <1>3, <4>3 DEF Install, Goto, Stay, GiveUp, Fail, EndCycle, ClearedPcs
      <4> QED  BY <2>5, <4>1, <4>2, <4>3
    <3> QED  BY <1>0, <3>1, <3>2
  <2>6. CASE Prove \/ Validate \/ Upload \/ RemoteDelete
    <3>1. cur \in Live /\ Op.kind # "ensure-local" /\ cur' = cur
      <4>1. CASE Prove
        BY <1>0, <1>3, <4>1, CurrentOp
           DEF Prove, Plausible, Goto, Stay, EndCycle, OpPcs, ClearedPcs
      <4>2. CASE Validate
        BY <1>0, <1>3, <4>2, CurrentOp
           DEF Validate, Goto, Stay, OpPcs, Executing, ClearedPcs
      <4>3. CASE Upload \/ RemoteDelete
        <5>1. cur \in Live /\ Op.kind # "ensure-local"
          BY <1>0, <4>3, CurrentOp
             DEF Upload, RemoteDelete, OpPcs, Executing, StageOK, Sending, LocalMutation
        <5> QED  BY <1>3, <4>3, <5>1
                 DEF Upload, RemoteDelete, Goto, Stay, GiveUp, Fail, EndCycle, ClearedPcs
      <4> QED  BY <2>6, <4>1, <4>2, <4>3
    <3>2. temp[cur] = Absent /\ cur \in OpIds
      BY <1>2, <3>1 DEF OwnsDownloadSlot, Op, Live
    <3> QED  BY <1>1, <2>0, <3>1, <3>2
  <2>7. CASE Retry
    <3>1. cur \in Live /\ cur' = cur /\ UNCHANGED journal /\ pc' = "exec" /\ Started(Op)
      BY <1>0, <1>3, <2>7, CurrentOp
         DEF Retry, Goto, Stay, EndCycle, OpPcs, StageOK, ClearedPcs
    <3> QED  BY <1>3, <3>1 DEF Started, Op
  <2>8. CASE Cleanup \/ Drop \/ Observe
    BY <1>3, <2>8
       DEF Cleanup, Drop, Observe, Goto, Stay, EndCycle, StagingInv, worldVars, ClearedPcs
  <2> QED  BY <1>0, <1>3, <2>1, <2>2, <2>3, <2>4, <2>5, <2>6, <2>7, <2>8, PcMoves
<1> QED  BY <1>3, DownloadStaysOwned DEF StagingInv, ClearedPcs, Op

\* Before each pass recovery is through with the journal: what is left in it
\* is what conflict resolve has queued meanwhile, and owns nothing yet.
LEMMA ScanFindsNothing ==
  ASSUME EffectInv, StagingInv, pc = "scan" PROVE Artifacts = {}
<1>1. /\ TypeInv /\ OrderInv /\ PreservedHasOwner /\ DownloadHasOwner
      /\ cur = 0 /\ queue = {}
  BY DEF EffectInv, OwnerInv, OrderInv, StagingInv, OpPcs, Executing
<1>2. \A o \in Live : Queued(journal[o])
  BY <1>1 DEF OrderInv, Live, OpIds
<1>3. \A o \in OpIds : ~OwnsRecoverySlot(o) /\ ~OwnsDownloadSlot(o)
  BY <1>2 DEF OwnsRecoverySlot, OwnsDownloadSlot, Queued, Live
<1> QED  BY <1>1, <1>3 DEF Artifacts, PreservedHasOwner, DownloadHasOwner

\* Whatever crashes, fails, is retried, blocked or given up, every file the
\* daemon puts beside the user's files has an operation in the journal that
\* owns it, and is gone before the next pass scans the root.
THEOREM NothingIsLeftBehind == Spec => []NothingLeftBehind
<1> DEFINE Inv == EffectInv /\ StagingInv
<1>1. Init => Inv
  <2>1. Init => DownloadHasOwner /\ pc = "idle"
    BY DEF Init, DownloadHasOwner
  <2> QED  BY <2>1, InitEffect DEF StagingInv, ClearedPcs
<1>2. Inv /\ [Next]_vars => Inv'
  BY EffectStep, StagingInvStep
<1>3. Inv => NothingLeftBehind
  BY ScanFindsNothing DEF EffectInv, OwnerInv, StagingInv, NothingLeftBehind
<1> QED  BY <1>1, <1>2, <1>3, PTL DEF Spec

(***************************************************************************)
(* The gate is asked again after the comparisons                           *)
(***************************************************************************)

\* What a pass goes on with has been through the gate as it is now, compared
\* contents and all.  So the second look of runRootCycle at plan.Blocked, which
\* PlanPass leaves out, never finds anything.
GatePassed == [][PlanPass /\ ~EndCycle => ~PlanBlocked(initialized, baseline, plan')]_vars

THEOREM PlansPassTheGate == Spec => GatePassed
<1> DEFINE Good == PlanPass /\ ~EndCycle => ~PlanBlocked(initialized, baseline, plan')
<1>1. ASSUME TypeInv, PlanPass, ~EndCycle PROVE ~PlanBlocked(initialized, baseline, plan')
  <2> DEFINE none == [p \in DOMAIN baseline |-> "unknown"]
             decide(evidence) ==
               PlanFullSnapshot(initialized, baseline, seen.local, remote, evidence)
             compared == {p \in Paths : decide(none)[p].kind = "compare-content"}
             evidence == [p \in Paths |->
                            IF p \notin compared THEN "unknown"
                            ELSE IF SameBytes(seen.local[p], remote[p]) THEN "equal"
                                                                        ELSE "different"]
  <2>1. initialized \in BOOLEAN /\ DOMAIN baseline = Paths
    BY <1>1 DEF TypeInv, TypeOK, StoreTypeOK
  <2>2. ~PlanBlocked(initialized, baseline, decide(none)) /\ plan' = decide(evidence)
    BY <1>1, <2>1 DEF PlanPass
  <2>3. \A p \in DOMAIN baseline :
          IF PlanPath(initialized, baseline[p], seen.local[p], remote[p], "unknown").kind
               = "compare-content"
            THEN evidence[p] \in {"equal", "different"}
            ELSE evidence[p] = "unknown"
    BY <2>1 DEF PlanFullSnapshot
  <2> HIDE DEF evidence
  <2>4. PlanBlocked(initialized, baseline, decide(evidence))
          <=> PlanBlocked(initialized, baseline, decide(none))
    BY <2>1, <2>3, OneComparisonRound
  <2> QED  BY <2>2, <2>4
<1>2. TypeInv /\ [Next]_vars => [Good]_vars
  BY <1>1
<1> QED  BY <1>2, TypeInvInit, TypeInvStep, PTL DEF Spec, GatePassed, Good

(***************************************************************************)
(* What the abstract journal is good for                                   *)
(***************************************************************************)

\* User data is aside only for an operation that is in the journal, started or
\* blocked, and not complete; no operation is complete that has not started;
\* IDs are given out in order.
JournalPromise ==
  /\ \A o \in OpIds : Held(o) => StageOf(o) \in {"started", "blocked"} /\ ~Done(o)
  /\ \A o \in OpIds : Done(o) => StageOf(o) \in {"started", "blocked", "settled"}
  /\ \A o, earlier \in OpIds :
       earlier < o /\ StageOf(o) # "free" => StageOf(earlier) # "free"

\* An operation that is settled is over: it neither comes back, nor takes data
\* aside, nor has any further effect.
SettledIsFinal ==
  [][\A o \in OpIds : StageOf(o) = "settled" =>
       StageOf(o)' = "settled" /\ ~Held(o)' /\ (Done(o)' <=> Done(o))]_(Journal!journalVars)

LEMMA StageMoves ==
  ASSUME NEW o \in OpIds, NEW from, NEW to, Journal!Move(o, from, to)
  PROVE  /\ StageOf(o) = from /\ StageOf(o)' = to
         /\ \A u \in OpIds : u # o => StageOf(u)' = StageOf(u)
<1> DEFINE stage == [u \in OpIds |-> StageOf(u)]
<1>1. stage[o] = from /\ stage' = [stage EXCEPT ![o] = to]
  BY DEF Journal!Move
<1>2. \A u \in OpIds : stage[u] = StageOf(u) /\ stage'[u] = StageOf(u)'
  OBVIOUS
<1>3. DOMAIN stage = OpIds
  OBVIOUS
<1> HIDE DEF stage
<1> QED  BY <1>1, <1>2, <1>3

LEMMA StagesStay ==
  [u \in OpIds |-> StageOf(u)]' = [u \in OpIds |-> StageOf(u)]
    => \A u \in OpIds : StageOf(u)' = StageOf(u)
<1> DEFINE stage == [u \in OpIds |-> StageOf(u)]
<1>1. \A u \in OpIds : stage[u] = StageOf(u) /\ stage'[u] = StageOf(u)'
  OBVIOUS
<1> HIDE DEF stage
<1>2. stage' = stage => \A u \in OpIds : StageOf(u)' = StageOf(u)
  BY <1>1
<1> QED  BY <1>2 DEF stage

\* What one action of the journal does, operation by operation.
LEMMA JournalActions ==
  ASSUME Journal!Next
  PROVE  \E o \in OpIds : Steps(o) /\ \A other \in OpIds : other # o => Stays(other)
<1> DEFINE held == {u \in OpIds : Held(u)}
<1>1. PICK o \in OpIds :
        \/ Journal!Plan(o) \/ Journal!Discard(o) \/ Journal!Start(o) \/ Journal!Hold(o)
        \/ Journal!PutBack(o) \/ Journal!Complete(o) \/ Journal!Settle(o)
        \/ Journal!Block(o) \/ Journal!Resume(o)
  BY DEF Journal!Next
<1>2. /\ \A u \in OpIds : u \in held <=> Held(u)
      /\ \A u \in OpIds : u \in held' <=> Held(u)'
      /\ held = {u \in OpIds : slot[u] # Absent}
      /\ held' = {u \in OpIds : slot'[u] # Absent}
  BY DEF Held
<1> HIDE DEF held
<1>3. held' = held /\ UNCHANGED applied => \A u \in OpIds : KeepsData(u)
  BY <1>2 DEF KeepsData, Done
<1>4. (held' = held \union {o} \/ held' = held \ {o}) /\ (UNCHANGED applied \/ applied' = applied \union {o})
        => \A u \in OpIds : u # o => KeepsData(u)
  BY <1>2 DEF KeepsData, Done
<1> QED  BY <1>1, <1>2, <1>3, <1>4, StagesStay, StageMoves
         DEF Journal!Plan, Journal!Discard, Journal!Start, Journal!Hold, Journal!PutBack,
             Journal!Complete, Journal!Settle, Journal!Block, Journal!Resume, Steps, Stays, Goes, Done

\* A step of the journal is a step of one operation at most.
LEMMA OneMoves ==
  ASSUME [Journal!Next]_(Journal!journalVars), OpIds # {}
  PROVE  \E o \in OpIds : Steps(o) /\ \A other \in OpIds : other # o => Stays(other)
<1>1. CASE Journal!Next
  BY <1>1, JournalActions
<1>2. CASE UNCHANGED Journal!journalVars
  <2>1. /\ {u \in OpIds : slot[u] # Absent}' = {u \in OpIds : slot[u] # Absent}
        /\ applied' = applied
    BY <1>2 DEF Journal!journalVars
  <2>2. \A u \in OpIds : StageOf(u)' = StageOf(u)
    BY <1>2, StagesStay DEF Journal!journalVars
  <2>3. \A u \in OpIds : KeepsData(u)
    BY <2>1 DEF KeepsData, Held, Done
  <2> QED  BY <2>2, <2>3 DEF Steps, Stays
<1> QED  BY <1>1, <1>2

LEMMA PromiseStep ==
  ASSUME JournalPromise, [Journal!Next]_(Journal!journalVars)
  PROVE  JournalPromise'
<1>1. CASE OpIds = {}
  BY <1>1 DEF JournalPromise
<1>2. CASE OpIds # {}
  <2>1. PICK o \in OpIds : Steps(o) /\ \A other \in OpIds : other # o => Stays(other)
    BY <1>2, OneMoves
  <2>2. \A u \in OpIds : StageOf(u) # "free" => StageOf(u)' # "free"
    BY <2>1 DEF Steps, Stays, Goes
  <2>3. ASSUME NEW u \in OpIds
        PROVE  /\ Held(u)' => StageOf(u)' \in {"started", "blocked"} /\ ~Done(u)'
               /\ Done(u)' => StageOf(u)' \in {"started", "blocked", "settled"}
    BY <2>1 DEF JournalPromise, Steps, Stays, Goes, KeepsData
  <2>4. ASSUME NEW u \in OpIds, NEW earlier \in OpIds, earlier < u, StageOf(u)' # "free"
        PROVE  StageOf(earlier)' # "free"
    <3>1. CASE StageOf(u) # "free"
      BY <2>2, <2>4, <3>1 DEF JournalPromise
    <3>2. CASE StageOf(u) = "free"
      BY <2>1, <2>2, <2>4, <3>2 DEF Steps, Stays, Goes
    <3> QED  BY <3>1, <3>2
  <2> QED  BY <2>3, <2>4 DEF JournalPromise
<1> QED  BY <1>1, <1>2

\* The abstract specification keeps its promise, whatever implements it.
THEOREM JournalPromises == JournalKept => []JournalPromise /\ SettledIsFinal
<1> DEFINE Final == \A o \in OpIds : StageOf(o) = "settled" =>
                      StageOf(o)' = "settled" /\ ~Held(o)' /\ (Done(o)' <=> Done(o))
<1>1. Journal!Init => JournalPromise
  <2> SUFFICES ASSUME Journal!Init PROVE JournalPromise
    OBVIOUS
  <2> DEFINE stage == [o \in OpIds |-> StageOf(o)]
  <2>1. /\ stage = [o \in OpIds |-> "free"]
        /\ {o \in OpIds : slot[o] # Absent} = {} /\ applied = {}
    BY DEF Journal!Init
  <2>2. \A o \in OpIds : stage[o] = StageOf(o)
    OBVIOUS
  <2> HIDE DEF stage
  <2> QED  BY <2>1, <2>2 DEF JournalPromise, Held, Done
<1>2. JournalPromise /\ [Journal!Next]_(Journal!journalVars) => JournalPromise'
  BY PromiseStep
<1>3. JournalPromise /\ [Journal!Next]_(Journal!journalVars) => [Final]_(Journal!journalVars)
  <2> SUFFICES ASSUME JournalPromise, [Journal!Next]_(Journal!journalVars),
                      NEW u \in OpIds, StageOf(u) = "settled"
               PROVE  StageOf(u)' = "settled" /\ ~Held(u)' /\ (Done(u)' <=> Done(u))
    OBVIOUS
  <2>1. PICK o \in OpIds : Steps(o) /\ \A other \in OpIds : other # o => Stays(other)
    BY OneMoves
  <2>2. ~Held(u)
    BY DEF JournalPromise
  <2>3. Stays(u)
    BY <2>1 DEF Steps, Goes
  <2> QED  BY <2>2, <2>3 DEF Stays, KeepsData
<1> QED  BY <1>1, <1>2, <1>3, PTL DEF JournalKept, Journal!Spec, SettledIsFinal, Final

\* So the sync cycle keeps it, through every crash, failure and command.
THEOREM CycleKeepsPromise == Spec => []JournalPromise /\ SettledIsFinal
BY JournalIsKept, JournalPromises
=============================================================================
