---------------------- MODULE SyncCycleEffects_proofs ----------------------
(***************************************************************************)
(* Proofs about what the operations of SyncCycle do to user data: in which *)
(* order they run, how often they take effect, and where every object is.  *)
(***************************************************************************)
EXTENDS SyncCycle_proofs

(***************************************************************************)
(* The order of the operations                                             *)
(***************************************************************************)

\* The worker is between the operations of a pass here.
PassPcs == {"scan", "plan", "record", "decide", "dispatch"}

\* An operation of conflict resolve that nobody has taken up.
Queued(op) == op.phase = "planned" /\ ~op.pinned /\ op.resolves

\* Recovery goes through the operations in ID order and leaves none behind: in
\* a pass the journal holds nothing but the current operation and what
\* conflict resolve has queued meanwhile.
OrderInv ==
  /\ pc \in OpPcs \/ cur = 0
  /\ queue # {} => pc \in OpPcs \union {"recover"}
  /\ pc \in PassPcs => pass # 0
  /\ pc \in OpPcs /\ pass = 0 => cur \in queue /\ \A o \in queue : cur <= o
  /\ \A o \in queue, later \in Live \ queue : o < later
  /\ pc \notin {"idle", "down"} =>
       \A o \in Live \ queue : o # cur => Queued(journal[o])
  /\ pc \in OpPcs => Op.phase # "blocked"
  /\ cli # Absent => cli.resolves /\ ~cli.pinned

\* The step leaves the journal alone but for the current operation.
OnlyCur == \A o \in OpIds : o # cur => journal'[o] = journal[o]

\* The same operation, however far it is.
SameButPhase(new, old) ==
  /\ new.kind = old.kind /\ new.path = old.path /\ new.expLocal = old.expLocal
  /\ new.expRemote = old.expRemote /\ new.pinned = old.pinned /\ new.pin = old.pin
  /\ new.resolves = old.resolves

\* What SetPhase does to the journal.
LEMMA PhaseEffect ==
  ASSUME TypeInv, cur \in Live, NEW phase \in Phases, SetPhase(phase)
  PROVE  /\ OnlyCur /\ journal'[cur] \in Operations /\ journal'[cur] # Absent
         /\ journal'[cur].phase = phase /\ SameButPhase(journal'[cur], journal[cur])
         /\ Live' = Live
<1>1. /\ cur \in OpIds /\ journal \in [OpIds -> Operations \union {Absent}]
      /\ journal[cur] \in Operations
  BY DEF TypeInv, TypeOK, StoreTypeOK, Live
<1> DEFINE new == [journal[cur] EXCEPT !.phase = phase]
<1>2. new \in Operations /\ new.phase = phase /\ SameButPhase(new, journal[cur])
  BY <1>1 DEF Operations, SameButPhase
<1>3. journal' = [journal EXCEPT ![cur] = new]
  BY DEF SetPhase
<1> HIDE DEF new
<1>4. journal'[cur] = new /\ OnlyCur
  BY <1>1, <1>3 DEF OnlyCur
<1>5. Live' = Live
  BY <1>1, <1>2, <1>4, AbsentAssumption DEF Live, OnlyCur
<1> QED  BY <1>2, <1>4, <1>5, AbsentAssumption

\* What DeleteOp does to it.
LEMMA DeleteEffect ==
  ASSUME TypeInv, cur \in Live, DeleteOp
  PROVE  OnlyCur /\ journal'[cur] = Absent /\ Live' = Live \ {cur}
<1>1. cur \in OpIds /\ journal \in [OpIds -> Operations \union {Absent}]
  BY DEF TypeInv, TypeOK, StoreTypeOK, Live
<1>2. journal'[cur] = Absent /\ OnlyCur
  BY <1>1 DEF DeleteOp, OnlyCur
<1> QED  BY <1>1, <1>2 DEF Live, OnlyCur

\* A step with an operation in hand goes on with it, drops it at the end of
\* the cycle, or is over with it.
GoesOnWith ==
  /\ pc' \in OpPcs /\ Stay /\ Live' = Live
  /\ journal'[cur].phase # "blocked"

LEMMA GiveUpEffect ==
  ASSUME TypeInv, cur \in Live, GiveUp
  PROVE  OnlyCur /\ EndCycle
<1>1. CASE Op.phase = "planned"
  BY <1>1, DeleteEffect DEF GiveUp
<1>2. CASE Op.phase # "planned"
  BY <1>2, PhaseEffect DEF GiveUp, Phases
<1> QED  BY <1>1, <1>2 DEF GiveUp

\* Every step the worker takes with an operation in hand.
StepInHand ==
  \/ Pin \/ CheckPlanned \/ Prove \/ FetchPinned \/ ComparePinned \/ Cleanup \/ Commit \/ Retry
  \/ ExecutionStep
  \/ CallFails /\ pc \in OpPcs

LEMMA InHand ==
  ASSUME TypeInv, OrderInv, StepInHand
  PROVE  /\ pc \in OpPcs /\ cur \in Live /\ OnlyCur /\ nextOp' = nextOp
         /\ \/ GoesOnWith
            \/ EndCycle
            \/ Live' = Live \ {cur} /\ pass = 0 /\ RecoveredOp(cur)
            \/ Live' = Live \ {cur} /\ pass # 0 /\ DispatchedOp(Op.path)
<1>0. /\ pc \in OpPcs /\ cur \in Live /\ nextOp' = nextOp
  <2>1. pc \in OpPcs
    BY DEF StepInHand, ExecutionStep, Pin, CheckPlanned, Prove, FetchPinned, ComparePinned,
           Cleanup, Commit, Retry, BeginRemote, Upload, UploadRefused, RemoteDelete,
           RemoteDeleteRefused, Download, BeginLocal, Preserve, Validate, Install, Restore,
           Drop, Observe, Settle, OpPcs, Executing
  <2>2. nextOp' = nextOp
    BY DEF StepInHand, ExecutionStep, Pin, CheckPlanned, Prove, FetchPinned, ComparePinned,
           Cleanup, Commit, Retry, BeginRemote, Upload, UploadRefused, RemoteDelete,
           RemoteDeleteRefused, Download, BeginLocal, Preserve, Validate, Install, Restore,
           Drop, Observe, Settle, CallFails, storeVars
  <2> QED  BY <2>1, <2>2, CurrentOp
<1> DEFINE Goal == OnlyCur /\ \/ GoesOnWith
                              \/ EndCycle
                              \/ Live' = Live \ {cur} /\ pass = 0 /\ RecoveredOp(cur)
                              \/ Live' = Live \ {cur} /\ pass # 0 /\ DispatchedOp(Op.path)
<1> SUFFICES Goal
  BY <1>0
<1>1. CASE UNCHANGED journal /\ \/ EndCycle
                                \/ pc' \in OpPcs /\ Stay
  BY <1>0, <1>1 DEF OnlyCur, GoesOnWith, OrderInv, Stay, Live, Op
<1>2. ASSUME NEW label \in OpPcs, NEW phase \in Phases \ {"blocked"}, SetPhase(phase), Goto(label)
      PROVE  Goal
  BY <1>0, <1>2, PhaseEffect DEF GoesOnWith, Goto, Stay
<1>3. ASSUME NEW phase \in Phases, SetPhase(phase), EndCycle PROVE Goal
  BY <1>0, <1>3, PhaseEffect
<1>4. CASE GiveUp
  BY <1>0, <1>4, GiveUpEffect
<1>5. CASE DeleteOp /\ EndCycle
  BY <1>0, <1>5, DeleteEffect
<1>6. CASE DeleteOp /\ FinishedOp
  BY <1>0, <1>6, DeleteEffect DEF FinishedOp
<1>7. CASE Pin
  <2>1. CASE LocalAsExpected
    <3> DEFINE target == IF Op.expLocal = Absent THEN 0 ELSE local[Op.path].ino
               new == [journal[cur] EXCEPT !.pinned = TRUE, !.pin = target]
    <3>1. /\ cur \in OpIds /\ journal \in [OpIds -> Operations \union {Absent}]
          /\ journal[cur] \in Operations
      BY <1>0 DEF TypeInv, TypeOK, StoreTypeOK, Live
    <3>2. journal' = [journal EXCEPT ![cur] = new] /\ \E label \in {"check", "exec"} : Goto(label)
      BY <1>7, <2>1 DEF Pin
    <3>3. new.phase = journal[cur].phase
      BY <3>1 DEF Operations
    <3>4. journal'[cur] = new /\ OnlyCur
      BY <3>1, <3>2 DEF OnlyCur
    <3>5. journal' \in [OpIds -> Operations \union {Absent}]
      BY <1>7, TypeInvStep
         DEF Next, DaemonNext, WorkerStep, RecoveryStep, TypeInv, TypeOK, StoreTypeOK
    <3>6. new # Absent
      <4>1. new.kind \in ExternalKinds /\ DOMAIN new = DOMAIN journal[cur]
        BY <3>1 DEF Operations
      <4>2. target \in Nat
        <5>1. CASE Op.expLocal # Absent
          <6>1. LocalPrint(local[Op.path]) # Absent
            BY <2>1, <5>1 DEF LocalAsExpected, LocalEquivalent
          <6>2. local[Op.path] \in LocalFiles
            BY <3>1, <6>1 DEF LocalPrint, TypeInv, TypeOK, WorldTypeOK, Op, Operations
          <6> QED  BY <5>1, <6>2 DEF LocalFiles
        <5> QED  BY <5>1
      <4> HIDE DEF target
      <4>3. new \in Operations
        BY <3>1, <4>2 DEF Operations
      <4> QED  BY <4>3, AbsentAssumption
    <3> HIDE DEF new
    <3>7. Live' = Live
      BY <1>0, <3>4, <3>6 DEF Live, OnlyCur
    <3> QED  BY <1>0, <3>2, <3>3, <3>4, <3>7
         DEF GoesOnWith, Goto, Stay, OrderInv, OpPcs, Executing, Op
  <2> QED  BY <1>5, <1>7, <2>1 DEF Pin
<1>8. CASE CheckPlanned
  <2>1. pass = 0
    BY <1>8 DEF CheckPlanned, TypeInv, WorkerOK
  <2> QED  BY <1>0, <1>1, <1>8, <2>1, DeleteEffect DEF CheckPlanned, Goto, OpPcs, Executing
<1>9. CASE Prove \/ FetchPinned \/ ComparePinned \/ Cleanup
  BY <1>1, <1>9
     DEF Prove, FetchPinned, ComparePinned, Cleanup, Goto, OpPcs, Executing, storeVars
<1>10. CASE Commit
  BY <1>6, <1>10 DEF Commit, CommitBaseline
<1>11. CASE Retry
  BY <1>1, <1>3, <1>11 DEF Retry, Goto, OpPcs, Executing, Phases
<1>12. CASE BeginRemote
  <2>1. "upload" \in OpPcs /\ "remoteDelete" \in OpPcs
    BY DEF OpPcs, Executing
  <2>2. {"running", "recovering"} \subseteq Phases \ {"blocked"}
    BY DEF Phases
  <2> QED  BY <1>2, <1>3, <1>12, <2>1, <2>2 DEF BeginRemote
<1>13. CASE Upload \/ UploadRefused \/ RemoteDelete \/ RemoteDeleteRefused
  BY <1>1, <1>4, <1>13
     DEF Fail, Upload, UploadRefused, RemoteDelete, RemoteDeleteRefused, Goto, OpPcs, Executing,
         storeVars
<1>14. CASE Download \/ Preserve \/ Validate \/ Install \/ Restore \/ Drop
  BY <1>1, <1>4, <1>14
     DEF Fail, Download, Preserve, Validate, Install, Restore, Drop, Goto, OpPcs, Executing,
         storeVars
<1>15. CASE BeginLocal
  <2>1. "install" \in OpPcs /\ "preserve" \in OpPcs /\ "running" \in Phases \ {"blocked"}
    BY DEF OpPcs, Executing, Phases
  <2> QED  BY <1>2, <1>4, <1>15, <2>1 DEF Fail, BeginLocal
<1>16. CASE Observe
  BY <1>1, <1>16 DEF Observe, OpPcs, Executing, storeVars
<1>17. CASE Settle
  BY <1>3, <1>6, <1>17 DEF Settle, CommitBaseline, Phases
<1>18. CASE CallFails
  BY <1>1, <1>3, <1>5, <1>18 DEF CallFails, Phases
<1> QED  BY <1>0, <1>7, <1>8, <1>9, <1>10, <1>11, <1>12, <1>13, <1>14, <1>15, <1>16, <1>17,
            <1>18 DEF StepInHand, ExecutionStep

\* A step with an operation in hand keeps the order.
LEMMA InHandOrder == ASSUME TypeInv, OrderInv, StepInHand PROVE OrderInv'
<1>0. /\ pc \in OpPcs /\ cur \in Live /\ cur \in OpIds /\ OnlyCur /\ UNCHANGED cli
      /\ OpPcs \intersect ({"idle", "down", "recover"} \union PassPcs) = {}
  <2>1. UNCHANGED cli
    BY DEF StepInHand, ExecutionStep, Pin, CheckPlanned, Prove, FetchPinned, ComparePinned,
           Cleanup, Commit, Retry, BeginRemote, Upload, UploadRefused, RemoteDelete,
           RemoteDeleteRefused, Download, BeginLocal, Preserve, Validate, Install, Restore,
           Drop, Observe, Settle, CallFails
  <2> QED  BY <2>1, InHand, CurrentOp DEF OpPcs, Executing, PassPcs
<1>1. CASE GoesOnWith
  BY <1>0, <1>1 DEF GoesOnWith, OrderInv, OnlyCur, Stay, Live, Op
<1>2. CASE EndCycle
  BY <1>0, <1>2 DEF EndCycle, OrderInv, PassPcs
<1>3. ASSUME NEW n \in Nat \ {0}, BeginPass(n), Live' = Live \ {cur}, queue \ {cur} = {}
      PROVE  OrderInv'
  BY <1>0, <1>3, CurrentOp DEF BeginPass, OrderInv, OnlyCur, Live, OpPcs, Executing, PassPcs
<1>4. CASE Live' = Live \ {cur} /\ pass = 0 /\ RecoveredOp(cur)
  <2>1. CASE queue \ {cur} = {}
    BY <1>3, <1>4, <2>1 DEF RecoveredOp
  <2>2. CASE queue \ {cur} # {}
    <3>1. pc' = "recover" /\ queue' = queue \ {cur} /\ cur' = 0 /\ UNCHANGED pass
      BY <1>4, <2>2 DEF RecoveredOp
    <3> QED  BY <1>0, <1>4, <3>1 DEF OrderInv, OnlyCur, Live, OpPcs, Executing, PassPcs
  <2> QED  BY <2>1, <2>2
<1>5. CASE Live' = Live \ {cur} /\ pass # 0 /\ DispatchedOp(Op.path)
  <2> DEFINE rest == [plan EXCEPT ![Op.path] = Decide("noop")]
  <2>1. queue = {} /\ pass \in Nat
    BY <1>5 DEF TypeInv, WorkerOK, TypeOK, DaemonTypeOK
  <2>2. CASE External(rest) # {}
    <3>1. pc' = "dispatch" /\ queue' = {} /\ cur' = 0 /\ UNCHANGED pass
      BY <1>5, <2>1, <2>2 DEF DispatchedOp
    <3> QED  BY <1>0, <1>5, <2>1, <3>1 DEF OrderInv, OnlyCur, Live, OpPcs, Executing, PassPcs
  <2>3. CASE External(rest) = {} /\ pass < MaxCyclePasses
    <3>1. BeginPass(pass + 1)
      BY <1>5, <2>3 DEF DispatchedOp
    <3>2. pass + 1 \in Nat \ {0} /\ queue \ {cur} = {}
      BY <2>1
    <3> QED  BY <1>3, <1>5, <3>1, <3>2
  <2>4. CASE External(rest) = {} /\ ~(pass < MaxCyclePasses)
    <3>1. EndCycle
      BY <1>5, <2>4 DEF DispatchedOp
    <3> QED  BY <1>2, <3>1
  <2> QED  BY <2>2, <2>3, <2>4
<1> QED  BY <1>1, <1>2, <1>4, <1>5, InHand

\* The journal of a step that takes no operation on, and the order it keeps.
LEMMA OrderUntouched ==
  ASSUME OrderInv, UNCHANGED <<journal, queue, cur, pass, cli>>, pc \in PassPcs, pc' \in PassPcs
  PROVE  OrderInv'
BY DEF OrderInv, Live, PassPcs, OpPcs, Executing, PassPcs

\* An operation is queued behind all the others.
LEMMA OrderQueued ==
  ASSUME TypeInv, OrderInv, NEW op \in Operations, op.phase = "planned", CreateOperation(op),
         Queued(op) \/ cur' = nextOp, UNCHANGED queue,
         cli' # Absent => cli'.resolves /\ ~cli'.pinned,
         \/ UNCHANGED <<pc, cur, pass>>
         \/ /\ cur' = nextOp /\ pc' \in OpPcs
            /\ pc = "dispatch" /\ pass # 0 /\ UNCHANGED pass
  PROVE  OrderInv'
<1>1. nextOp \in OpIds /\ journal \in [OpIds -> Operations \union {Absent}]
      /\ journal' = [journal EXCEPT ![nextOp] = op] /\ op # Absent
  BY AbsentAssumption DEF CreateOperation, OpIds, TypeInv, TypeOK, StoreTypeOK
<1>2. journal'[nextOp] = op /\ \A o \in OpIds : o # nextOp => journal'[o] = journal[o]
  BY <1>1
<1>3. /\ nextOp \notin Live /\ Live' = Live \union {nextOp} /\ queue \subseteq Live
      /\ \A o \in Live : o < nextOp
  BY <1>1, <1>2 DEF TypeInv, OpsShape, WorkerOK, Live, OpIds
<1>4. cur # nextOp
  BY <1>3, CurrentOp, <1>1 DEF OrderInv, OpIds
<1>5. CASE UNCHANGED <<pc, cur, pass>>
  <2>1. pc \in OpPcs => cur \in Live /\ cur \in OpIds
    BY CurrentOp
  <2> QED  BY <1>1, <1>2, <1>3, <1>4, <1>5, <2>1 DEF OrderInv, Op, Live
<1>6. CASE cur' = nextOp /\ pc' \in OpPcs /\ pc = "dispatch" /\ pass # 0 /\ UNCHANGED pass
  <2>1. queue = {} /\ queue' = {} /\ cur = 0 /\ pc' # "recover"
    BY <1>6 DEF OrderInv, OpPcs, Executing, PassPcs, TypeInv, WorkerOK
  <2>2. \A o \in Live : o # 0 /\ Queued(journal[o])
    BY <1>6, <2>1 DEF OrderInv, Live, OpIds
  <2>3. \A o \in Live' : o # cur' => Queued(journal'[o])
    BY <1>2, <1>3, <1>6, <2>2 DEF Live
  <2>4. Op'.phase # "blocked"
    BY <1>2, <1>6 DEF Op
  <2> QED  BY <1>6, <2>1, <2>3, <2>4 DEF OrderInv, OpPcs, Executing, PassPcs
<1> QED  BY <1>5, <1>6

\* Every step, and every stuttering step, keeps the order.
LEMMA OrderStep == ASSUME OwnerInv, OrderInv, [Next]_vars PROVE OrderInv'
<1>0. TypeInv
  BY DEF OwnerInv
<1>1. CASE StepInHand
  BY <1>0, <1>1, InHandOrder
<1>2. CASE BeginCycle
  <2>1. CASE Live = {}
    BY <1>2, <2>1 DEF BeginCycle, BeginPass, OrderInv, storeVars, Live, OpPcs, Executing, PassPcs
  <2>2. CASE Live # {}
    BY <1>2, <2>2 DEF BeginCycle, OrderInv, storeVars, Live, OpPcs, Executing, PassPcs
  <2> QED  BY <2>1, <2>2
<1>3. CASE RecoverBlocked \/ (CallFails /\ pc \notin OpPcs)
  <2>1. EndCycle /\ UNCHANGED <<journal, cli>>
    <3>1. CASE RecoverBlocked
      BY <3>1 DEF RecoverBlocked, storeVars
    <3>2. CASE CallFails /\ pc \notin OpPcs
      BY <3>2 DEF CallFails, OpPcs
    <3> QED  BY <1>3, <3>1, <3>2
  <2> QED  BY <2>1 DEF EndCycle, OrderInv, OpPcs, Executing, PassPcs
<1> 0 \notin OpIds
  BY DEF OpIds
<1>4. CASE RecoverPlanned
  <2>1. PICK o \in queue : /\ NextInQueue(o) /\ journal[o].phase = "planned" /\ cur' = o
                          /\ pc' \in {"pin", "check"}
    BY <1>4 DEF RecoverPlanned
  <2>2. UNCHANGED <<queue, pass, journal, cli>>
    BY <1>4 DEF RecoverPlanned, storeVars
  <2> QED  BY <1>4, <2>1, <2>2
       DEF RecoverPlanned, NextInQueue, OrderInv, Live, OpPcs, Executing, PassPcs, Op, TypeInv,
           WorkerOK
<1>5. CASE RecoverStarted
  <2>1. PICK o \in queue : /\ NextInQueue(o) /\ cur' = o
                          /\ journal' = [journal EXCEPT ![o].phase = "recovering"]
    BY <1>5 DEF RecoverStarted
  <2>2. UNCHANGED <<queue, pass, cli>> /\ pc = "recover" /\ pc' = "prove"
    BY <1>5 DEF RecoverStarted
  <2>3. o \in OpIds /\ o \in Live /\ journal[o] \in Operations
        /\ journal \in [OpIds -> Operations \union {Absent}]
    BY <1>0 DEF TypeInv, TypeOK, StoreTypeOK, WorkerOK, Live
  <2> DEFINE new == [journal[o] EXCEPT !.phase = "recovering"]
  <2>4. new \in Operations /\ new.phase = "recovering"
    BY <2>3 DEF Operations, Phases
  <2>5. journal' = [journal EXCEPT ![o] = new]
    BY <2>1
  <2> HIDE DEF new
  <2>6. journal'[o] = new /\ \A other \in OpIds : other # o => journal'[other] = journal[other]
    BY <2>3, <2>5
  <2>7. Live' = Live
    BY <2>3, <2>4, <2>6, AbsentAssumption DEF Live
  <2> QED  BY <2>1, <2>2, <2>3, <2>4, <2>6, <2>7
       DEF NextInQueue, OrderInv, Live, OpPcs, Executing, PassPcs, Op, TypeInv, WorkerOK
<1>6. CASE ScanLocal \/ PlanPass \/ DecidePass \/ \E p \in Paths : RecordPath(p)
  <2>1. /\ pc \in PassPcs /\ UNCHANGED <<journal, cli>>
        /\ EndCycle \/ (UNCHANGED <<queue, cur, pass>> /\ pc' \in PassPcs)
    <3>1. CASE ScanLocal
      BY <3>1 DEF PassPcs, ScanLocal, storeVars
    <3>2. CASE PlanPass
      BY <3>2 DEF PassPcs, PlanPass, storeVars
    <3>3. CASE DecidePass
      BY <3>3 DEF PassPcs, DecidePass, Goto, Stay
    <3>4. CASE \E p \in Paths : RecordPath(p)
      BY <3>4 DEF PassPcs, RecordPath
    <3> QED  BY <1>6, <3>1, <3>2, <3>3, <3>4
  <2>2. CASE EndCycle
    BY <2>1, <2>2 DEF EndCycle, OrderInv, OpPcs, Executing, PassPcs
  <2>3. CASE UNCHANGED <<queue, cur, pass>> /\ pc' \in PassPcs
    BY <2>1, <2>3, OrderUntouched
  <2> QED  BY <2>1, <2>2, <2>3
<1>7. ASSUME NEW p \in Paths, Dispatch(p) PROVE OrderInv'
  <2> DEFINE op == NewOp(plan[p].kind, p, seen.local[p], seen.remote[p], FALSE)
  <2>1. op \in Operations /\ op.phase = "planned"
    <3>1. plan[p].kind \in ExternalKinds
      BY <1>7 DEF Dispatch, External
    <3>2. /\ seen.local[p] \in LocalPrints \union {Absent}
          /\ seen.remote[p] \in RemoteFiles \union {Absent}
      BY <1>0 DEF TypeInv, TypeOK, DaemonTypeOK
    <3> QED  BY <3>1, <3>2, NewOpType DEF NewOp
  <2> HIDE DEF op
  <2>2. /\ CreateOperation(op) /\ cur' = nextOp /\ UNCHANGED <<queue, pass, cli>>
        /\ pc' \in OpPcs /\ pc = "dispatch"
    BY <1>7 DEF Dispatch, op, OpPcs, Executing, PassPcs
  <2>3. pass # 0
    BY <2>2 DEF OrderInv, PassPcs
  <2> QED  BY <1>0, <2>1, <2>2, <2>3, OrderQueued DEF OrderInv
<1>8. CASE Crash \/ Start
  <2>1. /\ UNCHANGED <<journal, cli>> /\ pc' \in {"idle", "down"}
        /\ \/ queue' = {} /\ cur' = 0
           \/ UNCHANGED <<queue, cur>> /\ pc = "down"
    BY <1>8 DEF Crash, Start, storeVars
  <2> QED  BY <2>1 DEF OrderInv, Live, OpPcs, Executing, PassPcs
<1>9. CASE SetEnabled \/ \E p \in Paths, keepLocal \in BOOLEAN : CheckResolve(p, keepLocal)
  <2>1. UNCHANGED <<journal, daemonVars>> /\ (cli' # Absent => cli'.resolves /\ ~cli'.pinned)
    BY <1>9 DEF SetEnabled, CheckResolve, NewOp, storeVars, OrderInv
  <2> QED  BY <2>1 DEF OrderInv, Live, Op, daemonVars
<1>10. CASE QueueResolve
  <2>1. /\ cli \in Operations /\ cli.phase = "planned" /\ Queued(cli) /\ CreateOperation(cli)
        /\ UNCHANGED <<pc, cur, pass, queue>> /\ cli' = Absent
    BY <1>0, <1>10 DEF QueueResolve, daemonVars, TypeInv, TypeOK, OpsShape, OrderInv, Queued
  <2>2. Queued(cli) \/ cur' = nextOp
    BY <2>1
  <2>3. /\ UNCHANGED queue /\ UNCHANGED <<pc, cur, pass>>
        /\ cli' # Absent => cli'.resolves /\ ~cli'.pinned
    BY <2>1
  <2> QED  BY <1>0, <2>1, <2>2, <2>3, OrderQueued
<1>11. ASSUME NEW o \in OpIds, ResolveRetry(o) \/ ResolveRestore(o) PROVE OrderInv'
  <2>1. pc = "down" /\ UNCHANGED <<daemonVars, cli>>
    BY <1>11 DEF ResolveRetry, ResolveRestore
  <2>2. queue = {}
    BY <1>0, <2>1 DEF TypeInv, WorkerOK
  <2> QED  BY <2>1, <2>2 DEF OrderInv, daemonVars, OpPcs, Executing, PassPcs
<1>12. CASE UserNext \/ UNCHANGED vars
  <2>1. UNCHANGED <<journal, cli, daemonVars>>
    BY <1>12 DEF UserNext, LocalPut, LocalWrite, LocalRemove, RemotePut, RemoteRemove, Edit,
                 vars, storeVars
  <2> QED  BY <2>1 DEF OrderInv, Live, Op, daemonVars
<1>13. CASE DaemonNext
  <2>1. CASE RecoveryStep
    BY <1>1, <1>2, <1>3, <1>4, <1>5, <2>1 DEF RecoveryStep, StepInHand
  <2>2. CASE ExecutionStep
    BY <1>1, <2>2 DEF StepInHand
  <2>3. CASE PassStep
    BY <1>6, <1>7, <2>3 DEF PassStep
  <2>4. CASE CallFails
    BY <1>1, <1>3, <2>4 DEF StepInHand
  <2> QED  BY <1>13, <2>1, <2>2, <2>3, <2>4 DEF DaemonNext, WorkerStep
<1> QED  BY <1>8, <1>9, <1>10, <1>11, <1>12, <1>13 DEF Next, CliNext

\* A new root is in order.
LEMMA InitOrder == Init => OwnerInv /\ OrderInv
<1> SUFFICES ASSUME Init PROVE OwnerInv /\ OrderInv
  OBVIOUS
<1>1. OwnerInv
  <2>1. TypeInv /\ Live = {} /\ pc = "idle"
    BY TypeInvInit DEF Init, Live
  <2> QED  BY <2>1
       DEF Init, OwnerInv, StartedPinned, StageOK, PreservedHasOwner, OpPcs, Executing, Moving,
           Sending, Ending
<1>2. OrderInv
  BY DEF Init, OrderInv, OpPcs, Executing, PassPcs
<1> QED  BY <1>1, <1>2

\* While an operation is blocked the daemon moves on only what comes before
\* it: the worker is not in a pass, and what it has in hand is older.
LEMMA BlockedAhead ==
  ASSUME TypeInv, OrderInv, NEW o \in Live, journal[o].phase = "blocked"
  PROVE  /\ pc \notin PassPcs
         /\ pc \in OpPcs => cur < o
<1>1. pc \in PassPcs => FALSE
  BY DEF OrderInv, PassPcs, OpPcs, Executing, TypeInv, WorkerOK, Live, OpIds, Queued
<1>2. ASSUME pc \in OpPcs PROVE cur < o
  <2>1. cur # o /\ o \in queue
    BY <1>2 DEF OrderInv, Op, OpPcs, Executing, Queued
  <2>2. pass = 0
    BY <2>1 DEF TypeInv, WorkerOK
  <2> QED  BY <1>2, <2>1, <2>2, CurrentOp DEF OrderInv, Live, OpIds
<1> QED  BY <1>1, <1>2

\* The journal is frozen from a blocked operation on: whatever the daemon does
\* next, no later operation is added, moved on or forgotten before the user
\* has resolved the blocked one.
THEOREM BlockedIsFinal == Spec => BlockedFreezes
<1> DEFINE Freezes == DaemonNext => \A o \in Live : journal[o].phase = "blocked" =>
              /\ nextOp' = nextOp
              /\ \A later \in OpIds : later >= o => journal'[later] = journal[later]
<1>1. OwnerInv /\ OrderInv /\ [Next]_vars => OwnerInv' /\ OrderInv'
  BY OwnerInvStep, OrderStep
<1>2. ASSUME OwnerInv, OrderInv PROVE Freezes
  <2> SUFFICES ASSUME DaemonNext, NEW o \in Live, journal[o].phase = "blocked"
               PROVE  /\ nextOp' = nextOp
                      /\ \A later \in OpIds : later >= o => journal'[later] = journal[later]
    OBVIOUS
  <2>0. TypeInv /\ o \in OpIds /\ pc \notin PassPcs /\ (pc \in OpPcs => cur < o)
    BY <1>2, BlockedAhead DEF OwnerInv, Live
  <2>1. CASE StepInHand
    <3>1. pc \in OpPcs /\ cur \in OpIds /\ OnlyCur /\ nextOp' = nextOp
      BY <1>2, <2>0, <2>1, InHand, CurrentOp
    <3> QED  BY <2>0, <3>1 DEF OnlyCur, OpIds
  <2>2. CASE BeginCycle \/ RecoverBlocked \/ RecoverPlanned
    BY <2>2 DEF BeginCycle, RecoverBlocked, RecoverPlanned, storeVars
  <2>3. CASE RecoverStarted
    <3>1. PICK u \in queue : /\ NextInQueue(u) /\ journal[u].phase \in {"running", "recovering"}
                            /\ journal' = [journal EXCEPT ![u].phase = "recovering"]
      BY <2>3 DEF RecoverStarted
    <3>2. u \in OpIds /\ journal \in [OpIds -> Operations \union {Absent}] /\ u # o
      BY <2>0, <3>1 DEF TypeInv, TypeOK, StoreTypeOK, WorkerOK, Live
    <3>3. o \in queue
      BY <1>2, <2>0, <2>3 DEF OrderInv, RecoverStarted, OpPcs, Executing, OpIds, Queued
    <3>4. u < o
      BY <2>0, <3>1, <3>2, <3>3 DEF NextInQueue, OpIds
    <3>5. \A other \in OpIds : other # u => journal'[other] = journal[other]
      BY <3>1, <3>2
    <3> QED  BY <2>0, <2>3, <3>2, <3>4, <3>5 DEF RecoverStarted, OpIds
  <2>4. CASE PassStep
    BY <2>0, <2>4 DEF PassStep, ScanLocal, PlanPass, DecidePass, RecordPath, Dispatch, PassPcs
  <2>5. CASE CallFails /\ pc \notin OpPcs
    BY <2>5 DEF CallFails, OpPcs
  <2> QED  BY <2>1, <2>2, <2>3, <2>4, <2>5
       DEF DaemonNext, WorkerStep, RecoveryStep, StepInHand
<1>3. OwnerInv /\ OrderInv /\ [Next]_vars => [Freezes]_vars
  BY <1>2
<1> QED  BY <1>1, <1>3, InitOrder, PTL DEF Spec, BlockedFreezes, Freezes

(***************************************************************************)
(* Where every local object is                                             *)
(***************************************************************************)

\* Every object was given its ino, and is in one place: under one name or in
\* one recovery slot.
Dated(f) == f # Absent => f.ino \in 1..tick

Distinct(f, g) == f # Absent /\ g # Absent => f.ino # g.ino

ObjectsInv ==
  /\ \A p \in Paths : Dated(local[p])
  /\ \A o \in OpIds : Dated(slot[o])
  /\ \A p, q \in Paths : p # q => Distinct(local[p], local[q])
  /\ \A o, u \in OpIds : o # u => Distinct(slot[o], slot[u])
  /\ \A p \in Paths, o \in OpIds : Distinct(local[p], slot[o])

\* The object with this ino exists no more.
Gone(ino) ==
  /\ \A p \in Paths : local[p] # Absent => local[p].ino # ino
  /\ \A o \in OpIds : slot[o] # Absent => slot[o].ino # ino

\* And never will: inos are not given out twice.
StaysGone == \A ino \in 1..tick : Gone(ino) => Gone(ino)'

\* What a step may do to the objects: leave each where it is or remove it ...
Kept(new, old) == new = old \/ new = Absent

LEMMA ObjectsKept ==
  ASSUME ObjectsInv, tick \in Nat, tick' \in Nat, tick <= tick',
         \A p \in Paths : Kept(local'[p], local[p]), \A o \in OpIds : Kept(slot'[o], slot[o])
  PROVE  ObjectsInv' /\ StaysGone
<1>1. ObjectsInv'
  BY DEF ObjectsInv, Dated, Distinct, Kept
<1>2. StaysGone
  BY DEF StaysGone, Gone, Kept
<1> QED  BY <1>1, <1>2

\* ... move one aside, or back ...
LEMMA ObjectAside ==
  ASSUME ObjectsInv, UNCHANGED tick, NEW p \in Paths, NEW o \in OpIds,
         \A q \in Paths : q # p => local'[q] = local[q], local'[p] = Absent,
         \A u \in OpIds : u # o => slot'[u] = slot[u], slot'[o] = local[p]
  PROVE  ObjectsInv' /\ StaysGone
<1>1. ObjectsInv'
  BY DEF ObjectsInv, Dated, Distinct, Kept
<1>2. StaysGone
  BY DEF StaysGone, Gone, Kept
<1> QED  BY <1>1, <1>2

LEMMA ObjectBack ==
  ASSUME ObjectsInv, UNCHANGED tick, NEW p \in Paths, NEW o \in OpIds,
         \A q \in Paths : q # p => local'[q] = local[q], local'[p] = slot[o],
         \A u \in OpIds : u # o => slot'[u] = slot[u], slot'[o] = Absent
  PROVE  ObjectsInv' /\ StaysGone
<1>1. ObjectsInv'
  BY DEF ObjectsInv, Dated, Distinct, Kept
<1>2. StaysGone
  BY DEF StaysGone, Gone, Kept
<1> QED  BY <1>1, <1>2

\* ... or make a new one.
LEMMA ObjectPut ==
  ASSUME ObjectsInv, tick \in Nat, tick' = tick + 1, UNCHANGED slot, NEW p \in Paths,
         \A q \in Paths : q # p => local'[q] = local[q], local'[p].ino = tick + 1
  PROVE  ObjectsInv' /\ StaysGone
<1>1. ObjectsInv'
  BY DEF ObjectsInv, Dated, Distinct
<1>2. StaysGone
  BY DEF StaysGone, Gone
<1> QED  BY <1>1, <1>2

\* Writing in place keeps the object.
LEMMA ObjectWritten ==
  ASSUME ObjectsInv, UNCHANGED <<slot, tick>>, NEW p \in Paths, local[p] # Absent,
         \A q \in Paths : q # p => local'[q] = local[q], local'[p].ino = local[p].ino
  PROVE  ObjectsInv' /\ StaysGone
<1>1. ObjectsInv'
  BY DEF ObjectsInv, Dated, Distinct
<1>2. StaysGone
  BY DEF StaysGone, Gone
<1> QED  BY <1>1, <1>2

\* Putting back what was moved aside.
LEMMA RestoredSlot ==
  ASSUME TypeInv, ObjectsInv, cur \in OpIds, Op.path \in Paths, RestoreSlot, UNCHANGED tick
  PROVE  ObjectsInv' /\ StaysGone
<1>1. /\ local \in [Paths -> LocalFiles \union {Absent}] /\ tick \in Nat
      /\ slot \in [OpIds -> LocalFiles \union {Absent}]
  BY DEF TypeInv, TypeOK, WorldTypeOK
<1>2. CASE local[Op.path] = Absent
  <2>1. /\ local' = [local EXCEPT ![Op.path] = slot[cur]]
        /\ slot' = [slot EXCEPT ![cur] = Absent]
    BY <1>2 DEF RestoreSlot
  <2>2. /\ \A q \in Paths : q # Op.path => local'[q] = local[q]
        /\ local'[Op.path] = slot[cur]
        /\ \A u \in OpIds : u # cur => slot'[u] = slot[u]
        /\ slot'[cur] = Absent
    BY <1>1, <2>1
  <2> QED  BY <2>2, ObjectBack
<1>3. CASE local[Op.path] # Absent
  <2>1. UNCHANGED <<local, slot>>
    BY <1>3 DEF RestoreSlot
  <2> QED  BY <1>1, <2>1, ObjectsKept DEF Kept
<1> QED  BY <1>2, <1>3

\* No step puts an object in two places, or makes a removed one come back.
LEMMA ObjectsStep ==
  ASSUME TypeInv, ObjectsInv, [Next]_vars
  PROVE  ObjectsInv' /\ StaysGone /\ tick' \in Nat /\ tick <= tick'
<1>1. /\ local \in [Paths -> LocalFiles \union {Absent}] /\ tick \in Nat
      /\ slot \in [OpIds -> LocalFiles \union {Absent}]
  BY DEF TypeInv, TypeOK, WorldTypeOK
<1>2. pc \in OpPcs => cur \in OpIds /\ Op.path \in Paths
  BY CurrentOp
<1> DEFINE Goal == ObjectsInv' /\ StaysGone /\ tick' \in Nat /\ tick <= tick'
<1>3. CASE UNCHANGED <<local, slot>> /\ (UNCHANGED tick \/ tick' = tick + 1)
  <2>1. tick' \in Nat /\ tick <= tick'
    BY <1>1, <1>3
  <2> QED  BY <1>1, <1>3, <2>1, ObjectsKept DEF Kept
<1>5. CASE RecoveryStep
  <2>1. CASE Cleanup /\ slot' = [slot EXCEPT ![cur] = Absent]
    <3>1. cur \in OpIds /\ UNCHANGED <<local, tick>>
      BY <1>2, <2>1 DEF Cleanup, OpPcs
    <3>2. \A o \in OpIds : Kept(slot'[o], slot[o])
      BY <1>1, <2>1, <3>1 DEF Kept
    <3> QED  BY <1>1, <3>1, <3>2, ObjectsKept DEF Kept
  <2>2. CASE Cleanup
    BY <1>3, <2>1, <2>2 DEF Cleanup
  <2> QED  BY <1>3, <1>5, <2>2
       DEF RecoveryStep, BeginCycle, RecoverBlocked, RecoverPlanned, RecoverStarted, Pin,
           CheckPlanned, Prove, FetchPinned, ComparePinned, Commit, Retry, worldVars
<1>7. CASE ExecutionStep
  <2>0. pc \in OpPcs /\ cur \in OpIds /\ Op.path \in Paths
    BY <1>7, InHand, <1>2
       DEF ExecutionStep, BeginRemote, Upload, UploadRefused, RemoteDelete, RemoteDeleteRefused,
           Download, BeginLocal, Preserve, Validate, Install, Restore, Drop, Observe, Settle,
           OpPcs, Executing
  <2>1. CASE BeginRemote \/ Upload \/ UploadRefused \/ RemoteDelete \/ RemoteDeleteRefused
    BY <1>3, <2>0, <2>1
       DEF BeginRemote, Upload, UploadRefused, RemoteDelete, RemoteDeleteRefused, worldVars
  <2>2. CASE Download \/ BeginLocal
    BY <1>3, <2>2 DEF Download, BeginLocal
  <2>4. CASE Preserve
    <3>1. CASE Fail /\ UNCHANGED <<slot, local>>
      BY <1>3, <2>4, <3>1 DEF Preserve
    <3>2. CASE /\ slot' = [slot EXCEPT ![cur] = local[Op.path]]
               /\ local' = [local EXCEPT ![Op.path] = Absent]
      <4>1. /\ \A q \in Paths : q # Op.path => local'[q] = local[q]
            /\ local'[Op.path] = Absent
            /\ \A u \in OpIds : u # cur => slot'[u] = slot[u]
            /\ slot'[cur] = local[Op.path]
            /\ UNCHANGED tick
        BY <1>1, <2>0, <2>4, <3>2 DEF Preserve
      <4> QED  BY <1>1, <2>0, <4>1, ObjectAside
    <3> QED  BY <2>4, <3>1, <3>2 DEF Preserve
  <2>5. CASE Validate \/ Observe \/ Settle
    BY <1>3, <2>5 DEF Validate, Observe, Settle, worldVars
  <2>6. CASE Install
    <3>1. CASE local[Op.path] = Absent /\ temp[cur] # Absent
      <4> DEFINE new == [kind |-> "file", ver |-> temp[cur].ver, ino |-> tick + 1]
      <4>1. /\ local' = [local EXCEPT ![Op.path] = new] /\ new.ino = tick + 1
            /\ tick' = tick + 1 /\ UNCHANGED slot
        BY <2>6, <3>1 DEF Install
      <4> HIDE DEF new
      <4>2. /\ \A q \in Paths : q # Op.path => local'[q] = local[q]
            /\ local'[Op.path].ino = tick + 1
        BY <1>1, <2>0, <4>1
      <4> QED  BY <1>1, <2>0, <4>1, <4>2, ObjectPut
    <3>2. CASE ~(local[Op.path] = Absent /\ temp[cur] # Absent)
      BY <1>3, <2>6, <3>2 DEF Install
    <3> QED  BY <3>1, <3>2
  <2>7. CASE Restore
    <3>1. RestoreSlot /\ UNCHANGED tick
      BY <2>7 DEF Restore
    <3> QED  BY <1>1, <2>0, <3>1, RestoredSlot
  <2>8. CASE Drop
    <3>1. UNCHANGED <<local, tick>> /\ slot' = [slot EXCEPT ![cur] = Absent]
      BY <2>8 DEF Drop
    <3>2. \A o \in OpIds : Kept(slot'[o], slot[o])
      BY <1>1, <2>0, <3>1 DEF Kept
    <3> QED  BY <1>1, <3>1, <3>2, ObjectsKept DEF Kept
  <2> QED  BY <1>7, <2>1, <2>2, <2>4, <2>5, <2>6, <2>7, <2>8 DEF ExecutionStep
<1>8. CASE CallFails
  <2>1. UNCHANGED tick
    BY <1>8 DEF CallFails
  <2>2. CASE UNCHANGED <<local, slot>>
    BY <1>1, <2>1, <2>2, ObjectsKept DEF Kept
  <2>3. CASE pc \in {"validate", "install", "drop"} /\ RestoreSlot
    BY <1>1, <1>2, <2>1, <2>3, RestoredSlot DEF OpPcs, Executing
  <2> QED  BY <1>8, <2>2, <2>3 DEF CallFails
<1>9. CASE PassStep \/ Crash \/ Start
  <2>1. UNCHANGED worldVars
    BY <1>9 DEF PassStep, ScanLocal, PlanPass, DecidePass, RecordPath, Dispatch, Crash, Start
  <2> QED  BY <1>3, <2>1 DEF worldVars
<1>10. CASE CliNext
  <2>1. CASE UNCHANGED worldVars
    BY <1>3, <2>1 DEF worldVars
  <2>2. ASSUME NEW o \in OpIds, ResolveRestore(o) PROVE Goal
    <3>1. /\ local' = [local EXCEPT ![journal[o].path] = slot[o]]
          /\ slot' = [slot EXCEPT ![o] = Absent] /\ UNCHANGED tick
      BY <2>2 DEF ResolveRestore
    <3>2. journal[o].path \in Paths
      BY <2>2 DEF ResolveRestore, Live, TypeInv, TypeOK, StoreTypeOK, Operations
    <3> DEFINE p == journal[o].path
    <3>3. /\ \A q \in Paths : q # p => local'[q] = local[q]
          /\ local'[p] = slot[o]
          /\ \A u \in OpIds : u # o => slot'[u] = slot[u]
          /\ slot'[o] = Absent
      BY <1>1, <3>1, <3>2
    <3> HIDE DEF p
    <3> QED  BY <1>1, <3>1, <3>2, <3>3, ObjectBack DEF p
  <2> QED  BY <1>10, <2>1, <2>2 DEF CliNext, SetEnabled, QueueResolve, CheckResolve, ResolveRetry
<1>11. CASE UserNext
  <2> SUFFICES ASSUME NEW p \in Paths,
                      \/ \E ver \in Versions : LocalPut(p, ver) \/ LocalWrite(p, ver)
                                               \/ RemotePut(p, ver)
                      \/ LocalRemove(p) \/ RemoteRemove(p)
               PROVE  Goal
    BY <1>11 DEF UserNext
  <2>1. UNCHANGED slot
    BY DEF LocalPut, LocalWrite, LocalRemove, RemotePut, RemoteRemove, Edit
  <2>2. ASSUME NEW ver \in Versions, LocalPut(p, ver) PROVE Goal
    <3>1. /\ \A q \in Paths : q # p => local'[q] = local[q]
          /\ local'[p].ino = tick + 1 /\ tick' = tick + 1
      BY <1>1, <2>2 DEF LocalPut
    <3> QED  BY <1>1, <2>1, <3>1, ObjectPut
  <2>3. ASSUME NEW ver \in Versions, LocalWrite(p, ver) PROVE Goal
    <3>1. /\ \A q \in Paths : q # p => local'[q] = local[q]
          /\ local[p] # Absent /\ local'[p].ino = local[p].ino /\ UNCHANGED tick
      BY <1>1, <2>3 DEF LocalWrite, LocalFiles
    <3> QED  BY <1>1, <2>1, <3>1, ObjectWritten
  <2>4. CASE LocalRemove(p)
    <3>1. (\A q \in Paths : Kept(local'[q], local[q])) /\ UNCHANGED tick
      BY <1>1, <2>4 DEF LocalRemove, Kept
    <3> QED  BY <1>1, <2>1, <3>1, ObjectsKept DEF Kept
  <2>5. CASE RemoteRemove(p) \/ \E ver \in Versions : RemotePut(p, ver)
    BY <1>3, <2>1, <2>5 DEF RemoteRemove, RemotePut
  <2> QED  BY <2>2, <2>3, <2>4, <2>5
<1>12. CASE UNCHANGED vars
  BY <1>3, <1>12 DEF vars, worldVars
<1> QED  BY <1>5, <1>7, <1>8, <1>9, <1>10, <1>11, <1>12 DEF Next, DaemonNext, WorkerStep

(***************************************************************************)
(* Where the operations and the revisions come from                        *)
(***************************************************************************)

\* An operation stays what it is and, once pinned, pinned; once started it also
\* stays pinned to its target, and does not become a planned one again.
Steady(new, old) ==
  /\ new.kind = old.kind /\ new.path = old.path /\ new.expLocal = old.expLocal
  /\ new.expRemote = old.expRemote /\ new.resolves = old.resolves
  /\ old.pinned => new.pinned
  /\ Started(old) => Started(new) /\ new.pinned = old.pinned /\ new.pin = old.pin

LEMMA SteadyPhase ==
  ASSUME TypeInv, cur \in Live, NEW phase \in Phases \ {"planned"}, SetPhase(phase)
  PROVE  Steady(journal'[cur], journal[cur])
BY PhaseEffect DEF SameButPhase, Steady, Started

LEMMA InHandSteady ==
  ASSUME OwnerInv, OrderInv, StepInHand
  PROVE  journal'[cur] = Absent \/ Steady(journal'[cur], journal[cur])
<1> DEFINE Goal == journal'[cur] = Absent \/ Steady(journal'[cur], journal[cur])
<1>0. /\ TypeInv /\ StageOK /\ cur \in Live
      /\ {"running", "recovering", "blocked"} \subseteq Phases \ {"planned"}
  BY InHand DEF OwnerInv, Phases
<1>1. CASE UNCHANGED journal
  BY <1>1 DEF Steady
<1>2. ASSUME NEW phase \in {"running", "recovering", "blocked"}, SetPhase(phase) PROVE Goal
  BY <1>0, <1>2, SteadyPhase
<1>3. CASE DeleteOp
  BY <1>0, <1>3, DeleteEffect
<1>4. CASE GiveUp
  BY <1>2, <1>3, <1>4 DEF GiveUp
<1>5. CASE Pin /\ LocalAsExpected
  <2> DEFINE target == IF Op.expLocal = Absent THEN 0 ELSE local[Op.path].ino
             new == [journal[cur] EXCEPT !.pinned = TRUE, !.pin = target]
  <2>1. /\ cur \in OpIds /\ journal \in [OpIds -> Operations \union {Absent}]
        /\ journal[cur] \in Operations
    BY <1>0 DEF TypeInv, TypeOK, StoreTypeOK, Live
  <2>2. journal' = [journal EXCEPT ![cur] = new]
    BY <1>5 DEF Pin
  <2>3. Steady(new, journal[cur]) \/ Started(journal[cur])
    BY <2>1 DEF Operations, Steady
  <2>4. journal'[cur] = new
    BY <2>1, <2>2
  <2> HIDE DEF new
  <2> QED  BY <1>0, <1>5, <2>3, <2>4 DEF Pin, Op, StageOK, Started
<1>6. CASE Pin \/ CheckPlanned \/ Prove \/ FetchPinned \/ ComparePinned \/ Cleanup \/ Commit
           \/ Retry
  BY <1>1, <1>2, <1>3, <1>5, <1>6
     DEF Pin, CheckPlanned, Prove, FetchPinned, ComparePinned, Cleanup, Commit, CommitBaseline,
         Retry, storeVars
<1>7. CASE BeginRemote \/ Upload \/ UploadRefused \/ RemoteDelete \/ RemoteDeleteRefused
  BY <1>1, <1>2, <1>4, <1>7
     DEF Fail, BeginRemote, Upload, UploadRefused, RemoteDelete, RemoteDeleteRefused, storeVars
<1>8. CASE Download \/ BeginLocal \/ Preserve \/ Validate \/ Install \/ Restore \/ Drop
  BY <1>1, <1>2, <1>4, <1>8
     DEF Fail, Download, BeginLocal, Preserve, Validate, Install, Restore, Drop, storeVars
<1>9. CASE Observe \/ Settle
  BY <1>1, <1>2, <1>3, <1>9 DEF Observe, Settle, CommitBaseline, storeVars
<1>10. CASE CallFails
  BY <1>1, <1>2, <1>3, <1>10 DEF CallFails
<1> QED  BY <1>6, <1>7, <1>8, <1>9, <1>10 DEF StepInHand, ExecutionStep

\* The step adds one planned operation, from the plan or from conflict resolve.
Created(o) ==
  /\ o = nextOp /\ o \notin Live /\ nextOp' = nextOp + 1 /\ journal'[o].phase = "planned"
  /\ \/ cli # Absent /\ journal'[o] = cli
     \/ /\ pc = "dispatch" /\ cur' = o
        /\ \E p \in Paths : /\ plan[p].kind \in ExternalKinds
                            /\ journal'[o] = NewOp(plan[p].kind, p, seen.local[p],
                                                   seen.remote[p], FALSE)

\* Whatever happens, the operations of the journal stay what they are, and
\* come from the plan or from conflict resolve.
LEMMA JournalStep ==
  ASSUME OwnerInv, OrderInv, [Next]_vars
  PROVE  /\ \A o \in Live' : (o \in Live /\ Steady(journal'[o], journal[o])) \/ Created(o)
         /\ nextOp <= nextOp' /\ nextOp' \in Nat
<1>0. TypeInv /\ journal \in [OpIds -> Operations \union {Absent}] /\ nextOp \in Nat
  BY DEF OwnerInv, TypeInv, TypeOK, StoreTypeOK
<1> DEFINE Goal == /\ \A o \in Live' : (o \in Live /\ Steady(journal'[o], journal[o])) \/ Created(o)
                   /\ nextOp <= nextOp' /\ nextOp' \in Nat
<1>1. CASE UNCHANGED <<journal, nextOp>>
  BY <1>0, <1>1 DEF Live, Steady
<1>2. CASE StepInHand
  <2>1. OnlyCur /\ nextOp' = nextOp /\ cur \in Live
    BY <1>0, <1>2, InHand
  <2>2. journal'[cur] = Absent \/ Steady(journal'[cur], journal[cur])
    BY <1>2, InHandSteady
  <2> QED  BY <1>0, <2>1, <2>2 DEF Live, OnlyCur, Steady
<1>3. ASSUME NEW o \in OpIds, o \in Live, nextOp' = nextOp, Started(journal[o]),
             journal' = [journal EXCEPT ![o].phase = "recovering"]
      PROVE  Goal
  <2>1. journal[o] \in Operations
    BY <1>0 , <1>3 DEF Live
  <2> DEFINE new == [journal[o] EXCEPT !.phase = "recovering"]
  <2>2. Steady(new, journal[o])
    BY <2>1 DEF Operations, Steady, Started
  <2>3. journal' = [journal EXCEPT ![o] = new]
    BY <1>3
  <2> HIDE DEF new
  <2>4. journal'[o] = new /\ \A u \in OpIds : u # o => journal'[u] = journal[u]
    BY <1>0, <1>3, <2>3
  <2> QED  BY <1>0, <1>3, <2>2, <2>4 DEF Live, Steady
<1>4. ASSUME NEW op, op.phase = "planned", CreateOperation(op),
             \/ op = cli /\ cli # Absent
             \/ /\ pc = "dispatch" /\ cur' = nextOp
                /\ \E p \in Paths :
                     /\ plan[p].kind \in ExternalKinds
                     /\ op = NewOp(plan[p].kind, p, seen.local[p], seen.remote[p], FALSE)
      PROVE  Goal
  <2>1. nextOp \in OpIds /\ journal' = [journal EXCEPT ![nextOp] = op] /\ nextOp' = nextOp + 1
    BY <1>0, <1>4 DEF CreateOperation, OpIds, OwnerInv, TypeInv, TypeOK, StoreTypeOK
  <2>2. journal'[nextOp] = op /\ \A o \in OpIds : o # nextOp => journal'[o] = journal[o]
    BY <1>0, <2>1
  <2>3. nextOp \notin Live
    BY <1>0, <2>1 DEF TypeInv, OpsShape, Live, OpIds
  <2>4. Created(nextOp)
    BY <1>4, <2>1, <2>2, <2>3 DEF Created
  <2> QED  BY <1>0, <2>1, <2>2, <2>4 DEF Live, Steady
<1>5. CASE BeginCycle \/ RecoverBlocked \/ RecoverPlanned
  BY <1>1, <1>5 DEF BeginCycle, RecoverBlocked, RecoverPlanned, storeVars
<1>6. CASE RecoverStarted
  <2>1. PICK o \in queue : /\ journal[o].phase \in {"running", "recovering"}
                          /\ journal' = [journal EXCEPT ![o].phase = "recovering"]
    BY <1>6 DEF RecoverStarted
  <2>2. o \in OpIds /\ o \in Live /\ Started(journal[o]) /\ nextOp' = nextOp
    BY <1>0, <1>6, <2>1 DEF TypeInv, TypeOK, DaemonTypeOK, WorkerOK, Started, RecoverStarted
  <2> QED  BY <1>3, <2>1, <2>2
<1>7. CASE ScanLocal \/ PlanPass \/ DecidePass \/ \E p \in Paths : RecordPath(p)
  BY <1>1, <1>7 DEF ScanLocal, PlanPass, DecidePass, RecordPath, storeVars
<1>8. ASSUME NEW p \in Paths, Dispatch(p) PROVE Goal
  <2> DEFINE op == NewOp(plan[p].kind, p, seen.local[p], seen.remote[p], FALSE)
  <2>1. op.phase = "planned" /\ plan[p].kind \in ExternalKinds
    BY <1>8 DEF Dispatch, External, NewOp
  <2>2. CreateOperation(op) /\ pc = "dispatch" /\ cur' = nextOp
    BY <1>8 DEF Dispatch
  <2> HIDE DEF op
  <2>3. \E q \in Paths : /\ plan[q].kind \in ExternalKinds
                         /\ op = NewOp(plan[q].kind, q, seen.local[q], seen.remote[q], FALSE)
    BY <2>1 DEF op
  <2> QED  BY <1>4, <2>1, <2>2, <2>3
<1>9. CASE CallFails /\ pc \notin OpPcs
  BY <1>1, <1>9 DEF CallFails, OpPcs
<1>10. CASE Crash \/ Start \/ UserNext \/ UNCHANGED vars
  BY <1>1, <1>10
     DEF Crash, Start, UserNext, LocalPut, LocalWrite, LocalRemove, RemotePut, RemoteRemove, Edit,
         vars, storeVars
<1>11. CASE SetEnabled \/ \E p \in Paths, keepLocal \in BOOLEAN : CheckResolve(p, keepLocal)
  BY <1>1, <1>11 DEF SetEnabled, CheckResolve, storeVars
<1>12. CASE QueueResolve
  <2>1. cli # Absent /\ cli.phase = "planned" /\ CreateOperation(cli)
    BY <1>0, <1>12 DEF QueueResolve, TypeInv, OpsShape
  <2>2. \/ cli = cli /\ cli # Absent
        \/ /\ pc = "dispatch" /\ cur' = nextOp
           /\ \E p \in Paths :
                /\ plan[p].kind \in ExternalKinds
                /\ cli = NewOp(plan[p].kind, p, seen.local[p], seen.remote[p], FALSE)
    BY <2>1
  <2> QED  BY <1>4, <2>1, <2>2
<1>13. ASSUME NEW o \in OpIds, ResolveRetry(o) \/ ResolveRestore(o) PROVE Goal
  <2>1. /\ o \in Live /\ nextOp' = nextOp /\ Started(journal[o])
        /\ journal' = [journal EXCEPT ![o].phase = "recovering"]
    BY <1>13 DEF ResolveRetry, ResolveRestore, Started
  <2> QED  BY <1>3, <2>1
<1>14. CASE DaemonNext
  <2>1. CASE RecoveryStep
    BY <1>2, <1>5, <1>6, <2>1 DEF RecoveryStep, StepInHand
  <2>2. CASE ExecutionStep
    BY <1>2, <2>2 DEF StepInHand
  <2>3. CASE PassStep
    BY <1>7, <1>8, <2>3 DEF PassStep
  <2>4. CASE CallFails
    BY <1>2, <1>9, <2>4 DEF StepInHand
  <2> QED  BY <1>14, <2>1, <2>2, <2>3, <2>4 DEF DaemonNext, WorkerStep
<1> QED  BY <1>10, <1>11, <1>12, <1>13, <1>14 DEF Next, CliNext

\* A remote file stays, is deleted, or gets a new revision; its ID is kept as
\* long as there is a file, and never used again.
RemoteMoves ==
  \A p \in Paths : \/ remote'[p] = remote[p]
                   \/ remote'[p] = Absent
                   \/ /\ tick' = tick + 1 /\ remote'[p] # Absent /\ remote'[p].rev = tick + 1
                      /\ remote'[p].id = IF remote[p] = Absent THEN tick + 1 ELSE remote[p].id

LEMMA RemoteStep == ASSUME TypeInv, [Next]_vars PROVE RemoteMoves
<1>1. remote \in [Paths -> RemoteFiles \union {Absent}] /\ tick \in Nat
  BY DEF TypeInv, TypeOK, WorldTypeOK
<1>2. pc \in OpPcs => Op.path \in Paths /\ (pc = "upload" => Op.expLocal \in LocalPrints)
  BY CurrentOp DEF TypeInv, WorkerOK, WellFormed, Op, Operations
<1>3. ASSUME NEW p \in Paths, NEW ver \in Versions, tick' = tick + 1,
             remote' = [remote EXCEPT ![p] = Uploaded(ver, remote[p], tick + 1)]
      PROVE  RemoteMoves
  <2>1. Uploaded(ver, remote[p], tick + 1) # Absent
    BY <1>1, UploadedType, AbsentAssumption
  <2> QED  BY <1>1, <1>3, <2>1 DEF RemoteMoves, Uploaded
<1>4. ASSUME NEW p \in Paths, remote' = [remote EXCEPT ![p] = Absent] PROVE RemoteMoves
  BY <1>1, <1>4 DEF RemoteMoves
<1>5. CASE UNCHANGED remote
  BY <1>5 DEF RemoteMoves
<1>6. CASE Upload
  <2>1. Op.path \in Paths /\ Op.expLocal.ver \in Versions
    BY <1>2, <1>6 DEF Upload, OpPcs, Executing, LocalPrints
  <2> QED  BY <1>3, <1>6, <2>1 DEF Upload
<1>7. CASE RemoteDelete
  BY <1>2, <1>4, <1>7 DEF RemoteDelete, OpPcs, Executing
<1>8. CASE ExecutionStep
  BY <1>5, <1>6, <1>7, <1>8
     DEF ExecutionStep, BeginRemote, UploadRefused, RemoteDeleteRefused, Download, BeginLocal,
         Preserve, Validate, Install, Restore, Drop, Observe, Settle, worldVars
<1>9. CASE RecoveryStep \/ PassStep \/ CallFails \/ Crash \/ Start \/ CliNext \/ UNCHANGED vars
  BY <1>5, <1>9
     DEF RecoveryStep, BeginCycle, RecoverBlocked, RecoverPlanned, RecoverStarted, Pin,
         CheckPlanned, Prove, FetchPinned, ComparePinned, Cleanup, Commit, Retry, PassStep,
         ScanLocal, PlanPass, DecidePass, RecordPath, Dispatch, CallFails, Crash, Start,
         CliNext, SetEnabled, QueueResolve, CheckResolve, ResolveRetry, ResolveRestore, vars,
         worldVars
<1>10. CASE UserNext
  BY <1>3, <1>4, <1>5, <1>10
     DEF UserNext, LocalPut, LocalWrite, LocalRemove, RemotePut, RemoteRemove
<1> QED  BY <1>8, <1>9, <1>10 DEF Next, DaemonNext, WorkerStep

(***************************************************************************)
(* How often an operation takes effect                                     *)
(***************************************************************************)

\* Every ID and revision anybody remembers was given out.
KnownRemote(e) == e # Absent => e.id <= tick /\ e.rev <= tick

RevisionsInv ==
  /\ \A p \in Paths : /\ KnownRemote(remote[p]) /\ KnownRemote(seen.remote[p])
                      /\ KnownRemote(conflicts[p].remote)
  /\ \A o \in Live : KnownRemote(journal[o].expRemote)
  /\ cli # Absent => KnownRemote(cli.expRemote)

\* The operation replaces or removes what it expects to find.
Replaces(op) == IF LocalMutation(op) THEN op.expLocal # Absent ELSE op.expRemote # Absent

\* What it was to replace or remove is not there any more.
Spent(op) ==
  CASE op.kind \in {"ensure-local", "delete-local"} -> op.pin \in 1..tick /\ Gone(op.pin)
    [] op.kind = "ensure-remote" -> ~MatchesExpectation(remote[op.path], op.expRemote)
    [] op.kind = "delete-remote" ->
         remote[op.path] = Absent \/ remote[op.path].id # op.expRemote.id

AppliedInv ==
  /\ \A o \in applied : o < nextOp /\ slot[o] = Absent
  /\ \A o \in applied \intersect Live :
       Started(journal[o]) /\ (Replaces(journal[o]) => Spent(journal[o]))

\* What the worker has made sure of where it is.
StepInv ==
  /\ pc \in {"exec", "begin", "preserve"} /\ LocalMutation(Op) /\ Op.expLocal # Absent
       => cur \notin applied
  /\ pc \in {"exec", "begin"} /\ LocalMutation(Op) => slot[cur] = Absent
  /\ pc = "preserve" => Op.expLocal # Absent
  /\ pc \in {"validate", "restore", "drop"} => slot[cur] # Absent
  /\ pc = "install" => IF slot[cur] = Absent THEN Op.expLocal = Absent ELSE slot[cur].ino = Op.pin
  /\ pc = "drop" => slot[cur].ino = Op.pin
  /\ pc = "remoteDelete" => Op.kind = "delete-remote"

EffectInv ==
  OwnerInv /\ OrderInv /\ ObjectsInv /\ RevisionsInv /\ AppliedInv /\ StepInv

\* An expectation is as old as what it was taken from.
LEMMA KnownExpectation ==
  ASSUME NEW r \in RemoteFiles \union {Absent}, KnownRemote(r)
  PROVE  KnownRemote(Expectation(r))
BY Prints DEF KnownRemote, Expectation

\* Where the snapshot and the conflict records come from.
LEMMA SnapshotStep ==
  ASSUME TypeInv, [Next]_vars
  PROVE  /\ \A p \in Paths : seen'.remote[p] \in {seen.remote[p], remote[p], Absent}
         /\ \A p \in Paths : \/ conflicts'[p] = conflicts[p]
                             \/ conflicts'[p].remote \in {seen.remote[p], Absent}
         /\ \/ cli' = cli \/ cli' = Absent
            \/ \E p \in Paths : /\ cli'.expRemote = Expectation(conflicts[p].remote)
                                /\ cli'.resolves
<1>0. /\ NoSnapshot.remote = [p \in Paths |-> Absent]
      /\ conflicts \in [Paths -> [kind : ConflictKinds \union {"none"},
                                  local : LocalPrints \union {Absent},
                                  remote : RemoteFiles \union {Absent}]]
      /\ seen \in [local : [Paths -> LocalPrints \union {Absent}],
                   remote : [Paths -> RemoteFiles \union {Absent}]]
      /\ remote \in [Paths -> RemoteFiles \union {Absent}]
  BY DEF NoSnapshot, TypeInv, TypeOK, StoreTypeOK, WorldTypeOK, DaemonTypeOK
<1> DEFINE FromSeen == \A p \in Paths : seen'.remote[p] \in {seen.remote[p], remote[p], Absent}
           FromConflicts == \A p \in Paths : \/ conflicts'[p] = conflicts[p]
                                             \/ conflicts'[p].remote \in {seen.remote[p], Absent}
           FromCli == \/ cli' = cli \/ cli' = Absent
                      \/ \E p \in Paths : /\ cli'.expRemote = Expectation(conflicts[p].remote)
                                          /\ cli'.resolves
<1>1. (UNCHANGED seen \/ seen' = NoSnapshot) => FromSeen
  BY <1>0
<1>2. UNCHANGED conflicts => FromConflicts
  OBVIOUS
<1>3. EndCycle \/ (\E n \in Nat : BeginPass(n)) => FromSeen
  BY <1>1 DEF EndCycle, BeginPass
<1>4. CASE StepInHand
  <2>1. /\ UNCHANGED <<conflicts, cli>>
    BY <1>4
       DEF StepInHand, ExecutionStep, Pin, CheckPlanned, Prove, FetchPinned, ComparePinned,
           Cleanup, Commit, Retry, BeginRemote, Upload, UploadRefused, RemoteDelete,
           RemoteDeleteRefused, Download, BeginLocal, Preserve, Validate, Install, Restore,
           Drop, Observe, Settle, CallFails, storeVars
  <2>2. \/ UNCHANGED seen \/ EndCycle \/ FinishedOp
        \/ pass = 0 /\ RecoveredOp(cur)
    BY <1>4
       DEF StepInHand, ExecutionStep, Pin, CheckPlanned, Prove, FetchPinned, ComparePinned,
           Cleanup, Commit, Retry, BeginRemote, Upload, UploadRefused, RemoteDelete,
           RemoteDeleteRefused, Download, BeginLocal, Preserve, Validate, Install, Restore,
           Drop, Observe, Settle, CallFails, Goto, Stay, GiveUp, Fail, CommitBaseline, TypeInv,
           WorkerOK
  <2>3. FinishedOp \/ RecoveredOp(cur) => UNCHANGED seen \/ seen' = NoSnapshot
    BY DEF FinishedOp, RecoveredOp, DispatchedOp, BeginPass, EndCycle
  <2>4. FromSeen
    BY <1>1, <1>3, <2>2, <2>3
  <2> QED  BY <1>2, <2>1, <2>4
<1>5. CASE BeginCycle \/ RecoverBlocked \/ RecoverPlanned \/ RecoverStarted
           \/ (CallFails /\ pc \notin OpPcs) \/ Crash \/ Start
  <2>1. UNCHANGED <<conflicts, cli>>
    BY <1>5
       DEF BeginCycle, RecoverBlocked, RecoverPlanned, RecoverStarted, CallFails, Crash, Start,
           storeVars
  <2>2. UNCHANGED seen \/ seen' = NoSnapshot
    BY <1>5
       DEF BeginCycle, RecoverBlocked, RecoverPlanned, RecoverStarted, CallFails, Crash, Start,
           EndCycle, BeginPass
  <2> QED  BY <1>1, <1>2, <2>1, <2>2
<1>6. CASE ScanLocal \/ DecidePass
  <2>1. UNCHANGED <<conflicts, cli>>
    BY <1>6 DEF ScanLocal, DecidePass, storeVars
  <2>2. FromSeen
    <3>1. CASE seen' = [seen EXCEPT !.local = [p \in Paths |-> LocalPrint(local[p])]]
      BY <1>0, <3>1
    <3> QED  BY <1>1, <1>3, <1>6, <3>1 DEF ScanLocal, DecidePass, Goto, Stay
  <2> QED  BY <1>2, <2>1, <2>2
<1>7. CASE PlanPass
  <2>1. UNCHANGED <<conflicts, cli>>
    BY <1>7 DEF PlanPass, storeVars
  <2>2. EndCycle \/ seen' = [seen EXCEPT !.remote = remote]
    BY <1>7 DEF PlanPass
  <2>3. FromSeen
    BY <1>0, <1>3, <2>2
  <2> QED  BY <1>2, <2>1, <2>3
<1>8. ASSUME NEW q \in Paths, RecordPath(q) PROVE FromSeen /\ FromConflicts /\ FromCli
  <2>1. /\ UNCHANGED <<seen, cli>>
        /\ conflicts' = [conflicts EXCEPT ![q] =
                           IF plan[q].kind = "conflict"
                             THEN [kind |-> plan[q].conflict, local |-> seen.local[q],
                                   remote |-> seen.remote[q]]
                             ELSE NoConflict]
    BY <1>8 DEF RecordPath
  <2>2. FromConflicts
    BY <1>0, <2>1 DEF NoConflict
  <2> QED  BY <1>1, <2>1, <2>2
<1>9. ASSUME NEW q \in Paths, Dispatch(q) PROVE FromSeen /\ FromConflicts /\ FromCli
  BY <1>1, <1>2, <1>9 DEF Dispatch
<1>10. CASE CliNext
  <2>1. UNCHANGED <<seen, conflicts>>
    BY <1>10 DEF CliNext, SetEnabled, QueueResolve, CheckResolve, ResolveRetry, ResolveRestore,
                 daemonVars, storeVars
  <2>2. FromCli
    BY <1>10 DEF CliNext, SetEnabled, QueueResolve, CheckResolve, ResolveRetry, ResolveRestore,
                 NewOp
  <2> QED  BY <1>1, <1>2, <2>1, <2>2
<1>11. CASE UserNext \/ UNCHANGED vars
  <2>1. UNCHANGED <<seen, conflicts, cli>>
    BY <1>11 DEF UserNext, LocalPut, LocalWrite, LocalRemove, RemotePut, RemoteRemove, Edit,
                 vars, daemonVars, storeVars
  <2> QED  BY <1>1, <1>2, <2>1
<1>12. CASE DaemonNext
  <2>1. CASE RecoveryStep \/ ExecutionStep \/ CallFails
    BY <1>4, <1>5, <2>1 DEF RecoveryStep, StepInHand
  <2>2. CASE PassStep
    BY <1>6, <1>7, <1>8, <1>9, <2>2 DEF PassStep
  <2> QED  BY <1>12, <2>1, <2>2 DEF DaemonNext, WorkerStep
<1> QED  BY <1>5, <1>10, <1>11, <1>12 DEF Next

LEMMA RevisionsStep ==
  ASSUME OwnerInv, OrderInv, RevisionsInv, [Next]_vars,
         tick \in Nat, tick' \in Nat, tick <= tick'
  PROVE  RevisionsInv'
<1>0. /\ TypeInv /\ remote \in [Paths -> RemoteFiles \union {Absent}]
      /\ seen.remote \in [Paths -> RemoteFiles \union {Absent}]
      /\ \A p \in Paths : conflicts[p].remote \in RemoteFiles \union {Absent}
      /\ \A o \in Live : journal[o].expRemote \in Expectations \union {Absent}
      /\ cli # Absent => cli.expRemote \in Expectations \union {Absent}
  BY DEF OwnerInv, TypeInv, TypeOK, StoreTypeOK, WorldTypeOK, DaemonTypeOK, Live, Operations
<1> DEFINE After(e) == e # Absent => e.id <= tick' /\ e.rev <= tick'
<1>1. ASSUME NEW e \in RemoteFiles \union Expectations \union {Absent}, KnownRemote(e)
      PROVE  After(e)
  BY <1>1 DEF KnownRemote, RemoteFiles, Expectations
<1>2. \A p \in Paths : KnownRemote(remote[p])'
  <2> SUFFICES ASSUME NEW p \in Paths PROVE KnownRemote(remote[p])'
    OBVIOUS
  <2>1. RemoteMoves /\ KnownRemote(remote[p])
    BY <1>0, RemoteStep DEF RevisionsInv
  <2> QED  BY <1>0, <1>1, <2>1 DEF RemoteMoves, KnownRemote, RemoteFiles
<1>3. \A p \in Paths : KnownRemote(seen.remote[p])'
  BY <1>0, <1>1, SnapshotStep DEF RevisionsInv, KnownRemote
<1>4. \A p \in Paths : KnownRemote(conflicts[p].remote)'
  <2> SUFFICES ASSUME NEW p \in Paths PROVE KnownRemote(conflicts[p].remote)'
    OBVIOUS
  <2>1. conflicts'[p] = conflicts[p] \/ conflicts'[p].remote \in {seen.remote[p], Absent}
    BY <1>0, SnapshotStep
  <2> QED  BY <1>0, <1>1, <2>1 DEF RevisionsInv, KnownRemote
<1>5. \A o \in Live' : KnownRemote(journal[o].expRemote)'
  <2> SUFFICES ASSUME NEW o \in Live' PROVE After(journal'[o].expRemote)
    BY DEF KnownRemote
  <2>1. CASE o \in Live /\ Steady(journal'[o], journal[o])
    BY <1>0, <1>1, <2>1 DEF Steady, RevisionsInv, KnownRemote
  <2>2. CASE Created(o)
    <3>1. CASE cli # Absent /\ journal'[o] = cli
      BY <1>0, <1>1, <3>1 DEF RevisionsInv, KnownRemote
    <3>2. ASSUME NEW p \in Paths,
                 journal'[o] = NewOp(plan[p].kind, p, seen.local[p], seen.remote[p], FALSE)
          PROVE  After(journal'[o].expRemote)
      <4>1. journal'[o].expRemote = Expectation(seen.remote[p])
        BY <3>2 DEF NewOp
      <4>2. Expectation(seen.remote[p]) \in Expectations \union {Absent}
            /\ KnownRemote(Expectation(seen.remote[p]))
        BY <1>0, Prints, KnownExpectation DEF RevisionsInv
      <4> QED  BY <1>1, <4>1, <4>2 DEF KnownRemote
    <3> QED  BY <2>2, <3>1, <3>2 DEF Created
  <2> QED  BY <2>1, <2>2, JournalStep
<1>6. cli' # Absent => KnownRemote(cli.expRemote)'
  <2> SUFFICES ASSUME cli' # Absent PROVE After(cli'.expRemote)
    BY DEF KnownRemote
  <2>1. CASE cli' = cli
    BY <1>0, <1>1, <2>1 DEF RevisionsInv, KnownRemote
  <2>2. ASSUME NEW p \in Paths, cli'.expRemote = Expectation(conflicts[p].remote)
        PROVE  After(cli'.expRemote)
    <3>1. /\ Expectation(conflicts[p].remote) \in Expectations \union {Absent}
          /\ KnownRemote(Expectation(conflicts[p].remote))
      BY <1>0, Prints, KnownExpectation DEF RevisionsInv
    <3> QED  BY <1>1, <2>2, <3>1 DEF KnownRemote
  <2> QED  BY <1>0, <2>1, <2>2, SnapshotStep
<1> QED  BY <1>2, <1>3, <1>4, <1>5, <1>6 DEF RevisionsInv

\* Something is put in a recovery slot only when a local file is moved aside.
LEMMA SlotStep ==
  ASSUME OwnerInv, [Next]_vars, ~Preserve PROVE NothingPreserved
<1>0. TypeInv /\ slot \in [OpIds -> LocalFiles \union {Absent}]
      /\ (pc \in OpPcs => cur \in OpIds)
  BY CurrentOp DEF OwnerInv, TypeInv, TypeOK, WorldTypeOK
<1>1. CASE UNCHANGED slot
  BY <1>1 DEF NothingPreserved
<1>2. ASSUME NEW o \in OpIds, slot' = [slot EXCEPT ![o] = Absent] PROVE NothingPreserved
  BY <1>0, <1>2 DEF NothingPreserved
<1>3. CASE pc \in OpPcs /\ RestoreSlot
  BY <1>0, <1>1, <1>2, <1>3 DEF RestoreSlot
<1>4. CASE RecoveryStep
  BY <1>0, <1>1, <1>2, <1>4
     DEF RecoveryStep, BeginCycle, RecoverBlocked, RecoverPlanned, RecoverStarted, Pin,
         CheckPlanned, Prove, FetchPinned, ComparePinned, Cleanup, Commit, Retry, worldVars, OpPcs
<1>5. CASE ExecutionStep
  BY <1>0, <1>1, <1>2, <1>3, <1>5
     DEF ExecutionStep, BeginRemote, Upload, UploadRefused, RemoteDelete, RemoteDeleteRefused,
         Download, BeginLocal, Validate, Install, Restore, Drop, Observe, Settle, worldVars,
         OpPcs, Executing
<1>6. CASE PassStep \/ Crash \/ Start \/ UserNext \/ UNCHANGED vars
  BY <1>1, <1>6
     DEF PassStep, ScanLocal, PlanPass, DecidePass, RecordPath, Dispatch, Crash, Start, UserNext,
         LocalPut, LocalWrite, LocalRemove, RemotePut, RemoteRemove, Edit, vars, worldVars
<1>7. CASE CallFails
  BY <1>1, <1>3, <1>7 DEF CallFails, OpPcs, Executing
<1>8. CASE CliNext
  BY <1>1, <1>2, <1>8
     DEF CliNext, SetEnabled, QueueResolve, CheckResolve, ResolveRetry, ResolveRestore, worldVars
<1> QED  BY <1>4, <1>5, <1>6, <1>7, <1>8 DEF Next, DaemonNext, WorkerStep

\* The step completes the effect of the current operation.
Completes == applied' = applied \union {cur} /\ pc \in OpPcs

\* An effect is complete when an upload or a delete got through, when what was
\* moved aside is removed, or when a download is installed and nothing was.
CompletingStep ==
  \/ Upload \/ RemoteDelete \/ Drop
  \/ /\ Cleanup /\ slot[cur] # Absent /\ slot[cur].ino = Op.pin
     /\ slot' = [slot EXCEPT ![cur] = Absent]
  \/ Install /\ slot[cur] = Absent /\ UNCHANGED slot

LEMMA AppliedSource ==
  ASSUME [Next]_vars PROVE UNCHANGED applied \/ (Completes /\ CompletingStep)
<1>1. CASE Upload \/ RemoteDelete \/ Drop
  BY <1>1 DEF Upload, RemoteDelete, Drop, Completes, CompletingStep, OpPcs, Executing
<1>2. CASE Cleanup \/ Install
  BY <1>2 DEF Cleanup, Install, Completes, CompletingStep, OpPcs, Executing
<1>3. CASE RecoveryStep
  BY <1>2, <1>3
     DEF RecoveryStep, BeginCycle, RecoverBlocked, RecoverPlanned, RecoverStarted, Pin,
         CheckPlanned, Prove, FetchPinned, ComparePinned, Commit, Retry
<1>4. CASE ExecutionStep
  BY <1>1, <1>2, <1>4
     DEF ExecutionStep, BeginRemote, UploadRefused, RemoteDeleteRefused, Download, BeginLocal,
         Preserve, Validate, Restore, Observe, Settle
<1>5. CASE PassStep \/ CallFails \/ Crash \/ Start \/ CliNext \/ UserNext \/ UNCHANGED vars
  BY <1>5
     DEF PassStep, ScanLocal, PlanPass, DecidePass, RecordPath, Dispatch, CallFails, Crash, Start,
         CliNext, SetEnabled, QueueResolve, CheckResolve, ResolveRetry, ResolveRestore, UserNext,
         LocalPut, LocalWrite, LocalRemove, RemotePut, RemoteRemove, Edit, vars
<1> QED  BY <1>3, <1>4, <1>5 DEF Next, DaemonNext, WorkerStep

\* What is spent stays spent.
LEMMA SpentStays ==
  ASSUME StaysGone, RemoteMoves, tick \in Nat, tick' \in Nat, tick <= tick',
         remote \in [Paths -> RemoteFiles \union {Absent}],
         NEW op \in Operations, KnownRemote(op.expRemote), Replaces(op), Spent(op)
  PROVE  Spent(op)'
<1>1. CASE op.kind \in {"ensure-local", "delete-local"}
  <2>1. op.pin \in 1..tick /\ Gone(op.pin)
    BY <1>1 DEF Spent
  <2>2. op.pin \in 1..tick' /\ Gone(op.pin)'
    BY <2>1 DEF StaysGone
  <2> QED  BY <1>1, <2>2 DEF Spent
<1>2. CASE op.kind \in {"ensure-remote", "delete-remote"}
  <2>1. op.path \in Paths /\ op.expRemote \in Expectations
    BY <1>2 DEF Operations, Replaces, LocalMutation
  <2>2. remote[op.path] \in RemoteFiles \union {Absent}
    BY <2>1
  <2>3. \/ remote'[op.path] = remote[op.path]
        \/ remote'[op.path] = Absent
        \/ /\ remote'[op.path] # Absent /\ remote'[op.path].rev = tick + 1
           /\ remote'[op.path].id = IF remote[op.path] = Absent THEN tick + 1
                                                               ELSE remote[op.path].id
    BY <2>1 DEF RemoteMoves
  <2>4. op.expRemote # Absent /\ op.expRemote.id <= tick /\ op.expRemote.rev <= tick
        /\ op.expRemote.id \in Nat /\ op.expRemote.rev \in Nat
    BY <2>1, AbsentAssumption DEF KnownRemote, Expectations
  <2>5. CASE op.kind = "ensure-remote"
    <3>1. Expectation(remote[op.path]) # op.expRemote
      BY <2>5 DEF Spent, MatchesExpectation
    <3>2. Expectation(remote'[op.path]) # op.expRemote
      BY <2>2, <2>3, <2>4, <3>1 DEF Expectation
    <3> QED  BY <2>5, <3>2 DEF Spent, MatchesExpectation, Expectation
  <2>6. CASE op.kind = "delete-remote"
    <3>1. remote[op.path] = Absent \/ remote[op.path].id # op.expRemote.id
      BY <2>6 DEF Spent
    <3>2. remote'[op.path] = Absent \/ remote'[op.path].id # op.expRemote.id
      BY <2>2, <2>3, <2>4, <3>1
    <3> QED  BY <2>6, <3>2 DEF Spent
  <2> QED  BY <1>2, <2>5, <2>6
<1> QED  BY <1>1, <1>2 DEF Operations, ExternalKinds

\* An operation whose effect is completed by this step is spent by it.
LEMMA CompletedSpent ==
  ASSUME EffectInv, [Next]_vars, Completes, CompletingStep, NEW o \in OpIds, o = cur
  PROVE  /\ o < nextOp /\ slot'[o] = Absent
         /\ o \in Live' => Started(journal'[o]) /\ (Replaces(journal[o])' => Spent(journal[o])')
<1>0. /\ OwnerInv /\ TypeInv /\ StageOK /\ OrderInv /\ ObjectsInv /\ RevisionsInv /\ StepInv
      /\ pc \in OpPcs /\ o \in Live /\ Op = journal[o]
      /\ Op \in Operations /\ Op.path \in Paths
  BY CurrentOp DEF EffectInv, OwnerInv, Completes, Op
<1>1. /\ slot \in [OpIds -> LocalFiles \union {Absent}] /\ tick \in Nat
      /\ local \in [Paths -> LocalFiles \union {Absent}]
      /\ remote \in [Paths -> RemoteFiles \union {Absent}]
  BY <1>0 DEF TypeInv, TypeOK, WorldTypeOK
<1>2. o < nextOp
  BY <1>0 DEF TypeInv, OpsShape
<1>3. StepInHand
  BY DEF CompletingStep, StepInHand, ExecutionStep
<1>4. o \in Live' => Steady(journal'[o], Op)
  BY <1>0, <1>3, InHandSteady DEF Live
<1>5. Started(Op)
  BY <1>0 DEF CompletingStep, Upload, RemoteDelete, Drop, Cleanup, Install, StageOK, Sending,
              Moving
<1>6. o \in Live' => /\ Started(journal'[o]) /\ journal'[o].pin = Op.pin
                     /\ journal'[o].kind = Op.kind /\ journal'[o].path = Op.path
                     /\ journal'[o].expRemote = Op.expRemote
                     /\ Replaces(journal'[o]) <=> Replaces(Op)
  BY <1>4, <1>5 DEF Steady, Replaces, LocalMutation
<1>7. ASSUME LocalMutation(Op), slot[o] # Absent, slot[o].ino = Op.pin,
             slot' = [slot EXCEPT ![o] = Absent], UNCHANGED <<local, tick>>
      PROVE  slot'[o] = Absent /\ (o \in Live' => Spent(journal[o])')
  <2>1. /\ slot'[o] = Absent /\ \A u \in OpIds : u # o => slot'[u] = slot[u]
    BY <1>0, <1>1, <1>7
  <2>2. PICK n \in Nat : n = Op.pin
    BY <1>0 DEF Operations
  <2>3. n \in 1..tick /\ Gone(n)'
    BY <1>0, <1>7, <2>1, <2>2 DEF ObjectsInv, Dated, Distinct, Gone
  <2>4. o \in Live' => Spent(journal[o])'
    BY <1>6, <1>7, <2>2, <2>3 DEF Spent, LocalMutation, Gone
  <2> QED  BY <2>1, <2>4
<1>8. CASE Upload
  <2>1. Op.kind = "ensure-remote" /\ ~LocalMutation(Op) /\ UNCHANGED slot
    BY <1>0, <1>8 DEF Upload, TypeInv, WorkerOK, LocalMutation, Op
  <2>2. slot'[o] = Absent
    BY <1>0, <2>1 DEF OwnerInv, PreservedHasOwner, OwnsRecoverySlot
  <2>3. remote'[Op.path].rev = tick + 1 /\ remote'[Op.path] # Absent
    <3>1. Op.expLocal.ver \in Versions
      BY <1>0, <2>1 DEF TypeInv, OpsShape, WellFormed, Operations, LocalPrints
    <3>2. Uploaded(Op.expLocal.ver, remote[Op.path], tick + 1) # Absent
      BY <1>0, <1>1, <3>1, UploadedType, AbsentAssumption
    <3> QED  BY <1>0, <1>1, <1>8, <3>2 DEF Upload, Uploaded
  <2>4. ASSUME o \in Live', Replaces(Op) PROVE Spent(journal[o])'
    <3>1. Op.expRemote # Absent /\ Op.expRemote.rev <= tick /\ Op.expRemote.rev \in Nat
      BY <1>0, <2>1, <2>4 DEF Replaces, RevisionsInv, KnownRemote, Operations, Expectations
    <3>2. Expectation(remote'[Op.path]) # Op.expRemote
      BY <1>1, <2>3, <3>1 DEF Expectation
    <3>3. ~MatchesExpectation(remote[journal[o].path], journal[o].expRemote)'
      BY <1>6, <2>4, <3>2 DEF MatchesExpectation, Expectation
    <3> QED  BY <1>6, <2>1, <2>4, <3>3 DEF Spent
  <2> QED  BY <1>2, <1>6, <2>2, <2>4
<1>9. CASE RemoteDelete
  <2>1. Op.kind = "delete-remote" /\ ~LocalMutation(Op) /\ UNCHANGED slot
    BY <1>0, <1>9 DEF RemoteDelete, StepInv, LocalMutation
  <2>2. slot'[o] = Absent
    BY <1>0, <2>1 DEF OwnerInv, PreservedHasOwner, OwnsRecoverySlot
  <2>3. remote'[Op.path] = Absent
    BY <1>0, <1>1, <1>9 DEF RemoteDelete
  <2>4. o \in Live' => Spent(journal[o])'
    BY <1>6, <2>1, <2>3 DEF Spent
  <2> QED  BY <1>2, <1>6, <2>2, <2>4
<1>10. CASE Drop
  <2>1. /\ slot[o] # Absent /\ slot[o].ino = Op.pin /\ LocalMutation(Op)
        /\ slot' = [slot EXCEPT ![o] = Absent] /\ UNCHANGED <<local, tick>>
    BY <1>0, <1>10 DEF Drop, StepInv, StageOK, Moving
  <2> QED  BY <1>2, <1>6, <1>7, <2>1
<1>11. CASE /\ Cleanup /\ slot[cur] # Absent /\ slot[cur].ino = Op.pin
            /\ slot' = [slot EXCEPT ![cur] = Absent]
  <2>1. LocalMutation(Op) /\ UNCHANGED <<local, tick>>
    BY <1>0, <1>11 DEF OwnerInv, PreservedHasOwner, OwnsRecoverySlot, Cleanup
  <2> QED  BY <1>2, <1>6, <1>7, <1>11, <2>1
<1>12. CASE Install /\ slot[cur] = Absent /\ UNCHANGED slot
  <2>1. LocalMutation(Op) /\ ~Replaces(Op)
    BY <1>0, <1>12 DEF Install, StepInv, StageOK, Moving, Replaces
  <2> QED  BY <1>2, <1>6, <1>12, <2>1
<1> QED  BY <1>8, <1>9, <1>10, <1>11, <1>12 DEF CompletingStep

\* The effects that are complete stay complete, whatever happens next.
LEMMA AppliedStep ==
  ASSUME EffectInv, [Next]_vars PROVE AppliedInv'
<1>0. /\ OwnerInv /\ TypeInv /\ StageOK /\ OrderInv /\ ObjectsInv /\ RevisionsInv
      /\ StepInv /\ AppliedInv
      /\ slot \in [OpIds -> LocalFiles \union {Absent}]
      /\ remote \in [Paths -> RemoteFiles \union {Absent}]
      /\ nextOp \in Nat /\ nextOp' \in Nat /\ nextOp <= nextOp' /\ applied \subseteq OpIds
  BY JournalStep DEF EffectInv, OwnerInv, TypeInv, TypeOK, StoreTypeOK, WorldTypeOK
<1>1. StaysGone /\ RemoteMoves /\ tick \in Nat /\ tick' \in Nat /\ tick <= tick'
  BY <1>0, ObjectsStep, RemoteStep DEF TypeInv, TypeOK, WorldTypeOK
<1> SUFFICES ASSUME NEW o \in applied'
             PROVE  /\ o < nextOp' /\ slot'[o] = Absent
                    /\ o \in Live' =>
                         Started(journal'[o]) /\ (Replaces(journal[o])' => Spent(journal[o])')
  BY DEF AppliedInv, Replaces, LocalMutation, Started
<1>2. CASE o \in applied
  <2>1. o \in OpIds /\ o < nextOp /\ slot[o] = Absent
    BY <1>0, <1>2 DEF AppliedInv
  <2>2. o < nextOp'
    BY <1>0, <2>1 DEF OpIds
  <2>3. slot'[o] = Absent
    <3>1. CASE Preserve
      <4>1. cur \in OpIds /\ o # cur
        BY <1>0, <1>2, <3>1, CurrentOp
           DEF Preserve, StepInv, StageOK, Moving, OpPcs, Executing
      <4>2. slot' = [slot EXCEPT ![cur] = local[Op.path]] \/ UNCHANGED slot
        BY <3>1 DEF Preserve
      <4> QED  BY <1>0, <2>1, <4>1, <4>2
    <3> QED  BY <1>0, <2>1, <3>1, SlotStep DEF NothingPreserved
  <2>4. ASSUME o \in Live'
        PROVE  Started(journal'[o]) /\ (Replaces(journal[o])' => Spent(journal[o])')
    <3>1. o \in Live /\ Steady(journal'[o], journal[o])
      <4>1. (o \in Live /\ Steady(journal'[o], journal[o])) \/ Created(o)
        BY <1>0, <2>4, JournalStep
      <4>2. Created(o) => o = nextOp
        BY Zenon DEF Created
      <4>3. o # nextOp
        BY <1>0, <2>1
      <4> QED  BY <4>1, <4>2, <4>3
    <3>2. PICK op \in Operations : op = journal[o]
      BY <1>0, <3>1 DEF TypeInv, TypeOK, StoreTypeOK, Live
    <3>3. Started(op) /\ (Replaces(op) => Spent(op)) /\ KnownRemote(op.expRemote)
      BY <1>0, <1>2, <3>1, <3>2 DEF AppliedInv, RevisionsInv
    <3>4. /\ journal'[o].kind = op.kind /\ journal'[o].path = op.path
          /\ journal'[o].expLocal = op.expLocal /\ journal'[o].expRemote = op.expRemote
          /\ journal'[o].pin = op.pin /\ Started(journal'[o])
      BY <3>1, <3>2, <3>3 DEF Steady
    <3>5. Replaces(op) => Spent(op)'
      BY <1>0, <1>1, <3>3, SpentStays
    <3>6. Replaces(journal[o])' => Replaces(op)
      BY <3>4 DEF Replaces, LocalMutation
    <3>7. Spent(op)' => Spent(journal[o])'
      BY <3>4 DEF Spent, MatchesExpectation, Expectation, Gone
    <3> QED  BY <3>4, <3>5, <3>6, <3>7
  <2> QED  BY <2>2, <2>3, <2>4
<1>3. CASE o \notin applied
  <2>1. Completes /\ CompletingStep /\ o = cur
    BY <1>3, AppliedSource DEF Completes
  <2>2. o \in OpIds
    BY <1>0, <2>1, CurrentOp DEF Completes
  <2>3. /\ o < nextOp /\ slot'[o] = Absent
        /\ o \in Live' => Started(journal'[o]) /\ (Replaces(journal[o])' => Spent(journal[o])')
    BY <2>1, <2>2, CompletedSpent
  <2> QED  BY <1>0, <2>2, <2>3 DEF OpIds
<1> QED  BY <1>2, <1>3

\* The points where StepInv says something.
StepPcs == {"exec", "begin", "preserve", "validate", "install", "restore", "drop", "remoteDelete"}

LEMMA StepElsewhere == ASSUME pc' \notin StepPcs PROVE StepInv'
BY DEF StepInv, StepPcs

\* The last look before an effect keeps an operation from taking effect twice:
\* what it would replace is still there, so its effect is not complete.
LEMMA StepStep ==
  ASSUME EffectInv, [Next]_vars PROVE StepInv'
<1>0. /\ OwnerInv /\ TypeInv /\ StageOK /\ OrderInv /\ StepInv /\ AppliedInv
      /\ slot \in [OpIds -> LocalFiles \union {Absent}]
      /\ local \in [Paths -> LocalFiles \union {Absent}]
      /\ journal \in [OpIds -> Operations \union {Absent}]
      /\ StepPcs \subseteq OpPcs /\ nextOp \in Nat
      /\ {"running", "recovering", "blocked"} \subseteq Phases
  BY DEF EffectInv, OwnerInv, TypeInv, TypeOK, StoreTypeOK, WorldTypeOK, StepPcs, OpPcs,
         Executing, Phases
<1>1. pc \in OpPcs => /\ cur \in OpIds /\ cur \in Live /\ Op \in Operations /\ Op.path \in Paths
                      /\ Op = journal[cur]
  BY <1>0, CurrentOp DEF Op
<1>2. EndCycle \/ GiveUp \/ (pc \in OpPcs /\ RecoveredOp(cur)) \/ (pc \in OpPcs /\ FinishedOp)
      => StepInv'
  BY <1>0, <1>1, LeavesOperation, StepElsewhere DEF GiveUp
<1>3. pc \in OpPcs /\ Op.phase = "planned" => cur \notin applied /\ slot[cur] = Absent
  BY <1>0, <1>1, PlannedOwnsNothing DEF AppliedInv, Started
<1>4. CASE UNCHANGED <<daemonVars, slot, applied>> /\ (pc \in OpPcs => journal'[cur] = journal[cur])
  BY <1>0, <1>4 DEF daemonVars, StepInv, StepPcs, Op
<1>5. CASE Pin
  <2>1. CASE LocalAsExpected /\ pc' = "exec"
    <3>1. UNCHANGED <<slot, applied, cur>> /\ Op.phase = "planned"
      BY <1>0, <1>5, <2>1 DEF Pin, Goto, Stay, worldVars, StageOK
    <3> QED  BY <1>3, <1>5, <2>1, <3>1 DEF Pin, StepInv, OpPcs
  <2> QED  BY <1>2, <1>5, <2>1, StepElsewhere DEF Pin, Goto, StepPcs
<1>6. CASE CheckPlanned
  <2>1. CASE Goto("exec") /\ UNCHANGED journal
    <3>1. UNCHANGED <<slot, applied, cur>> /\ Op.phase = "planned"
      BY <1>0, <1>6, <2>1 DEF CheckPlanned, Goto, Stay, StageOK
    <3> QED  BY <1>3, <1>6, <2>1, <3>1 DEF CheckPlanned, StepInv, OpPcs, Goto
  <2> QED  BY <1>2, <1>6, <2>1 DEF CheckPlanned, OpPcs
<1>7. CASE Retry
  <2>1. CASE Goto("exec") /\ UNCHANGED journal /\ LocalMutation(Op) /\ Op.expLocal # Absent
    <3>1. /\ slot[cur] = Absent /\ local[Op.path] # Absent /\ local[Op.path].ino = Op.pin
          /\ UNCHANGED <<slot, applied, cur>> /\ pc \in OpPcs
      BY <1>7, <2>1 DEF Retry, AnchorHolds, Goto, Stay, EndCycle, worldVars, OpPcs
    <3>2. ~Spent(Op)
      BY <1>1, <2>1, <3>1 DEF Spent, Gone, LocalMutation
    <3>3. cur \notin applied
      BY <1>0, <1>1, <2>1, <3>1, <3>2 DEF AppliedInv, Replaces
    <3> QED  BY <2>1, <3>1, <3>3 DEF StepInv, Goto
  <2>2. CASE Goto("exec") /\ UNCHANGED journal /\ ~(LocalMutation(Op) /\ Op.expLocal # Absent)
    <3>1. /\ LocalMutation(Op) => slot[cur] = Absent
          /\ UNCHANGED <<slot, applied, cur>> /\ pc' = "exec"
      BY <1>7, <2>2 DEF Retry, Goto, Stay, EndCycle, worldVars
    <3> QED  BY <2>2, <3>1 DEF StepInv, Op, LocalMutation
  <2> QED  BY <1>2, <1>7, <2>1, <2>2 DEF Retry
<1>8. CASE BeginCycle \/ RecoverBlocked \/ RecoverPlanned \/ RecoverStarted
           \/ Prove \/ FetchPinned \/ ComparePinned \/ Cleanup \/ Commit
  BY <1>2, <1>8, StepElsewhere, LeavesOperation
     DEF BeginCycle, RecoverBlocked, RecoverPlanned, RecoverStarted, Prove, FetchPinned,
         ComparePinned, Cleanup, Commit, CommitBaseline, Goto, BeginPass, StepPcs, OpPcs
<1>9. ASSUME pc \in OpPcs, NEW phase \in {"running", "recovering", "blocked"}, SetPhase(phase)
      PROVE  /\ journal'[cur].kind = Op.kind
             /\ journal'[cur].expLocal = Op.expLocal /\ journal'[cur].pin = Op.pin
  BY <1>0, <1>1, <1>9, PhaseEffect DEF SameButPhase, LocalMutation
<1>10. CASE BeginRemote
  <2>1. CASE SetPhase("running") /\ pc' = "remoteDelete" /\ UNCHANGED cur
    <3>1. Op.kind = "delete-remote"
      BY <1>1, <1>10, <2>1 DEF BeginRemote, LocalMutation, Operations, ExternalKinds, OpPcs,
                               Executing, Goto, EndCycle
    <3>2. journal'[cur].kind = Op.kind
      BY <1>9, <1>10, <2>1 DEF BeginRemote, OpPcs, Executing
    <3> QED  BY <2>1, <3>1, <3>2 DEF StepInv, Op
  <2> QED  BY <1>2, <1>10, <2>1, StepElsewhere DEF BeginRemote, Goto, Stay, StepPcs
<1>11. CASE Upload \/ UploadRefused \/ RemoteDelete \/ RemoteDeleteRefused \/ Observe \/ Settle
            \/ Restore \/ Drop
  BY <1>2, <1>11, StepElsewhere
     DEF Fail, Upload, UploadRefused, RemoteDelete, RemoteDeleteRefused, Observe, Settle,
         CommitBaseline, Restore, Drop, Goto, StepPcs, OpPcs, Executing
<1>12. CASE Download
  <2>1. CASE Goto("begin") /\ UNCHANGED journal
    <3>1. UNCHANGED <<slot, applied, cur, journal>> /\ pc = "exec" /\ pc' = "begin"
          /\ LocalMutation(Op)
      BY <1>12, <2>1 DEF Download, Goto, Stay, LocalMutation
    <3> QED  BY <1>0, <3>1 DEF StepInv, Op
  <2> QED  BY <1>2, <1>12, <2>1 DEF Fail, Download
<1>13. CASE BeginLocal
  <2>1. CASE SetPhase("running") /\ Goto(IF Op.expLocal = Absent THEN "install" ELSE "preserve")
    <3>1. /\ UNCHANGED <<slot, applied, cur>> /\ pc \in {"exec", "begin"} /\ LocalMutation(Op)
          /\ pc' = IF Op.expLocal = Absent THEN "install" ELSE "preserve"
      BY <1>0, <1>13, <2>1 DEF BeginLocal, Goto, Stay, LocalMutation, StageOK
    <3>2. journal'[cur].expLocal = Op.expLocal /\ slot[cur] = Absent
          /\ (Op.expLocal # Absent => cur \notin applied)
      BY <1>0, <1>9, <2>1, <3>1 DEF StepInv, OpPcs, Executing
    <3> QED  BY <3>1, <3>2 DEF StepInv, Op
  <2> QED  BY <1>2, <1>13, <2>1 DEF Fail, BeginLocal
<1>14. CASE Preserve
  <2>1. CASE local[Op.path] # Absent /\ slot' = [slot EXCEPT ![cur] = local[Op.path]]
             /\ Goto("validate")
    <3>1. pc \in OpPcs
      BY <1>14 DEF Preserve, OpPcs, Executing
    <3>2. slot'[cur] = local[Op.path] /\ UNCHANGED cur /\ pc' = "validate"
      BY <1>0, <1>1, <2>1, <3>1 DEF Goto, Stay
    <3> QED  BY <2>1, <3>2 DEF StepInv
  <2> QED  BY <1>2, <1>14, <2>1 DEF Fail, Preserve
<1>15. CASE Validate
  <2>1. /\ UNCHANGED <<slot, applied, cur, journal>> /\ slot[cur] # Absent
        /\ pc' \in {"install", "drop", "restore"}
        /\ pc' # "restore" => slot[cur].ino = Op.pin
    BY <1>0, <1>15 DEF Validate, Goto, Stay, StepInv, storeVars, worldVars
  <2> QED  BY <2>1 DEF StepInv, Op
<1>16. CASE Install
  <2>1. CASE pc' \in {"restore", "drop"} /\ slot[cur] # Absent /\ UNCHANGED <<cur, journal>>
    <3>1. UNCHANGED slot /\ slot[cur].ino = Op.pin
      BY <1>0, <1>16, <2>1 DEF Install, StepInv
    <3> QED  BY <2>1, <3>1 DEF StepInv, Op
  <2> QED  BY <1>2, <1>16, <2>1, StepElsewhere DEF Fail, Install, Goto, Stay, StepPcs
<1>17. CASE ScanLocal \/ PlanPass \/ DecidePass \/ \E p \in Paths : RecordPath(p)
  BY <1>2, <1>17, StepElsewhere DEF ScanLocal, PlanPass, DecidePass, RecordPath, Goto, StepPcs
<1>18. ASSUME NEW p \in Paths, Dispatch(p) PROVE StepInv'
  <2>1. CASE pc' = "exec"
    <3> DEFINE op == NewOp(plan[p].kind, p, seen.local[p], seen.remote[p], FALSE)
    <3>1. ~LocalMutation(op)
      BY <1>18, <2>1 DEF Dispatch, NewOp, LocalMutation
    <3>2. /\ nextOp \in OpIds /\ journal' = [journal EXCEPT ![nextOp] = op] /\ cur' = nextOp
      BY <1>0, <1>18
         DEF Dispatch, CreateOperation, OpIds, TypeInv, TypeOK, StoreTypeOK
    <3> HIDE DEF op
    <3>3. journal'[cur'] = op
      BY <1>0, <3>2
    <3> QED  BY <2>1, <3>1, <3>3 DEF StepInv, Op, LocalMutation
  <2> QED  BY <1>18, <2>1, StepElsewhere DEF Dispatch, StepPcs
<1>19. CASE CallFails \/ Crash \/ Start
  BY <1>2, <1>19, StepElsewhere DEF CallFails, Crash, Start, StepPcs
<1>20. CASE CliNext
  <2>1. CASE QueueResolve
    <3>1. journal' = [journal EXCEPT ![nextOp] = cli] /\ UNCHANGED <<daemonVars, slot, applied>>
      BY <2>1 DEF QueueResolve, CreateOperation, worldVars
    <3>2. pc \in OpPcs => cur # nextOp /\ cur \in OpIds
      BY <1>0, <1>1 DEF TypeInv, OpsShape, OpIds
    <3> QED  BY <1>0, <1>4, <3>1, <3>2
  <2>2. CASE pc = "down" /\ UNCHANGED daemonVars
    BY <2>2, StepElsewhere DEF daemonVars, StepPcs
  <2> QED  BY <1>4, <1>20, <2>1, <2>2
       DEF CliNext, SetEnabled, CheckResolve, ResolveRetry, ResolveRestore, storeVars, worldVars
<1>21. CASE UserNext \/ UNCHANGED vars
  BY <1>4, <1>21
     DEF UserNext, LocalPut, LocalWrite, LocalRemove, RemotePut, RemoteRemove, Edit, vars,
         storeVars, worldVars
<1>22. CASE DaemonNext
  BY <1>5, <1>6, <1>7, <1>8, <1>10, <1>11, <1>12, <1>13, <1>14, <1>15, <1>16, <1>17, <1>18,
     <1>19, <1>22
     DEF DaemonNext, WorkerStep, RecoveryStep, ExecutionStep, PassStep
<1> QED  BY <1>19, <1>20, <1>21, <1>22 DEF Next

LEMMA EffectStep == ASSUME EffectInv, [Next]_vars PROVE EffectInv'
<1>1. OwnerInv' /\ OrderInv'
  BY OwnerInvStep, OrderStep DEF EffectInv
<1>2. TypeInv
  BY DEF EffectInv, OwnerInv
<1>3. ObjectsInv' /\ tick \in Nat /\ tick' \in Nat /\ tick <= tick'
  BY <1>2, ObjectsStep DEF EffectInv, TypeInv, TypeOK, WorldTypeOK
<1>4. RevisionsInv'
  BY <1>3, RevisionsStep DEF EffectInv
<1> QED  BY <1>1, <1>3, <1>4, AppliedStep, StepStep DEF EffectInv

LEMMA InitEffect == Init => EffectInv
<1> SUFFICES ASSUME Init PROVE EffectInv
  OBVIOUS
<1>1. OwnerInv /\ OrderInv
  BY InitOrder
<1>2. ObjectsInv
  BY DEF Init, ObjectsInv, Dated, Distinct
<1>3. RevisionsInv
  BY DEF Init, RevisionsInv, KnownRemote, NoSnapshot, NoConflict, Live
<1>4. AppliedInv /\ StepInv
  BY DEF Init, AppliedInv, StepInv
<1> QED  BY <1>1, <1>2, <1>3, <1>4 DEF EffectInv

\* Replacing or removing existing data happens at most once per operation: a
\* recovery that executes an operation again finds what it expects only if the
\* effect is not complete, because objects and revisions never come back.
THEOREM EffectsAreOnce == Spec => DestroysOnce
<1> DEFINE Once == DaemonNext => \A o \in applied \intersect Live :
              /\ o = cur
              /\ IF LocalMutation(journal[o]) THEN journal[o].expLocal # Absent
                                              ELSE journal[o].expRemote # Absent
              => UNCHANGED <<local, remote, slot>>
<1>1. EffectInv /\ [Next]_vars => EffectInv'
  BY EffectStep
<1>2. ASSUME EffectInv PROVE Once
  <2> SUFFICES ASSUME DaemonNext, NEW o \in applied \intersect Live, o = cur,
                      Replaces(journal[o])
               PROVE  UNCHANGED <<local, remote, slot>>
    BY DEF Replaces
  <2>1. /\ pc \in OpPcs /\ Op \in Operations /\ Op.path \in Paths /\ cur \in applied
        /\ OwnerInv /\ TypeInv /\ StepInv /\ StageOK
        /\ slot[cur] = Absent /\ Replaces(Op) /\ Spent(Op)
    <3>1. cur # 0
      BY DEF Live, OpIds
    <3> QED  BY <1>2, <3>1, CurrentOp DEF EffectInv, OwnerInv, OrderInv, AppliedInv, Op
  <2>2. CASE UNCHANGED worldVars
    BY <2>2 DEF worldVars
  <2>3. ~Upload
    BY <2>1 DEF Upload, UploadAccepted, RemoteAsExpected, TypeInv, WorkerOK, Op, Spent
  <2>4. ~RemoteDelete
    BY <2>1 DEF RemoteDelete, ObjectStillThere, StepInv, Spent
  <2>5. ~Preserve /\ ~Restore /\ ~Drop
    BY <2>1 DEF Preserve, Restore, Drop, StepInv, StageOK, Moving, Replaces
  <2>6. ~Install
    BY <2>1 DEF Install, StepInv, StageOK, Moving, Replaces
  <2>7. CASE RecoveryStep
    BY <2>1, <2>7
       DEF RecoveryStep, BeginCycle, RecoverBlocked, RecoverPlanned, RecoverStarted, Pin,
           CheckPlanned, Prove, FetchPinned, ComparePinned, Cleanup, Commit, Retry, worldVars
  <2>8. CASE ExecutionStep
    BY <2>3, <2>4, <2>5, <2>6, <2>8
       DEF ExecutionStep, BeginRemote, UploadRefused, RemoteDeleteRefused, Download, BeginLocal,
           Validate, Observe, Settle, worldVars
  <2>9. CASE PassStep
    BY <2>9 DEF PassStep, ScanLocal, PlanPass, DecidePass, RecordPath, Dispatch, worldVars
  <2>10. CASE CallFails
    BY <2>1, <2>10 DEF CallFails
  <2> QED  BY <2>7, <2>8, <2>9, <2>10 DEF DaemonNext, WorkerStep
<1>3. EffectInv => [Once]_vars
  BY <1>2
<1> QED  BY <1>1, <1>3, InitEffect, PTL DEF Spec, DestroysOnce, Once

\* The daemon takes a local file away only by moving it aside.
LEMMA LocalTaken ==
  ASSUME TypeInv, DaemonNext, NEW p \in Paths, local[p] # Absent, local'[p] # local[p]
  PROVE  /\ Preserve /\ p = Op.path /\ cur \in OpIds /\ slot'[cur] = local[p]
<1>1. /\ local \in [Paths -> LocalFiles \union {Absent}]
      /\ slot \in [OpIds -> LocalFiles \union {Absent}]
      /\ pc \in OpPcs => cur \in OpIds /\ Op.path \in Paths
  BY CurrentOp DEF TypeInv, TypeOK, WorldTypeOK
<1>2. ~(pc \in OpPcs /\ RestoreSlot)
  BY <1>1 DEF RestoreSlot
<1>3. ~UNCHANGED local
  OBVIOUS
<1>4. CASE Preserve
  <2>1. pc \in OpPcs
    BY <1>4 DEF Preserve, OpPcs, Executing
  <2>2. /\ slot' = [slot EXCEPT ![cur] = local[Op.path]]
        /\ local' = [local EXCEPT ![Op.path] = Absent]
    BY <1>3, <1>4 DEF Preserve
  <2>3. p = Op.path /\ slot'[cur] = local[p]
    BY <1>1, <2>1, <2>2
  <2> QED  BY <1>1, <1>4, <2>1, <2>3
<1>5. ~Install
  BY <1>1, <1>3 DEF Install, OpPcs, Executing
<1>6. ~(RecoveryStep \/ PassStep)
  BY <1>3
     DEF RecoveryStep, BeginCycle, RecoverBlocked, RecoverPlanned, RecoverStarted, Pin,
         CheckPlanned, Prove, FetchPinned, ComparePinned, Cleanup, Commit, Retry, PassStep,
         ScanLocal, PlanPass, DecidePass, RecordPath, Dispatch, worldVars
<1>7. CASE ExecutionStep
  BY <1>2, <1>3, <1>4, <1>5, <1>7
     DEF ExecutionStep, BeginRemote, Upload, UploadRefused, RemoteDelete, RemoteDeleteRefused,
         Download, BeginLocal, Validate, Restore, Drop, Observe, Settle, worldVars, OpPcs,
         Executing
<1>8. ~CallFails
  BY <1>2, <1>3 DEF CallFails, OpPcs, Executing
<1> QED  BY <1>6, <1>7, <1>8 DEF DaemonNext, WorkerStep

\* A local file the daemon takes away is never lost by that step: the very
\* object is in a recovery slot, whatever the user did since it was checked.
THEOREM TakenIsMovedAside == Spec => LocalFileMovedAside
<1> DEFINE Aside == DaemonNext => \A p \in Paths :
              local[p] # Absent /\ local'[p] # local[p] => \E o \in OpIds : slot'[o] = local[p]
<1>1. TypeInv /\ [Next]_vars => TypeInv'
  BY TypeInvStep
<1>2. TypeInv => Aside
  BY LocalTaken
<1>3. TypeInv => [Aside]_vars
  BY <1>2
<1> QED  BY <1>1, <1>3, TypeInvInit, PTL DEF Spec, LocalFileMovedAside, Aside
=============================================================================
