------------------------- MODULE SyncCycle_proofs -------------------------
(***************************************************************************)
(* Proofs about SyncCycle for every set of paths and versions, every sizes *)
(* and limits, and every bound.                                            *)
(***************************************************************************)
EXTENDS SyncCycle, Planner_proofs

(***************************************************************************)
(* The inductive invariant                                                 *)
(***************************************************************************)

\* The worker holds an operation here.
OpPcs == Executing \union {"pin", "check", "prove", "compare", "cleanup", "commit", "retry"}

WorkerOK ==
  /\ queue \subseteq Live
  /\ pc \in OpPcs => cur \in Live
  /\ queue # {} => pass = 0
  /\ pc \in {"idle", "down"} => queue = {} /\ pass = 0
  /\ pc = "scan" => plan = NoPlan
  /\ pc = "check" => pass = 0
  /\ pc = "upload" => journal[cur].kind = "ensure-remote"

\* What an operation puts on one side is there on the other.
WellFormed(op) ==
  /\ op.kind = "ensure-remote" => op.expLocal # Absent
  /\ op.kind = "ensure-local" => op.expRemote # Absent

OpsShape ==
  /\ \A o \in Live : WellFormed(journal[o]) /\ o < nextOp
  /\ cli # Absent => WellFormed(cli) /\ cli.phase = "planned"

PlanShape ==
  \A p \in Paths : /\ plan[p].kind = "ensure-remote" => seen.local[p] # Absent
                   /\ plan[p].kind = "ensure-local" => seen.remote[p] # Absent

TypeInv == TypeOK /\ WorkerOK /\ OpsShape /\ PlanShape

\* A started local mutation is pinned to its target.
StartedPinned ==
  \A o \in Live : LocalMutation(journal[o]) /\ Started(journal[o]) => journal[o].pinned

\* Where the durable record of the current operation stands at each point.
Moving == {"preserve", "validate", "install", "restore", "drop"}
Sending == {"upload", "remoteDelete"}
Ending == {"observe", "settle", "commit"}

StageOK ==
  /\ pc \in {"pin", "check"} => Op.phase = "planned"
  /\ pc \in OpPcs \ {"pin"} /\ LocalMutation(Op) => Op.pinned
  /\ pc \in Moving \union {"begin"} => LocalMutation(Op)
  /\ pc \in Sending => ~LocalMutation(Op)
  /\ pc = "compare" => Op.kind = "ensure-local"
  /\ pc \in Moving \union Sending \union Ending \union {"prove", "compare", "cleanup", "retry"}
       => Started(Op)
  /\ pc \in Ending => slot[cur] = Absent

OwnerInv == TypeInv /\ StartedPinned /\ StageOK /\ PreservedHasOwner

(***************************************************************************)
(* Lemmas about the helpers                                                *)
(***************************************************************************)

\* Fingerprints and expectations are well typed, and absent exactly when what
\* they were taken from is.
LEMMA Prints ==
  /\ \A f \in LocalFiles \union {Absent} :
       /\ LocalPrint(f) \in LocalPrints \union {Absent}
       /\ LocalPrint(f) = Absent <=> f = Absent
  /\ \A r \in RemoteFiles \union {Absent} :
       /\ Expectation(r) \in Expectations \union {Absent}
       /\ Expectation(r) = Absent <=> r = Absent
       /\ LocalPrint(r) \in LocalPrints \union {Absent}
       /\ LocalPrint(r) = Absent <=> r = Absent
BY AbsentAssumption
   DEF LocalFiles, LocalPrints, LocalPrint, RemoteFiles, Expectations, Expectation

\* A new operation is well typed.
LEMMA NewOpType ==
  ASSUME NEW kind \in ExternalKinds, NEW p \in Paths,
         NEW l \in LocalPrints \union {Absent}, NEW r \in RemoteFiles \union {Absent},
         NEW resolves \in BOOLEAN
  PROVE  /\ NewOp(kind, p, l, r, resolves) \in Operations
         /\ (kind = "ensure-remote" => l # Absent) /\ (kind = "ensure-local" => r # Absent)
              => WellFormed(NewOp(kind, p, l, r, resolves))
<1>1. Expectation(r) \in Expectations \union {Absent} /\ (Expectation(r) = Absent <=> r = Absent)
  BY Prints
<1>2. "planned" \in Phases
  BY DEF Phases
<1> QED  BY <1>1, <1>2 DEF NewOp, Operations, WellFormed

\* What an upload leaves is a remote file.
LEMMA UploadedType ==
  ASSUME NEW ver \in Versions, NEW r \in RemoteFiles \union {Absent}, NEW n \in Nat
  PROVE  Uploaded(ver, r, n) \in RemoteFiles
BY DEF Uploaded, RemoteFiles

\* The values the worker is reset to are well typed, and decide nothing.
LEMMA ConstantTypes ==
  /\ NoPlan \in [Paths -> Decisions]
  /\ \A p \in Paths : NoPlan[p] = Decide("noop")
  /\ NoSnapshot \in [local : [Paths -> LocalPrints \union {Absent}],
                     remote : [Paths -> RemoteFiles \union {Absent}]]
  /\ NoObs \in [local : LocalPrints \union {Absent},
                remote : RemoteFiles \union {Absent},
                result : LocalPrints \union RemoteFiles \union {Absent}]
  /\ NoConflict \in [kind : ConflictKinds \union {"none"},
                     local : LocalPrints \union {Absent},
                     remote : RemoteFiles \union {Absent}]
  /\ EmptyBaseline \in [local : LocalPrints \union {Absent},
                        remote : RemoteFiles \union {Absent}]
BY DEF NoPlan, NoSnapshot, NoObs, NoConflict, EmptyBaseline, Decide, Decisions,
       DecisionKinds, ConflictKinds

(***************************************************************************)
(* Lemmas about the moves of the worker and the journal                    *)
(***************************************************************************)

DaemonInv == DaemonTypeOK /\ WorkerOK /\ PlanShape

\* The end of a cycle leaves a worker with nothing in hand.
LEMMA EndCycleInv == ASSUME EndCycle PROVE DaemonInv'
<1>1. NoPlan \in [Paths -> Decisions] /\ \A p \in Paths : NoPlan[p].kind = "noop"
  BY ConstantTypes DEF Decide
<1> QED  BY <1>1, ConstantTypes, SyncCycleAssumption
     DEF EndCycle, DaemonInv, DaemonTypeOK, WorkerOK, PlanShape, Pcs, OpPcs, Executing

\* So does the beginning of a pass.
LEMMA BeginPassInv ==
  ASSUME NEW n \in 1..MaxCyclePasses, BeginPass(n) PROVE DaemonInv'
<1>1. NoPlan \in [Paths -> Decisions] /\ \A p \in Paths : NoPlan[p].kind = "noop"
  BY ConstantTypes DEF Decide
<1> QED  BY <1>1, ConstantTypes, SyncCycleAssumption
     DEF BeginPass, DaemonInv, DaemonTypeOK, WorkerOK, PlanShape, Pcs, OpPcs, Executing

\* Updating the phase of the current operation, or deleting it.
LEMMA SetPhaseInv ==
  ASSUME TypeInv, cur \in Live, NEW phase \in Phases, SetPhase(phase), UNCHANGED <<cli, nextOp>>
  PROVE  /\ journal' \in [OpIds -> Operations \union {Absent}]
         /\ Live' = Live
         /\ OpsShape'
<1>1. journal[cur] \in Operations /\ journal \in [OpIds -> Operations \union {Absent}]
      /\ cur \in OpIds
  BY DEF TypeInv, TypeOK, StoreTypeOK, Live
<1>2. DEFINE new == [journal[cur] EXCEPT !.phase = phase]
<1>3. new \in Operations /\ new.kind = journal[cur].kind
      /\ new.expLocal = journal[cur].expLocal /\ new.expRemote = journal[cur].expRemote
  BY <1>1 DEF Operations
<1>4. journal' = [journal EXCEPT ![cur] = new]
  BY DEF SetPhase
<1>5. journal'[cur] = new /\ \A o \in OpIds : o # cur => journal'[o] = journal[o]
  BY <1>1, <1>4
<1>6. journal' \in [OpIds -> Operations \union {Absent}]
  BY <1>1, <1>3, <1>4
<1>7. Live' = Live
  BY <1>1, <1>3, <1>5, AbsentAssumption DEF Live
<1> HIDE DEF new
<1>8. ASSUME NEW o \in Live PROVE WellFormed(journal'[o]) /\ o < nextOp
  <2>1. o \in OpIds /\ WellFormed(journal[o]) /\ o < nextOp
    BY DEF TypeInv, OpsShape, Live
  <2>2. CASE o = cur
    BY <1>3, <1>5, <2>1, <2>2 DEF WellFormed
  <2>3. CASE o # cur
    BY <1>5, <2>1, <2>3
  <2> QED  BY <2>2, <2>3
<1>9. OpsShape'
  BY <1>7, <1>8 DEF TypeInv, OpsShape, WellFormed
<1> QED  BY <1>6, <1>7, <1>9

\* Deleting the current operation takes it, and nothing else, out of the journal.
LEMMA DeleteOpInv ==
  ASSUME TypeInv, cur \in Live, DeleteOp, UNCHANGED <<cli, nextOp>>
  PROVE  /\ journal' \in [OpIds -> Operations \union {Absent}]
         /\ Live' = Live \ {cur}
         /\ OpsShape'
<1>1. journal \in [OpIds -> Operations \union {Absent}] /\ cur \in OpIds
  BY DEF TypeInv, TypeOK, StoreTypeOK, Live
<1>2. journal'[cur] = Absent /\ \A o \in OpIds : o # cur => journal'[o] = journal[o]
  BY <1>1 DEF DeleteOp
<1>3. journal' \in [OpIds -> Operations \union {Absent}]
  BY <1>1 DEF DeleteOp
<1>4. Live' = Live \ {cur}
  BY <1>1, <1>2 DEF Live
<1>5. OpsShape'
  BY <1>2, <1>4 DEF TypeInv, OpsShape, WellFormed, Live
<1> QED  BY <1>3, <1>4, <1>5

\* The operation is over and gone: the worker goes on with what is left.
LEMMA RecoveredInv ==
  ASSUME TypeInv, Live' = Live \ {cur}, pass = 0, RecoveredOp(cur)
  PROVE  DaemonInv'
<1>1. CASE queue \ {cur} = {}
  <2>1. BeginPass(1)
    BY <1>1 DEF RecoveredOp
  <2> QED  BY <2>1, BeginPassInv, SyncCycleAssumption
<1>2. CASE queue \ {cur} # {}
  BY <1>2, ConstantTypes
     DEF RecoveredOp, TypeInv, TypeOK, DaemonInv, DaemonTypeOK, WorkerOK, PlanShape, Pcs,
         OpPcs, Executing
<1> QED  BY <1>1, <1>2

\* A decision is carried out: the next one, the next pass, or the end.
LEMMA DispatchedInv ==
  ASSUME TypeInv, NEW p \in Paths, pass # 0, DispatchedOp(p)
  PROVE  DaemonInv'
<1> DEFINE rest == [plan EXCEPT ![p] = Decide("noop")]
<1>1. Decide("noop") \in Decisions /\ Decide("noop").kind = "noop"
  BY DEF Decide, Decisions, DecisionKinds
<1>2. rest \in [Paths -> Decisions] /\ rest[p].kind = "noop"
      /\ \A q \in Paths : q # p => rest[q] = plan[q]
  BY <1>1 DEF TypeInv, TypeOK, DaemonTypeOK
<1>3. CASE External(rest) # {}
  <2>1. /\ pc' = "dispatch" /\ plan' = rest /\ cur' = 0 /\ obs' = NoObs
        /\ UNCHANGED <<queue, pass, left, seen>>
    BY <1>3 DEF DispatchedOp
  <2>2. queue' = {}
    BY <2>1 DEF TypeInv, WorkerOK
  <2> HIDE DEF rest
  <2>3. PlanShape'
    BY <1>2, <2>1 DEF TypeInv, PlanShape
  <2> QED  BY <1>2, <2>1, <2>2, <2>3, ConstantTypes
       DEF TypeInv, TypeOK, DaemonInv, DaemonTypeOK, WorkerOK, Pcs, OpPcs, Executing
<1>4. CASE External(rest) = {} /\ pass < MaxCyclePasses
  <2>1. BeginPass(pass + 1)
    BY <1>4 DEF DispatchedOp
  <2>2. pass + 1 \in 1..MaxCyclePasses
    BY <1>4, SyncCycleAssumption DEF TypeInv, TypeOK, DaemonTypeOK
  <2> QED  BY <2>1, <2>2, BeginPassInv
<1>5. CASE External(rest) = {} /\ ~(pass < MaxCyclePasses)
  BY <1>5, EndCycleInv DEF DispatchedOp
<1> QED  BY <1>3, <1>4, <1>5

\* An operation is over, in recovery or in a pass.
LEMMA FinishedInv ==
  ASSUME TypeInv, cur \in Live, Live' = Live \ {cur}, FinishedOp
  PROVE  DaemonInv'
<1>1. Op.path \in Paths
  BY DEF TypeInv, TypeOK, StoreTypeOK, Live, Op, Operations
<1> QED  BY <1>1, RecoveredInv, DispatchedInv DEF FinishedOp

\* Staying with the current operation at another point of its execution.
LEMMA GotoInv ==
  ASSUME TypeInv, pc \in OpPcs, NEW label \in OpPcs, Live' = Live,
         pc' = label, label = "check" => pass = 0, Stay,
         label = "upload" => journal'[cur].kind = "ensure-remote",
         obs' \in [local : LocalPrints \union {Absent},
                  remote : RemoteFiles \union {Absent},
                  result : LocalPrints \union RemoteFiles \union {Absent}]
  PROVE  DaemonInv'
BY DEF Stay, TypeInv, TypeOK, DaemonInv, DaemonTypeOK, WorkerOK, PlanShape, Pcs,
       OpPcs, Executing

\* Giving up: the operation is forgotten or its outcome is unknown.
LEMMA GiveUpInv ==
  ASSUME TypeInv, cur \in Live, GiveUp, UNCHANGED <<cli, nextOp>>
  PROVE  /\ journal' \in [OpIds -> Operations \union {Absent}]
         /\ OpsShape' /\ DaemonInv'
<1>1. journal' \in [OpIds -> Operations \union {Absent}] /\ OpsShape'
  <2>1. CASE Op.phase = "planned"
    BY <2>1, DeleteOpInv DEF GiveUp
  <2>2. CASE Op.phase # "planned"
    BY <2>2, SetPhaseInv DEF GiveUp, Phases
  <2> QED  BY <2>1, <2>2
<1> QED  BY <1>1, EndCycleInv DEF GiveUp

\* Failing: the download goes as well.
LEMMA FailInv ==
  ASSUME TypeInv, cur \in Live, Fail, UNCHANGED <<cli, nextOp>>
  PROVE  /\ journal' \in [OpIds -> Operations \union {Absent}]
         /\ temp' \in [OpIds -> LocalPrints \union {Absent}]
         /\ OpsShape' /\ DaemonInv'
<1>1. temp' \in [OpIds -> LocalPrints \union {Absent}]
  BY DEF Fail, TypeInv, TypeOK, WorldTypeOK
<1> QED  BY <1>1, GiveUpInv DEF Fail

(***************************************************************************)
(* Type correctness                                                        *)
(***************************************************************************)

\* A new root satisfies the invariant.
LEMMA TypeInvInit == Init => TypeInv
<1> SUFFICES ASSUME Init PROVE TypeInv
  OBVIOUS
<1>1. Live = {}
  BY DEF Init, Live
<1>2. StoreTypeOK /\ WorldTypeOK /\ BoundTypeOK
  <2>1. StoreTypeOK
    <3>1. /\ baseline \in [Paths -> [local : LocalPrints \union {Absent},
                                    remote : RemoteFiles \union {Absent}]]
          /\ conflicts \in [Paths -> [kind : ConflictKinds \union {"none"},
                                     local : LocalPrints \union {Absent},
                                     remote : RemoteFiles \union {Absent}]]
      BY ConstantTypes, Zenon DEF Init
    <3>2. enabled \in BOOLEAN /\ initialized \in BOOLEAN
      BY Zenon DEF Init
    <3>3. journal \in [OpIds -> Operations \union {Absent}] /\ nextOp \in Nat \ {0}
      BY DEF Init
    <3> QED  BY <3>1, <3>2, <3>3, Zenon DEF StoreTypeOK
  <2>2. WorldTypeOK
    BY DEF Init, WorldTypeOK
  <2>3. BoundTypeOK
    BY DEF Init, BoundTypeOK
  <2> QED  BY <2>1, <2>2, <2>3
<1>3. DaemonTypeOK
  BY ConstantTypes, SyncCycleAssumption DEF Init, DaemonTypeOK, Pcs
<1>4. WorkerOK
  BY <1>1 DEF Init, WorkerOK, OpPcs, Executing
<1>5. OpsShape /\ PlanShape
  BY <1>1, ConstantTypes DEF Init, OpsShape, PlanShape, Decide
<1> QED  BY <1>2, <1>3, <1>4, <1>5 DEF Init, TypeInv, TypeOK

\* What the current operation is, wherever the worker holds one.
LEMMA CurrentOp ==
  ASSUME TypeInv, pc \in OpPcs
  PROVE  /\ cur \in OpIds /\ cur \in Live /\ Op \in Operations
         /\ Op.path \in Paths /\ WellFormed(Op)
BY DEF TypeInv, TypeOK, StoreTypeOK, WorkerOK, OpsShape, Live, Op, Operations

\* The recovery of the journal keeps the invariant.
LEMMA RecoveryTypes == ASSUME TypeInv, RecoveryStep PROVE TypeInv'
<1> USE DEF TypeInv, DaemonInv
<1>1. CASE BeginCycle
  <2>1. CASE Live = {}
    <3>1. BeginPass(1)
      BY <1>1, <2>1 DEF BeginCycle
    <3>2. DaemonInv'
      BY <3>1, BeginPassInv, SyncCycleAssumption
    <3> QED  BY <1>1, <3>2
         DEF BeginCycle, TypeOK, StoreTypeOK, WorldTypeOK, BoundTypeOK, OpsShape, Live,
             storeVars, worldVars, boundVars
  <2>2. CASE Live # {}
    <3>1. /\ pc' = "recover" /\ queue' = Live
          /\ UNCHANGED <<cur, pass, plan, left, seen, obs, storeVars, worldVars, cli, applied,
                        boundVars>>
      BY <1>1, <2>2 DEF BeginCycle
    <3>2. DaemonInv'
      BY <1>1, <3>1 DEF BeginCycle, TypeOK, DaemonTypeOK, WorkerOK, PlanShape, Live, Pcs,
                        OpPcs, Executing, storeVars
    <3> QED  BY <3>1, <3>2
         DEF TypeOK, StoreTypeOK, WorldTypeOK, BoundTypeOK, OpsShape, Live,
             storeVars, worldVars, boundVars
  <2> QED  BY <2>1, <2>2
<1>2. CASE RecoverBlocked
  <2>1. DaemonInv'
    BY <1>2, EndCycleInv DEF RecoverBlocked
  <2> QED  BY <1>2, <2>1
       DEF RecoverBlocked, TypeOK, StoreTypeOK, WorldTypeOK, BoundTypeOK, OpsShape, Live,
           storeVars, worldVars, boundVars
<1>3. CASE RecoverPlanned
  <2>1. PICK o \in queue : /\ cur' = o
                          /\ pc' = IF LocalMutation(journal[o]) /\ ~journal[o].pinned
                                     THEN "pin" ELSE "check"
    BY <1>3 DEF RecoverPlanned
  <2>2. DaemonInv'
    BY <1>3, <2>1 DEF RecoverPlanned, TypeOK, DaemonTypeOK, WorkerOK, PlanShape, Live, Pcs,
                      OpPcs, Executing, storeVars
  <2> QED  BY <1>3, <2>2
       DEF RecoverPlanned, TypeOK, StoreTypeOK, WorldTypeOK, BoundTypeOK, OpsShape, Live,
           storeVars, worldVars, boundVars
<1>4. CASE RecoverStarted
  <2>1. PICK o \in queue : /\ cur' = o
                          /\ journal' = [journal EXCEPT ![o].phase = "recovering"]
                          /\ obs' = [obs EXCEPT !.local = LocalPrint(local[journal[o].path])]
    BY <1>4 DEF RecoverStarted
  <2>2. o \in OpIds /\ o \in Live /\ journal[o] \in Operations
    BY DEF TypeOK, StoreTypeOK, WorkerOK, Live
  <2> DEFINE new == [journal[o] EXCEPT !.phase = "recovering"]
  <2>3. /\ new \in Operations /\ new.kind = journal[o].kind
        /\ new.expLocal = journal[o].expLocal /\ new.expRemote = journal[o].expRemote
    BY <2>2 DEF Operations, Phases
  <2>4. journal' = [journal EXCEPT ![o] = new]
    BY <2>1
  <2>5. journal'[o] = new /\ \A other \in OpIds : other # o => journal'[other] = journal[other]
    BY <2>2, <2>4 DEF TypeOK, StoreTypeOK
  <2>6. journal' \in [OpIds -> Operations \union {Absent}]
    BY <2>3, <2>4 DEF TypeOK, StoreTypeOK
  <2>7. Live' = Live
    BY <2>2, <2>3, <2>5, AbsentAssumption DEF Live
  <2>8. OpsShape'
    BY <1>4, <2>3, <2>5, <2>7 DEF OpsShape, WellFormed, Live, RecoverStarted
  <2>9. LocalPrint(local[journal[o].path]) \in LocalPrints \union {Absent}
    BY <2>2, Prints DEF TypeOK, WorldTypeOK, Operations
  <2>10. DaemonInv'
    BY <1>4, <2>1, <2>2, <2>7, <2>9
       DEF RecoverStarted, TypeOK, DaemonTypeOK, WorkerOK, PlanShape, Pcs, OpPcs, Executing
  <2> QED  BY <1>4, <2>6, <2>8, <2>10
       DEF RecoverStarted, TypeOK, StoreTypeOK, WorldTypeOK, BoundTypeOK, worldVars, boundVars
<1>5. CASE Pin
  <2>1. cur \in OpIds /\ cur \in Live /\ Op \in Operations /\ Op.path \in Paths
    BY <1>5, CurrentOp DEF Pin, OpPcs
  <2>2. CASE LocalAsExpected
    <3> DEFINE target == IF Op.expLocal = Absent THEN 0 ELSE local[Op.path].ino
               new == [journal[cur] EXCEPT !.pinned = TRUE, !.pin = target]
    <3>1. target \in Nat
      <4>1. CASE Op.expLocal = Absent
        BY <4>1
      <4>2. CASE Op.expLocal # Absent
        <5>1. LocalPrint(local[Op.path]) # Absent
          BY <2>2, <4>2 DEF LocalAsExpected, LocalEquivalent
        <5>2. local[Op.path] \in LocalFiles
          BY <2>1, <5>1 DEF LocalPrint, TypeOK, WorldTypeOK
        <5> QED  BY <4>2, <5>2 DEF LocalFiles
      <4> QED  BY <4>1, <4>2
    <3> HIDE DEF target
    <3>2. /\ new \in Operations /\ new.kind = Op.kind
          /\ new.expLocal = Op.expLocal /\ new.expRemote = Op.expRemote
      BY <2>1, <3>1 DEF Op, Operations
    <3>3. journal' = [journal EXCEPT ![cur] = new]
      BY <1>5, <2>2 DEF Pin, target
    <3>4. journal'[cur] = new /\ \A o \in OpIds : o # cur => journal'[o] = journal[o]
      BY <2>1, <3>3 DEF TypeOK, StoreTypeOK
    <3>5. journal' \in [OpIds -> Operations \union {Absent}]
      BY <3>2, <3>3 DEF TypeOK, StoreTypeOK
    <3>6. Live' = Live
      BY <2>1, <3>2, <3>4, AbsentAssumption DEF Live
    <3>7. OpsShape'
      <4> HIDE DEF new
      <4>1. WellFormed(new)
        BY <1>5, <3>2, CurrentOp DEF WellFormed, Pin, OpPcs
      <4>2. \A o \in Live' : WellFormed(journal'[o]) /\ o < nextOp
        BY <3>4, <3>6, <4>1 DEF OpsShape, Live
      <4> QED  BY <1>5, <4>2 DEF OpsShape, Pin
    <3>8. DaemonInv'
      <4>1. PICK label \in {"check", "exec"} : Goto(label) /\ (label = "check" => pass = 0)
        BY <1>5, <2>2 DEF Pin
      <4> QED  BY <1>5, <3>6, <4>1, GotoInv
           DEF Pin, Goto, OpPcs, Executing, TypeOK, DaemonTypeOK
    <3> QED  BY <1>5, <3>5, <3>7, <3>8
         DEF Pin, TypeOK, StoreTypeOK, WorldTypeOK, BoundTypeOK, worldVars, boundVars
  <2>3. CASE ~LocalAsExpected
    <3>1. DeleteOp /\ EndCycle /\ UNCHANGED <<cli, nextOp>>
      BY <1>5, <2>3 DEF Pin
    <3>2. journal' \in [OpIds -> Operations \union {Absent}] /\ OpsShape' /\ DaemonInv'
      BY <2>1, <3>1, DeleteOpInv, EndCycleInv
    <3> QED  BY <1>5, <3>2
         DEF Pin, TypeOK, StoreTypeOK, WorldTypeOK, BoundTypeOK, worldVars, boundVars
  <2> QED  BY <2>2, <2>3
<1>6. CASE CheckPlanned
  <2>1. cur \in Live /\ pc \in OpPcs /\ UNCHANGED <<cli, nextOp>>
    BY <1>6, CurrentOp DEF CheckPlanned, OpPcs
  <2>2. journal' \in [OpIds -> Operations \union {Absent}] /\ OpsShape' /\ DaemonInv'
    <3>1. CASE LocalAsExpected /\ RemoteAsExpected
      <4>1. Goto("exec") /\ UNCHANGED journal
        BY <1>6, <3>1 DEF CheckPlanned
      <4>2. Live' = Live /\ OpsShape'
        BY <2>1, <4>1 DEF Live, OpsShape
      <4>3. DaemonInv'
        BY <2>1, <4>1, <4>2, GotoInv DEF Goto, OpPcs, Executing, TypeOK, DaemonTypeOK
      <4> QED  BY <4>1, <4>2, <4>3 DEF TypeOK, StoreTypeOK
    <3>2. CASE ~(LocalAsExpected /\ RemoteAsExpected)
      <4>1. DeleteOp /\ RecoveredOp(cur)
        BY <1>6, <3>2 DEF CheckPlanned
      <4>2. pass = 0
        BY <1>6 DEF CheckPlanned, WorkerOK
      <4> QED  BY <2>1, <4>1, <4>2, DeleteOpInv, RecoveredInv
    <3> QED  BY <3>1, <3>2
  <2> QED  BY <1>6, <2>2
       DEF CheckPlanned, TypeOK, StoreTypeOK, WorldTypeOK, BoundTypeOK, boundVars
<1>7. CASE Prove
  <2>1. cur \in Live /\ pc \in OpPcs /\ Op.path \in Paths
    BY <1>7, CurrentOp DEF Prove, OpPcs
  <2>2. Live' = Live /\ OpsShape'
    BY <1>7 DEF Prove, storeVars, Live, OpsShape
  <2>3. DaemonInv'
    <3>1. \/ Goto("retry") \/ EndCycle
          \/ pc' = "cleanup" /\ obs' = [obs EXCEPT !.remote = remote[Op.path]] /\ Stay
      BY <1>7 DEF Prove
    <3>2. CASE Goto("retry")
      BY <2>1, <2>2, <3>2, GotoInv DEF Goto, OpPcs, TypeOK, DaemonTypeOK
    <3>3. CASE EndCycle
      BY <3>3, EndCycleInv
    <3>4. CASE pc' = "cleanup" /\ obs' = [obs EXCEPT !.remote = remote[Op.path]] /\ Stay
      BY <2>1, <2>2, <3>4, GotoInv DEF OpPcs, TypeOK, DaemonTypeOK, WorldTypeOK
    <3> QED  BY <3>1, <3>2, <3>3, <3>4
  <2> QED  BY <1>7, <2>2, <2>3
       DEF Prove, TypeOK, StoreTypeOK, WorldTypeOK, BoundTypeOK, storeVars, worldVars, boundVars
<1>8. CASE Cleanup
  <2>1. cur \in Live /\ cur \in OpIds /\ pc \in OpPcs
    BY <1>8, CurrentOp DEF Cleanup, OpPcs
  <2>2. Live' = Live /\ OpsShape'
    BY <1>8 DEF Cleanup, storeVars, Live, OpsShape
  <2>3. DaemonInv'
    <3>1. CASE Goto("commit")
      BY <2>1, <2>2, <3>1, GotoInv DEF Goto, OpPcs, TypeOK, DaemonTypeOK
    <3>2. CASE EndCycle
      BY <3>2, EndCycleInv
    <3> QED  BY <1>8, <3>1, <3>2 DEF Cleanup
  <2>4. slot' \in [OpIds -> LocalFiles \union {Absent}] /\ applied' \subseteq OpIds
    BY <1>8, <2>1 DEF Cleanup, TypeOK, WorldTypeOK
  <2> QED  BY <1>8, <2>2, <2>3, <2>4
       DEF Cleanup, TypeOK, StoreTypeOK, WorldTypeOK, BoundTypeOK, storeVars, boundVars
<1>9. CASE Commit
  <2>1. cur \in Live /\ Op.path \in Paths
    BY <1>9, CurrentOp DEF Commit, OpPcs
  <2>2. DeleteOp /\ FinishedOp /\ UNCHANGED <<cli, nextOp>>
    BY <1>9 DEF Commit, CommitBaseline
  <2>3. journal' \in [OpIds -> Operations \union {Absent}] /\ OpsShape' /\ DaemonInv'
    BY <2>1, <2>2, DeleteOpInv, FinishedInv
  <2>4. baseline' \in [Paths -> [local : LocalPrints \union {Absent},
                                remote : RemoteFiles \union {Absent}]]
    BY <1>9, <2>1, ConstantTypes
       DEF Commit, CommitBaseline, TypeOK, StoreTypeOK, DaemonTypeOK
  <2> QED  BY <1>9, <2>3, <2>4
       DEF Commit, TypeOK, StoreTypeOK, WorldTypeOK, BoundTypeOK, worldVars, boundVars
<1>10. CASE Retry
  <2>1. cur \in Live /\ pc \in OpPcs /\ UNCHANGED <<cli, nextOp>>
    BY <1>10, CurrentOp DEF Retry, OpPcs
  <2>2. journal' \in [OpIds -> Operations \union {Absent}] /\ OpsShape' /\ DaemonInv'
    <3>1. CASE Goto("exec") /\ UNCHANGED journal
      <4>1. Live' = Live /\ OpsShape'
        BY <2>1, <3>1 DEF Live, OpsShape
      <4>2. DaemonInv'
        BY <2>1, <3>1, <4>1, GotoInv DEF Goto, OpPcs, Executing, TypeOK, DaemonTypeOK
      <4> QED  BY <3>1, <4>1, <4>2 DEF TypeOK, StoreTypeOK
    <3>2. CASE SetPhase("blocked") /\ EndCycle
      BY <2>1, <3>2, SetPhaseInv, EndCycleInv DEF Phases
    <3> QED  BY <1>10, <3>1, <3>2 DEF Retry
  <2> QED  BY <1>10, <2>2
       DEF Retry, TypeOK, StoreTypeOK, WorldTypeOK, BoundTypeOK, worldVars, boundVars
<1>11. CASE FetchPinned
  <2>1. /\ cur \in Live /\ pc \in OpPcs /\ cur \in OpIds /\ Op \in Operations
        /\ Op.path \in Paths /\ WellFormed(Op)
    BY <1>11, CurrentOp DEF FetchPinned, OpPcs
  <2>2. Live' = Live /\ OpsShape'
    BY <1>11 DEF FetchPinned, storeVars, Live, OpsShape
  <2>3. remote[Op.path] \in RemoteFiles
    <3>1. Op.expRemote # Absent /\ Expectation(remote[Op.path]) = Op.expRemote
      BY <1>11, <2>1 DEF FetchPinned, WellFormed, Plausible, DeleteKinds, MatchesExpectation
    <3> QED  BY <2>1, <3>1, Prints DEF TypeOK, WorldTypeOK
  <2>4. LocalPrint(local[Op.path]) \in LocalPrints \union {Absent}
    BY <2>1, Prints DEF TypeOK, WorldTypeOK
  <2>5. temp' \in [OpIds -> LocalPrints \union {Absent}]
    <3>1. Staged \in [OpIds -> LocalPrints \union {Absent}]
      BY <2>1, Prints DEF Staged, TypeOK, WorldTypeOK
    <3> QED  BY <1>11, <3>1 DEF FetchPinned, TypeOK, WorldTypeOK
  <2>6. DaemonInv'
    <3>1. CASE Goto("retry")
      BY <2>1, <2>2, <3>1, GotoInv DEF Goto, OpPcs, TypeOK, DaemonTypeOK
    <3>2. CASE /\ pc' = "compare" /\ Stay
               /\ obs' = [obs EXCEPT !.remote = remote[Op.path],
                                     !.result = LocalPrint(local[Op.path])]
      <4>1. obs' \in [local : LocalPrints \union {Absent},
                      remote : RemoteFiles \union {Absent},
                      result : LocalPrints \union RemoteFiles \union {Absent}]
        BY <2>3, <2>4, <3>2 DEF TypeOK, DaemonTypeOK
      <4> QED  BY <2>1, <2>2, <3>2, <4>1, GotoInv DEF OpPcs
    <3> QED  BY <1>11, <3>1, <3>2 DEF FetchPinned
  <2> QED  BY <1>11, <2>2, <2>5, <2>6
       DEF FetchPinned, TypeOK, StoreTypeOK, WorldTypeOK, BoundTypeOK, storeVars, boundVars
<1>12. CASE ComparePinned
  <2>1. cur \in Live /\ cur \in OpIds /\ pc \in OpPcs
    BY <1>12, CurrentOp DEF ComparePinned, OpPcs
  <2>2. Live' = Live /\ OpsShape'
    BY <1>12 DEF ComparePinned, storeVars, Live, OpsShape
  <2>3. DaemonInv'
    <3>1. CASE \E label \in {"retry", "cleanup"} : Goto(label)
      BY <2>1, <2>2, <3>1, GotoInv DEF Goto, OpPcs, TypeOK, DaemonTypeOK
    <3>2. CASE EndCycle
      BY <3>2, EndCycleInv
    <3> QED  BY <1>12, <3>1, <3>2 DEF ComparePinned
  <2>4. temp' \in [OpIds -> LocalPrints \union {Absent}]
    BY <1>12, <2>1 DEF ComparePinned, TypeOK, WorldTypeOK
  <2> QED  BY <1>12, <2>2, <2>3, <2>4
       DEF ComparePinned, TypeOK, StoreTypeOK, WorldTypeOK, BoundTypeOK, storeVars, boundVars
<1> QED  BY <1>1, <1>2, <1>3, <1>4, <1>5, <1>6, <1>7, <1>8, <1>9, <1>10, <1>11, <1>12
     DEF RecoveryStep

\* The outcomes most steps of an execution have: on with the same operation,
\* or the end of the attempt.
LEMMA ForwardTypes ==
  ASSUME TypeInv, pc \in OpPcs, NEW label \in OpPcs \ {"check", "upload"}, Goto(label),
         UNCHANGED <<journal, cli, nextOp>>
  PROVE  /\ journal' \in [OpIds -> Operations \union {Absent}]
         /\ OpsShape' /\ DaemonInv'
<1>1. Live' = Live /\ OpsShape'
  BY DEF TypeInv, OpsShape, Live
<1>2. DaemonInv'
  BY <1>1, GotoInv DEF Goto, TypeInv, TypeOK, DaemonTypeOK
<1> QED  BY <1>1, <1>2 DEF TypeInv, TypeOK, StoreTypeOK

\* The steps that change the remote side keep the invariant.
LEMMA RemoteMutationTypes ==
  ASSUME TypeInv, BeginRemote \/ Upload \/ UploadRefused \/ RemoteDelete \/ RemoteDeleteRefused
  PROVE  TypeInv'
<1> USE DEF TypeInv, DaemonInv
<1>0. /\ pc \in OpPcs /\ UNCHANGED <<cli, nextOp>>
      /\ cur \in OpIds /\ cur \in Live /\ Op \in Operations
      /\ Op.path \in Paths /\ WellFormed(Op)
  <2>1. pc \in OpPcs /\ UNCHANGED <<cli, nextOp>>
    BY DEF BeginRemote, Upload, UploadRefused, RemoteDelete, RemoteDeleteRefused, OpPcs, Executing,
           storeVars
  <2> QED  BY <2>1, CurrentOp
<1>1. CASE BeginRemote
  <2>1. journal' \in [OpIds -> Operations \union {Absent}] /\ OpsShape' /\ DaemonInv'
    <3>1. CASE SetPhase("recovering") /\ EndCycle
      BY <1>0, <3>1, SetPhaseInv, EndCycleInv DEF Phases
    <3>2. CASE SetPhase("running") /\ \E label \in {"upload", "remoteDelete"} :
                 Goto(label) /\ (label = "upload" => Op.kind = "ensure-remote")
      <4>1. /\ journal' \in [OpIds -> Operations \union {Absent}]
            /\ Live' = Live /\ OpsShape'
        BY <1>0, <3>2, SetPhaseInv DEF Phases
      <4>2. PICK label \in {"upload", "remoteDelete"} :
              Goto(label) /\ (label = "upload" => Op.kind = "ensure-remote")
        BY <3>2
      <4>3. journal'[cur].kind = Op.kind
        BY <1>0, <3>2 DEF SetPhase, Op, Operations, TypeOK, StoreTypeOK
      <4> QED  BY <1>0, <4>1, <4>2, <4>3, GotoInv
           DEF Goto, OpPcs, Executing, TypeOK, DaemonTypeOK
    <3> QED  BY <1>1, <3>1, <3>2 DEF BeginRemote
  <2> QED  BY <1>1, <2>1
       DEF BeginRemote, TypeOK, StoreTypeOK, WorldTypeOK, BoundTypeOK, worldVars, boundVars
<1>2. CASE Upload
  <2>1. Op.expLocal.ver \in Versions
    <3>1. Op.kind = "ensure-remote"
      BY <1>2 DEF Upload, WorkerOK, Op
    <3>2. Op.expLocal \in LocalPrints
      BY <1>0, <3>1 DEF Operations, WellFormed
    <3> QED  BY <3>2 DEF LocalPrints
  <2>2. Uploaded(Op.expLocal.ver, remote[Op.path], tick + 1) \in RemoteFiles
    <3>1. remote[Op.path] \in RemoteFiles \union {Absent} /\ tick + 1 \in Nat
      BY <1>0 DEF TypeOK, WorldTypeOK
    <3> QED  BY <2>1, <3>1, UploadedType
  <2>3. remote' \in [Paths -> RemoteFiles \union {Absent}] /\ tick' \in Nat
        /\ remote'[Op.path] \in RemoteFiles /\ applied' \subseteq OpIds
    BY <1>0, <1>2, <2>2 DEF Upload, TypeOK, WorldTypeOK
  <2>4. CASE /\ pc' = "observe" /\ obs' = [obs EXCEPT !.result = remote'[Op.path]] /\ Stay
             /\ UNCHANGED <<storeVars, temp, faults>>
    <3>1. Live' = Live /\ OpsShape'
      BY <1>0, <2>4 DEF OpsShape, Live, storeVars
    <3>2. DaemonInv'
      BY <1>0, <2>3, <2>4, <3>1, GotoInv DEF OpPcs, Executing, TypeOK, DaemonTypeOK
    <3> QED  BY <1>0, <1>2, <2>3, <2>4, <3>1, <3>2
         DEF Upload, TypeOK, StoreTypeOK, WorldTypeOK, BoundTypeOK, storeVars
  <2>5. CASE Fault /\ Fail /\ UNCHANGED <<enabled, initialized, baseline, conflicts, nextOp>>
    <3>1. /\ journal' \in [OpIds -> Operations \union {Absent}]
          /\ temp' \in [OpIds -> LocalPrints \union {Absent}]
          /\ OpsShape' /\ DaemonInv'
      BY <1>0, <2>5, FailInv
    <3> QED  BY <1>0, <1>2, <2>3, <2>5, <3>1
         DEF Upload, TypeOK, StoreTypeOK, WorldTypeOK, BoundTypeOK, Fault
  <2> QED  BY <1>2, <2>4, <2>5 DEF Upload
<1>3. CASE UploadRefused
  <2>1. /\ journal' \in [OpIds -> Operations \union {Absent}]
        /\ temp' \in [OpIds -> LocalPrints \union {Absent}]
        /\ OpsShape' /\ DaemonInv'
    BY <1>0, <1>3, FailInv DEF UploadRefused
  <2> QED  BY <1>3, <2>1
       DEF UploadRefused, TypeOK, StoreTypeOK, WorldTypeOK, BoundTypeOK, boundVars
<1>4. CASE RemoteDelete
  <2>1. remote' \in [Paths -> RemoteFiles \union {Absent}] /\ applied' \subseteq OpIds
    BY <1>0, <1>4 DEF RemoteDelete, TypeOK, WorldTypeOK
  <2>2. CASE Goto("observe") /\ UNCHANGED <<storeVars, temp, faults>>
    <3>1. journal' \in [OpIds -> Operations \union {Absent}] /\ OpsShape' /\ DaemonInv'
      BY <1>0, <2>2, ForwardTypes DEF OpPcs, Executing, storeVars
    <3> QED  BY <1>4, <2>1, <2>2, <3>1
         DEF RemoteDelete, TypeOK, StoreTypeOK, WorldTypeOK, BoundTypeOK, storeVars
  <2>3. CASE Fault /\ Fail /\ UNCHANGED <<enabled, initialized, baseline, conflicts, nextOp>>
    <3>1. /\ journal' \in [OpIds -> Operations \union {Absent}]
          /\ temp' \in [OpIds -> LocalPrints \union {Absent}]
          /\ OpsShape' /\ DaemonInv'
      BY <1>0, <2>3, FailInv
    <3> QED  BY <1>4, <2>1, <2>3, <3>1
         DEF RemoteDelete, TypeOK, StoreTypeOK, WorldTypeOK, BoundTypeOK, Fault
  <2> QED  BY <1>4, <2>2, <2>3 DEF RemoteDelete
<1>5. CASE RemoteDeleteRefused
  <2>1. /\ journal' \in [OpIds -> Operations \union {Absent}]
        /\ temp' \in [OpIds -> LocalPrints \union {Absent}]
        /\ OpsShape' /\ DaemonInv'
    BY <1>0, <1>5, FailInv DEF RemoteDeleteRefused
  <2> QED  BY <1>5, <2>1
       DEF RemoteDeleteRefused, TypeOK, StoreTypeOK, WorldTypeOK, BoundTypeOK, boundVars
<1> QED  BY <1>1, <1>2, <1>3, <1>4, <1>5

\* Putting a preserved file back keeps the tree and the slots well typed.
LEMMA RestoreSlotTypes ==
  ASSUME TypeInv, cur \in OpIds, Op.path \in Paths, RestoreSlot
  PROVE  /\ local' \in [Paths -> LocalFiles \union {Absent}]
         /\ slot' \in [OpIds -> LocalFiles \union {Absent}]
BY DEF RestoreSlot, TypeInv, TypeOK, WorldTypeOK

\* The steps that change the local side, and their preparation, keep the invariant.
LEMMA LocalMutationTypes ==
  ASSUME TypeInv, Download \/ BeginLocal \/ Preserve \/ Validate \/ Install \/ Restore \/ Drop
  PROVE  TypeInv'
<1> USE DEF TypeInv, DaemonInv
<1>0. /\ pc \in OpPcs /\ UNCHANGED <<cli, nextOp>>
      /\ cur \in OpIds /\ cur \in Live /\ Op \in Operations
      /\ Op.path \in Paths /\ WellFormed(Op)
  <2>1. pc \in OpPcs /\ UNCHANGED <<cli, nextOp>>
    BY DEF Download, BeginLocal, Preserve, Validate, Install, Restore, Drop, OpPcs, Executing,
           storeVars
  <2> QED  BY <2>1, CurrentOp
<1>1. CASE Download
  <2>1. CASE LocalAsExpected /\ AnchorHolds /\ RemoteAsExpected
    <3>1. temp' \in [OpIds -> LocalPrints \union {Absent}]
      BY <1>0, <1>1, <2>1, Prints DEF Download, Staged, TypeOK, WorldTypeOK
    <3>2. journal' \in [OpIds -> Operations \union {Absent}] /\ OpsShape' /\ DaemonInv'
      BY <1>0, <1>1, <2>1, ForwardTypes DEF Download, OpPcs, Executing
    <3> QED  BY <1>1, <3>1, <3>2
         DEF Download, TypeOK, StoreTypeOK, WorldTypeOK, BoundTypeOK, boundVars
  <2>2. CASE ~(LocalAsExpected /\ AnchorHolds /\ RemoteAsExpected)
    <3>1. /\ journal' \in [OpIds -> Operations \union {Absent}]
          /\ temp' \in [OpIds -> LocalPrints \union {Absent}]
          /\ OpsShape' /\ DaemonInv'
      <4>1. CASE Fail
        BY <1>0, <1>1, <4>1, FailInv
      <4>2. CASE GiveUp /\ UNCHANGED temp
        BY <1>0, <1>1, <4>2, GiveUpInv DEF TypeOK, WorldTypeOK
      <4> QED  BY <1>1, <2>2, <4>1, <4>2 DEF Download
    <3> QED  BY <1>1, <3>1
         DEF Download, TypeOK, StoreTypeOK, WorldTypeOK, BoundTypeOK, boundVars
  <2> QED  BY <2>1, <2>2
<1>2. CASE BeginLocal
  <2>1. /\ journal' \in [OpIds -> Operations \union {Absent}]
        /\ temp' \in [OpIds -> LocalPrints \union {Absent}]
        /\ OpsShape' /\ DaemonInv'
    <3>1. CASE Fail
      BY <1>0, <3>1, FailInv
    <3>2. CASE SetPhase("running") /\ UNCHANGED temp
               /\ \E label \in {"install", "preserve"} : Goto(label)
      <4>1. /\ journal' \in [OpIds -> Operations \union {Absent}]
            /\ Live' = Live /\ OpsShape'
        BY <1>0, <3>2, SetPhaseInv DEF Phases
      <4>2. PICK label \in {"install", "preserve"} : Goto(label)
        BY <3>2
      <4>3. DaemonInv'
        BY <1>0, <4>1, <4>2, GotoInv DEF Goto, OpPcs, Executing, TypeOK, DaemonTypeOK
      <4> QED  BY <3>2, <4>1, <4>3 DEF TypeOK, WorldTypeOK
    <3> QED  BY <1>2, <3>1, <3>2 DEF BeginLocal
  <2> QED  BY <1>2, <2>1
       DEF BeginLocal, TypeOK, StoreTypeOK, WorldTypeOK, BoundTypeOK, boundVars
<1>3. CASE Preserve
  <2>1. /\ journal' \in [OpIds -> Operations \union {Absent}]
        /\ temp' \in [OpIds -> LocalPrints \union {Absent}]
        /\ OpsShape' /\ DaemonInv'
    <3>1. CASE Fail
      BY <1>0, <3>1, FailInv
    <3>2. CASE Goto("validate") /\ UNCHANGED <<journal, temp>>
      BY <1>0, <3>2, ForwardTypes DEF OpPcs, Executing, TypeOK, WorldTypeOK
    <3> QED  BY <1>3, <3>1, <3>2 DEF Preserve
  <2>2. /\ local' \in [Paths -> LocalFiles \union {Absent}]
        /\ slot' \in [OpIds -> LocalFiles \union {Absent}]
    BY <1>0, <1>3 DEF Preserve, TypeOK, WorldTypeOK
  <2> QED  BY <1>3, <2>1, <2>2
       DEF Preserve, TypeOK, StoreTypeOK, WorldTypeOK, BoundTypeOK, boundVars
<1>4. CASE Validate
  <2>1. PICK label \in {"install", "drop", "restore"} : Goto(label)
    BY <1>4 DEF Validate
  <2>2. journal' \in [OpIds -> Operations \union {Absent}] /\ OpsShape' /\ DaemonInv'
    BY <1>0, <1>4, <2>1, ForwardTypes DEF Validate, OpPcs, Executing, storeVars
  <2> QED  BY <1>4, <2>2
       DEF Validate, TypeOK, StoreTypeOK, WorldTypeOK, BoundTypeOK, storeVars, worldVars,
           boundVars
<1>5. CASE Install
  <2>1. CASE local[Op.path] = Absent /\ temp[cur] # Absent
    <3> DEFINE new == [kind |-> "file", ver |-> temp[cur].ver, ino |-> tick + 1]
    <3>1. temp[cur] \in LocalPrints /\ new \in LocalFiles /\ tick' \in Nat
      BY <1>0, <1>5, <2>1 DEF Install, LocalPrints, LocalFiles, TypeOK, WorldTypeOK
    <3>2. /\ local' = [local EXCEPT ![Op.path] = new]
          /\ temp' = [temp EXCEPT ![cur] = Absent]
          /\ pc' \in {"observe", "drop"} /\ Stay
          /\ obs' = [obs EXCEPT !.result = temp[cur]]
          /\ applied' \in {applied, applied \union {cur}}
      BY <1>5, <2>1 DEF Install
    <3> HIDE DEF new
    <3>3. /\ local' \in [Paths -> LocalFiles \union {Absent}]
          /\ temp' \in [OpIds -> LocalPrints \union {Absent}]
          /\ applied' \subseteq OpIds
      BY <1>0, <3>1, <3>2 DEF TypeOK, WorldTypeOK
    <3>4. Live' = Live /\ OpsShape' /\ journal' = journal
      BY <1>0, <1>5, <2>1 DEF Install, OpsShape, Live
    <3>5. obs' \in [local : LocalPrints \union {Absent},
                   remote : RemoteFiles \union {Absent},
                   result : LocalPrints \union RemoteFiles \union {Absent}]
      BY <3>1, <3>2 DEF TypeOK, DaemonTypeOK
    <3>6. DaemonInv'
      BY <1>0, <3>2, <3>4, <3>5, GotoInv DEF OpPcs, Executing
    <3> QED  BY <1>5, <3>1, <3>3, <3>4, <3>6
         DEF Install, TypeOK, StoreTypeOK, WorldTypeOK, BoundTypeOK, boundVars
  <2>2. CASE ~(local[Op.path] = Absent /\ temp[cur] # Absent)
    <3>1. /\ journal' \in [OpIds -> Operations \union {Absent}]
          /\ temp' \in [OpIds -> LocalPrints \union {Absent}]
          /\ OpsShape' /\ DaemonInv'
      <4>1. CASE Fail
        BY <1>0, <4>1, FailInv
      <4>2. CASE Goto("restore") /\ UNCHANGED <<journal, temp>>
        BY <1>0, <4>2, ForwardTypes DEF OpPcs, Executing, TypeOK, WorldTypeOK
      <4> QED  BY <1>5, <2>2, <4>1, <4>2 DEF Install
    <3> QED  BY <1>5, <2>2, <3>1
         DEF Install, TypeOK, StoreTypeOK, WorldTypeOK, BoundTypeOK, boundVars
  <2> QED  BY <2>1, <2>2
<1>6. CASE Restore
  <2>1. /\ journal' \in [OpIds -> Operations \union {Absent}]
        /\ temp' \in [OpIds -> LocalPrints \union {Absent}]
        /\ OpsShape' /\ DaemonInv'
    BY <1>0, <1>6, FailInv DEF Restore
  <2>2. /\ local' \in [Paths -> LocalFiles \union {Absent}]
        /\ slot' \in [OpIds -> LocalFiles \union {Absent}]
    BY <1>0, <1>6, RestoreSlotTypes DEF Restore
  <2> QED  BY <1>6, <2>1, <2>2
       DEF Restore, TypeOK, StoreTypeOK, WorldTypeOK, BoundTypeOK, boundVars
<1>7. CASE Drop
  <2>1. journal' \in [OpIds -> Operations \union {Absent}] /\ OpsShape' /\ DaemonInv'
    BY <1>0, <1>7, ForwardTypes DEF Drop, OpPcs, Executing, storeVars
  <2>2. slot' \in [OpIds -> LocalFiles \union {Absent}] /\ applied' \subseteq OpIds
    BY <1>0, <1>7 DEF Drop, TypeOK, WorldTypeOK
  <2> QED  BY <1>7, <2>1, <2>2
       DEF Drop, TypeOK, StoreTypeOK, WorldTypeOK, BoundTypeOK, storeVars, boundVars
<1> QED  BY <1>1, <1>2, <1>3, <1>4, <1>5, <1>6, <1>7

\* The end of an execution keeps the invariant.
LEMMA CompletionTypes == ASSUME TypeInv, Observe \/ Settle PROVE TypeInv'
<1> USE DEF TypeInv, DaemonInv
<1>0. /\ pc \in OpPcs /\ UNCHANGED <<cli, nextOp>>
      /\ cur \in OpIds /\ cur \in Live /\ Op \in Operations /\ Op.path \in Paths
  <2>1. pc \in OpPcs /\ UNCHANGED <<cli, nextOp>>
    BY DEF Observe, Settle, OpPcs, Executing, storeVars
  <2> QED  BY <2>1, CurrentOp
<1>1. CASE Observe
  <2>1. Live' = Live /\ OpsShape'
    BY <1>1 DEF Observe, OpsShape, Live, storeVars
  <2>2. LocalPrint(local[Op.path]) \in LocalPrints \union {Absent}
    BY <1>0, Prints DEF TypeOK, WorldTypeOK
  <2>3. obs' \in [local : LocalPrints \union {Absent},
                 remote : RemoteFiles \union {Absent},
                 result : LocalPrints \union RemoteFiles \union {Absent}]
    BY <1>1, <2>2 DEF Observe, TypeOK, DaemonTypeOK
  <2>4. DaemonInv'
    BY <1>0, <1>1, <2>1, <2>3, GotoInv DEF Observe, OpPcs, Executing
  <2> QED  BY <1>1, <2>1, <2>4
       DEF Observe, TypeOK, StoreTypeOK, WorldTypeOK, BoundTypeOK, storeVars, worldVars, boundVars
<1>2. CASE Settle
  <2>1. /\ journal' \in [OpIds -> Operations \union {Absent}] /\ OpsShape' /\ DaemonInv'
        /\ baseline' \in [Paths -> [local : LocalPrints \union {Absent},
                                   remote : RemoteFiles \union {Absent}]]
    <3>1. CASE CommitBaseline(obs.local, remote[Op.path])
      <4>1. DeleteOp /\ FinishedOp
        BY <3>1 DEF CommitBaseline
      <4>2. journal' \in [OpIds -> Operations \union {Absent}] /\ OpsShape' /\ DaemonInv'
        BY <1>0, <4>1, DeleteOpInv, FinishedInv
      <4>3. baseline' \in [Paths -> [local : LocalPrints \union {Absent},
                                    remote : RemoteFiles \union {Absent}]]
        BY <1>0, <3>1, ConstantTypes
           DEF CommitBaseline, TypeOK, StoreTypeOK, WorldTypeOK, DaemonTypeOK
      <4> QED  BY <4>2, <4>3
    <3>2. CASE SetPhase("recovering") /\ EndCycle /\ UNCHANGED baseline
      BY <1>0, <3>2, SetPhaseInv, EndCycleInv DEF Phases, TypeOK, StoreTypeOK
    <3> QED  BY <1>2, <3>1, <3>2 DEF Settle
  <2> QED  BY <1>2, <2>1
       DEF Settle, TypeOK, StoreTypeOK, WorldTypeOK, BoundTypeOK, worldVars, boundVars
<1> QED  BY <1>1, <1>2

\* Executing an operation keeps the invariant.
LEMMA ExecutionTypes == ASSUME TypeInv, ExecutionStep PROVE TypeInv'
BY RemoteMutationTypes, LocalMutationTypes, CompletionTypes DEF ExecutionStep

\* A pass keeps the invariant.
LEMMA PassTypes == ASSUME TypeInv, PassStep PROVE TypeInv'
<1> USE DEF TypeInv, DaemonInv
<1>1. CASE ScanLocal
  <2>1. DaemonInv'
    <3>1. CASE EndCycle
      BY <3>1, EndCycleInv
    <3>2. CASE /\ seen' = [seen EXCEPT !.local = [p \in Paths |-> LocalPrint(local[p])]]
               /\ pc' = "plan" /\ UNCHANGED <<queue, cur, pass, plan, left, obs>>
      <4>1. \A p \in Paths : LocalPrint(local[p]) \in LocalPrints \union {Absent}
        BY Prints DEF TypeOK, WorldTypeOK
      <4>2. seen' \in [local : [Paths -> LocalPrints \union {Absent}],
                      remote : [Paths -> RemoteFiles \union {Absent}]]
        BY <3>2, <4>1 DEF TypeOK, DaemonTypeOK
      <4>3. DaemonTypeOK'
        BY <3>2, <4>2 DEF TypeOK, DaemonTypeOK, Pcs
      <4>4. WorkerOK'
        BY <1>1, <3>2 DEF ScanLocal, WorkerOK, Live, storeVars, OpPcs, Executing
      <4>5. PlanShape'
        <5>1. plan = NoPlan /\ plan' = plan
          BY <1>1, <3>2 DEF ScanLocal, WorkerOK
        <5>2. \A p \in Paths : plan'[p].kind = "noop"
          BY <5>1, ConstantTypes DEF Decide
        <5> QED  BY <5>2 DEF PlanShape
      <4> QED  BY <4>3, <4>4, <4>5
    <3> QED  BY <1>1, <3>1, <3>2 DEF ScanLocal
  <2> QED  BY <1>1, <2>1
       DEF ScanLocal, TypeOK, StoreTypeOK, WorldTypeOK, BoundTypeOK, OpsShape, Live,
           storeVars, worldVars, boundVars
<1>2. CASE PlanPass
  <2>1. DaemonInv'
    <3>1. CASE EndCycle
      BY <3>1, EndCycleInv
    <3>2. CASE ~EndCycle
      <4>1. PICK evidence \in [Paths -> Evidence] :
              /\ plan' = PlanFullSnapshot(initialized, baseline, seen.local, remote, evidence)
              /\ seen' = [seen EXCEPT !.remote = remote]
              /\ left' = Paths /\ pc' = "record" /\ UNCHANGED <<queue, cur, pass, obs>>
        BY <1>2, <3>2 DEF PlanPass, Evidence
      <4>2. initialized \in BOOLEAN /\ DOMAIN baseline = Paths
        BY DEF TypeOK, StoreTypeOK
      <4>3. plan' = [p \in Paths |->
                       PlanPath(initialized, baseline[p], seen.local[p], remote[p], evidence[p])]
        BY <4>1, <4>2, Zenon DEF PlanFullSnapshot
      <4>4. \A p \in Paths : /\ plan'[p] \in Decisions
                             /\ plan'[p].kind = "ensure-remote" => seen.local[p] # Absent
                             /\ plan'[p].kind = "ensure-local" => remote[p] # Absent
        BY <4>2, <4>3, PlanPathJustified DEF Justified
      <4>5. seen' \in [local : [Paths -> LocalPrints \union {Absent}],
                      remote : [Paths -> RemoteFiles \union {Absent}]]
            /\ seen'.local = seen.local /\ seen'.remote = remote
        BY <4>1 DEF TypeOK, DaemonTypeOK, WorldTypeOK
      <4>6. plan' \in [Paths -> Decisions]
        BY <4>3, <4>4
      <4>7. DaemonTypeOK'
        BY <4>1, <4>5, <4>6 DEF TypeOK, DaemonTypeOK, Pcs
      <4>8. WorkerOK'
        BY <1>2, <4>1 DEF PlanPass, WorkerOK, Live, storeVars, OpPcs, Executing
      <4>9. PlanShape'
        BY <4>4, <4>5 DEF PlanShape
      <4> QED  BY <4>7, <4>8, <4>9
    <3> QED  BY <3>1, <3>2
  <2> QED  BY <1>2, <2>1
       DEF PlanPass, TypeOK, StoreTypeOK, WorldTypeOK, BoundTypeOK, OpsShape, Live,
           storeVars, worldVars, boundVars
<1>3. ASSUME NEW p \in Paths, RecordPath(p) PROVE TypeInv'
  <2>1. /\ seen.local[p] \in LocalPrints \union {Absent}
        /\ seen.remote[p] \in RemoteFiles \union {Absent}
        /\ plan[p].conflict \in ConflictKinds \union {"none"}
    BY DEF TypeOK, DaemonTypeOK, Decisions
  <2>2. baseline' \in [Paths -> [local : LocalPrints \union {Absent},
                                remote : RemoteFiles \union {Absent}]]
    <3>1. PICK b : /\ baseline' = [baseline EXCEPT ![p] = b]
                   /\ b \in {[local |-> seen.local[p], remote |-> seen.remote[p]],
                             EmptyBaseline, baseline[p]}
      <4> DEFINE b == CASE plan[p].kind = "commit-baseline" ->
                             [local |-> seen.local[p], remote |-> seen.remote[p]]
                        [] plan[p].kind = "drop-baseline" -> EmptyBaseline
                        [] plan[p].kind \notin {"commit-baseline", "drop-baseline"} ->
                             baseline[p]
      <4>1. b \in {[local |-> seen.local[p], remote |-> seen.remote[p]],
                  EmptyBaseline, baseline[p]}
        OBVIOUS
      <4>2. baseline' = [baseline EXCEPT ![p] = b]
        BY <1>3, Zenon DEF RecordPath
      <4> QED  BY <4>1, <4>2
    <3>2. b \in [local : LocalPrints \union {Absent}, remote : RemoteFiles \union {Absent}]
      BY <2>1, <3>1, ConstantTypes DEF TypeOK, StoreTypeOK
    <3> QED  BY <3>1, <3>2 DEF TypeOK, StoreTypeOK
  <2>3. conflicts' \in [Paths -> [kind : ConflictKinds \union {"none"},
                                 local : LocalPrints \union {Absent},
                                 remote : RemoteFiles \union {Absent}]]
    <3>1. PICK c : /\ conflicts' = [conflicts EXCEPT ![p] = c]
                   /\ c \in {[kind |-> plan[p].conflict, local |-> seen.local[p],
                              remote |-> seen.remote[p]], NoConflict}
      BY <1>3 DEF RecordPath
    <3>2. c \in [kind : ConflictKinds \union {"none"}, local : LocalPrints \union {Absent},
                remote : RemoteFiles \union {Absent}]
      BY <2>1, <3>1, ConstantTypes
    <3> QED  BY <3>1, <3>2 DEF TypeOK, StoreTypeOK
  <2>4. DaemonInv'
    BY <1>3 DEF RecordPath, TypeOK, DaemonTypeOK, WorkerOK, PlanShape, Live, Pcs, OpPcs, Executing
  <2> QED  BY <1>3, <2>2, <2>3, <2>4
       DEF RecordPath, TypeOK, StoreTypeOK, WorldTypeOK, BoundTypeOK, OpsShape, Live,
           worldVars, boundVars
<1>4. CASE DecidePass
  <2>1. DaemonInv'
    <3>1. CASE EndCycle
      BY <3>1, EndCycleInv
    <3>2. CASE Goto("dispatch")
      BY <1>4, <3>2
         DEF DecidePass, Goto, Stay, TypeOK, DaemonTypeOK, WorkerOK, PlanShape, Live, Pcs,
             OpPcs, Executing
    <3> QED  BY <1>4, <3>1, <3>2 DEF DecidePass
  <2>2. initialized' \in BOOLEAN
    BY <1>4, Zenon DEF DecidePass, TypeOK, StoreTypeOK
  <2>3. OpsShape' /\ StoreTypeOK'
    BY <1>4, <2>2 DEF DecidePass, TypeOK, StoreTypeOK, OpsShape, Live
  <2> QED  BY <1>4, <2>1, <2>3
       DEF DecidePass, TypeOK, WorldTypeOK, BoundTypeOK, worldVars, boundVars
<1>5. ASSUME NEW p \in Paths, Dispatch(p) PROVE TypeInv'
  <2> DEFINE op == NewOp(plan[p].kind, p, seen.local[p], seen.remote[p], FALSE)
  <2>1. op \in Operations /\ WellFormed(op) /\ op.kind = plan[p].kind
    <3>1. plan[p].kind \in ExternalKinds
      BY <1>5 DEF Dispatch, External
    <3>2. /\ seen.local[p] \in LocalPrints \union {Absent}
          /\ seen.remote[p] \in RemoteFiles \union {Absent}
      BY DEF TypeOK, DaemonTypeOK
    <3> QED  BY <3>1, <3>2, NewOpType DEF PlanShape, NewOp
  <2> HIDE DEF op
  <2>2. /\ nextOp \in OpIds /\ journal' = [journal EXCEPT ![nextOp] = op]
        /\ nextOp' = nextOp + 1 /\ cur' = nextOp
    BY <1>5 DEF Dispatch, CreateOperation, OpIds, TypeOK, StoreTypeOK, op
  <2>3. journal' \in [OpIds -> Operations \union {Absent}]
    BY <2>1, <2>2 DEF TypeOK, StoreTypeOK
  <2>4. journal'[nextOp] = op /\ \A o \in OpIds : o # nextOp => journal'[o] = journal[o]
    BY <2>2 DEF TypeOK, StoreTypeOK
  <2>5. Live' = Live \union {nextOp}
    BY <2>1, <2>2, <2>4, AbsentAssumption DEF Live
  <2>6. OpsShape'
    <3>1. \A o \in Live' : WellFormed(journal'[o]) /\ o < nextOp'
      BY <2>1, <2>2, <2>4, <2>5 DEF OpsShape, OpIds, Live
    <3> QED  BY <1>5, <3>1 DEF OpsShape, Dispatch
  <2>7. DaemonInv'
    <3>1. DaemonTypeOK'
      BY <1>5, <2>2 DEF Dispatch, TypeOK, DaemonTypeOK, Pcs
    <3>2. WorkerOK'
      BY <1>5, <2>2, <2>5 DEF Dispatch, WorkerOK, OpPcs, Executing
    <3>3. PlanShape'
      BY <1>5 DEF Dispatch, PlanShape
    <3> QED  BY <3>1, <3>2, <3>3
  <2> QED  BY <1>5, <2>2, <2>3, <2>6, <2>7
       DEF Dispatch, TypeOK, StoreTypeOK, WorldTypeOK, BoundTypeOK, worldVars, boundVars
<1> QED  BY <1>1, <1>2, <1>3, <1>4, <1>5 DEF PassStep

\* A failing call and a crash.
LEMMA FailureTypes == ASSUME TypeInv, CallFails \/ Crash \/ Start PROVE TypeInv'
<1> USE DEF TypeInv, DaemonInv
<1>1. CASE CallFails
  <2>1. pc \in Executing \union {"pin", "prove", "compare", "cleanup"}
        => /\ cur \in OpIds /\ cur \in Live /\ Op.path \in Paths
    BY CurrentOp DEF OpPcs
  <2>2. DaemonInv'
    BY <1>1, EndCycleInv DEF CallFails
  <2>3. journal' \in [OpIds -> Operations \union {Absent}] /\ OpsShape'
    <3>1. CASE UNCHANGED journal
      BY <1>1, <3>1 DEF CallFails, OpsShape, Live, TypeOK, StoreTypeOK
    <3>2. CASE pc \in Executing \union {"pin"} /\ DeleteOp
      BY <1>1, <2>1, <3>2, DeleteOpInv DEF CallFails
    <3>3. CASE pc \in Executing \union {"prove", "compare", "cleanup"} /\ SetPhase("recovering")
      BY <1>1, <2>1, <3>3, SetPhaseInv DEF CallFails, Phases
    <3> QED  BY <1>1, <3>1, <3>2, <3>3 DEF CallFails
  <2>4. temp' \in [OpIds -> LocalPrints \union {Absent}]
    BY <1>1 DEF CallFails, TypeOK, WorldTypeOK
  <2>5. /\ local' \in [Paths -> LocalFiles \union {Absent}]
        /\ slot' \in [OpIds -> LocalFiles \union {Absent}]
    <3>1. CASE UNCHANGED <<local, slot>>
      BY <3>1 DEF TypeOK, WorldTypeOK
    <3>2. CASE pc \in {"validate", "install", "drop"} /\ RestoreSlot
      BY <2>1, <3>2, RestoreSlotTypes DEF Executing
    <3> QED  BY <1>1, <3>1, <3>2 DEF CallFails
  <2> QED  BY <1>1, <2>2, <2>3, <2>4, <2>5
       DEF CallFails, Fault, TypeOK, StoreTypeOK, WorldTypeOK, BoundTypeOK
<1>2. CASE Crash
  <2>1. DaemonInv'
    <3>1. \A p \in Paths : NoPlan[p].kind = "noop"
      BY ConstantTypes DEF Decide
    <3> QED  BY <1>2, <3>1, ConstantTypes, SyncCycleAssumption
         DEF Crash, DaemonTypeOK, WorkerOK, PlanShape, Pcs, OpPcs, Executing
  <2> QED  BY <1>2, <2>1
       DEF Crash, TypeOK, StoreTypeOK, WorldTypeOK, BoundTypeOK, OpsShape, Live,
           storeVars, worldVars
<1>3. CASE Start
  <2>1. DaemonInv'
    BY <1>3 DEF Start, TypeOK, DaemonTypeOK, WorkerOK, PlanShape, Live, Pcs, OpPcs, Executing,
                storeVars
  <2> QED  BY <1>3, <2>1
       DEF Start, TypeOK, StoreTypeOK, WorldTypeOK, BoundTypeOK, OpsShape, Live,
           storeVars, worldVars, boundVars
<1> QED  BY <1>1, <1>2, <1>3

\* The worker's part of the invariant survives a step that takes nothing out
\* of the journal and leaves the worker alone.
LEMMA WorkerUntouched ==
  ASSUME TypeInv, UNCHANGED daemonVars, Live \subseteq Live',
         pc = "upload" => journal'[cur].kind = journal[cur].kind
  PROVE  DaemonInv'
BY DEF daemonVars, TypeInv, TypeOK, DaemonInv, DaemonTypeOK, WorkerOK, PlanShape

\* The commands of the CLI.
LEMMA CliTypes == ASSUME TypeInv, CliNext PROVE TypeInv'
<1> USE DEF TypeInv, DaemonInv
<1>1. CASE SetEnabled
  <2>1. enabled' \in BOOLEAN
    BY <1>1, Zenon DEF SetEnabled
  <2>2. DaemonInv'
    BY <1>1, WorkerUntouched DEF SetEnabled, Live
  <2> QED  BY <1>1, <2>1, <2>2
       DEF SetEnabled, Command, TypeOK, StoreTypeOK, WorldTypeOK, BoundTypeOK, OpsShape, Live,
           worldVars
<1>2. ASSUME NEW p \in Paths, NEW keepLocal \in BOOLEAN, CheckResolve(p, keepLocal)
      PROVE  TypeInv'
  <2> DEFINE c == conflicts[p]
             kind == ResolutionKind(c, keepLocal)
  <2>1. /\ c.local \in LocalPrints \union {Absent}
        /\ c.remote \in RemoteFiles \union {Absent}
    BY DEF TypeOK, StoreTypeOK
  <2>2. /\ kind \in ExternalKinds
        /\ kind = "ensure-remote" => c.local # Absent
        /\ kind = "ensure-local" => c.remote # Absent
    <3>1. CASE keepLocal /\ c.local # Absent
      BY <3>1 DEF ResolutionKind, ExternalKinds
    <3>2. CASE keepLocal /\ c.local = Absent
      BY <3>2 DEF ResolutionKind, ExternalKinds
    <3>3. CASE ~keepLocal /\ c.remote # Absent
      BY <3>3 DEF ResolutionKind, ExternalKinds
    <3>4. CASE ~keepLocal /\ c.remote = Absent
      BY <3>4 DEF ResolutionKind, ExternalKinds
    <3> QED  BY <3>1, <3>2, <3>3, <3>4
  <2> HIDE DEF kind
  <2>3. cli' = NewOp(kind, p, c.local, c.remote, TRUE)
    BY <1>2 DEF CheckResolve, kind
  <2>4. cli' \in Operations /\ WellFormed(cli') /\ cli'.phase = "planned"
    BY <2>1, <2>2, <2>3, NewOpType DEF NewOp
  <2>5. DaemonInv'
    BY <1>2, WorkerUntouched DEF CheckResolve, storeVars, Live
  <2>6. UNCHANGED <<storeVars, worldVars, applied, edits, crashes, faults>> /\ Command
    BY <1>2 DEF CheckResolve
  <2>7. StoreTypeOK' /\ WorldTypeOK' /\ BoundTypeOK' /\ applied' \subseteq OpIds
    BY <2>6 DEF Command, TypeOK, StoreTypeOK, WorldTypeOK, BoundTypeOK, storeVars, worldVars
  <2>8. OpsShape'
    BY <2>4, <2>6 DEF OpsShape, Live, storeVars
  <2> QED  BY <2>4, <2>5, <2>7, <2>8 DEF TypeOK
<1>3. CASE QueueResolve
  <2>1. /\ cli \in Operations /\ WellFormed(cli)
        /\ nextOp \in OpIds /\ nextOp \in Nat /\ nextOp' = nextOp + 1
        /\ journal' = [journal EXCEPT ![nextOp] = cli] /\ cli' = Absent
    BY <1>3 DEF QueueResolve, CreateOperation, OpIds, OpsShape, TypeOK, StoreTypeOK
  <2>2. /\ journal' \in [OpIds -> Operations \union {Absent}]
        /\ journal'[nextOp] = cli /\ \A o \in OpIds : o # nextOp => journal'[o] = journal[o]
    BY <2>1 DEF TypeOK, StoreTypeOK
  <2>3. Live' = Live \union {nextOp} /\ nextOp \notin Live
    BY <2>1, <2>2, AbsentAssumption DEF Live, OpsShape
  <2>4. OpsShape'
    <3>1. \A o \in Live' : WellFormed(journal'[o]) /\ o < nextOp'
      BY <2>1, <2>2, <2>3 DEF OpsShape, OpIds, Live
    <3> QED  BY <2>1, <3>1 DEF OpsShape
  <2>5. DaemonInv'
    <3>1. pc = "upload" => cur \in Live /\ cur \in OpIds
      BY CurrentOp DEF OpPcs, Executing
    <3> QED  BY <1>3, <2>2, <2>3, <3>1, WorkerUntouched DEF QueueResolve
  <2> QED  BY <1>3, <2>1, <2>2, <2>4, <2>5
       DEF QueueResolve, TypeOK, StoreTypeOK, WorldTypeOK, BoundTypeOK, worldVars, boundVars
<1>4. ASSUME NEW o \in OpIds, ResolveRetry(o) \/ ResolveRestore(o) PROVE TypeInv'
  <2>1. /\ o \in Live /\ journal[o] \in Operations /\ journal[o].path \in Paths
        /\ pc = "down" /\ UNCHANGED <<daemonVars, cli, nextOp>>
        /\ journal' = [journal EXCEPT ![o].phase = "recovering"]
    BY <1>4 DEF ResolveRetry, ResolveRestore, TypeOK, StoreTypeOK, Live, Operations
  <2> DEFINE new == [journal[o] EXCEPT !.phase = "recovering"]
  <2>2. /\ new \in Operations /\ new.kind = journal[o].kind
        /\ new.expLocal = journal[o].expLocal /\ new.expRemote = journal[o].expRemote
    BY <2>1 DEF Operations, Phases
  <2>3. journal' = [journal EXCEPT ![o] = new]
    BY <2>1
  <2> HIDE DEF new
  <2>4. /\ journal' \in [OpIds -> Operations \union {Absent}]
        /\ journal'[o] = new
        /\ \A other \in OpIds : other # o => journal'[other] = journal[other]
    BY <2>2, <2>3 DEF TypeOK, StoreTypeOK
  <2>5. Live' = Live
    BY <2>1, <2>2, <2>4, AbsentAssumption DEF Live
  <2>6. OpsShape'
    BY <2>1, <2>2, <2>4, <2>5 DEF OpsShape, WellFormed, Live
  <2>7. DaemonInv'
    BY <2>1, <2>5, WorkerUntouched
  <2>8. /\ local' \in [Paths -> LocalFiles \union {Absent}]
        /\ slot' \in [OpIds -> LocalFiles \union {Absent}]
    BY <1>4, <2>1 DEF ResolveRetry, ResolveRestore, TypeOK, WorldTypeOK, worldVars
  <2> QED  BY <1>4, <2>1, <2>4, <2>6, <2>7, <2>8
       DEF ResolveRetry, ResolveRestore, TypeOK, StoreTypeOK, WorldTypeOK, BoundTypeOK,
           worldVars, boundVars
<1> QED  BY <1>1, <1>2, <1>3, <1>4 DEF CliNext

\* The edits of the user and of other clients.
LEMMA EditTypes == ASSUME TypeInv, UserNext PROVE TypeInv'
<1> USE DEF TypeInv, DaemonInv
<1>1. PICK p \in Paths :
        \/ \E ver \in Versions : LocalPut(p, ver) \/ LocalWrite(p, ver) \/ RemotePut(p, ver)
        \/ LocalRemove(p) \/ RemoteRemove(p)
  BY DEF UserNext
<1>2. Edit
  BY <1>1 DEF LocalPut, LocalWrite, RemotePut, LocalRemove, RemoteRemove
<1>3. /\ local' \in [Paths -> LocalFiles \union {Absent}]
      /\ remote' \in [Paths -> RemoteFiles \union {Absent}]
      /\ tick' \in Nat
  <2>1. ASSUME NEW ver \in Versions, LocalPut(p, ver) PROVE <1>3!:
    BY <2>1 DEF LocalPut, LocalFiles, TypeOK, WorldTypeOK
  <2>2. ASSUME NEW ver \in Versions, LocalWrite(p, ver) PROVE <1>3!:
    BY <2>2 DEF LocalWrite, LocalFiles, TypeOK, WorldTypeOK
  <2>3. ASSUME NEW ver \in Versions, RemotePut(p, ver) PROVE <1>3!:
    <3>1. remote[p] \in RemoteFiles \union {Absent} /\ tick + 1 \in Nat
      BY DEF TypeOK, WorldTypeOK
    <3>2. Uploaded(ver, remote[p], tick + 1) \in RemoteFiles
      BY <3>1, UploadedType
    <3> QED  BY <2>3, <3>2, <3>1 DEF RemotePut, TypeOK, WorldTypeOK
  <2>4. CASE LocalRemove(p) \/ RemoteRemove(p)
    BY <2>4 DEF LocalRemove, RemoteRemove, TypeOK, WorldTypeOK
  <2> QED  BY <1>1, <2>1, <2>2, <2>3, <2>4
<1>4. DaemonInv'
  BY <1>2, WorkerUntouched DEF Edit, storeVars, Live
<1> QED  BY <1>2, <1>3, <1>4
     DEF Edit, TypeOK, StoreTypeOK, WorldTypeOK, BoundTypeOK, OpsShape, Live, storeVars

\* Every step, and every stuttering step, keeps the invariant.
LEMMA TypeInvStep == TypeInv /\ [Next]_vars => TypeInv'
<1> SUFFICES ASSUME TypeInv, [Next]_vars PROVE TypeInv'
  OBVIOUS
<1>1. CASE DaemonNext
  BY <1>1, RecoveryTypes, ExecutionTypes, PassTypes, FailureTypes DEF DaemonNext, WorkerStep
<1>2. CASE Crash \/ Start
  BY <1>2, FailureTypes
<1>3. CASE CliNext
  BY <1>3, CliTypes
<1>4. CASE UserNext
  BY <1>4, EditTypes
<1>5. CASE UNCHANGED vars
  BY <1>5 DEF vars, storeVars, worldVars, daemonVars, boundVars, TypeInv, TypeOK,
       StoreTypeOK, WorldTypeOK, DaemonTypeOK, BoundTypeOK, WorkerOK, OpsShape, PlanShape, Live
<1> QED  BY <1>1, <1>2, <1>3, <1>4, <1>5 DEF Next

\* The store, the two trees, the slots and the worker stay well typed: the
\* planner only ever proposes what the snapshot supports, so no operation is
\* executed on an entry that is not there.
THEOREM TypeCorrect == Spec => []TypeOK
<1>1. TypeInv => TypeOK
  BY DEF TypeInv
<1> QED  BY <1>1, TypeInvInit, TypeInvStep, PTL DEF Spec

(***************************************************************************)
(* Preserved data always has an owner                                      *)
(***************************************************************************)

JournalInv == StartedPinned /\ StageOK /\ PreservedHasOwner

\* Nothing new is in a recovery slot.
NothingPreserved == \A o \in OpIds : slot'[o] # Absent => slot[o] # Absent

\* Between operations the worker's position says nothing about the journal.
LEMMA StageBetween == ASSUME pc' \notin OpPcs PROVE StageOK'
BY DEF StageOK, OpPcs, Executing, Moving, Sending, Ending

\* The ways to leave an operation end between operations.
LEMMA LeavesOperation ==
  /\ EndCycle => pc' \notin OpPcs
  /\ \A n \in Nat : BeginPass(n) => pc' \notin OpPcs
  /\ \A o \in OpIds : RecoveredOp(o) => pc' \notin OpPcs
  /\ TypeInv => \A p \in Paths : DispatchedOp(p) => pc' \notin OpPcs
  /\ TypeInv /\ cur \in Live /\ FinishedOp => pc' \notin OpPcs
<1>1. EndCycle => pc' \notin OpPcs
  BY DEF EndCycle, OpPcs, Executing
<1>2. \A n : BeginPass(n) => pc' \notin OpPcs
  BY DEF BeginPass, OpPcs, Executing
<1>3. \A o : RecoveredOp(o) => pc' \notin OpPcs
  BY <1>2 DEF RecoveredOp, OpPcs, Executing
<1>4. \A p : DispatchedOp(p) => pc' \notin OpPcs
  BY <1>1, <1>2 DEF DispatchedOp, OpPcs, Executing
<1> QED  BY <1>1, <1>2, <1>3, <1>4 DEF FinishedOp

\* The journal is left alone.
LEMMA JournalUntouched ==
  ASSUME OwnerInv, UNCHANGED journal,
         \A o \in OpIds : slot'[o] # Absent => slot[o] # Absent \/ OwnsRecoverySlot(o)
  PROVE  StartedPinned' /\ PreservedHasOwner'
BY DEF OwnerInv, StartedPinned, PreservedHasOwner, OwnsRecoverySlot, Live, Started, LocalMutation

\* The current operation is started, or stays so.
LEMMA PhaseKept ==
  ASSUME OwnerInv, cur \in Live, NEW phase \in Phases \ {"planned"}, SetPhase(phase),
         LocalMutation(Op) => Op.pinned, NothingPreserved
  PROVE  /\ StartedPinned' /\ PreservedHasOwner'
         /\ cur' = cur => /\ Started(Op)'
                          /\ LocalMutation(Op)' <=> LocalMutation(Op)
                          /\ LocalMutation(Op)' => Op'.pinned
<1> DEFINE new == [journal[cur] EXCEPT !.phase = phase]
<1>1. /\ cur \in OpIds /\ journal \in [OpIds -> Operations \union {Absent}]
      /\ journal[cur] \in Operations /\ Op = journal[cur]
  BY DEF OwnerInv, TypeInv, TypeOK, StoreTypeOK, Live, Op
<1>2. new \in Operations /\ new.phase = phase /\ new.kind = Op.kind /\ new.pinned = Op.pinned
  BY <1>1 DEF Operations
<1>3. journal' = [journal EXCEPT ![cur] = new]
  BY DEF SetPhase
<1> HIDE DEF new
<1>4. journal'[cur] = new /\ \A o \in OpIds : o # cur => journal'[o] = journal[o]
  BY <1>1, <1>3
<1>5. StartedPinned'
  BY <1>1, <1>2, <1>4 DEF OwnerInv, StartedPinned, Live, LocalMutation, Started
<1>6. PreservedHasOwner'
  <2>1. ASSUME NEW o \in OpIds, slot'[o] # Absent PROVE OwnsRecoverySlot(o)'
    <3>1. OwnsRecoverySlot(o)
      BY <2>1 DEF NothingPreserved, OwnerInv, PreservedHasOwner
    <3>2. CASE o # cur
      BY <1>4, <3>1, <3>2 DEF OwnsRecoverySlot, LocalMutation, Started
    <3>3. CASE o = cur
      <4>1. journal'[o] # Absent
        BY <1>2, <1>4, <3>3, AbsentAssumption
      <4> QED  BY <1>1, <1>2, <1>4, <3>1, <3>3, <4>1 DEF OwnsRecoverySlot, LocalMutation, Started
    <3> QED  BY <3>2, <3>3
  <2> QED  BY <2>1 DEF PreservedHasOwner
<1>7. ASSUME cur' = cur
      PROVE  /\ Started(Op)'
             /\ LocalMutation(Op)' <=> LocalMutation(Op)
             /\ LocalMutation(Op)' => Op'.pinned
  BY <1>2, <1>4, <1>7 DEF Op, Started, LocalMutation
<1> QED  BY <1>5, <1>6, <1>7

\* An operation with an empty recovery slot is deleted.
LEMMA DeletedKept ==
  ASSUME OwnerInv, cur \in Live, DeleteOp, NothingPreserved, slot'[cur] = Absent
  PROVE  StartedPinned' /\ PreservedHasOwner'
<1>1. cur \in OpIds /\ journal \in [OpIds -> Operations \union {Absent}]
  BY DEF OwnerInv, TypeInv, TypeOK, StoreTypeOK, Live
<1>2. journal'[cur] = Absent /\ \A o \in OpIds : o # cur => journal'[o] = journal[o]
  BY <1>1 DEF DeleteOp
<1> QED  BY <1>2
     DEF OwnerInv, StartedPinned, PreservedHasOwner, NothingPreserved, OwnsRecoverySlot, Live,
         LocalMutation, Started

\* A planned operation has preserved nothing yet.
LEMMA PlannedOwnsNothing ==
  ASSUME OwnerInv, cur \in Live, Op.phase = "planned" PROVE slot[cur] = Absent
BY DEF OwnerInv, PreservedHasOwner, OwnsRecoverySlot, Started, Op, Live

\* Giving up an operation: it is forgotten only while it is planned.
LEMMA GiveUpKept ==
  ASSUME OwnerInv, cur \in Live, GiveUp, NothingPreserved, LocalMutation(Op) => Op.pinned
  PROVE  JournalInv'
<1>1. StageOK'
  BY StageBetween, LeavesOperation DEF GiveUp
<1>2. CASE Op.phase = "planned"
  <2>1. slot'[cur] = Absent
    BY <1>2, PlannedOwnsNothing DEF NothingPreserved, Live
  <2> QED  BY <1>1, <1>2, <2>1, DeletedKept DEF GiveUp, JournalInv
<1>3. CASE Op.phase # "planned"
  BY <1>1, <1>3, PhaseKept DEF GiveUp, JournalInv, Phases
<1> QED  BY <1>2, <1>3

\* The recovery of the journal.
LEMMA RecoveryOwner == ASSUME OwnerInv, RecoveryStep PROVE JournalInv'
<1> USE DEF JournalInv
<1>0. TypeInv /\ JournalInv
  BY DEF OwnerInv
<1>1. CASE BeginCycle
  <2>1. pc' \notin OpPcs
    BY <1>1, LeavesOperation DEF BeginCycle, OpPcs, Executing
  <2> QED  BY <1>1, <2>1, StageBetween, JournalUntouched DEF BeginCycle, storeVars, worldVars
<1>2. CASE RecoverBlocked
  BY <1>2, LeavesOperation, StageBetween, JournalUntouched DEF RecoverBlocked, storeVars, worldVars
<1>3. CASE RecoverPlanned
  <2>1. PICK o \in queue :
          /\ journal[o].phase = "planned" /\ cur' = o
          /\ pc' = IF LocalMutation(journal[o]) /\ ~journal[o].pinned THEN "pin" ELSE "check"
    BY <1>3 DEF RecoverPlanned
  <2>2. Op' = journal[o]
    BY <1>3, <2>1 DEF RecoverPlanned, storeVars, Op
  <2>3. StageOK'
    BY <2>1, <2>2 DEF StageOK, Moving, Sending, Ending, LocalMutation
  <2> QED  BY <1>3, <2>3, JournalUntouched DEF RecoverPlanned, storeVars, worldVars
<1>4. CASE RecoverStarted
  <2>1. PICK o \in queue : /\ journal[o].phase \in {"running", "recovering"} /\ cur' = o
                          /\ journal' = [journal EXCEPT ![o].phase = "recovering"]
    BY <1>4 DEF RecoverStarted
  <2>2. /\ o \in OpIds /\ o \in Live /\ journal[o] \in Operations
        /\ journal \in [OpIds -> Operations \union {Absent}]
    BY <1>0 DEF TypeInv, TypeOK, StoreTypeOK, WorkerOK, Live
  <2> DEFINE new == [journal[o] EXCEPT !.phase = "recovering"]
  <2>3. /\ new \in Operations /\ new.kind = journal[o].kind
        /\ new.pinned = journal[o].pinned /\ new.phase = "recovering"
    BY <2>2 DEF Operations, Phases
  <2>4. journal' = [journal EXCEPT ![o] = new]
    BY <2>1
  <2> HIDE DEF new
  <2>5. journal'[o] = new /\ \A other \in OpIds : other # o => journal'[other] = journal[other]
    BY <2>2, <2>4
  <2>6. new # Absent
    BY <2>3, AbsentAssumption
  <2>7. StartedPinned'
    BY <1>0, <2>1, <2>2, <2>3, <2>5 DEF StartedPinned, Live, LocalMutation, Started
  <2>8. PreservedHasOwner'
    BY <1>0, <1>4, <2>3, <2>5, <2>6
       DEF RecoverStarted, worldVars, PreservedHasOwner, OwnsRecoverySlot, LocalMutation, Started
  <2>9. StageOK'
    <3>1. Op' = new /\ pc' = "prove"
      BY <1>4, <2>1, <2>5 DEF RecoverStarted, Op
    <3>2. LocalMutation(new) => new.pinned
      BY <1>0, <2>1, <2>2, <2>3 DEF StartedPinned, LocalMutation, Started
    <3> QED  BY <2>3, <3>1, <3>2
         DEF StageOK, Moving, Sending, Ending, LocalMutation, Started
  <2> QED  BY <2>7, <2>8, <2>9
<1>5. CASE Pin
  <2>1. /\ cur \in OpIds /\ cur \in Live /\ Op \in Operations /\ Op.phase = "planned"
        /\ Op = journal[cur] /\ journal \in [OpIds -> Operations \union {Absent}]
    BY <1>0, <1>5, CurrentOp DEF Pin, OpPcs, StageOK, Op, TypeInv, TypeOK, StoreTypeOK
  <2>2. CASE LocalAsExpected
    <3> DEFINE target == IF Op.expLocal = Absent THEN 0 ELSE local[Op.path].ino
               new == [journal[cur] EXCEPT !.pinned = TRUE, !.pin = target]
    <3> HIDE DEF target
    <3>1. new.phase = "planned" /\ new.pinned /\ new.kind = Op.kind
      BY <2>1 DEF Operations
    <3>2. journal' = [journal EXCEPT ![cur] = new] /\ cur' = cur /\ pc' \in {"check", "exec"}
      BY <1>5, <2>2 DEF Pin, target, Goto, Stay
    <3> HIDE DEF new
    <3>3. journal'[cur] = new /\ \A o \in OpIds : o # cur => journal'[o] = journal[o]
      BY <2>1, <3>2
    <3>4. slot[cur] = Absent /\ UNCHANGED slot
      BY <1>5, <2>1, PlannedOwnsNothing DEF Pin, worldVars
    <3>5. StartedPinned'
      BY <1>0, <3>1, <3>3 DEF StartedPinned, Live, Started
    <3>6. PreservedHasOwner'
      BY <1>0, <3>3, <3>4 DEF PreservedHasOwner, OwnsRecoverySlot, LocalMutation, Started
    <3>7. Op' = new
      BY <3>2, <3>3 DEF Op
    <3>8. StageOK'
      BY <3>1, <3>2, <3>7 DEF StageOK, Moving, Sending, Ending
    <3> QED  BY <3>5, <3>6, <3>8
  <2>3. CASE ~LocalAsExpected
    <3>1. slot'[cur] = Absent /\ NothingPreserved
      BY <1>5, <2>1, PlannedOwnsNothing DEF Pin, worldVars, NothingPreserved
    <3> QED  BY <1>5, <2>1, <2>3, <3>1, DeletedKept, LeavesOperation, StageBetween DEF Pin
  <2> QED  BY <2>2, <2>3
<1>6. CASE CheckPlanned
  <2>1. cur \in Live /\ cur \in OpIds /\ Op.phase = "planned" /\ UNCHANGED slot
    BY <1>0, <1>6, CurrentOp DEF CheckPlanned, OpPcs, StageOK
  <2>2. CASE LocalAsExpected /\ RemoteAsExpected
    <3>1. pc' = "exec" /\ UNCHANGED <<cur, journal>> /\ Op' = Op
      BY <1>6, <2>2 DEF CheckPlanned, Goto, Stay, Op
    <3>2. StageOK'
      BY <1>0, <1>6, <3>1
         DEF CheckPlanned, StageOK, OpPcs, Moving, Sending, Ending, LocalMutation
    <3> QED  BY <2>1, <3>1, <3>2, JournalUntouched
  <2>3. CASE ~(LocalAsExpected /\ RemoteAsExpected)
    <3>1. slot'[cur] = Absent /\ NothingPreserved
      BY <2>1, PlannedOwnsNothing DEF NothingPreserved
    <3> QED  BY <1>6, <2>1, <2>3, <3>1, DeletedKept, LeavesOperation, StageBetween
             DEF CheckPlanned
  <2> QED  BY <2>2, <2>3
<1>7. CASE Prove
  <2>1. \/ pc' \notin OpPcs
        \/ pc' \in {"retry", "cleanup"} /\ UNCHANGED cur
    BY <1>7, LeavesOperation DEF Prove, Goto, Stay
  <2>2. UNCHANGED <<journal, slot>>
    BY <1>7 DEF Prove, storeVars, worldVars
  <2>3. StageOK'
    <3>1. CASE pc' \in {"retry", "cleanup"} /\ UNCHANGED cur
      <4>1. Op' = Op
        BY <2>2, <3>1 DEF Op
      <4> QED  BY <1>0, <1>7, <3>1, <4>1
           DEF Prove, StageOK, OpPcs, Moving, Sending, Ending, LocalMutation, Started
    <3> QED  BY <2>1, <3>1, StageBetween
  <2> QED  BY <2>2, <2>3, JournalUntouched
<1>8. CASE Cleanup
  <2>1. UNCHANGED journal /\ NothingPreserved /\ cur \in OpIds
    BY <1>0, <1>8, CurrentOp
       DEF Cleanup, storeVars, NothingPreserved, OpPcs, TypeInv, TypeOK, WorldTypeOK
  <2>2. \/ pc' \notin OpPcs
        \/ pc' = "commit" /\ UNCHANGED cur /\ slot'[cur] = Absent
    BY <1>0, <1>8, <2>1, LeavesOperation
       DEF Cleanup, Goto, Stay, TypeInv, TypeOK, WorldTypeOK
  <2>3. StageOK'
    <3>1. CASE pc' = "commit" /\ UNCHANGED cur /\ slot'[cur] = Absent
      <4>1. Op' = Op
        BY <2>1, <3>1 DEF Op
      <4> QED  BY <1>0, <1>8, <3>1, <4>1
           DEF Cleanup, StageOK, OpPcs, Moving, Sending, Ending, LocalMutation, Started
    <3> QED  BY <2>2, <3>1, StageBetween
  <2> QED  BY <2>1, <2>3, JournalUntouched DEF NothingPreserved
<1>9. CASE Commit
  <2>1. cur \in Live /\ slot'[cur] = Absent /\ NothingPreserved
    BY <1>0, <1>9, CurrentOp DEF Commit, OpPcs, StageOK, Ending, worldVars, NothingPreserved
  <2>2. DeleteOp /\ FinishedOp
    BY <1>9 DEF Commit, CommitBaseline
  <2> QED  BY <1>0, <2>1, <2>2, DeletedKept, LeavesOperation, StageBetween
<1>10. CASE Retry
  <2>1. cur \in Live /\ Started(Op) /\ (LocalMutation(Op) => Op.pinned) /\ UNCHANGED slot
    BY <1>0, <1>10, CurrentOp DEF Retry, OpPcs, StageOK, worldVars
  <2>2. CASE Goto("exec") /\ UNCHANGED journal
    <3>1. Op' = Op
      BY <2>2 DEF Op, Goto, Stay
    <3>2. StageOK'
      BY <1>0, <2>1, <2>2, <3>1
         DEF Goto, StageOK, OpPcs, Moving, Sending, Ending, LocalMutation
    <3> QED  BY <2>1, <2>2, <3>2, JournalUntouched
  <2>3. CASE SetPhase("blocked") /\ EndCycle
    BY <2>1, <2>3, PhaseKept, LeavesOperation, StageBetween DEF NothingPreserved, Phases
  <2> QED  BY <1>10, <2>2, <2>3 DEF Retry
<1>11. CASE FetchPinned \/ ComparePinned
  <2>1. \/ pc' \notin OpPcs
        \/ /\ pc' \in {"retry", "compare", "cleanup"} /\ UNCHANGED cur
           /\ pc' = "compare" => Op.kind = "ensure-local"
    BY <1>11, LeavesOperation DEF FetchPinned, ComparePinned, Goto, Stay
  <2>2. UNCHANGED <<journal, slot>>
    BY <1>11 DEF FetchPinned, ComparePinned, storeVars
  <2>3. StageOK'
    <3>1. CASE /\ pc' \in {"retry", "compare", "cleanup"} /\ UNCHANGED cur
               /\ pc' = "compare" => Op.kind = "ensure-local"
      <4>1. Op' = Op
        BY <2>2, <3>1 DEF Op
      <4> QED  BY <1>0, <1>11, <3>1, <4>1
           DEF FetchPinned, ComparePinned, StageOK, OpPcs, Moving, Sending, Ending,
               LocalMutation, Started
    <3> QED  BY <2>1, <3>1, StageBetween
  <2> QED  BY <2>2, <2>3, JournalUntouched
<1> QED  BY <1>1, <1>2, <1>3, <1>4, <1>5, <1>6, <1>7, <1>8, <1>9, <1>10, <1>11
     DEF RecoveryStep

\* A step that keeps the journal and the slots and goes on with the current
\* operation, or ends between operations.
LEMMA GoesOn ==
  ASSUME OwnerInv, pc \in OpPcs \ {"pin"}, NEW label \in OpPcs, pc' = label, UNCHANGED cur,
         UNCHANGED journal, NothingPreserved,
         label \notin {"pin", "check"},
         label \in Moving \union {"begin"} => LocalMutation(Op),
         label \in Sending => ~LocalMutation(Op),
         label = "compare" => Op.kind = "ensure-local",
         label # "exec" /\ label # "begin" => Started(Op),
         label \in Ending => slot'[cur] = Absent
  PROVE  JournalInv'
<1>1. Op' = Op
  BY DEF Op
<1>2. StageOK'
  BY <1>1 DEF OwnerInv, StageOK, Moving, Sending, Ending, LocalMutation, Started
<1> QED  BY <1>2, JournalUntouched DEF JournalInv, NothingPreserved

\* The steps that change the remote side.
LEMMA RemoteMutationOwner ==
  ASSUME OwnerInv, BeginRemote \/ Upload \/ UploadRefused \/ RemoteDelete \/ RemoteDeleteRefused
  PROVE  JournalInv'
<1>0. /\ TypeInv /\ JournalInv /\ pc \in OpPcs /\ cur \in Live /\ cur \in OpIds
      /\ UNCHANGED slot /\ NothingPreserved
  <2>1. TypeInv /\ JournalInv
    BY DEF OwnerInv, JournalInv
  <2>2. pc \in OpPcs /\ UNCHANGED slot
    BY DEF BeginRemote, Upload, UploadRefused, RemoteDelete, RemoteDeleteRefused, OpPcs,
           Executing, worldVars
  <2> QED  BY <2>1, <2>2, CurrentOp DEF NothingPreserved
<1>1. ~LocalMutation(Op) /\ pc \notin {"pin", "check"} /\ slot[cur] = Absent
  <2>1. ~LocalMutation(Op) /\ pc \notin {"pin", "check"}
    BY <1>0 DEF BeginRemote, Upload, UploadRefused, RemoteDelete, RemoteDeleteRefused,
                JournalInv, StageOK, Sending
  <2> QED  BY <1>0, <2>1 DEF JournalInv, PreservedHasOwner, OwnsRecoverySlot, Op
<1>2. CASE Fail
  BY <1>0, <1>1, <1>2, GiveUpKept DEF Fail
<1>3. CASE BeginRemote
  <2>1. CASE SetPhase("recovering") /\ EndCycle
    BY <1>0, <1>1, <2>1, PhaseKept, LeavesOperation, StageBetween DEF JournalInv, Phases
  <2>2. CASE SetPhase("running") /\ \E label \in Sending : Goto(label)
    <3>1. StartedPinned' /\ PreservedHasOwner' /\ Started(Op)' /\ ~LocalMutation(Op)'
      BY <1>0, <1>1, <2>2, PhaseKept DEF Goto, Stay, Phases
    <3>2. StageOK'
      BY <2>2, <3>1 DEF Goto, StageOK, Sending, Moving, Ending
    <3> QED  BY <3>1, <3>2 DEF JournalInv
  <2> QED  BY <1>3, <2>1, <2>2 DEF BeginRemote, Sending
<1>4. CASE pc \in Sending /\ pc' = "observe" /\ UNCHANGED <<cur, journal>>
  <2>1. Started(Op)
    BY <1>0, <1>4 DEF JournalInv, StageOK
  <2> QED  BY <1>0, <1>1, <1>4, <2>1, GoesOn
       DEF OpPcs, Executing, Moving, Sending, Ending
<1>5. CASE Upload \/ RemoteDelete
  BY <1>2, <1>4, <1>5 DEF Upload, RemoteDelete, Sending, Goto, Stay, storeVars
<1>6. CASE UploadRefused \/ RemoteDeleteRefused
  BY <1>2, <1>6 DEF UploadRefused, RemoteDeleteRefused
<1> QED  BY <1>3, <1>5, <1>6

\* The steps that change the local side, and their preparation.
LEMMA LocalMutationOwner ==
  ASSUME OwnerInv,
         Download \/ BeginLocal \/ Preserve \/ Validate \/ Install \/ Restore \/ Drop
  PROVE  JournalInv'
<1>0. /\ TypeInv /\ JournalInv /\ pc \in OpPcs \ {"pin", "check"}
      /\ cur \in Live /\ cur \in OpIds
      /\ LocalMutation(Op) /\ Op.pinned /\ (pc \in Moving => Started(Op))
  <2>1. TypeInv /\ JournalInv
    BY DEF OwnerInv, JournalInv
  <2>2. pc \in OpPcs \ {"pin", "check"}
    BY DEF Download, BeginLocal, Preserve, Validate, Install, Restore, Drop, OpPcs, Executing
  <2>3. LocalMutation(Op)
    BY <2>1 DEF Download, BeginLocal, Preserve, Validate, Install, Restore, Drop,
                JournalInv, StageOK, Moving, LocalMutation
  <2> QED  BY <2>1, <2>2, <2>3, CurrentOp DEF JournalInv, StageOK
<1>1. CASE GiveUp /\ NothingPreserved
  BY <1>0, <1>1, GiveUpKept
<1>2. CASE Download
  <2>1. UNCHANGED slot /\ NothingPreserved
    BY <1>2 DEF Download, NothingPreserved
  <2>2. CASE Goto("begin") /\ UNCHANGED journal
    BY <1>0, <2>1, <2>2, GoesOn DEF Goto, Stay, OpPcs, Executing, Sending, Ending
  <2> QED  BY <1>1, <1>2, <2>1, <2>2 DEF Download, Fail
<1>3. CASE BeginLocal
  <2>1. UNCHANGED slot /\ NothingPreserved
    BY <1>3 DEF BeginLocal, NothingPreserved
  <2>2. CASE SetPhase("running") /\ \E label \in {"install", "preserve"} : Goto(label)
    <3>1. /\ StartedPinned' /\ PreservedHasOwner'
          /\ Started(Op)' /\ LocalMutation(Op)' /\ Op'.pinned
      BY <1>0, <2>1, <2>2, PhaseKept DEF Goto, Stay, Phases
    <3>2. StageOK'
      BY <2>2, <3>1 DEF Goto, StageOK, Sending, Moving, Ending
    <3> QED  BY <3>1, <3>2 DEF JournalInv
  <2> QED  BY <1>1, <1>3, <2>1, <2>2 DEF BeginLocal, Fail
<1>4. CASE Preserve
  <2>1. CASE local[Op.path] # Absent /\ slot[cur] = Absent
    <3>1. /\ slot' = [slot EXCEPT ![cur] = local[Op.path]]
          /\ pc' = "validate" /\ UNCHANGED <<cur, journal>>
      BY <1>4, <2>1 DEF Preserve, Goto, Stay
    <3>2. \A o \in OpIds : slot'[o] # Absent => slot[o] # Absent \/ OwnsRecoverySlot(o)
      <4>1. OwnsRecoverySlot(cur)
        BY <1>0, <1>4 DEF Preserve, Moving, OwnsRecoverySlot, Op, Live
      <4>2. \A o \in OpIds : o # cur => slot'[o] = slot[o]
        BY <1>0, <3>1 DEF TypeInv, TypeOK, WorldTypeOK
      <4> QED  BY <4>1, <4>2
    <3>3. Op' = Op
      BY <3>1 DEF Op
    <3>4. StageOK'
      BY <1>0, <1>4, <3>1, <3>3
         DEF Preserve, StageOK, OpPcs, Moving, Sending, Ending, LocalMutation, Started
    <3> QED  BY <3>1, <3>2, <3>4, JournalUntouched DEF JournalInv
  <2>2. CASE ~(local[Op.path] # Absent /\ slot[cur] = Absent)
    BY <1>1, <1>4, <2>2 DEF Preserve, NothingPreserved, Fail
  <2> QED  BY <2>1, <2>2
<1>5. CASE Validate
  <2>1. PICK label \in {"install", "drop", "restore"} : Goto(label)
    BY <1>5 DEF Validate
  <2>2. UNCHANGED journal /\ NothingPreserved
    BY <1>5 DEF Validate, storeVars, worldVars, NothingPreserved
  <2> QED  BY <1>0, <1>5, <2>1, <2>2, GoesOn
       DEF Validate, Goto, Stay, OpPcs, Executing, Moving, Sending, Ending
<1>6. CASE Install
  <2>1. UNCHANGED slot /\ NothingPreserved /\ Started(Op)
    BY <1>0, <1>6 DEF Install, NothingPreserved, Moving
  <2>2. \/ Fail
        \/ /\ \/ pc' = "drop" \/ pc' = "restore"
              \/ pc' = "observe" /\ slot[cur] = Absent
           /\ UNCHANGED <<cur, journal>>
    BY <1>6 DEF Install, Goto, Stay
  <2>3. CASE pc' \in {"drop", "restore", "observe"} /\ UNCHANGED <<cur, journal>>
             /\ (pc' = "observe" => slot[cur] = Absent)
    <3>1. DEFINE label == pc'
    <3>2. label \in OpPcs /\ label \notin Sending
      BY <2>3 DEF OpPcs, Executing, Sending
    <3> QED  BY <1>0, <2>1, <2>3, <3>2, GoesOn DEF Ending
  <2> QED  BY <1>1, <2>1, <2>2, <2>3 DEF Fail
<1>7. CASE Restore
  <2>1. NothingPreserved
    BY <1>0, <1>7 DEF Restore, RestoreSlot, NothingPreserved, TypeInv, TypeOK, WorldTypeOK
  <2> QED  BY <1>1, <1>7, <2>1 DEF Restore, Fail
<1>8. CASE Drop
  <2>1. slot'[cur] = Absent /\ NothingPreserved /\ UNCHANGED journal
    BY <1>0, <1>8 DEF Drop, NothingPreserved, TypeInv, TypeOK, WorldTypeOK, storeVars
  <2> QED  BY <1>0, <1>8, <2>1, GoesOn
       DEF Drop, Goto, Stay, OpPcs, Executing, Moving, Sending, Ending
<1> QED  BY <1>2, <1>3, <1>4, <1>5, <1>6, <1>7, <1>8

\* The end of an execution.
LEMMA CompletionOwner == ASSUME OwnerInv, Observe \/ Settle PROVE JournalInv'
<1>0. /\ TypeInv /\ JournalInv /\ pc \in Ending /\ pc \in OpPcs
      /\ cur \in Live /\ cur \in OpIds /\ slot[cur] = Absent /\ Started(Op)
      /\ (LocalMutation(Op) => Op.pinned)
      /\ UNCHANGED slot /\ NothingPreserved
  <2>1. TypeInv /\ JournalInv
    BY DEF OwnerInv, JournalInv
  <2>2. pc \in Ending /\ pc \in OpPcs /\ pc # "pin" /\ UNCHANGED slot
    BY DEF Observe, Settle, Ending, OpPcs, Executing, worldVars
  <2> QED  BY <2>1, <2>2, CurrentOp DEF JournalInv, StageOK, NothingPreserved
<1>1. CASE Observe
  BY <1>0, <1>1, GoesOn
     DEF Observe, Stay, storeVars, OpPcs, Executing, Moving, Sending, Ending
<1>2. CASE Settle
  <2>1. CASE DeleteOp /\ FinishedOp
    BY <1>0, <2>1, DeletedKept, LeavesOperation, StageBetween DEF JournalInv
  <2>2. CASE SetPhase("recovering") /\ EndCycle
    BY <1>0, <2>2, PhaseKept, LeavesOperation, StageBetween DEF JournalInv, Phases
  <2> QED  BY <1>2, <2>1, <2>2 DEF Settle, CommitBaseline
<1> QED  BY <1>1, <1>2

\* An operation is added to the journal: its ID was never used, so nothing is
\* in its recovery slot.
LEMMA CreatedKept ==
  ASSUME OwnerInv, NEW op \in Operations, op.phase = "planned", CreateOperation(op),
         UNCHANGED slot
  PROVE  StartedPinned' /\ PreservedHasOwner' /\ journal'[nextOp] = op
         /\ \A o \in Live : journal'[o] = journal[o]
<1>1. nextOp \in OpIds /\ journal \in [OpIds -> Operations \union {Absent}]
      /\ journal' = [journal EXCEPT ![nextOp] = op]
  BY DEF CreateOperation, OpIds, OwnerInv, TypeInv, TypeOK, StoreTypeOK
<1>2. nextOp \notin Live /\ slot[nextOp] = Absent
  BY <1>1 DEF OwnerInv, TypeInv, OpsShape, PreservedHasOwner, OwnsRecoverySlot, Live, OpIds
<1>3. journal'[nextOp] = op /\ \A o \in OpIds : o # nextOp => journal'[o] = journal[o]
  BY <1>1
<1>4. StartedPinned'
  BY <1>3 DEF OwnerInv, StartedPinned, Live, LocalMutation, Started
<1>5. PreservedHasOwner'
  BY <1>2, <1>3 DEF OwnerInv, PreservedHasOwner, OwnsRecoverySlot, LocalMutation, Started
<1> QED  BY <1>2, <1>3, <1>4, <1>5 DEF Live

\* A pass.
LEMMA PassOwner == ASSUME OwnerInv, PassStep PROVE JournalInv'
<1>0. TypeInv /\ JournalInv
  BY DEF OwnerInv, JournalInv
<1>1. CASE ScanLocal \/ PlanPass \/ DecidePass \/ \E p \in Paths : RecordPath(p)
  <2>1. UNCHANGED <<journal, slot>>
    BY <1>1 DEF ScanLocal, PlanPass, DecidePass, RecordPath, storeVars, worldVars
  <2>2. pc' \notin OpPcs
    BY <1>1, LeavesOperation
       DEF ScanLocal, PlanPass, DecidePass, RecordPath, Goto, OpPcs, Executing
  <2> QED  BY <2>1, <2>2, StageBetween, JournalUntouched DEF JournalInv
<1>2. ASSUME NEW p \in Paths, Dispatch(p) PROVE JournalInv'
  <2> DEFINE op == NewOp(plan[p].kind, p, seen.local[p], seen.remote[p], FALSE)
  <2>1. op \in Operations /\ op.phase = "planned" /\ ~op.pinned /\ op.kind = plan[p].kind
    <3>1. plan[p].kind \in ExternalKinds
      BY <1>2 DEF Dispatch, External
    <3>2. /\ seen.local[p] \in LocalPrints \union {Absent}
          /\ seen.remote[p] \in RemoteFiles \union {Absent}
      BY <1>0 DEF TypeInv, TypeOK, DaemonTypeOK
    <3> QED  BY <3>1, <3>2, NewOpType DEF NewOp
  <2> HIDE DEF op
  <2>2. /\ CreateOperation(op) /\ cur' = nextOp /\ UNCHANGED slot
        /\ pc' = IF LocalMutation(op) THEN "pin" ELSE "exec"
    BY <1>2, <2>1 DEF Dispatch, worldVars, op, LocalMutation
  <2>3. StartedPinned' /\ PreservedHasOwner' /\ journal'[nextOp] = op
    BY <2>1, <2>2, CreatedKept
  <2>4. Op' = op
    BY <2>2, <2>3 DEF Op
  <2>5. StageOK'
    BY <2>1, <2>2, <2>4 DEF StageOK, Moving, Sending, Ending, LocalMutation
  <2> QED  BY <2>3, <2>5 DEF JournalInv
<1> QED  BY <1>1, <1>2 DEF PassStep

\* A failing call and a crash: what is moved aside either goes back or stays
\* with an operation that is still in the journal.
LEMMA FailureOwner == ASSUME OwnerInv, CallFails \/ Crash \/ Start PROVE JournalInv'
<1>0. TypeInv /\ JournalInv
  BY DEF OwnerInv, JournalInv
<1>1. CASE CallFails
  <2>1. StageOK'
    BY <1>1, LeavesOperation, StageBetween DEF CallFails
  <2>2. pc \in Executing \union {"pin", "prove", "compare", "cleanup"} => cur \in OpIds /\ cur \in Live
    BY <1>0, CurrentOp DEF OpPcs
  <2>3. NothingPreserved
    <3>1. CASE UNCHANGED <<local, slot>>
      BY <3>1 DEF NothingPreserved
    <3>2. CASE pc \in {"validate", "install", "drop"} /\ RestoreSlot
      BY <1>0, <2>2, <3>2
         DEF RestoreSlot, NothingPreserved, TypeInv, TypeOK, WorldTypeOK, Executing
    <3> QED  BY <1>1, <3>1, <3>2 DEF CallFails
  <2>4. CASE UNCHANGED journal
    BY <2>1, <2>3, <2>4, JournalUntouched DEF JournalInv, NothingPreserved
  <2>5. CASE pc \in Executing \union {"pin"} /\ Op.phase = "planned" /\ DeleteOp
    <3>1. slot'[cur] = Absent
      BY <2>2, <2>3, <2>5, PlannedOwnsNothing DEF NothingPreserved
    <3> QED  BY <2>1, <2>2, <2>3, <2>5, <3>1, DeletedKept DEF JournalInv
  <2>6. CASE pc \in Executing \union {"prove", "compare", "cleanup"} /\ Started(Op)
             /\ SetPhase("recovering")
    <3>1. LocalMutation(Op) => Op.pinned
      BY <1>0, <2>2, <2>6 DEF JournalInv, StartedPinned, Op
    <3> QED  BY <2>1, <2>2, <2>3, <2>6, <3>1, PhaseKept DEF JournalInv, Phases
  <2> QED  BY <1>1, <2>4, <2>5, <2>6 DEF CallFails
<1>2. CASE Crash \/ Start
  <2>1. UNCHANGED <<journal, slot>> /\ pc' \notin OpPcs
    BY <1>2 DEF Crash, Start, storeVars, worldVars, OpPcs, Executing
  <2> QED  BY <2>1, StageBetween, JournalUntouched DEF JournalInv
<1> QED  BY <1>1, <1>2

\* The current operation is untouched, and so is what is known of it.
LEMMA StageUntouched ==
  ASSUME OwnerInv, UNCHANGED <<daemonVars, slot>>, \A o \in Live : journal'[o] = journal[o]
  PROVE  StageOK'
<1>1. pc \in OpPcs => cur \in Live /\ Op' = Op
  BY CurrentOp DEF OwnerInv, daemonVars, Op
<1>2. CASE pc \in OpPcs
  BY <1>1, <1>2
     DEF OwnerInv, StageOK, daemonVars, Moving, Sending, Ending, LocalMutation, Started
<1>3. CASE pc \notin OpPcs
  BY <1>3, StageBetween DEF daemonVars
<1> QED  BY <1>2, <1>3

\* The commands of the CLI.
LEMMA CliOwner == ASSUME OwnerInv, CliNext PROVE JournalInv'
<1>0. TypeInv /\ JournalInv
  BY DEF OwnerInv, JournalInv
<1>1. CASE SetEnabled \/ \E p \in Paths, keepLocal \in BOOLEAN : CheckResolve(p, keepLocal)
  <2>1. UNCHANGED <<journal, slot, daemonVars>>
    BY <1>1 DEF SetEnabled, CheckResolve, storeVars, worldVars
  <2> QED  BY <2>1, StageUntouched, JournalUntouched DEF JournalInv
<1>2. CASE QueueResolve
  <2>1. /\ cli \in Operations /\ cli.phase = "planned" /\ CreateOperation(cli)
        /\ UNCHANGED <<daemonVars, slot>>
    BY <1>0, <1>2 DEF QueueResolve, worldVars, TypeInv, TypeOK, OpsShape
  <2> QED  BY <2>1, CreatedKept, StageUntouched DEF JournalInv
<1>3. ASSUME NEW o \in OpIds, ResolveRetry(o) \/ ResolveRestore(o) PROVE JournalInv'
  <2>1. /\ o \in Live /\ journal[o].phase = "blocked" /\ pc = "down" /\ UNCHANGED pc
        /\ journal' = [journal EXCEPT ![o].phase = "recovering"]
        /\ journal \in [OpIds -> Operations \union {Absent}]
        /\ journal[o] \in Operations
    BY <1>0, <1>3
       DEF ResolveRetry, ResolveRestore, daemonVars, TypeInv, TypeOK, StoreTypeOK, Live
  <2> DEFINE new == [journal[o] EXCEPT !.phase = "recovering"]
  <2>2. /\ new \in Operations /\ new.kind = journal[o].kind
        /\ new.pinned = journal[o].pinned /\ new.phase = "recovering"
    BY <2>1 DEF Operations, Phases
  <2>3. journal' = [journal EXCEPT ![o] = new]
    BY <2>1
  <2> HIDE DEF new
  <2>4. journal'[o] = new /\ \A other \in OpIds : other # o => journal'[other] = journal[other]
    BY <2>1, <2>3
  <2>5. new # Absent
    BY <2>2, AbsentAssumption
  <2>6. NothingPreserved
    BY <1>0, <1>3 DEF ResolveRetry, ResolveRestore, worldVars, NothingPreserved, TypeInv,
                      TypeOK, WorldTypeOK
  <2>7. StartedPinned'
    BY <1>0, <2>1, <2>2, <2>4 DEF JournalInv, StartedPinned, Live, LocalMutation, Started
  <2>8. PreservedHasOwner'
    BY <1>0, <2>2, <2>4, <2>5, <2>6
       DEF JournalInv, NothingPreserved, PreservedHasOwner, OwnsRecoverySlot, LocalMutation,
           Started
  <2>9. StageOK'
    BY <2>1, StageBetween DEF OpPcs, Executing
  <2> QED  BY <2>7, <2>8, <2>9 DEF JournalInv
<1> QED  BY <1>1, <1>2, <1>3 DEF CliNext

\* Every step, and every stuttering step, keeps the invariant.
LEMMA OwnerInvStep == OwnerInv /\ [Next]_vars => OwnerInv'
<1> SUFFICES ASSUME OwnerInv, [Next]_vars PROVE OwnerInv'
  OBVIOUS
<1>1. TypeInv'
  BY TypeInvStep DEF OwnerInv
<1>2. CASE DaemonNext
  <2>1. ASSUME ExecutionStep PROVE JournalInv'
    BY <2>1, RemoteMutationOwner, LocalMutationOwner, CompletionOwner DEF ExecutionStep
  <2> QED  BY <1>1, <1>2, <2>1, RecoveryOwner, PassOwner, FailureOwner
           DEF DaemonNext, WorkerStep, OwnerInv, JournalInv
<1>3. CASE Crash \/ Start
  BY <1>1, <1>3, FailureOwner DEF OwnerInv, JournalInv
<1>4. CASE CliNext
  BY <1>1, <1>4, CliOwner DEF OwnerInv, JournalInv
<1>5. CASE UserNext \/ UNCHANGED vars
  <2>1. UNCHANGED <<journal, slot, daemonVars>>
    BY <1>5 DEF UserNext, LocalPut, LocalWrite, LocalRemove, RemotePut, RemoteRemove, Edit,
                vars, storeVars, worldVars
  <2> QED  BY <1>1, <2>1, StageUntouched, JournalUntouched DEF OwnerInv
<1> QED  BY <1>2, <1>3, <1>4, <1>5 DEF Next

\* User data in a recovery slot is owned by a started operation of the
\* journal: whatever fails, crashes, or is retried or put back by the user,
\* the next scan can account for the artifact and the next recovery finds it.
THEOREM PreservedOwned == Spec => []PreservedHasOwner
<1>1. Init => OwnerInv
  <2> SUFFICES ASSUME Init PROVE OwnerInv
    OBVIOUS
  <2>1. TypeInv /\ Live = {} /\ pc = "idle"
    BY TypeInvInit DEF Init, Live
  <2> QED  BY <2>1
       DEF Init, OwnerInv, StartedPinned, StageOK, PreservedHasOwner, OpPcs, Executing, Moving,
           Sending, Ending
<1>2. OwnerInv => PreservedHasOwner
  BY DEF OwnerInv
<1> QED  BY <1>1, <1>2, OwnerInvStep, PTL DEF Spec
=============================================================================
