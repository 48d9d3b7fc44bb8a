---------------------------- MODULE Tree_proofs ----------------------------
(***************************************************************************)
(* What happens to a directory and the files in it, for every set of files *)
(* and versions, every policy and every number of edits and crashes.       *)
(***************************************************************************)
EXTENDS Tree, Planner_proofs

(***************************************************************************)
(* The inductive invariant                                                 *)
(***************************************************************************)

\* A path has its own kind wherever it is seen, and nothing is in a local
\* directory that is not there.
WorldInv ==
  /\ \A p \in Paths :
       /\ local[p] # Absent => local[p].kind = KindOf(p)
       /\ remote[p] # Absent => remote[p].kind = KindOf(p)
       /\ aside[p] # Absent => aside[p].kind = KindOf(p)
       /\ baseline[p].local # Absent => baseline[p].local.kind = KindOf(p)
       /\ baseline[p].remote # Absent => baseline[p].remote.kind = KindOf(p)
  /\ local[Dir] = Absent => local = Nothing
  /\ aside[Dir] = Absent => aside = Nothing

\* Revisions grow, and one revision of a file has one content.
RevisionInv ==
  /\ obs.tick <= tick
  /\ \A p \in Paths :
       /\ baseline[p].remote # Absent => baseline[p].remote.rev <= tick
       /\ remote[p] # Absent => remote[p].rev <= tick
       /\ p \in Files /\ baseline[p].remote # Absent /\ remote[p] # Absent
          /\ baseline[p].remote.rev = remote[p].rev
          => baseline[p].remote.ver = remote[p].ver

\* What is left of the plan is licensed by the baselines of its paths.
PlanInv ==
  \A p \in External(plan) :
    Justified(plan[p], TRUE, baseline[p], seen.local[p], seen.remote[p], "different")

\* The operation has what it copies, and what it removes or replaces is as the
\* baseline has it.
OpInv ==
  op # Absent =>
    /\ op.kind = "ensure-remote" => op.expLocal # Absent
    /\ op.kind = "ensure-local" => op.expRemote # Absent
    /\ op.kind = "delete-local" => op.expLocal # Absent
    /\ op.kind = "delete-remote" =>
         /\ op.expRemote # Absent /\ baseline[op.path].remote # Absent
         /\ op.expRemote.id = baseline[op.path].remote.id
         /\ op.path \in Files => op.expRemote.rev = baseline[op.path].remote.rev
    /\ LocalMutation(op) /\ op.expLocal # Absent =>
         LocalEquivalent(baseline[op.path].local, op.expLocal)

\* Where the worker is with the operation, the plan and the recovery slot.
StageInv ==
  /\ pc \in {"idle", "recover", "check", "scan", "plan"} => plan = NoPlan
  /\ pc \in {"scan", "plan", "dispatch"} => op = Absent
  /\ pc \in {"recover", "pin", "check", "exec", "mutate", "remove", "settle"} => op # Absent
  /\ pc \in {"pin", "check"} => op.phase = "planned"
  /\ pc \in {"pin", "check", "exec", "mutate", "settle"} => aside = Nothing
  /\ pc \in {"mutate", "remove", "settle"} => op.phase = "running"
  /\ pc = "remove" => op.kind = "delete-local" /\ op.path = Dir
  /\ pc = "mutate" /\ Download => obs.result # Absent

\* Between the last check of a remote delete and the delete, only what was
\* written in between can have come to where it deletes.
WindowInv ==
  pc = "mutate" /\ op.kind = "delete-remote" =>
    \A p \in Files : remote[p] # Absent /\ op.path \in {Dir, p} =>
      \/ remote[p].rev > obs.tick
      \/ op.path = p /\ RemoteEquivalent(remote[p], baseline[p].remote)

TreeInv ==
  /\ TypeOK /\ WorldInv /\ RevisionInv /\ PlanInv /\ OpInv /\ StageInv /\ WindowInv
  /\ AsideOwned

(***************************************************************************)
(* The shapes of entries, prints and expectations                          *)
(***************************************************************************)

\* The parts of the type invariant.
StoreType ==
  /\ baseline \in [Paths -> [local : LocalPrints \union {Absent},
                             remote : RemoteEntries \union {Absent}]]
  /\ \A p \in Paths : \/ baseline[p] = EmptyBaseline
                      \/ /\ Absent \notin {baseline[p].local, baseline[p].remote}
                         /\ baseline[p].local.kind = baseline[p].remote.kind
  /\ op \in Operations \union {Absent}
WorldType ==
  /\ local \in [Paths -> LocalEntries \union {Absent}]
  /\ aside \in [Paths -> LocalEntries \union {Absent}]
  /\ remote \in [Paths -> RemoteEntries \union {Absent}]
  /\ tick \in Nat
PcType == pc \in {"idle", "recover", "pin", "check", "exec", "mutate", "remove", "settle",
                  "scan", "plan", "dispatch"}
WorkType ==
  /\ plan \in [Paths -> Decisions]
  /\ seen \in [local : [Paths -> LocalPrints \union {Absent}],
               remote : [Paths -> RemoteEntries \union {Absent}]]
  /\ obs \in [result : LocalPrints \union RemoteEntries \union {Absent}, tick : Nat]
BoundType == touched \subseteq {"local", "remote"} /\ edits \in Nat /\ crashes \in Nat

LEMMA TypeParts ==
  /\ TypeOK <=> StoreType /\ WorldType /\ PcType /\ WorkType /\ BoundType
  /\ TypeOK' <=> StoreType' /\ WorldType' /\ PcType' /\ WorkType' /\ BoundType'
BY DEF TypeOK, StoreType, WorldType, PcType, WorkType, BoundType

LEMMA PathFacts ==
  /\ Dir \in Paths /\ Files \subseteq Paths /\ Dir \notin Files
  /\ \A p \in Paths : p \in Files <=> p # Dir
  /\ \A p \in Paths : KindOf(p) \in Kinds /\ (p = Dir <=> KindOf(p) = "dir")
                      /\ (p \in Files <=> KindOf(p) = "file")
BY TreeAssumption DEF Paths, KindOf, Kinds

\* A local print is missing where the entry is.
LEMMA PrintShape ==
  ASSUME NEW e \in LocalEntries \union {Absent}
  PROVE  /\ LocalPrint(e) \in LocalPrints \union {Absent}
         /\ LocalPrint(e) = Absent <=> e = Absent
         /\ e # Absent => /\ e \in LocalEntries /\ LocalPrint(e) \in LocalPrints
                          /\ LocalPrint(e).kind = e.kind /\ LocalPrint(e).ver = e.ver
                          /\ e.kind \in Kinds /\ e.ver \in Versions \union {0} /\ e.ino \in Nat
BY AbsentAssumption DEF LocalPrint, LocalPrints, LocalEntries

\* A remote precondition is missing where the entry is.
LEMMA ExpectationShape ==
  ASSUME NEW r \in RemoteEntries \union {Absent}
  PROVE  /\ Expectation(r) \in Expectations \union {Absent}
         /\ Expectation(r) = Absent <=> r = Absent
         /\ r # Absent => /\ r \in RemoteEntries
                          /\ Expectation(r).id = r.id /\ Expectation(r).rev = r.rev
                          /\ r.kind \in Kinds /\ r.ver \in Versions \union {0}
                          /\ r.id \in Nat /\ r.rev \in Nat
BY AbsentAssumption DEF Expectation, Expectations, RemoteEntries

LEMMA OperationShape ==
  ASSUME NEW o \in Operations
  PROVE  /\ o # Absent /\ o.kind \in ExternalKinds /\ o.path \in Paths
         /\ o.expLocal \in LocalPrints \union {Absent}
         /\ o.expRemote \in Expectations \union {Absent}
         /\ o.pinned \in BOOLEAN /\ o.pin \in Nat
         /\ o.phase \in {"planned", "running", "recovering", "blocked"}
BY AbsentAssumption DEF Operations

\* What the worker gives up when it leaves a pass.
LEMMA EmptyWork ==
  /\ NoPlan \in [Paths -> Decisions] /\ External(NoPlan) = {}
  /\ Nothing \in [Paths -> LocalEntries \union {Absent}]
  /\ Nothing \in [Paths -> LocalPrints \union {Absent}]
  /\ Nothing \in [Paths -> RemoteEntries \union {Absent}]
  /\ \A p \in Paths : Nothing[p] = Absent
  /\ NoSnapshot \in [local : [Paths -> LocalPrints \union {Absent}],
                     remote : [Paths -> RemoteEntries \union {Absent}]]
  /\ NoObs \in [result : LocalPrints \union RemoteEntries \union {Absent}, tick : Nat]
  /\ NoObs.tick = 0
<1>1. Decide("noop") \in Decisions /\ Decide("noop").kind \notin ExternalKinds
  BY DEF Decide, Decisions, DecisionKinds, ExternalKinds
<1>2. NoPlan \in [Paths -> Decisions] /\ External(NoPlan) = {}
  BY <1>1 DEF NoPlan, External
<1> QED  BY <1>2 DEF Nothing, NoSnapshot, NoObs

(***************************************************************************)
(* What a step may leave alone                                             *)
(***************************************************************************)

\* The operation is gone, or still the one it was.
SameWork ==
  op' = Absent \/ /\ op # Absent /\ op' \in Operations
                  /\ op'.kind = op.kind /\ op'.path = op.path
                  /\ op'.expLocal = op.expLocal /\ op'.expRemote = op.expRemote

LEMMA SetPhaseEffect ==
  ASSUME op \in Operations, NEW phase \in {"planned", "running", "recovering", "blocked"},
         SetPhase(phase)
  PROVE  SameWork /\ op' # Absent /\ op'.phase = phase
<1> DEFINE new == [op EXCEPT !.phase = phase]
<1>1. op' = new  BY DEF SetPhase
<1>2. /\ new \in Operations /\ new.phase = phase
      /\ new.kind = op.kind /\ new.path = op.path
      /\ new.expLocal = op.expLocal /\ new.expRemote = op.expRemote
  BY DEF Operations
<1> HIDE DEF new
<1> QED  BY <1>1, <1>2, AbsentAssumption DEF SameWork

LEMMA SameOperation ==
  ASSUME TypeOK, op' = op
  PROVE  SameWork
BY DEF TypeOK, SameWork

LEMMA FailEffect ==
  ASSUME op \in Operations, Fail
  PROVE  SameWork /\ EndCycle /\ (op' # Absent => op'.phase = "recovering")
         /\ (op' = Absent <=> op.phase = "planned")
BY SetPhaseEffect, AbsentAssumption DEF Fail, SameWork

\* With the baselines and the same operation, what it needs is still there.
LEMMA SameWorkKeeps ==
  ASSUME TypeOK, OpInv, SameWork, UNCHANGED baseline
  PROVE  StoreType' /\ OpInv'
<1>1. StoreType'
  BY DEF TypeOK, StoreType, SameWork
<1>2. CASE op' = Absent
  BY <1>1, <1>2 DEF OpInv
<1>3. CASE op' # Absent
  BY <1>1, <1>3 DEF OpInv, SameWork, LocalMutation
<1> QED  BY <1>1, <1>2, <1>3

LEMMA LeaveEffect ==
  ASSUME NEW label \in {"idle", "scan"}, Leave(label)
  PROVE  PcType' /\ WorkType' /\ PlanInv' /\ WindowInv' /\ plan' = NoPlan /\ obs'.tick = 0
         /\ pc' = label
<1>1. PcType' /\ WorkType' /\ plan' = NoPlan /\ obs'.tick = 0 /\ pc' = label
  BY EmptyWork DEF Leave, PcType, WorkType
<1>2. PlanInv'
  BY <1>1, EmptyWork DEF PlanInv, External
<1>3. WindowInv'
  BY <1>1 DEF WindowInv
<1> QED  BY <1>1, <1>2, <1>3

LEMMA SameWorld ==
  ASSUME TypeOK, WorldInv, UNCHANGED worldVars, UNCHANGED baseline
  PROVE  WorldType' /\ WorldInv'
BY DEF TypeOK, WorldType, WorldInv, worldVars, Nothing

LEMMA SameRevisions ==
  ASSUME TypeOK, RevisionInv, UNCHANGED <<remote, baseline, tick>>, obs'.tick \in {0, obs.tick, tick}
  PROVE  RevisionInv'
BY DEF TypeOK, RevisionInv

LEMMA SameBounds ==
  ASSUME TypeOK, UNCHANGED boundVars
  PROVE  BoundType'
BY DEF TypeOK, BoundType, boundVars

\* The end of a cycle, or of a pass, in an unchanged world.
LEMMA QuietLeave ==
  ASSUME TreeInv, SameWork, UNCHANGED <<baseline, worldVars>>, BoundType',
         NEW label \in {"idle", "scan"}, Leave(label),
         label = "scan" => op' = Absent,
         aside = Nothing \/ (op' # Absent /\ op'.phase # "planned")
  PROVE  TreeInv'
<1> USE DEF TreeInv
<1>1. StoreType' /\ OpInv'
  BY SameWorkKeeps
<1>2. PcType' /\ WorkType' /\ PlanInv' /\ WindowInv' /\ plan' = NoPlan /\ obs'.tick = 0
      /\ pc' = label
  BY LeaveEffect
<1>3. WorldType' /\ WorldInv'
  BY SameWorld
<1>4. RevisionInv'
  BY <1>2, SameRevisions DEF worldVars
<1>5. StageInv'
  BY <1>2 DEF StageInv
<1>6. AsideOwned'
  BY DEF AsideOwned, SameWork, worldVars, Nothing
<1> QED  BY <1>1, <1>2, <1>3, <1>4, <1>5, <1>6, TypeParts

(***************************************************************************)
(* The initial states, and the steps that change neither tree nor baseline *)
(***************************************************************************)

LEMMA InitTree ==
  Init => TreeInv
<1> SUFFICES ASSUME Init PROVE TreeInv
  OBVIOUS
<1>1. PICK synced \in SUBSET Files :
      LET there(p) == p = Dir \/ p \in synced
          ver(p) == IF p = Dir THEN 0 ELSE CHOOSE v \in Versions : TRUE
      IN /\ local = [p \in Paths |->
               IF there(p) THEN [kind |-> KindOf(p), ver |-> ver(p), ino |-> 1] ELSE Absent]
         /\ remote = [p \in Paths |->
               IF there(p) THEN [kind |-> KindOf(p), id |-> 1, ver |-> ver(p),
                                 rev |-> IF p = Dir THEN 0 ELSE 1] ELSE Absent]
         /\ baseline = [p \in Paths |->
               [local |-> LocalPrint(local[p]), remote |-> remote[p]]]
  BY DEF Init
<1> DEFINE inSync == {Dir} \union synced
           ver(p) == IF p = Dir THEN 0 ELSE CHOOSE v \in Versions : TRUE
<1>2. \A p \in Paths : ver(p) \in Versions \union {0}
  BY TreeAssumption
<1>3. \A p \in Paths :
        /\ p \notin inSync => local[p] = Absent /\ remote[p] = Absent
        /\ p \in inSync => /\ local[p] \in LocalEntries /\ remote[p] \in RemoteEntries
                           /\ local[p].kind = KindOf(p)
                           /\ remote[p].kind = KindOf(p)
                           /\ remote[p].rev <= 1
  BY <1>1, <1>2, PathFacts DEF LocalEntries, RemoteEntries
<1>4. Dir \in inSync
  OBVIOUS
<1> HIDE DEF ver, inSync
<1>5. local = [p \in Paths |-> local[p]] /\ remote = [p \in Paths |-> remote[p]]
  BY <1>1
<1>6. \A p \in Paths : /\ local[p] \in LocalEntries \union {Absent}
                       /\ remote[p] \in RemoteEntries \union {Absent}
  BY <1>3
<1>7. WorldType /\ tick = 1 /\ \A p \in Paths : aside[p] = Absent
  BY <1>5, <1>6, EmptyWork DEF Init, WorldType
<1>8. \A p \in Paths : /\ baseline[p].local = LocalPrint(local[p])
                       /\ baseline[p].remote = remote[p]
                       /\ baseline[p] = [local |-> LocalPrint(local[p]), remote |-> remote[p]]
  BY <1>1
<1>9. baseline = [p \in Paths |-> [local |-> LocalPrint(local[p]), remote |-> remote[p]]]
  BY <1>1
<1>10. \A p \in Paths : /\ LocalPrint(local[p]) \in LocalPrints \union {Absent}
                       /\ remote[p] \in RemoteEntries \union {Absent}
  BY <1>6, PrintShape
<1>11. baseline \in [Paths -> [local : LocalPrints \union {Absent},
                              remote : RemoteEntries \union {Absent}]]
  BY <1>10, <1>9
<1>12. \A p \in Paths : \/ baseline[p] = EmptyBaseline
                       \/ /\ Absent \notin {baseline[p].local, baseline[p].remote}
                          /\ baseline[p].local.kind = baseline[p].remote.kind
  <2> TAKE p \in Paths
  <2>1. CASE p \in inSync
    <3>1. local[p] # Absent /\ remote[p] # Absent
      BY <1>3, <2>1, AbsentAssumption
    <3>2. LocalPrint(local[p]) # Absent /\ LocalPrint(local[p]).kind = local[p].kind
      BY <1>6, <3>1, PrintShape
    <3> QED  BY <1>3, <1>8, <2>1, <3>1, <3>2
  <2>2. CASE p \notin inSync
    BY <1>3, <1>8, <2>2 DEF EmptyBaseline, LocalPrint
  <2> QED  BY <2>1, <2>2
<1>13. StoreType
  BY <1>11, <1>12 DEF Init, StoreType
<1>14. PcType /\ WorkType /\ BoundType /\ obs.tick = 0 /\ pc = "idle" /\ plan = NoPlan
  BY EmptyWork DEF Init, PcType, WorkType, BoundType
<1>15. WorldInv
  <2>1. local[Dir] # Absent
    BY <1>3, <1>4, PathFacts, AbsentAssumption
  <2>2. \A p \in Paths :
          /\ local[p] # Absent => local[p].kind = KindOf(p)
          /\ remote[p] # Absent => remote[p].kind = KindOf(p)
          /\ aside[p] # Absent => aside[p].kind = KindOf(p)
          /\ baseline[p].local # Absent => baseline[p].local.kind = KindOf(p)
          /\ baseline[p].remote # Absent => baseline[p].remote.kind = KindOf(p)
    <3> TAKE p \in Paths
    <3>1. /\ local[p] # Absent => local[p].kind = KindOf(p)
          /\ remote[p] # Absent => remote[p].kind = KindOf(p)
      BY <1>3
    <3>2. LocalPrint(local[p]) # Absent => local[p] # Absent /\ LocalPrint(local[p]).kind = local[p].kind
      BY <1>6, PrintShape
    <3> QED  BY <1>7, <1>8, <3>1, <3>2
  <2> QED  BY <2>1, <2>2 DEF WorldInv, Init
<1>16. RevisionInv
  <2>1. \A p \in Paths : remote[p] # Absent => remote[p].rev <= 1
    BY <1>3
  <2>2. obs.tick <= tick /\ tick = 1
    BY <1>7, <1>14
  <2>3. \A p \in Paths : baseline[p].remote = remote[p]
    BY <1>8
  <2> QED  BY <2>1, <2>2, <2>3 DEF RevisionInv
<1>17. PlanInv
  BY <1>14, EmptyWork DEF PlanInv
<1>18. OpInv /\ AsideOwned /\ WindowInv /\ StageInv
  BY <1>14 DEF Init, OpInv, AsideOwned, WindowInv, StageInv
<1> QED  BY <1>7, <1>13, <1>14, <1>15, <1>16, <1>17, <1>18, TypeParts DEF TreeInv

\* What the invariant needs of a step of the worker within an operation that
\* changes neither tree.
LEMMA QuietStep ==
  ASSUME TreeInv, SameWork, UNCHANGED <<baseline, worldVars, boundVars, plan, seen>>,
         PcType', WorkType', obs'.tick \in {0, obs.tick, tick},
         StageInv', WindowInv',
         aside = Nothing \/ (op' # Absent /\ op'.phase # "planned")
  PROVE  TreeInv'
<1> USE DEF TreeInv
<1>1. StoreType' /\ OpInv'
  BY SameWorkKeeps
<1>2. WorldType' /\ WorldInv' /\ BoundType'
  BY SameWorld, SameBounds
<1>3. RevisionInv'
  BY SameRevisions DEF worldVars
<1>4. PlanInv'
  BY DEF PlanInv, External
<1>5. AsideOwned'
  BY DEF AsideOwned, SameWork, worldVars, Nothing
<1> QED  BY <1>1, <1>2, <1>3, <1>4, <1>5, TypeParts

LEMMA GotoWork ==
  ASSUME TypeOK, NEW label, Goto(label)
  PROVE  WorkType' /\ UNCHANGED <<plan, seen>> /\ obs'.tick = obs.tick /\ pc' = label
BY DEF TypeOK, WorkType, Goto

LEMMA BeginCycleKeeps ==
  ASSUME TreeInv, BeginCycle
  PROVE  TreeInv'
<1>1. pc' = IF op = Absent THEN "scan" ELSE "recover"
  BY DEF BeginCycle, Goto
<1>2. SameWork /\ op' = op
  BY SameOperation DEF TreeInv, BeginCycle, storeVars
<1>3. StageInv' /\ WindowInv' /\ PcType'
  BY <1>1, <1>2 DEF TreeInv, StageInv, WindowInv, PcType, BeginCycle, Goto, worldVars, storeVars
<1>4. aside = Nothing \/ (op' # Absent /\ op'.phase # "planned")
  BY <1>2 DEF TreeInv, AsideOwned
<1> QED  BY <1>1, <1>2, <1>3, <1>4, QuietStep, GotoWork DEF TreeInv, BeginCycle, storeVars

LEMMA RecoverPlannedKeeps ==
  ASSUME TreeInv, RecoverPlanned
  PROVE  TreeInv'
<1>1. pc' \in {"pin", "check"}
  BY DEF RecoverPlanned, Goto
<1>2. SameWork /\ op' = op /\ aside' = aside
  BY SameOperation DEF TreeInv, RecoverPlanned, storeVars, worldVars
<1>3. op # Absent /\ aside = Nothing
  BY DEF TreeInv, StageInv, RecoverPlanned, AsideOwned
<1>4. StageInv' /\ WindowInv' /\ PcType'
  BY <1>1, <1>2, <1>3
     DEF TreeInv, StageInv, WindowInv, PcType, RecoverPlanned, Goto, Nothing
<1> QED  BY <1>1, <1>2, <1>3, <1>4, QuietStep, GotoWork DEF TreeInv, RecoverPlanned, storeVars

\* The pin of an operation, like the phase, leaves the rest of it.
LEMMA SetPinEffect ==
  ASSUME op \in Operations, NEW pin \in Nat, op' = [op EXCEPT !.pinned = TRUE, !.pin = pin]
  PROVE  SameWork /\ op' # Absent /\ op'.phase = op.phase
<1> DEFINE new == [op EXCEPT !.pinned = TRUE, !.pin = pin]
<1>1. op' = new  OBVIOUS
<1>2. /\ new \in Operations /\ new.phase = op.phase
      /\ new.kind = op.kind /\ new.path = op.path
      /\ new.expLocal = op.expLocal /\ new.expRemote = op.expRemote
  BY DEF Operations
<1> HIDE DEF new
<1> QED  BY <1>1, <1>2, AbsentAssumption DEF SameWork

LEMMA PinKeeps ==
  ASSUME TreeInv, Pin
  PROVE  TreeInv'
<1> DEFINE pin == IF op.expLocal = Absent THEN ParentIno(op.path) ELSE local[op.path].ino
           label == IF plan = NoPlan THEN "check" ELSE "exec"
<1>1. op \in Operations /\ op # Absent /\ op.path \in Paths /\ op.phase = "planned"
      /\ aside = Nothing
  BY OperationShape DEF TreeInv, TypeOK, StageInv, Pin
<1>2. CASE LocalAsExpected /\ LocalParent(op.path)
  <2>1. op' = [op EXCEPT !.pinned = TRUE, !.pin = pin] /\ Goto(label)
    BY <1>2 DEF Pin
  <2>2. local[op.path] \in LocalEntries \union {Absent} /\ local[Dir] \in LocalEntries \union {Absent}
    BY <1>1, PathFacts DEF TreeInv, TypeOK
  <2>3. op.expLocal # Absent => local[op.path] # Absent
    BY <1>2, <2>2, PrintShape DEF LocalAsExpected, LocalEquivalent
  <2>4. pin \in Nat
    BY <1>2, <2>2, <2>3, PrintShape DEF LocalParent, ParentIno
  <2> HIDE DEF pin
  <2>5. SameWork /\ op' # Absent /\ op'.phase = op.phase
    BY <1>1, <2>1, <2>4, SetPinEffect
  <2>6. pc' = label /\ UNCHANGED <<plan, seen>> /\ WorkType' /\ obs'.tick = obs.tick
    BY <2>1, GotoWork DEF TreeInv
  <2>7. StageInv' /\ WindowInv' /\ PcType'
    BY <1>1, <2>5, <2>6 DEF StageInv, WindowInv, PcType, Pin, worldVars, Nothing
  <2> QED  BY <1>1, <2>5, <2>6, <2>7, QuietStep DEF Pin
<1>3. CASE ~(LocalAsExpected /\ LocalParent(op.path))
  <2>1. op' = Absent /\ Leave("idle")
    BY <1>3 DEF Pin, EndCycle
  <2> QED  BY <1>1, <2>1, QuietLeave, SameBounds DEF TreeInv, Pin, SameWork
<1> QED  BY <1>2, <1>3

LEMMA CheckPlannedKeeps ==
  ASSUME TreeInv, CheckPlanned
  PROVE  TreeInv'
<1>1. op # Absent /\ op.phase = "planned" /\ aside = Nothing /\ plan = NoPlan
  BY DEF TreeInv, StageInv, CheckPlanned
<1>2. CASE LocalAsExpected /\ RemoteAsExpected
  <2>1. op' = op /\ Goto("exec") /\ SameWork
    BY <1>2, SameOperation DEF TreeInv, CheckPlanned
  <2>2. pc' = "exec" /\ UNCHANGED <<plan, seen>> /\ WorkType' /\ obs'.tick = obs.tick
    BY <2>1, GotoWork DEF TreeInv
  <2>3. StageInv' /\ WindowInv' /\ PcType'
    BY <1>1, <2>1, <2>2 DEF StageInv, WindowInv, PcType, CheckPlanned, worldVars, Nothing
  <2> QED  BY <1>1, <2>1, <2>2, <2>3, QuietStep DEF CheckPlanned
<1>3. CASE ~(LocalAsExpected /\ RemoteAsExpected)
  <2>1. op' = Absent /\ Leave("scan")
    BY <1>3 DEF CheckPlanned
  <2> QED  BY <1>1, <2>1, QuietLeave, SameBounds DEF TreeInv, CheckPlanned, SameWork
<1> QED  BY <1>2, <1>3

LEMMA RecoverBlockedKeeps ==
  ASSUME TreeInv, RecoverBlocked
  PROVE  TreeInv'
<1>1. SameWork /\ op' = op /\ Leave("idle")
  BY SameOperation DEF TreeInv, RecoverBlocked, EndCycle, storeVars
<1>2. aside = Nothing \/ (op' # Absent /\ op'.phase # "planned")
  BY <1>1 DEF TreeInv, AsideOwned
<1> QED  BY <1>1, <1>2, QuietLeave, SameBounds DEF TreeInv, RecoverBlocked, storeVars

LEMMA CrashKeeps ==
  ASSUME TreeInv, Crash
  PROVE  TreeInv'
<1>1. SameWork /\ op' = op /\ Leave("idle")
  BY SameOperation DEF TreeInv, Crash, EndCycle, storeVars
<1>2. aside = Nothing \/ (op' # Absent /\ op'.phase # "planned")
  BY <1>1 DEF TreeInv, AsideOwned
<1>3. BoundType'
  BY DEF TreeInv, TypeOK, BoundType, Crash
<1> QED  BY <1>1, <1>2, <1>3, QuietLeave DEF Crash, storeVars

LEMMA ResolveRetryKeeps ==
  ASSUME TreeInv, ResolveRetry
  PROVE  TreeInv'
<1>1. op \in Operations
  BY DEF TreeInv, TypeOK, ResolveRetry, Blocked
<1>2. SameWork /\ op' # Absent /\ op'.phase = "recovering"
  BY <1>1, SetPhaseEffect DEF ResolveRetry
<1>3. StageInv' /\ WindowInv' /\ PcType' /\ WorkType' /\ obs' = obs
  BY <1>2 DEF TreeInv, TypeOK, StageInv, WindowInv, PcType, WorkType, ResolveRetry, workerVars
<1> QED  BY <1>2, <1>3, QuietStep DEF TreeInv, TypeOK, ResolveRetry, workerVars

(***************************************************************************)
(* Planning                                                                *)
(***************************************************************************)

LEMMA ScanKeeps ==
  ASSUME TreeInv, Scan
  PROVE  TreeInv'
<1> USE DEF TreeInv
<1> DEFINE prints == [p \in Paths |-> LocalPrint(local[p])]
<1>1. prints \in [Paths -> LocalPrints \union {Absent}]
  BY PrintShape DEF TypeOK
<1> HIDE DEF prints
<1>2. seen' = [seen EXCEPT !.local = prints]
  BY DEF Scan, prints
<1>3. plan' = plan /\ obs' = obs /\ pc' = "plan" /\ plan = NoPlan /\ op' = op /\ op = Absent
  BY DEF Scan, StageInv, storeVars
<1>4. WorkType' /\ PcType'
  BY <1>1, <1>2, <1>3 DEF TypeOK, WorkType, PcType
<1>5. StoreType' /\ OpInv'
  BY <1>3, SameOperation, SameWorkKeeps DEF Scan, storeVars
<1>6. WorldType' /\ WorldInv' /\ BoundType'
  BY SameWorld, SameBounds DEF Scan, storeVars
<1>7. RevisionInv'
  BY <1>3, SameRevisions DEF Scan, worldVars, storeVars
<1>8. PlanInv'
  BY <1>3, EmptyWork DEF PlanInv, External
<1>9. StageInv' /\ WindowInv' /\ AsideOwned'
  BY <1>3 DEF StageInv, WindowInv, AsideOwned, Scan, worldVars, Nothing
<1> QED  BY <1>4, <1>5, <1>6, <1>7, <1>8, <1>9, TypeParts

\* Both sides of a baseline that is recorded are of the kind of the path.
LEMMA BaselineShape ==
  ASSUME NEW p \in Paths,
         NEW l \in LocalPrints \union {Absent}, NEW r \in RemoteEntries \union {Absent},
         l = Absent <=> r = Absent,
         l # Absent => l.kind = KindOf(p) /\ r.kind = KindOf(p),
         NEW b, b = IF l = Absent THEN EmptyBaseline ELSE [local |-> l, remote |-> r]
  PROVE  /\ b \in [local : LocalPrints \union {Absent}, remote : RemoteEntries \union {Absent}]
         /\ b = EmptyBaseline \/ (/\ Absent \notin {b.local, b.remote}
                                  /\ b.local.kind = b.remote.kind)
         /\ b.local = l /\ b.remote = r
         /\ b.local # Absent => b.local.kind = KindOf(p)
         /\ b.remote # Absent => b.remote.kind = KindOf(p)
BY DEF EmptyBaseline

\* What a pass decides, and what it records at once.
LEMMA PlanPassKeeps ==
  ASSUME TreeInv, PlanPass
  PROVE  TreeInv'
<1> USE DEF TreeInv
<1> DEFINE evidence == [p \in Paths |-> IF SameContent(seen.local[p], remote[p])
                                          THEN "equal" ELSE "different"]
           decisions == PlanFullSnapshot(TRUE, baseline, seen.local, remote, evidence)
           recorded == [p \in Paths |->
             CASE decisions[p].kind = "commit-baseline" ->
                    [local |-> seen.local[p], remote |-> remote[p]]
               [] decisions[p].kind = "drop-baseline" -> EmptyBaseline
               [] decisions[p].kind \notin {"commit-baseline", "drop-baseline"} -> baseline[p]]
<1>1. pc = "plan" /\ plan = NoPlan /\ op = Absent /\ UNCHANGED <<op, worldVars, boundVars>>
      /\ aside = Nothing
  BY DEF PlanPass, StageInv, AsideOwned
<1>2. \A p \in Paths : Justified(decisions[p], TRUE, baseline[p], seen.local[p], remote[p],
                                 evidence[p])
  <2> TAKE p \in Paths
  <2>1. p \in DOMAIN baseline
    BY DEF TypeOK
  <2>2. evidence[p] \in Evidence
    BY DEF Evidence
  <2>3. decisions[p] = PlanPath(TRUE, baseline[p], seen.local[p], remote[p], evidence[p])
    BY <2>1 DEF PlanFullSnapshot
  <2> QED  BY <2>2, <2>3, PlanPathJustified
<1>3. decisions \in [Paths -> Decisions]
  <2>1. decisions = [p \in Paths |-> decisions[p]]
    BY DEF PlanFullSnapshot, TypeOK
  <2>2. \A p \in Paths : decisions[p] \in Decisions
    BY <1>2 DEF Justified
  <2> HIDE DEF decisions
  <2> QED  BY <2>1, <2>2
<1>4. \/ Leave("idle") /\ baseline' = baseline
      \/ /\ baseline' = recorded
         /\ \/ Leave("idle")
            \/ /\ pc' = "dispatch" /\ plan' = decisions
               /\ seen' = [seen EXCEPT !.remote = remote] /\ UNCHANGED obs
  BY <1>1 DEF PlanPass, EndCycle
<1> HIDE DEF decisions, recorded
<1>5. seen.local \in [Paths -> LocalPrints \union {Absent}]
      /\ remote \in [Paths -> RemoteEntries \union {Absent}]
  BY DEF TypeOK
<1>6. ASSUME baseline' = recorded
      PROVE  /\ StoreType' /\ WorldInv' /\ WorldType' /\ BoundType' /\ OpInv'
             /\ \A p \in External(decisions) : baseline'[p] = baseline[p]
             /\ (obs'.tick \in {0, obs.tick} => RevisionInv')
  <2> DEFINE entry(p) == recorded[p]
  <2> USE DEF recorded
  <2>1. \A p \in Paths : \/ entry(p) = baseline[p]
                         \/ entry(p) = EmptyBaseline
                         \/ /\ entry(p) = [local |-> seen.local[p], remote |-> remote[p]]
                            /\ seen.local[p] # Absent /\ remote[p] # Absent
                            /\ seen.local[p].kind = remote[p].kind
    <3> TAKE p \in Paths
    <3> QED  BY <1>2 DEF Justified
  <2>2. \A p \in Paths : entry(p) \in [local : LocalPrints \union {Absent},
                                       remote : RemoteEntries \union {Absent}]
    <3> TAKE p \in Paths
    <3>1. /\ baseline[p] \in [local : LocalPrints \union {Absent},
                              remote : RemoteEntries \union {Absent}]
          /\ EmptyBaseline \in [local : LocalPrints \union {Absent},
                                remote : RemoteEntries \union {Absent}]
      BY DEF TypeOK, EmptyBaseline
    <3> HIDE DEF entry
    <3> QED  BY <1>5, <2>1, <3>1
  <2>3. \A p \in External(decisions) : entry(p) = baseline[p]
    BY DEF External, ExternalKinds
  <2>4. baseline' = [p \in Paths |-> entry(p)]
    BY <1>6
  <2> HIDE DEF entry, recorded
  <2>5. StoreType'
    <3>1. baseline' \in [Paths -> [local : LocalPrints \union {Absent},
                                   remote : RemoteEntries \union {Absent}]]
      BY <2>2, <2>4
    <3>2. \A p \in Paths : \/ baseline'[p] = EmptyBaseline
                           \/ /\ Absent \notin {baseline'[p].local, baseline'[p].remote}
                              /\ baseline'[p].local.kind = baseline'[p].remote.kind
      BY <2>1, <2>4 DEF TypeOK
    <3> QED  BY <1>1, <3>1, <3>2 DEF StoreType
  <2>6. WorldType' /\ BoundType' /\ OpInv'
    BY <1>1 DEF TypeOK, WorldType, BoundType, OpInv, worldVars, boundVars
  <2>7. WorldInv'
    <3>1. \A p \in Paths :
            /\ entry(p).local # Absent => entry(p).local.kind = KindOf(p)
            /\ entry(p).remote # Absent => entry(p).remote.kind = KindOf(p)
      <4> TAKE p \in Paths
      <4> QED  BY <2>1 DEF WorldInv, EmptyBaseline
    <3> QED  BY <1>1, <2>4, <3>1 DEF WorldInv, worldVars, Nothing
  <2>8. obs'.tick \in {0, obs.tick} => RevisionInv'
    <3>1. \A p \in Paths :
            /\ entry(p).remote # Absent => entry(p).remote.rev <= tick
            /\ p \in Files /\ entry(p).remote # Absent /\ remote[p] # Absent
               /\ entry(p).remote.rev = remote[p].rev
               => entry(p).remote.ver = remote[p].ver
      <4> TAKE p \in Paths
      <4> QED  BY <2>1 DEF RevisionInv, EmptyBaseline
    <3> QED  BY <1>1, <2>4, <3>1 DEF RevisionInv, TypeOK, worldVars
  <2>9. External(decisions) \subseteq Paths
    BY DEF External
  <2> QED  BY <2>3, <2>4, <2>5, <2>6, <2>7, <2>8, <2>9
<1>7. CASE Leave("idle") /\ baseline' = baseline
  BY <1>1, <1>7, QuietLeave, SameBounds, SameOperation
<1>8. CASE baseline' = recorded /\ Leave("idle")
  <2>1. PcType' /\ WorkType' /\ PlanInv' /\ WindowInv' /\ plan' = NoPlan /\ obs'.tick = 0
        /\ pc' = "idle"
    BY <1>8, LeaveEffect
  <2>2. StageInv' /\ AsideOwned'
    BY <1>1, <2>1 DEF StageInv, AsideOwned, worldVars, Nothing
  <2>3. StoreType' /\ WorldInv' /\ WorldType' /\ BoundType' /\ OpInv' /\ RevisionInv'
    BY <1>6, <1>8, <2>1
  <2> QED  BY <2>1, <2>2, <2>3, TypeParts
<1>9. CASE /\ baseline' = recorded
           /\ pc' = "dispatch" /\ plan' = decisions
           /\ seen' = [seen EXCEPT !.remote = remote] /\ UNCHANGED obs
  <2>1. PcType' /\ WorkType'
    BY <1>3, <1>5, <1>9 DEF TypeOK, PcType, WorkType
  <2>2. \A p \in Paths : seen'.local[p] = seen.local[p] /\ seen'.remote[p] = remote[p]
    BY <1>9 DEF TypeOK
  <2>3. ASSUME NEW p \in External(decisions)
        PROVE  Justified(decisions[p], TRUE, baseline'[p], seen'.local[p], seen'.remote[p],
                         "different")
    <3>1. p \in Paths /\ decisions[p].kind \in ExternalKinds
      BY DEF External
    <3>2. Justified(decisions[p], TRUE, baseline[p], seen.local[p], remote[p], evidence[p])
      BY <1>2, <3>1
    <3>3. Justified(decisions[p], TRUE, baseline[p], seen.local[p], remote[p], "different")
      BY <3>1, <3>2 DEF Justified, ExternalKinds
    <3> QED  BY <1>6, <1>9, <2>2, <3>1, <3>3
  <2>4. PlanInv'
    BY <1>9, <2>3 DEF PlanInv, External
  <2>5. StageInv' /\ AsideOwned' /\ WindowInv'
    BY <1>1, <1>9 DEF StageInv, AsideOwned, WindowInv, worldVars, Nothing
  <2>6. StoreType' /\ WorldInv' /\ WorldType' /\ BoundType' /\ OpInv' /\ RevisionInv'
    BY <1>6, <1>9
  <2> QED  BY <2>1, <2>4, <2>5, <2>6, TypeParts
<1> QED  BY <1>4, <1>7, <1>8, <1>9

\* The operation of a decision has what the decision saw.
LEMMA DispatchKeeps ==
  ASSUME TreeInv, NEW p \in Paths, Dispatch(p)
  PROVE  TreeInv'
<1> USE DEF TreeInv
<1> DEFINE new == [kind |-> plan[p].kind, path |-> p, expLocal |-> seen.local[p],
                   expRemote |-> Expectation(seen.remote[p]), pinned |-> FALSE, pin |-> 0,
                   phase |-> "planned"]
<1>1. p \in External(plan) /\ plan[p].kind \in ExternalKinds /\ op' = new /\ op = Absent
      /\ aside = Nothing
  BY DEF Dispatch, External, StageInv, AsideOwned
<1>2. seen.local[p] \in LocalPrints \union {Absent} /\ seen.remote[p] \in RemoteEntries \union {Absent}
  BY DEF TypeOK
<1>3. /\ Expectation(seen.remote[p]) \in Expectations \union {Absent}
      /\ Expectation(seen.remote[p]) = Absent <=> seen.remote[p] = Absent
      /\ seen.remote[p] # Absent => /\ Expectation(seen.remote[p]).id = seen.remote[p].id
                                    /\ Expectation(seen.remote[p]).rev = seen.remote[p].rev
  BY <1>2, ExpectationShape
<1>4. new \in Operations
  BY <1>1, <1>2, <1>3 DEF Operations
<1>5. /\ new.kind = plan[p].kind /\ new.path = p /\ new.expLocal = seen.local[p]
      /\ new.expRemote = Expectation(seen.remote[p]) /\ new.phase = "planned"
  OBVIOUS
<1> HIDE DEF new
<1>6. Justified(plan[p], TRUE, baseline[p], seen.local[p], seen.remote[p], "different")
  BY <1>1 DEF PlanInv
<1>7. p \in Files /\ baseline[p].remote # Absent => baseline[p].remote.kind = "file"
  BY PathFacts DEF WorldInv
<1>8. OpInv'
  <2>1. /\ new.kind = "ensure-remote" => new.expLocal # Absent
        /\ new.kind = "ensure-local" => new.expRemote # Absent
        /\ new.kind = "delete-local" => new.expLocal # Absent
    BY <1>3, <1>5, <1>6 DEF Justified
  <2>2. new.kind = "delete-remote" =>
         /\ new.expRemote # Absent /\ baseline[p].remote # Absent
         /\ new.expRemote.id = baseline[p].remote.id
         /\ p \in Files => new.expRemote.rev = baseline[p].remote.rev
    BY <1>3, <1>5, <1>6, <1>7 DEF Justified, RemoteEquivalent
  <2>3. new.kind \in {"ensure-local", "delete-local"} /\ new.expLocal # Absent =>
         LocalEquivalent(baseline[p].local, new.expLocal)
    BY <1>5, <1>6 DEF Justified
  <2> QED  BY <1>1, <1>5, <2>1, <2>2, <2>3 DEF OpInv, LocalMutation, Dispatch
<1>9. StoreType'
  BY <1>1, <1>4 DEF TypeOK, StoreType, Dispatch
<1>10. pc' \in {"pin", "exec"} /\ UNCHANGED <<plan, seen, obs>>
  BY DEF Dispatch, Goto
<1>11. WorkType' /\ PcType' /\ PlanInv'
  BY <1>10 DEF TypeOK, WorkType, PcType, PlanInv, External, Dispatch
<1>12. WorldType' /\ WorldInv' /\ BoundType'
  BY SameWorld, SameBounds DEF Dispatch
<1>13. RevisionInv'
  BY <1>10, SameRevisions DEF Dispatch, worldVars
<1>14. op' # Absent
  BY <1>1, <1>4, OperationShape
<1>15. StageInv' /\ WindowInv' /\ AsideOwned'
  BY <1>1, <1>5, <1>10, <1>14 DEF StageInv, WindowInv, AsideOwned, Dispatch, worldVars, Nothing
<1> QED  BY <1>8, <1>9, <1>11, <1>12, <1>13, <1>15, TypeParts

(***************************************************************************)
(* The end of an operation                                                 *)
(***************************************************************************)

\* The postcondition that was seen becomes the baseline, and the rest of the
\* plan is licensed as before.
LEMMA CommitKeeps ==
  ASSUME TreeInv, op # Absent, UNCHANGED <<local, remote, tick, boundVars>>, aside' = Nothing,
         LocalPrint(local[op.path]) = Absent <=> remote[op.path] = Absent,
         CommitBaseline(LocalPrint(local[op.path]), remote[op.path])
  PROVE  TreeInv'
<1> USE DEF TreeInv
<1> DEFINE l == LocalPrint(local[op.path])
           r == remote[op.path]
           entry == IF l = Absent THEN EmptyBaseline ELSE [local |-> l, remote |-> r]
           rest == [plan EXCEPT ![op.path] = Decide("noop")]
<1>1. op \in Operations /\ op.path \in Paths
  BY OperationShape DEF TypeOK
<1>2. /\ l \in LocalPrints \union {Absent} /\ r \in RemoteEntries \union {Absent}
      /\ l # Absent => local[op.path] # Absent /\ l.kind = local[op.path].kind
  BY <1>1, PrintShape DEF TypeOK
<1>3. l # Absent => l.kind = KindOf(op.path) /\ r.kind = KindOf(op.path)
  BY <1>1, <1>2 DEF WorldInv
<1> HIDE DEF l
<1>4. /\ entry \in [local : LocalPrints \union {Absent}, remote : RemoteEntries \union {Absent}]
      /\ entry = EmptyBaseline \/ (/\ Absent \notin {entry.local, entry.remote}
                                   /\ entry.local.kind = entry.remote.kind)
      /\ entry.local = l /\ entry.remote = r
      /\ entry.local # Absent => entry.local.kind = KindOf(op.path)
      /\ entry.remote # Absent => entry.remote.kind = KindOf(op.path)
  <2>1. l = Absent <=> r = Absent
    BY DEF l
  <2> HIDE DEF r
  <2> QED  BY <1>1, <1>2, <1>3, <2>1, BaselineShape
<1>5. baseline' = [baseline EXCEPT ![op.path] = entry] /\ op' = Absent /\ NextDecision
  BY DEF CommitBaseline, l
<1> HIDE DEF entry
<1>6. \A p \in Paths : baseline'[p] = IF p = op.path THEN entry ELSE baseline[p]
  BY <1>1, <1>5 DEF TypeOK
<1>7. StoreType'
  <2>1. baseline' \in [Paths -> [local : LocalPrints \union {Absent},
                                 remote : RemoteEntries \union {Absent}]]
    BY <1>1, <1>4, <1>5 DEF TypeOK
  <2>2. \A p \in Paths : \/ baseline'[p] = EmptyBaseline
                         \/ /\ Absent \notin {baseline'[p].local, baseline'[p].remote}
                            /\ baseline'[p].local.kind = baseline'[p].remote.kind
    BY <1>4, <1>6 DEF TypeOK
  <2> QED  BY <1>5, <2>1, <2>2 DEF StoreType
<1>8. WorldType' /\ BoundType'
  BY EmptyWork DEF TypeOK, WorldType, BoundType, boundVars
<1>9. WorldInv'
  <2>1. \A p \in Paths :
         /\ baseline'[p].local # Absent => baseline'[p].local.kind = KindOf(p)
         /\ baseline'[p].remote # Absent => baseline'[p].remote.kind = KindOf(p)
    BY <1>4, <1>6 DEF WorldInv
  <2>2. \A p \in Paths : aside'[p] = Absent
    BY EmptyWork
  <2> QED  BY <2>1, <2>2 DEF WorldInv, Nothing
<1>10. ASSUME obs'.tick \in {0, obs.tick}
       PROVE  RevisionInv'
  <2>1. \A p \in Paths :
          /\ baseline'[p].remote # Absent => baseline'[p].remote.rev <= tick
          /\ p \in Files /\ baseline'[p].remote # Absent /\ remote[p] # Absent
             /\ baseline'[p].remote.rev = remote[p].rev
             => baseline'[p].remote.ver = remote[p].ver
    BY <1>1, <1>4, <1>6 DEF RevisionInv
  <2> QED  BY <1>10, <2>1 DEF RevisionInv, TypeOK
<1>11. OpInv' /\ AsideOwned' /\ op' = Absent
  BY <1>5 DEF OpInv, AsideOwned, Nothing
<1>12. CASE Leave("scan")
  <2>1. PcType' /\ WorkType' /\ PlanInv' /\ WindowInv' /\ plan' = NoPlan /\ obs'.tick = 0
        /\ pc' = "scan"
    BY <1>12, LeaveEffect
  <2>2. StageInv'
    BY <1>11, <2>1 DEF StageInv
  <2> QED  BY <1>7, <1>8, <1>9, <1>10, <1>11, <2>1, <2>2, TypeParts
<1>13. CASE pc' = "dispatch" /\ plan' = rest /\ obs' = NoObs /\ UNCHANGED seen
  <2>1. Decide("noop") \in Decisions /\ Decide("noop").kind \notin ExternalKinds
    BY DEF Decide, Decisions, DecisionKinds, ExternalKinds
  <2>2. rest \in [Paths -> Decisions]
        /\ \A p \in Paths : rest[p] = IF p = op.path THEN Decide("noop") ELSE plan[p]
    BY <1>1, <2>1 DEF TypeOK
  <2> HIDE DEF rest
  <2>3. PcType' /\ WorkType' /\ obs'.tick = 0
    BY <1>13, <2>2, EmptyWork DEF TypeOK, PcType, WorkType
  <2>4. PlanInv'
    <3> SUFFICES ASSUME NEW p \in External(rest)
                 PROVE  Justified(rest[p], TRUE, baseline'[p], seen.local[p], seen.remote[p],
                                  "different")
      BY <1>13 DEF PlanInv, External
    <3>1. p \in Paths /\ p # op.path /\ p \in External(plan) /\ rest[p] = plan[p]
      BY <2>1, <2>2 DEF External
    <3> QED  BY <1>6, <3>1 DEF PlanInv
  <2>5. StageInv' /\ WindowInv'
    BY <1>11, <1>13 DEF StageInv, WindowInv
  <2> QED  BY <1>7, <1>8, <1>9, <1>10, <1>11, <2>3, <2>4, <2>5, TypeParts
<1> QED  BY <1>5, <1>12, <1>13 DEF NextDecision

LEMMA SettleKeeps ==
  ASSUME TreeInv, Settle
  PROVE  TreeInv'
<1>1. op # Absent /\ op \in Operations /\ op.path \in Paths /\ aside = Nothing
      /\ op.phase = "running"
  BY OperationShape DEF TreeInv, TypeOK, StageInv, Settle
<1>2. CASE Postcondition(LocalPrint(local[op.path]), remote[op.path])
  <2>1. op.kind \in ExternalKinds /\ op.expRemote \in Expectations \union {Absent}
    BY <1>1, OperationShape
  <2>2. remote[op.path] \in RemoteEntries \union {Absent}
    BY <1>1 DEF TreeInv, TypeOK
  <2>3. Expectation(remote[op.path]) = Absent <=> remote[op.path] = Absent
    BY <2>2, ExpectationShape
  <2>4. op.kind = "ensure-local" => op.expRemote # Absent
    BY <1>1 DEF TreeInv, OpInv
  <2>5. LocalPrint(local[op.path]) = Absent <=> remote[op.path] = Absent
    BY <1>2, <2>1, <2>3, <2>4 DEF Postcondition, ExternalKinds, DeleteKinds
  <2> QED  BY <1>1, <1>2, <2>5, CommitKeeps DEF Settle, worldVars
<1>3. CASE ~Postcondition(LocalPrint(local[op.path]), remote[op.path])
  <2>1. SetPhase("recovering") /\ Leave("idle") /\ UNCHANGED baseline
    BY <1>3 DEF Settle, EndCycle
  <2> QED  BY <1>1, <2>1, SetPhaseEffect, QuietLeave, SameBounds DEF TreeInv, Settle
<1> QED  BY <1>2, <1>3

LEMMA RecoverStartedKeeps ==
  ASSUME TreeInv, RecoverStarted
  PROVE  TreeInv'
<1>1. op # Absent /\ op \in Operations /\ op.path \in Paths /\ op.kind \in ExternalKinds
      /\ plan = NoPlan
  BY OperationShape DEF TreeInv, TypeOK, StageInv, RecoverStarted
<1>2. CASE Proven(LocalPrint(local[op.path]), remote[op.path])
  <2>1. CASE aside = Nothing \/ Cleanable
    <3>1. LocalPrint(local[op.path]) = Absent <=> remote[op.path] = Absent
      BY <1>1, <1>2 DEF Proven, SameContent, ExternalKinds, DeleteKinds
    <3>2. CommitBaseline(LocalPrint(local[op.path]), remote[op.path]) /\ aside' = Nothing
      BY <1>2, <2>1 DEF RecoverStarted
    <3> QED  BY <1>1, <3>1, <3>2, CommitKeeps DEF RecoverStarted
  <2>2. CASE ~(aside = Nothing \/ Cleanable)
    <3>1. SetPhase("recovering") /\ Leave("idle") /\ UNCHANGED <<baseline, worldVars, boundVars>>
      BY <1>2, <2>2 DEF RecoverStarted, EndCycle, worldVars
    <3> QED  BY <1>1, <3>1, SetPhaseEffect, QuietLeave, SameBounds DEF TreeInv
  <2> QED  BY <2>1, <2>2
<1>3. CASE ~Proven(LocalPrint(local[op.path]), remote[op.path])
  <2>1. UNCHANGED <<baseline, worldVars, boundVars>>
    BY <1>3 DEF RecoverStarted, worldVars
  <2>2. CASE SetPhase("recovering") /\ Goto("exec") /\ aside = Nothing
    <3>1. SameWork /\ op' # Absent /\ op'.phase = "recovering"
      BY <1>1, <2>2, SetPhaseEffect
    <3>2. WorkType' /\ UNCHANGED <<plan, seen>> /\ obs'.tick = obs.tick /\ pc' = "exec"
      BY <2>2, GotoWork DEF TreeInv
    <3>3. StageInv' /\ WindowInv' /\ PcType'
      BY <2>1, <2>2, <3>1, <3>2 DEF StageInv, WindowInv, PcType, worldVars, Nothing
    <3> QED  BY <2>1, <2>2, <3>1, <3>2, <3>3, QuietStep
  <2>3. CASE SetPhase("blocked") /\ EndCycle
    BY <1>1, <2>1, <2>3, SetPhaseEffect, QuietLeave, SameBounds DEF TreeInv, EndCycle
  <2> QED  BY <1>3, <2>2, <2>3 DEF RecoverStarted
<1> QED  BY <1>2, <1>3

(***************************************************************************)
(* The beginning of a mutation                                             *)
(***************************************************************************)

\* What is to be deleted remotely is as the baseline has it, or gone, when the
\* delete begins.
LEMMA BeginRemoteKeeps ==
  ASSUME TreeInv, BeginRemote
  PROVE  TreeInv'
<1> USE DEF TreeInv
<1>1. op # Absent /\ op \in Operations /\ op.path \in Paths /\ aside = Nothing
  BY OperationShape DEF TypeOK, StageInv, BeginRemote
<1>2. CASE SetPhase("recovering") /\ EndCycle
  BY <1>1, <1>2, SetPhaseEffect, QuietLeave, SameBounds DEF BeginRemote, EndCycle
<1>3. CASE /\ RemoteAsExpected
           /\ op.kind = "delete-remote" /\ op.path = Dir => EmptyDir(remote)
           /\ SetPhase("running")
           /\ pc' = "mutate" /\ obs' = [obs EXCEPT !.tick = tick] /\ UNCHANGED <<plan, seen>>
  <2>1. SameWork /\ op' # Absent /\ op'.phase = "running"
    BY <1>1, <1>3, SetPhaseEffect
  <2>2. WorkType' /\ PcType' /\ obs'.tick = tick
    BY <1>3 DEF TypeOK, WorkType, PcType
  <2>3. StageInv'
    BY <1>1, <1>3, <2>1
       DEF StageInv, BeginRemote, SameWork, LocalMutation, Download, worldVars, Nothing
  <2>4. WindowInv'
    <3> SUFFICES ASSUME op.kind = "delete-remote", NEW p \in Files, remote[p] # Absent,
                        op.path \in {Dir, p}
                 PROVE  op.path = p /\ RemoteEquivalent(remote[p], baseline[p].remote)
      BY <1>3, <2>1 DEF WindowInv, SameWork, BeginRemote, worldVars
    <3>1. op.path = p /\ p \in Paths
      BY <1>3, PathFacts DEF EmptyDir
    <3>2. /\ baseline[p].remote # Absent /\ op.expRemote # Absent
          /\ op.expRemote.id = baseline[p].remote.id
          /\ op.expRemote.rev = baseline[p].remote.rev
      BY <1>1, <3>1 DEF OpInv
    <3>3. remote[p] \in RemoteEntries \union {Absent}
      BY <3>1 DEF TypeOK
    <3>4. remote[p].id = baseline[p].remote.id /\ remote[p].rev = baseline[p].remote.rev
      BY <1>3, <3>1, <3>2, <3>3, ExpectationShape DEF RemoteAsExpected
    <3>5. baseline[p].remote.ver = remote[p].ver
      BY <3>1, <3>2, <3>4 DEF RevisionInv
    <3>6. baseline[p].remote.kind = remote[p].kind
      BY <3>1, <3>2 DEF WorldInv
    <3> QED  BY <3>1, <3>2, <3>4, <3>5, <3>6 DEF RemoteEquivalent
  <2> QED  BY <1>1, <1>3, <2>1, <2>2, <2>3, <2>4, QuietStep DEF BeginRemote
<1> QED  BY <1>2, <1>3 DEF BeginRemote

LEMMA BeginLocalKeeps ==
  ASSUME TreeInv, BeginLocal
  PROVE  TreeInv'
<1> USE DEF TreeInv
<1>1. op # Absent /\ op \in Operations /\ op.path \in Paths /\ aside = Nothing
      /\ op.kind \in {"ensure-local", "delete-local"}
  BY OperationShape DEF TypeOK, StageInv, BeginLocal, LocalMutation
<1>2. CASE Fail
  BY <1>1, <1>2, FailEffect, QuietLeave, SameBounds DEF BeginLocal, EndCycle
<1>3. CASE /\ Download => RemoteAsExpected
           /\ SetPhase("running") /\ pc' = "mutate" /\ UNCHANGED <<plan, seen>>
           /\ obs' = IF Download THEN [obs EXCEPT !.result = [kind |-> "file",
                                                             ver |-> remote[op.path].ver]]
                                 ELSE obs
  <2>1. SameWork /\ op' # Absent /\ op'.phase = "running"
    BY <1>1, <1>3, SetPhaseEffect
  <2>2. remote[op.path] \in RemoteEntries \union {Absent}
    BY <1>1 DEF TypeOK
  <2>3. Download => [kind |-> "file", ver |-> remote[op.path].ver] \in LocalPrints
    BY <1>1, <1>3, <2>2, ExpectationShape
       DEF Download, OpInv, RemoteAsExpected, LocalPrints, Kinds
  <2>4. WorkType' /\ PcType' /\ obs'.tick = obs.tick
    <3> DEFINE result == [kind |-> "file", ver |-> remote[op.path].ver]
    <3> HIDE DEF result
    <3>1. Download => obs' = [obs EXCEPT !.result = result] /\ result \in LocalPrints
      BY <1>3, <2>3 DEF result
    <3>2. ~Download => obs' = obs
      BY <1>3
    <3>3. obs' \in [result : LocalPrints \union RemoteEntries \union {Absent}, tick : Nat]
          /\ obs'.tick = obs.tick
      BY <3>1, <3>2 DEF TypeOK
    <3> QED  BY <1>3, <3>3 DEF TypeOK, WorkType, PcType
  <2>5. Download => obs'.result # Absent
    BY <1>3, <2>3, AbsentAssumption DEF TypeOK
  <2>6. StageInv'
    BY <1>1, <1>3, <2>1, <2>5
       DEF StageInv, BeginLocal, SameWork, Download, worldVars, Nothing
  <2>7. WindowInv'
    BY <1>1, <2>1 DEF WindowInv, SameWork
  <2> QED  BY <1>1, <1>3, <2>1, <2>4, <2>6, <2>7, QuietStep DEF BeginLocal
<1> QED  BY <1>2, <1>3 DEF BeginLocal

(***************************************************************************)
(* Mutations                                                               *)
(***************************************************************************)

\* A new entry has a revision no baseline has.
LEMMA NewRemoteShape ==
  ASSUME TypeOK, NEW p \in Paths, NEW ver \in Versions \union {0},
         NEW r \in RemoteEntries \union {Absent}
  PROVE  /\ NewRemote(p, ver, r) \in RemoteEntries /\ NewRemote(p, ver, r) # Absent
         /\ NewRemote(p, ver, r).kind = KindOf(p) /\ NewRemote(p, ver, r).ver = ver
         /\ p = Dir => NewRemote(p, ver, r).rev = 0
         /\ p # Dir => NewRemote(p, ver, r).rev = tick + 1
<1> DEFINE new == NewRemote(p, ver, r)
<1>1. new = [kind |-> KindOf(p), id |-> IF r = Absent THEN tick + 1 ELSE r.id,
             rev |-> IF p = Dir THEN 0 ELSE tick + 1, ver |-> ver]
  BY DEF NewRemote
<1>2. tick \in Nat /\ KindOf(p) \in Kinds
  BY PathFacts DEF TypeOK
<1>3. (IF r = Absent THEN tick + 1 ELSE r.id) \in Nat
  BY <1>2, ExpectationShape
<1>4. (IF p = Dir THEN 0 ELSE tick + 1) \in Nat
  BY <1>2
<1>5. new \in RemoteEntries
  BY <1>1, <1>2, <1>3, <1>4 DEF RemoteEntries
<1>6. new # Absent
  BY <1>5, AbsentAssumption
<1> QED  BY <1>1, <1>5, <1>6

\* The remote tree loses entries, or gets them in new revisions.
LEMMA RemoteChange ==
  ASSUME TypeOK, WorldInv, RevisionInv, UNCHANGED <<baseline, local, aside>>,
         remote' \in [Paths -> RemoteEntries \union {Absent}],
         tick' \in Nat, tick <= tick', obs'.tick \in {0, obs.tick},
         \A p \in Paths : \/ remote'[p] \in {Absent, remote[p]}
                          \/ remote'[p].kind = KindOf(p) /\ p = Dir /\ remote'[p].rev = 0
                          \/ /\ remote'[p].kind = KindOf(p)
                             /\ remote'[p].rev = tick + 1 /\ tick' = tick + 1
  PROVE  WorldType' /\ WorldInv' /\ RevisionInv'
<1>1. WorldType'
  BY DEF TypeOK, WorldType
<1>2. WorldInv'
  <2>1. \A p \in Paths : remote'[p] # Absent => remote'[p].kind = KindOf(p)
    BY DEF WorldInv
  <2> QED  BY <2>1 DEF WorldInv, Nothing
<1>3. RevisionInv'
  <2>1. tick \in Nat /\ obs.tick \in Nat /\ obs'.tick <= tick'
    BY DEF TypeOK, RevisionInv
  <2>2. ASSUME NEW p \in Paths
        PROVE  /\ baseline[p].remote # Absent => baseline[p].remote.rev <= tick'
               /\ remote'[p] # Absent => remote'[p].rev <= tick'
               /\ p \in Files /\ baseline[p].remote # Absent /\ remote'[p] # Absent
                  /\ baseline[p].remote.rev = remote'[p].rev
                  => baseline[p].remote.ver = remote'[p].ver
    <3>1. /\ baseline[p].remote \in RemoteEntries \union {Absent}
          /\ remote[p] \in RemoteEntries \union {Absent}
          /\ remote'[p] \in RemoteEntries \union {Absent}
      BY DEF TypeOK
    <3>2. /\ baseline[p].remote # Absent => baseline[p].remote.rev \in Nat
          /\ remote[p] # Absent => remote[p].rev \in Nat
      BY <3>1, ExpectationShape
    <3>3. baseline[p].remote # Absent => baseline[p].remote.rev <= tick
      BY DEF RevisionInv
    <3>4. CASE remote'[p] = Absent
      BY <2>1, <3>2, <3>3, <3>4
    <3>5. CASE remote'[p] = remote[p]
      BY <2>1, <3>2, <3>3, <3>5 DEF RevisionInv
    <3>6. CASE p = Dir /\ remote'[p].rev = 0
      BY <2>1, <3>2, <3>3, <3>6, PathFacts
    <3>7. CASE remote'[p].rev = tick + 1 /\ tick' = tick + 1
      BY <2>1, <3>2, <3>3, <3>7
    <3> QED  BY <3>4, <3>5, <3>6, <3>7
  <2> QED  BY <2>1, <2>2 DEF RevisionInv
<1> QED  BY <1>1, <1>2, <1>3

\* The local tree and the recovery slot change; the remote tree does not.
LEMMA LocalChange ==
  ASSUME TypeOK, WorldInv, RevisionInv, UNCHANGED <<baseline, remote>>,
         local' \in [Paths -> LocalEntries \union {Absent}],
         aside' \in [Paths -> LocalEntries \union {Absent}],
         tick' \in Nat, tick <= tick', obs'.tick \in {0, obs.tick},
         \A p \in Paths : /\ local'[p] # Absent => local'[p].kind = KindOf(p)
                          /\ aside'[p] # Absent => aside'[p].kind = KindOf(p),
         local'[Dir] = Absent => local' = Nothing,
         aside'[Dir] = Absent => aside' = Nothing
  PROVE  WorldType' /\ WorldInv' /\ RevisionInv'
<1>1. WorldType'
  BY DEF TypeOK, WorldType
<1>2. WorldInv'
  BY DEF WorldInv, Nothing
<1>3. RevisionInv'
  <2>1. tick \in Nat /\ obs.tick \in Nat /\ obs'.tick <= tick'
    BY DEF TypeOK, RevisionInv
  <2>2. ASSUME NEW p \in Paths
        PROVE  /\ baseline[p].remote # Absent => baseline[p].remote.rev <= tick'
               /\ remote[p] # Absent => remote[p].rev <= tick'
    <3>1. /\ baseline[p].remote \in RemoteEntries \union {Absent}
          /\ remote[p] \in RemoteEntries \union {Absent}
      BY DEF TypeOK
    <3>2. /\ baseline[p].remote # Absent => baseline[p].remote.rev \in Nat
          /\ remote[p] # Absent => remote[p].rev \in Nat
      BY <3>1, ExpectationShape
    <3> QED  BY <2>1, <3>2 DEF RevisionInv
  <2> QED  BY <2>1, <2>2 DEF RevisionInv
<1> QED  BY <1>1, <1>2, <1>3

\* The mutation is done: what came of it is observed next.
LEMMA MutationDone ==
  ASSUME TreeInv, op # Absent, op.phase = "running", UNCHANGED <<baseline, op, plan, seen>>,
         pc' = "settle", aside' = Nothing,
         WorkType', BoundType', WorldType', WorldInv', RevisionInv'
  PROVE  TreeInv'
<1> USE DEF TreeInv
<1>1. StoreType' /\ OpInv'
  BY SameOperation, SameWorkKeeps
<1>2. PcType' /\ PlanInv' /\ StageInv' /\ WindowInv' /\ AsideOwned'
  BY DEF PcType, PlanInv, External, StageInv, WindowInv, AsideOwned, Nothing
<1> QED  BY <1>1, <1>2, TypeParts

\* The mutation failed: the operation is kept for recovery.
LEMMA MutationFailed ==
  ASSUME TreeInv, op \in Operations, op.phase = "running", Fail, UNCHANGED baseline,
         BoundType', WorldType', WorldInv', obs'.tick \in {0, obs.tick} => RevisionInv',
         aside' = Nothing \/ aside' = aside
  PROVE  TreeInv'
<1> USE DEF TreeInv
<1>1. SameWork /\ Leave("idle") /\ op' # Absent /\ op'.phase = "recovering"
  BY FailEffect DEF EndCycle
<1>2. StoreType' /\ OpInv'
  BY <1>1, SameWorkKeeps
<1>3. PcType' /\ WorkType' /\ PlanInv' /\ WindowInv' /\ plan' = NoPlan /\ obs'.tick = 0
      /\ pc' = "idle"
  BY <1>1, LeaveEffect
<1>4. StageInv' /\ AsideOwned'
  BY <1>1, <1>3 DEF StageInv, AsideOwned, SameWork, Nothing
<1> QED  BY <1>2, <1>3, <1>4, TypeParts

\* What is known of the operation while it mutates.
LEMMA Mutating ==
  ASSUME TreeInv, pc \in {"mutate", "remove"}
  PROVE  /\ op # Absent /\ op \in Operations /\ op.phase = "running" /\ op.path \in Paths
         /\ op.expLocal \in LocalPrints \union {Absent}
         /\ pc = "mutate" => aside = Nothing
         /\ local[op.path] \in LocalEntries \union {Absent}
         /\ remote[op.path] \in RemoteEntries \union {Absent}
         /\ tick \in Nat /\ tick + 1 \in Nat
BY OperationShape DEF TreeInv, TypeOK, StageInv

LEMMA MakeRemoteDirKeeps ==
  ASSUME TreeInv, MakeRemoteDir
  PROVE  TreeInv'
<1> USE DEF TreeInv
<1>1. op # Absent /\ op \in Operations /\ op.phase = "running" /\ aside = Nothing
      /\ tick \in Nat /\ tick + 1 \in Nat
  BY Mutating DEF MakeRemoteDir
<1>2. UNCHANGED <<baseline, op, local, aside, boundVars>>
  BY DEF MakeRemoteDir, storeVars
<1>3. WorkType' /\ UNCHANGED <<plan, seen>> /\ obs'.tick = obs.tick /\ pc' = "settle"
  BY GotoWork DEF MakeRemoteDir
<1>4. Dir \in Paths /\ 0 \in Versions \union {0}
  BY PathFacts
<1> DEFINE new == NewRemote(Dir, 0, Absent)
<1>5. new \in RemoteEntries /\ new.kind = KindOf(Dir) /\ new.rev = 0
  BY <1>4, NewRemoteShape
<1> HIDE DEF new
<1>6. \/ remote' = [remote EXCEPT ![Dir] = new] /\ tick' = tick + 1
      \/ UNCHANGED <<remote, tick>>
  BY DEF MakeRemoteDir, new
<1>7. remote' \in [Paths -> RemoteEntries \union {Absent}] /\ tick' \in Nat /\ tick <= tick'
  BY <1>1, <1>5, <1>6 DEF TypeOK
<1>8. \A p \in Paths : \/ remote'[p] \in {Absent, remote[p]}
                       \/ remote'[p].kind = KindOf(p) /\ p = Dir /\ remote'[p].rev = 0
  BY <1>5, <1>6 DEF TypeOK
<1>9. WorldType' /\ WorldInv' /\ RevisionInv'
  BY <1>2, <1>3, <1>7, <1>8, RemoteChange
<1> QED  BY <1>1, <1>2, <1>3, <1>9, MutationDone, SameBounds

LEMMA UploadFileKeeps ==
  ASSUME TreeInv, UploadFile
  PROVE  TreeInv'
<1> USE DEF TreeInv
<1> DEFINE p == op.path
           file == NewRemote(p, op.expLocal.ver, remote[p])
           parent == IF remote[Dir] = Absent THEN NewRemote(Dir, 0, Absent) ELSE remote[Dir]
<1>1. op # Absent /\ op \in Operations /\ op.phase = "running" /\ aside = Nothing
      /\ tick \in Nat /\ tick + 1 \in Nat /\ op.kind = "ensure-remote"
      /\ p \in Files /\ p \in Paths /\ p # Dir /\ Dir \in Paths
      /\ remote[p] \in RemoteEntries \union {Absent} /\ op.expLocal \in LocalPrints \union {Absent}
  BY Mutating, PathFacts DEF UploadFile
<1>2. UNCHANGED <<baseline, local, aside, boundVars>>
  BY DEF UploadFile
<1>3. op.expLocal.ver \in Versions \union {0} /\ 0 \in Versions \union {0}
  BY <1>1 DEF OpInv, LocalPrints
<1>4. file \in RemoteEntries /\ file.kind = KindOf(p) /\ file.rev = tick + 1
  <2> DEFINE r == remote[p]
             ver == op.expLocal.ver
  <2>1. TypeOK /\ p \in Paths /\ p # Dir /\ r \in RemoteEntries \union {Absent}
        /\ ver \in Versions \union {0}
    BY <1>1, <1>3
  <2> HIDE DEF p, r, ver, TreeInv
  <2>2. NewRemote(p, ver, r) \in RemoteEntries /\ NewRemote(p, ver, r).kind = KindOf(p)
        /\ NewRemote(p, ver, r).rev = tick + 1
    BY <2>1, NewRemoteShape
  <2> QED  BY <2>2 DEF p, r, ver
<1>5. \/ parent = remote[Dir]
      \/ parent \in RemoteEntries /\ parent.kind = KindOf(Dir) /\ parent.rev = 0
  BY <1>1, <1>3, NewRemoteShape
<1>6. parent \in RemoteEntries \union {Absent}
  BY <1>1, <1>5 DEF TypeOK
<1>7. CASE /\ remote' = [remote EXCEPT ![op.path] = file, ![Dir] = parent]
           /\ tick' = tick + 1
           /\ pc' = "settle" /\ obs' = [obs EXCEPT !.result = file]
           /\ UNCHANGED <<plan, seen, op>>
  <2> HIDE DEF file, parent
  <2>1. remote' \in [Paths -> RemoteEntries \union {Absent}]
    BY <1>1, <1>4, <1>6, <1>7 DEF TypeOK
  <2>2. \A q \in Paths : \/ remote'[q] = remote[q]
                         \/ remote'[q].kind = KindOf(q) /\ q = Dir /\ remote'[q].rev = 0
                         \/ /\ remote'[q].kind = KindOf(q)
                            /\ remote'[q].rev = tick + 1 /\ tick' = tick + 1
    BY <1>1, <1>4, <1>5, <1>7 DEF TypeOK
  <2>3. WorkType' /\ obs'.tick = obs.tick
    BY <1>4, <1>7 DEF TypeOK, WorkType
  <2>4. WorldType' /\ WorldInv' /\ RevisionInv'
    BY <1>1, <1>2, <1>7, <2>1, <2>2, <2>3, RemoteChange
  <2> QED  BY <1>1, <1>2, <1>7, <2>3, <2>4, MutationDone, SameBounds
<1>8. CASE Fail /\ UNCHANGED <<remote, tick>>
  <2>1. WorldType' /\ WorldInv' /\ (obs'.tick \in {0, obs.tick} => RevisionInv')
    BY <1>2, <1>8, SameWorld, SameRevisions DEF worldVars
  <2> QED  BY <1>1, <1>2, <1>8, <2>1, MutationFailed, SameBounds
<1> QED  BY <1>7, <1>8 DEF UploadFile

LEMMA DeleteRemoteKeeps ==
  ASSUME TreeInv, DeleteRemote
  PROVE  TreeInv'
<1> USE DEF TreeInv
<1>1. op # Absent /\ op \in Operations /\ op.phase = "running" /\ aside = Nothing
      /\ tick \in Nat /\ op.path \in Paths
  BY Mutating DEF DeleteRemote
<1>2. UNCHANGED <<baseline, local, aside, tick, boundVars>>
  BY DEF DeleteRemote
<1>3. CASE /\ remote' = IF op.path = Dir THEN Nothing ELSE [remote EXCEPT ![op.path] = Absent]
           /\ Goto("settle") /\ UNCHANGED op
  <2>1. WorkType' /\ UNCHANGED <<plan, seen>> /\ obs'.tick = obs.tick /\ pc' = "settle"
    BY <1>3, GotoWork
  <2>2. /\ remote' \in [Paths -> RemoteEntries \union {Absent}]
        /\ \A p \in Paths : remote'[p] \in {Absent, remote[p]}
    BY <1>1, <1>3, EmptyWork DEF TypeOK
  <2>3. WorldType' /\ WorldInv' /\ RevisionInv'
    BY <1>1, <1>2, <2>1, <2>2, RemoteChange
  <2> QED  BY <1>1, <1>2, <1>3, <2>1, <2>3, MutationDone, SameBounds
<1>4. CASE Fail /\ UNCHANGED remote
  <2>1. WorldType' /\ WorldInv' /\ (obs'.tick \in {0, obs.tick} => RevisionInv')
    BY <1>2, <1>4, SameWorld, SameRevisions DEF worldVars
  <2> QED  BY <1>1, <1>2, <1>4, <2>1, MutationFailed, SameBounds
<1> QED  BY <1>3, <1>4 DEF DeleteRemote

\* A local entry that is put at a path where it may be.
LEMMA LocalPutChange ==
  ASSUME TypeOK, WorldInv, RevisionInv, UNCHANGED <<baseline, remote, aside>>,
         NEW p \in Paths, NEW new \in LocalEntries, new.kind = KindOf(p),
         local' = [local EXCEPT ![p] = new], p = Dir \/ local[Dir] # Absent,
         tick' = tick + 1, obs'.tick \in {0, obs.tick}
  PROVE  WorldType' /\ WorldInv' /\ RevisionInv'
<1>1. tick \in Nat /\ tick' \in Nat /\ tick <= tick'
  BY DEF TypeOK
<1>2. local' \in [Paths -> LocalEntries \union {Absent}]
      /\ aside' \in [Paths -> LocalEntries \union {Absent}]
  BY DEF TypeOK
<1>3. \A q \in Paths : local'[q] = IF q = p THEN new ELSE local[q]
  BY DEF TypeOK
<1>4. local'[Dir] # Absent
  BY <1>3, PathFacts, AbsentAssumption
<1>5. \A q \in Paths : /\ local'[q] # Absent => local'[q].kind = KindOf(q)
                       /\ aside'[q] # Absent => aside'[q].kind = KindOf(q)
  BY <1>3 DEF WorldInv
<1>6. aside'[Dir] = Absent => aside' = Nothing
  BY DEF WorldInv, Nothing
<1> QED  BY <1>1, <1>2, <1>4, <1>5, <1>6, LocalChange

\* A local path is removed, a directory with what is in it.
LEMMA LocalRemoveChange ==
  ASSUME TypeOK, WorldInv, RevisionInv, UNCHANGED <<baseline, remote, aside, tick>>,
         NEW p \in Paths,
         local' = IF p = Dir THEN Nothing ELSE [local EXCEPT ![p] = Absent],
         obs'.tick \in {0, obs.tick}
  PROVE  WorldType' /\ WorldInv' /\ RevisionInv'
<1>1. tick \in Nat /\ tick' \in Nat /\ tick <= tick'
  BY DEF TypeOK
<1>2. local' \in [Paths -> LocalEntries \union {Absent}]
      /\ aside' \in [Paths -> LocalEntries \union {Absent}]
  BY EmptyWork DEF TypeOK
<1>3. \A q \in Paths : local'[q] = IF p = Dir \/ q = p THEN Absent ELSE local[q]
  BY EmptyWork DEF TypeOK
<1>4. local'[Dir] = Absent => local' = Nothing
  <2>1. CASE p = Dir
    BY <2>1 DEF Nothing
  <2>2. CASE p # Dir
    <3>1. local'[Dir] = local[Dir]
      BY <1>3, <2>2, PathFacts
    <3>2. local = Nothing => local' = Nothing
      BY <2>2, EmptyWork DEF Nothing
    <3> QED  BY <3>1, <3>2 DEF WorldInv, Nothing
  <2> QED  BY <2>1, <2>2
<1>5. \A q \in Paths : /\ local'[q] # Absent => local'[q].kind = KindOf(q)
                       /\ aside'[q] # Absent => aside'[q].kind = KindOf(q)
  BY <1>3 DEF WorldInv
<1>6. aside'[Dir] = Absent => aside' = Nothing
  BY DEF WorldInv, Nothing
<1> QED  BY <1>1, <1>2, <1>4, <1>5, <1>6, LocalChange

\* A mutation that fails changes neither tree, or puts the directory back.
LEMMA FailsQuietly ==
  ASSUME TreeInv, pc \in {"mutate", "remove"}, Fail,
         UNCHANGED <<baseline, worldVars, boundVars>>
  PROVE  TreeInv'
<1>1. WorldType' /\ WorldInv' /\ (obs'.tick \in {0, obs.tick} => RevisionInv')
  BY SameWorld, SameRevisions DEF TreeInv, worldVars
<1>2. BoundType' /\ aside' = aside
  BY SameBounds DEF TreeInv, worldVars
<1>3. op \in Operations /\ op.phase = "running"
  BY Mutating
<1> QED  BY <1>1, <1>2, <1>3, MutationFailed

LEMMA MakeLocalDirKeeps ==
  ASSUME TreeInv, MakeLocalDir
  PROVE  TreeInv'
<1> USE DEF TreeInv
<1>1. op # Absent /\ op.phase = "running" /\ aside = Nothing /\ tick + 1 \in Nat
  BY Mutating DEF MakeLocalDir
<1>2. CASE /\ local' = [local EXCEPT ![Dir] = [kind |-> "dir", ver |-> 0, ino |-> tick + 1]]
           /\ tick' = tick + 1 /\ Goto("settle") /\ UNCHANGED op
  <2> DEFINE new == [kind |-> "dir", ver |-> 0, ino |-> tick + 1]
  <2>1. new \in LocalEntries /\ new.kind = KindOf(Dir) /\ Dir \in Paths
    BY <1>1, PathFacts DEF LocalEntries, Kinds
  <2>2. local' = [local EXCEPT ![Dir] = new]
    BY <1>2
  <2> HIDE DEF new
  <2>3. WorkType' /\ UNCHANGED <<plan, seen>> /\ obs'.tick = obs.tick /\ pc' = "settle"
    BY <1>2, GotoWork
  <2>4. WorldType' /\ WorldInv' /\ RevisionInv'
    BY <1>2, <2>1, <2>2, <2>3, LocalPutChange DEF MakeLocalDir
  <2> QED  BY <1>1, <1>2, <2>3, <2>4, MutationDone, SameBounds DEF MakeLocalDir
<1>3. CASE Fail /\ UNCHANGED <<local, tick>>
  BY <1>3, FailsQuietly DEF MakeLocalDir, worldVars
<1> QED  BY <1>2, <1>3 DEF MakeLocalDir

\* The file of the operation is what it expected, in a directory that is there.
LEMMA PinnedFile ==
  ASSUME TreeInv, op # Absent, op.path \in Files, FileAsPinned
  PROVE  /\ local[Dir] # Absent
         /\ LocalMutation(op) /\ local[op.path] # Absent =>
              LocalEquivalent(LocalPrint(local[op.path]), baseline[op.path].local)
<1>1. op.path \in Paths /\ Dir \in Paths /\ op.path # Dir
  BY PathFacts
<1>2. local[op.path] \in LocalEntries \union {Absent}
  BY <1>1 DEF TreeInv, TypeOK
<1>3. CASE op.expLocal = Absent
  BY <1>1, <1>3 DEF FileAsPinned, LocalParent
<1>4. CASE op.expLocal # Absent
  <2>1. LocalEquivalent(LocalPrint(local[op.path]), op.expLocal) /\ local[op.path] # Absent
    BY <1>2, <1>4, PrintShape DEF FileAsPinned, LocalAsExpected, LocalEquivalent
  <2>2. local[Dir] # Absent
    BY <1>1, <2>1, EmptyWork DEF TreeInv, WorldInv
  <2>3. LocalMutation(op) => LocalEquivalent(baseline[op.path].local, op.expLocal)
    BY <1>4 DEF TreeInv, OpInv
  <2> QED  BY <2>1, <2>2, <2>3 DEF LocalEquivalent
<1> QED  BY <1>3, <1>4

LEMMA InstallFileKeeps ==
  ASSUME TreeInv, InstallFile
  PROVE  TreeInv'
<1> USE DEF TreeInv
<1>1. op # Absent /\ op.phase = "running" /\ aside = Nothing /\ tick + 1 \in Nat
      /\ op.path \in Files /\ op.path \in Paths
  BY Mutating DEF InstallFile, Download
<1>2. CASE /\ FileAsPinned
           /\ local' = [local EXCEPT ![op.path] = [kind |-> "file", ver |-> obs.result.ver,
                                                   ino |-> tick + 1]]
           /\ tick' = tick + 1 /\ Goto("settle") /\ UNCHANGED op
  <2> DEFINE new == [kind |-> "file", ver |-> obs.result.ver, ino |-> tick + 1]
  <2>1. obs.result.ver \in Versions \union {0}
    <3>1. obs.result # Absent
      BY DEF StageInv, InstallFile
    <3>2. obs.result \in LocalPrints \union RemoteEntries
      BY <3>1 DEF TypeOK
    <3> QED  BY <3>2 DEF LocalPrints, RemoteEntries
  <2>2. new \in LocalEntries /\ new.kind = KindOf(op.path)
    BY <1>1, <2>1, PathFacts DEF LocalEntries, Kinds, KindOf
  <2>3. local' = [local EXCEPT ![op.path] = new]
    BY <1>2
  <2> HIDE DEF new
  <2>4. WorkType' /\ UNCHANGED <<plan, seen>> /\ obs'.tick = obs.tick /\ pc' = "settle"
    BY <1>2, GotoWork
  <2>5. local[Dir] # Absent
    BY <1>1, <1>2, PinnedFile
  <2>6. WorldType' /\ WorldInv' /\ RevisionInv'
    BY <1>1, <1>2, <2>2, <2>3, <2>4, <2>5, LocalPutChange DEF InstallFile
  <2> QED  BY <1>1, <1>2, <2>4, <2>6, MutationDone, SameBounds DEF InstallFile
<1>3. CASE Fail /\ UNCHANGED <<local, tick>>
  BY <1>3, FailsQuietly DEF InstallFile, worldVars
<1> QED  BY <1>2, <1>3 DEF InstallFile

LEMMA DeleteLocalFileKeeps ==
  ASSUME TreeInv, DeleteLocalFile
  PROVE  TreeInv'
<1> USE DEF TreeInv
<1>1. op # Absent /\ op.phase = "running" /\ aside = Nothing
      /\ op.path \in Paths /\ op.path # Dir
  BY Mutating, PathFacts DEF DeleteLocalFile
<1>2. CASE local' = [local EXCEPT ![op.path] = Absent] /\ Goto("settle") /\ UNCHANGED op
  <2>1. WorkType' /\ UNCHANGED <<plan, seen>> /\ obs'.tick = obs.tick /\ pc' = "settle"
    BY <1>2, GotoWork
  <2>2. local' = IF op.path = Dir THEN Nothing ELSE [local EXCEPT ![op.path] = Absent]
    BY <1>1, <1>2
  <2>3. WorldType' /\ WorldInv' /\ RevisionInv'
    BY <1>1, <2>1, <2>2, LocalRemoveChange DEF DeleteLocalFile
  <2> QED  BY <1>1, <1>2, <2>1, <2>3, MutationDone, SameBounds DEF DeleteLocalFile
<1>3. CASE Fail /\ UNCHANGED local
  BY <1>3, FailsQuietly DEF DeleteLocalFile, worldVars
<1> QED  BY <1>2, <1>3 DEF DeleteLocalFile

\* The local tree and the recovery slot are exchanged.
LEMMA Exchange ==
  ASSUME TypeOK, WorldInv, RevisionInv, UNCHANGED <<baseline, remote, tick>>,
         local' = aside, aside' \in {local, Nothing}, obs'.tick \in {0, obs.tick}
  PROVE  WorldType' /\ WorldInv' /\ RevisionInv'
<1>1. tick \in Nat /\ tick' \in Nat /\ tick <= tick'
  BY DEF TypeOK
<1>2. local' \in [Paths -> LocalEntries \union {Absent}]
      /\ aside' \in [Paths -> LocalEntries \union {Absent}]
  BY EmptyWork DEF TypeOK
<1>3. \A q \in Paths : /\ local'[q] # Absent => local'[q].kind = KindOf(q)
                       /\ aside'[q] # Absent => aside'[q].kind = KindOf(q)
  BY EmptyWork DEF WorldInv
<1>4. (local'[Dir] = Absent => local' = Nothing) /\ (aside'[Dir] = Absent => aside' = Nothing)
  BY DEF WorldInv, Nothing
<1> QED  BY <1>1, <1>2, <1>3, <1>4, LocalChange

LEMMA MoveDirAsideKeeps ==
  ASSUME TreeInv, MoveDirAside
  PROVE  TreeInv'
<1> USE DEF TreeInv
<1>1. op # Absent /\ op.phase = "running" /\ aside = Nothing
  BY Mutating DEF MoveDirAside
<1>2. CASE aside' = local /\ local' = Nothing /\ Goto("remove") /\ UNCHANGED op
  <2>1. WorkType' /\ UNCHANGED <<plan, seen>> /\ obs'.tick = obs.tick /\ pc' = "remove"
    BY <1>2, GotoWork
  <2>2. WorldType' /\ WorldInv' /\ RevisionInv'
    BY <1>1, <1>2, <2>1, Exchange DEF MoveDirAside
  <2>3. StoreType' /\ OpInv' /\ BoundType'
    BY <1>2, SameOperation, SameWorkKeeps, SameBounds DEF MoveDirAside
  <2>4. PcType' /\ PlanInv' /\ StageInv' /\ WindowInv' /\ AsideOwned'
    BY <1>1, <1>2, <2>1
       DEF PcType, PlanInv, External, StageInv, WindowInv, AsideOwned, MoveDirAside
  <2> QED  BY <2>1, <2>2, <2>3, <2>4, TypeParts
<1>3. CASE Fail /\ UNCHANGED <<local, aside>>
  BY <1>3, FailsQuietly DEF MoveDirAside, worldVars
<1> QED  BY <1>2, <1>3 DEF MoveDirAside

LEMMA RemoveDirKeeps ==
  ASSUME TreeInv, RemoveDir
  PROVE  TreeInv'
<1> USE DEF TreeInv
<1>1. op # Absent /\ op \in Operations /\ op.phase = "running"
  BY Mutating DEF RemoveDir
<1>2. UNCHANGED <<baseline, remote, tick, boundVars>>
  BY DEF RemoveDir
<1>3. CASE aside' = Nothing /\ Goto("settle") /\ UNCHANGED <<op, local>>
  <2>1. WorkType' /\ UNCHANGED <<plan, seen>> /\ obs'.tick = obs.tick /\ pc' = "settle"
    BY <1>3, GotoWork
  <2>2. WorldType' /\ WorldInv' /\ RevisionInv'
    <3>1. tick \in Nat /\ tick' \in Nat /\ tick <= tick'
      BY <1>2 DEF TypeOK
    <3>2. local' \in [Paths -> LocalEntries \union {Absent}]
          /\ aside' \in [Paths -> LocalEntries \union {Absent}]
      BY <1>3, EmptyWork DEF TypeOK
    <3>3. \A q \in Paths : /\ local'[q] # Absent => local'[q].kind = KindOf(q)
                           /\ aside'[q] # Absent => aside'[q].kind = KindOf(q)
      BY <1>3, EmptyWork DEF WorldInv
    <3>4. (local'[Dir] = Absent => local' = Nothing) /\ (aside'[Dir] = Absent => aside' = Nothing)
      BY <1>3 DEF WorldInv, Nothing
    <3> QED  BY <1>2, <2>1, <3>1, <3>2, <3>3, <3>4, LocalChange
  <2> QED  BY <1>1, <1>2, <1>3, <2>1, <2>2, MutationDone, SameBounds
<1>4. CASE Fail /\ local' = aside /\ aside' = Nothing
  <2>1. WorldType' /\ WorldInv' /\ (obs'.tick \in {0, obs.tick} => RevisionInv')
    <3>1. SameWork /\ Leave("idle")
      BY <1>1, <1>4, FailEffect DEF EndCycle
    <3>2. obs'.tick = 0
      BY <3>1, LeaveEffect
    <3> QED  BY <1>2, <1>4, <3>2, Exchange
  <2> QED  BY <1>1, <1>2, <1>4, <2>1, MutationFailed, SameBounds
<1>5. CASE Fail /\ UNCHANGED <<local, aside>>
  BY <1>2, <1>5, FailsQuietly DEF RemoveDir, worldVars
<1> QED  BY <1>3, <1>4, <1>5 DEF RemoveDir

LEMMA ResolveRestoreKeeps ==
  ASSUME TreeInv, ResolveRestore
  PROVE  TreeInv'
<1> USE DEF TreeInv
<1>1. op # Absent /\ op \in Operations /\ UNCHANGED <<baseline, remote, tick, workerVars, boundVars>>
      /\ local' = aside /\ aside' = Nothing /\ SetPhase("recovering") /\ pc = "idle"
  BY DEF ResolveRestore, Blocked, TypeOK
<1>2. SameWork /\ op' # Absent
  BY <1>1, SetPhaseEffect
<1>3. obs'.tick = obs.tick
  BY <1>1 DEF workerVars
<1>4. WorldType' /\ WorldInv' /\ RevisionInv'
  BY <1>1, <1>3, Exchange
<1>5. StoreType' /\ OpInv' /\ BoundType'
  BY <1>1, <1>2, SameWorkKeeps, SameBounds
<1>6. WorkType' /\ PcType' /\ PlanInv' /\ StageInv' /\ WindowInv' /\ AsideOwned'
  BY <1>1 DEF TypeOK, WorkType, PcType, PlanInv, External, StageInv, WindowInv, AsideOwned,
              workerVars, Nothing
<1> QED  BY <1>4, <1>5, <1>6, TypeParts

(***************************************************************************)
(* The user and other clients                                              *)
(***************************************************************************)

\* What others put where a delete is about to happen is newer than its check.
LEMMA EditKeeps ==
  ASSUME TreeInv, NEW side \in {"local", "remote"}, Edit(side),
         WorldType', WorldInv', RevisionInv',
         \A p \in Files : remote'[p] \in {Absent, remote[p]} \/ remote'[p].rev = tick + 1
  PROVE  TreeInv'
<1> USE DEF TreeInv
<1>1. UNCHANGED <<baseline, op, aside, pc, plan, seen, obs>>
  BY DEF Edit, storeVars, workerVars
<1>2. StoreType' /\ OpInv'
  BY <1>1, SameOperation, SameWorkKeeps
<1>3. BoundType'
  <2>1. BoundType
    BY TypeParts
  <2>2. edits' = edits + 1 /\ touched' = touched \union {side} /\ crashes' = crashes
    BY DEF Edit
  <2> HIDE DEF TreeInv
  <2> QED  BY <2>1, <2>2 DEF BoundType
<1>4. WorkType' /\ PcType'
  BY <1>1 DEF TypeOK, WorkType, PcType
<1>5. PlanInv' /\ AsideOwned'
  BY <1>1 DEF PlanInv, External, AsideOwned, Nothing
<1>6. StageInv'
  BY <1>1 DEF StageInv, Download, Nothing
<1>7. WindowInv'
  <2>1. obs.tick <= tick /\ obs.tick \in Nat /\ tick \in Nat
    BY DEF RevisionInv, TypeOK
  <2> SUFFICES ASSUME pc = "mutate", op.kind = "delete-remote",
                      NEW p \in Files, remote'[p] # Absent, op.path \in {Dir, p}
               PROVE  \/ remote'[p].rev > obs.tick
                      \/ op.path = p /\ RemoteEquivalent(remote'[p], baseline[p].remote)
    BY <1>1 DEF WindowInv
  <2>2. CASE remote'[p] = remote[p]
    BY <2>2 DEF WindowInv
  <2>3. CASE remote'[p].rev = tick + 1
    BY <2>1, <2>3
  <2> QED  BY <2>2, <2>3
<1> QED  BY <1>2, <1>3, <1>6, <1>7, <1>4, <1>5, TypeParts

\* An edit that leaves the remote tree alone.
LEMMA LocalEditKeeps ==
  ASSUME TreeInv, Edit("local"), UNCHANGED remote, WorldType', WorldInv', RevisionInv'
  PROVE  TreeInv'
BY EditKeeps

LEMMA EditFrame ==
  ASSUME NEW side, Edit(side)
  PROVE  UNCHANGED <<baseline, aside, obs>>
BY DEF Edit, storeVars, workerVars

LEMMA LocalEditsKeep ==
  ASSUME TreeInv,
         LocalMkdir \/ (\E p \in Files, ver \in Versions : LocalPut(p, ver))
                    \/ (\E p \in Paths : LocalRemove(p))
  PROVE  TreeInv'
<1> USE DEF TreeInv
<1>1. tick + 1 \in Nat
  BY DEF TypeOK
<1>2. CASE LocalMkdir
  <2> DEFINE new == [kind |-> "dir", ver |-> 0, ino |-> tick + 1]
  <2>1. new \in LocalEntries /\ new.kind = KindOf(Dir) /\ Dir \in Paths
    BY <1>1, PathFacts DEF LocalEntries, Kinds
  <2>2. local' = [local EXCEPT ![Dir] = new] /\ tick' = tick + 1 /\ UNCHANGED remote
        /\ Edit("local")
    BY <1>2 DEF LocalMkdir
  <2> HIDE DEF new
  <2> QED  BY <2>1, <2>2, EditFrame, LocalPutChange, LocalEditKeeps
<1>3. ASSUME NEW p \in Files, NEW ver \in Versions, LocalPut(p, ver)
      PROVE  TreeInv'
  <2> DEFINE new == [kind |-> "file", ver |-> ver, ino |-> tick + 1]
  <2>1. new \in LocalEntries /\ new.kind = KindOf(p) /\ p \in Paths
    BY <1>1, PathFacts DEF LocalEntries, Kinds, KindOf
  <2>2. local' = [local EXCEPT ![p] = new] /\ tick' = tick + 1 /\ UNCHANGED remote
        /\ Edit("local") /\ local[Dir] # Absent
    BY <1>3 DEF LocalPut
  <2> HIDE DEF new
  <2> QED  BY <2>1, <2>2, EditFrame, LocalPutChange, LocalEditKeeps
<1>4. ASSUME NEW p \in Paths, LocalRemove(p)
      PROVE  TreeInv'
  BY <1>4, EditFrame, LocalRemoveChange, LocalEditKeeps DEF LocalRemove
<1> QED  BY <1>2, <1>3, <1>4

LEMMA RemoteEditsKeep ==
  ASSUME TreeInv,
         RemoteMkdir \/ (\E p \in Files, ver \in Versions : RemotePut(p, ver))
                     \/ (\E p \in Paths : RemoteRemove(p))
  PROVE  TreeInv'
<1> USE DEF TreeInv
<1>1. tick \in Nat /\ tick + 1 \in Nat /\ tick <= tick + 1
  BY DEF TypeOK
<1>2. ASSUME NEW p \in Paths, NEW ver \in Versions \union {0},
             p = Dir \/ p \in Files,
             remote' = [remote EXCEPT ![p] = NewRemote(p, ver, remote[p])],
             tick' = tick + 1, UNCHANGED local, Edit("remote")
      PROVE  TreeInv'
  <2> DEFINE new == NewRemote(p, ver, remote[p])
  <2>1. remote[p] \in RemoteEntries \union {Absent}
    BY DEF TypeOK
  <2>2. /\ new \in RemoteEntries /\ new.kind = KindOf(p)
        /\ p = Dir => new.rev = 0
        /\ p # Dir => new.rev = tick + 1
    BY <2>1, NewRemoteShape
  <2> HIDE DEF new
  <2>3. remote' = [remote EXCEPT ![p] = new]
    BY <1>2 DEF new
  <2>4. remote' \in [Paths -> RemoteEntries \union {Absent}]
        /\ \A q \in Paths : remote'[q] = IF q = p THEN new ELSE remote[q]
    BY <2>2, <2>3 DEF TypeOK
  <2>5. WorldType' /\ WorldInv' /\ RevisionInv'
    BY <1>1, <1>2, <2>2, <2>4, EditFrame, RemoteChange
  <2>6. \A q \in Files : remote'[q] \in {Absent, remote[q]} \/ remote'[q].rev = tick + 1
    BY <2>2, <2>4, PathFacts
  <2> QED  BY <1>2, <2>5, <2>6, EditKeeps
<1>3. CASE RemoteMkdir
  <2>1. NewRemote(Dir, 0, Absent) = NewRemote(Dir, 0, remote[Dir])
    BY <1>3 DEF RemoteMkdir
  <2> QED  BY <1>2, <1>3, <2>1, PathFacts DEF RemoteMkdir
<1>4. ASSUME NEW p \in Files, NEW ver \in Versions, RemotePut(p, ver)
      PROVE  TreeInv'
  BY <1>2, <1>4, PathFacts DEF RemotePut
<1>5. ASSUME NEW p \in Paths, RemoteRemove(p)
      PROVE  TreeInv'
  <2>1. /\ remote' = IF p = Dir THEN Nothing ELSE [remote EXCEPT ![p] = Absent]
        /\ UNCHANGED <<local, tick>> /\ Edit("remote")
    BY <1>5 DEF RemoteRemove
  <2>2. remote' \in [Paths -> RemoteEntries \union {Absent}]
        /\ \A q \in Paths : remote'[q] \in {Absent, remote[q]}
    BY <2>1, EmptyWork DEF TypeOK
  <2>3. WorldType' /\ WorldInv' /\ RevisionInv'
    BY <1>1, <2>1, <2>2, EditFrame, RemoteChange
  <2> QED  BY <2>1, <2>2, <2>3, EditKeeps, PathFacts
<1> QED  BY <1>3, <1>4, <1>5

(***************************************************************************)
(* The theorems                                                            *)
(***************************************************************************)

LEMMA TreeInvKept ==
  TreeInv /\ [Next]_vars => TreeInv'
<1> SUFFICES ASSUME TreeInv, [Next]_vars PROVE TreeInv'
  OBVIOUS
<1>1. CASE WorkerStep
  BY <1>1, BeginCycleKeeps, RecoverPlannedKeeps, PinKeeps, CheckPlannedKeeps,
     RecoverStartedKeeps, RecoverBlockedKeeps, ScanKeeps, PlanPassKeeps, DispatchKeeps,
     BeginRemoteKeeps, MakeRemoteDirKeeps, UploadFileKeeps, DeleteRemoteKeeps,
     BeginLocalKeeps, MakeLocalDirKeeps, InstallFileKeeps, DeleteLocalFileKeeps,
     MoveDirAsideKeeps, RemoveDirKeeps, SettleKeeps
     DEF WorkerStep
<1>2. CASE Crash
  BY <1>2, CrashKeeps
<1>3. CASE CliNext
  BY <1>3, ResolveRetryKeeps, ResolveRestoreKeeps DEF CliNext
<1>4. CASE UserNext
  BY <1>4, LocalEditsKeep, RemoteEditsKeep DEF UserNext
<1>5. CASE UNCHANGED vars
  <2>1. UNCHANGED <<baseline, op, local, remote, aside, tick, pc, plan, seen, obs, touched, edits,
                    crashes>>
    BY <1>5 DEF vars, storeVars, worldVars, workerVars, boundVars
  <2>2. TypeOK'
    BY <2>1 DEF TreeInv, TypeOK
  <2>3. WorldInv' /\ RevisionInv'
    BY <2>1 DEF TreeInv, WorldInv, RevisionInv, Nothing
  <2>4. PlanInv' /\ OpInv' /\ AsideOwned'
    BY <2>1 DEF TreeInv, PlanInv, External, OpInv, LocalMutation, AsideOwned, Nothing
  <2>5. StageInv' /\ WindowInv'
    BY <2>1 DEF TreeInv, StageInv, Download, WindowInv, Nothing
  <2> QED  BY <2>2, <2>3, <2>4, <2>5 DEF TreeInv
<1> QED  BY <1>1, <1>2, <1>3, <1>4, <1>5 DEF Next

LEMMA TreeInvariant ==
  Spec => []TreeInv
BY InitTree, TreeInvKept, PTL DEF Spec

\* The store, the two trees and the worker are well-formed, and a baseline has
\* both sides of one kind, or neither (CommitBaselineAndDeleteOperation).
THEOREM TreeTypeCorrect == Spec => []TypeOK
<1>1. TreeInv => TypeOK
  BY DEF TreeInv
<1> QED  BY <1>1, TreeInvariant, PTL

\* Nothing is left in a recovery slot without a started delete that owns it,
\* through crashes, retries and restores (DeleteLocal,
\* CleanupLocalRecoveryArtifact).
THEOREM AsideIsOwned == Spec => []AsideOwned
<1>1. TreeInv => AsideOwned
  BY DEF TreeInv
<1> QED  BY <1>1, TreeInvariant, PTL

\* A local file the daemon takes away is the one its operation is about, as the
\* baseline has it; all others survive the delete of their directory
\* (DeleteLocal, CleanupLocalRecoveryArtifact).
THEOREM LocalChildrenSurvive == Spec => ChildrenSurvive
<1> DEFINE Survive ==
      edits' = edits =>
        \A p \in Files : \A file \in Held(p) \ Held(p)' :
          op.path = p /\ LocalEquivalent(LocalPrint(file), baseline[p].local)
<1>1. TreeInv /\ [Next]_vars => [Survive]_vars
  <2> SUFFICES ASSUME TreeInv, [Next]_vars, edits' = edits, NEW p \in Files,
                      NEW file \in Held(p) \ Held(p)'
               PROVE  op.path = p /\ LocalEquivalent(LocalPrint(file), baseline[p].local)
    BY DEF Survive
  <2>1. p \in Paths /\ Dir \in Paths /\ p # Dir
    BY PathFacts
  <2>2. edits + 1 # edits
    BY DEF TreeInv, TypeOK
  <2>3. \A q \in Paths : Nothing[q] = Absent
    BY EmptyWork
  <2>4. ~(\A q \in Files : {local[q], aside[q]} \ {Absent} \subseteq {local'[q], aside'[q]})
    BY DEF Held
  <2>5. ~(UNCHANGED <<local, aside>>)
    BY <2>4
  <2>6. CASE InstallFile
    <3>1. op.kind = "ensure-local" /\ op.path \in Files /\ op # Absent
      BY <2>6, Mutating DEF InstallFile, Download
    <3>2. FileAsPinned /\ UNCHANGED aside
      BY <2>5, <2>6 DEF InstallFile
    <3>3. \A q \in Paths \ {op.path} : local'[q] = local[q]
      BY <2>5, <2>6 DEF InstallFile, TreeInv, TypeOK
    <3>4. op.path = p /\ file = local[p] /\ file # Absent
      BY <2>1, <3>2, <3>3 DEF Held
    <3> QED  BY <3>1, <3>2, <3>4, PinnedFile DEF LocalMutation
  <2>7. CASE DeleteLocalFile
    <3>1. op.kind = "delete-local" /\ op.path \in Files /\ op # Absent
      BY <2>7, Mutating DEF DeleteLocalFile
    <3>2. FileAsPinned /\ UNCHANGED aside
      BY <2>5, <2>7 DEF DeleteLocalFile
    <3>3. \A q \in Paths \ {op.path} : local'[q] = local[q]
      BY <2>5, <2>7 DEF DeleteLocalFile, TreeInv, TypeOK
    <3>4. op.path = p /\ file = local[p] /\ file # Absent
      BY <2>1, <3>2, <3>3 DEF Held
    <3> QED  BY <3>1, <3>2, <3>4, PinnedFile DEF LocalMutation
  <2>8. CASE MakeLocalDir
    <3>1. UNCHANGED aside /\ \A q \in Files : local'[q] = local[q]
      BY <2>5, <2>8, PathFacts DEF MakeLocalDir, TreeInv, TypeOK
    <3> QED  BY <2>4, <3>1
  <2>9. CASE MoveDirAside
    <3>1. aside = Nothing /\ aside' = local
      BY <2>5, <2>9 DEF MoveDirAside
    <3> QED  BY <2>1, <2>3, <2>4, <3>1, PathFacts
  <2>10. CASE RemoveDir
    <3>1. CASE Cleanable
      <4>1. UNCHANGED local /\ \A q \in Files : aside[q] = Absent
        BY <2>10, <3>1 DEF RemoveDir, Cleanable
      <4> QED  BY <2>4, <4>1
    <3>2. CASE ~Cleanable
      <4>1. local' = aside /\ local = Nothing
        BY <2>5, <2>10, <3>2 DEF RemoveDir, TreeInv, WorldInv
      <4> QED  BY <2>3, <2>4, <4>1, PathFacts
    <3> QED  BY <3>1, <3>2
  <2>11. CASE RecoverStarted
    <3>1. UNCHANGED local /\ \A q \in Files : aside[q] = Absent
      BY <2>3, <2>5, <2>11, PathFacts DEF RecoverStarted, Cleanable
    <3> QED  BY <2>4, <3>1
  <2>12. CASE ResolveRestore
    <3>1. local' = aside /\ local = Nothing
      BY <2>12 DEF ResolveRestore, TreeInv, WorldInv
    <3> QED  BY <2>3, <2>4, <3>1, PathFacts
  <2>13. CASE UserNext
    BY <2>2, <2>13
       DEF UserNext, LocalMkdir, RemoteMkdir, LocalPut, RemotePut, LocalRemove, RemoteRemove, Edit
  <2> QED
    BY <2>5, <2>6, <2>7, <2>8, <2>9, <2>10, <2>11, <2>12, <2>13
       DEF Next, WorkerStep, CliNext, vars, worldVars,
           BeginCycle, RecoverPlanned, Pin, CheckPlanned, RecoverBlocked, Scan, PlanPass, Dispatch,
           BeginRemote, MakeRemoteDir, UploadFile, DeleteRemote, BeginLocal, Settle, Crash,
           ResolveRetry
<1> QED  BY <1>1, TreeInvariant, PTL DEF Spec, ChildrenSurvive, Survive

\* A remote file the daemon takes away is the one its operation is about, in
\* the revision the baseline has, or was written after the last check of the
\* delete (DeleteRemote; docs/architecture.md:89 concedes that window).
THEOREM RemoteFilesSurvive == Spec => RemoteChildrenSurvive
<1> DEFINE Survive ==
      edits' = edits =>
        \A p \in Files : remote[p] # Absent /\ remote'[p] = Absent =>
          \/ op.path = p /\ RemoteEquivalent(remote[p], baseline[p].remote)
          \/ remote[p].rev > obs.tick
<1>1. TreeInv /\ [Next]_vars => [Survive]_vars
  <2> SUFFICES ASSUME TreeInv, [Next]_vars, edits' = edits, NEW p \in Files,
                      remote[p] # Absent, remote'[p] = Absent
               PROVE  \/ op.path = p /\ RemoteEquivalent(remote[p], baseline[p].remote)
                      \/ remote[p].rev > obs.tick
    BY DEF Survive
  <2>1. p \in Paths /\ Dir \in Paths /\ p # Dir
    BY PathFacts
  <2>2. edits + 1 # edits
    BY DEF TreeInv, TypeOK
  <2>3. remote' # remote
    OBVIOUS
  <2>4. CASE DeleteRemote
    <3>1. op.path \in {Dir, p}
      BY <2>1, <2>3, <2>4 DEF DeleteRemote, TreeInv, TypeOK
    <3>2. pc = "mutate" /\ op.kind = "delete-remote"
      BY <2>4 DEF DeleteRemote
    <3> QED  BY <3>1, <3>2 DEF TreeInv, WindowInv
  <2>5. CASE MakeRemoteDir
    BY <2>1, <2>3, <2>5 DEF MakeRemoteDir, TreeInv, TypeOK
  <2>6. CASE UploadFile
    <3>1. op.path \in Paths /\ op.kind = "ensure-remote" /\ op # Absent
          /\ op.expLocal \in LocalPrints \union {Absent}
          /\ remote[op.path] \in RemoteEntries \union {Absent}
      BY <2>6, Mutating DEF UploadFile
    <3>2. op.expLocal.ver \in Versions \union {0}
      BY <3>1 DEF TreeInv, OpInv, LocalPrints
    <3>3. NewRemote(op.path, op.expLocal.ver, remote[op.path]) # Absent
      BY <3>1, <3>2, NewRemoteShape DEF TreeInv
    <3> DEFINE file == NewRemote(op.path, op.expLocal.ver, remote[op.path])
               parent == IF remote[Dir] = Absent THEN NewRemote(Dir, 0, Absent) ELSE remote[Dir]
    <3>4. remote' = [remote EXCEPT ![op.path] = file, ![Dir] = parent]
      BY <2>3, <2>6 DEF UploadFile
    <3> HIDE DEF file, parent
    <3>5. remote'[p] \in {file, remote[p]}
      BY <2>1, <3>4 DEF TreeInv, TypeOK
    <3> QED  BY <3>3, <3>5 DEF file
  <2>7. CASE UserNext
    BY <2>2, <2>7
       DEF UserNext, LocalMkdir, RemoteMkdir, LocalPut, RemotePut, LocalRemove, RemoteRemove, Edit
  <2> QED
    BY <2>3, <2>4, <2>5, <2>6, <2>7
       DEF Next, WorkerStep, CliNext, vars, worldVars,
           BeginCycle, RecoverPlanned, Pin, CheckPlanned, RecoverStarted, RecoverBlocked, Scan,
           PlanPass, Dispatch, BeginRemote, BeginLocal, MakeLocalDir, InstallFile, DeleteLocalFile,
           MoveDirAside, RemoveDir, Settle, Crash, ResolveRetry, ResolveRestore
<1> QED  BY <1>1, TreeInvariant, PTL DEF Spec, RemoteChildrenSurvive, Survive
=============================================================================
