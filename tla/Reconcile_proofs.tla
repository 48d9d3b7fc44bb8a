-------------------------- MODULE Reconcile_proofs --------------------------
(***************************************************************************)
(* What undisturbed passes promise, for every set of paths and versions,   *)
(* every delete policy and every history of edits and resolutions.         *)
(***************************************************************************)
EXTENDS Reconcile, Planner_proofs, FiniteSetTheorems

(***************************************************************************)
(* The inductive invariant                                                 *)
(***************************************************************************)

\* The server never gives two contents of one path the same revision: a
\* baseline that has the revision of the remote file also has its bytes.
RevisionsKnown ==
  \A p \in Paths :
    /\ baseline[p].remote # Absent /\ remote[p] # Absent
    /\ baseline[p].remote.kind = "file" /\ remote[p].kind = "file"
    /\ baseline[p].remote.rev = remote[p].rev
    => baseline[p].remote.ver = remote[p].ver

PassInv == TypeOK /\ BaselineAgrees /\ RevisionsKnown

\* The shapes of entries, as the proofs below use them: an entry is not Absent,
\* has a kind, and as a directory carries no bytes.
LEMMA EntryShapes ==
  ASSUME TypeOK
  PROVE  /\ \A e \in LocalEntries :
              /\ e # Absent /\ e.kind \in Kinds /\ e.ver \in Nat
              /\ e.kind = "dir" => e.ver = 0
              /\ e.kind = "file" => e.ver \in Versions
              /\ e = [kind |-> e.kind, ver |-> e.ver]
         /\ \A e \in RemoteEntries :
              /\ e # Absent /\ e.kind \in Kinds /\ e.ver \in Nat
              /\ e.rev \in 0..tick /\ e.id \in 1..tick
              /\ e.kind = "dir" => e.ver = 0
              /\ e.kind = "file" => e.ver \in Versions /\ e.rev \in 1..tick
              /\ e = [kind |-> e.kind, id |-> e.id, rev |-> e.rev, ver |-> e.ver]
<1>1. tick \in Nat /\ Versions \subseteq Nat
  BY PlannerAssumption DEF TypeOK
<1>2. ASSUME NEW e \in LocalEntries
      PROVE  /\ e # Absent /\ e.kind \in Kinds /\ e.ver \in Nat
             /\ e.kind = "dir" => e.ver = 0
             /\ e.kind = "file" => e.ver \in Versions
             /\ e = [kind |-> e.kind, ver |-> e.ver]
  <2>1. e # Absent
    BY <1>2, AbsentAssumption
  <2>2. CASE e \in [kind : {"file"}, ver : Versions]
    BY <1>1, <2>1, <2>2 DEF Kinds
  <2>3. CASE e \in [kind : {"dir"}, ver : {0}]
    BY <1>1, <2>1, <2>3 DEF Kinds
  <2> QED  BY <1>2, <2>2, <2>3 DEF LocalEntries
<1>3. ASSUME NEW e \in RemoteEntries
      PROVE  /\ e # Absent /\ e.kind \in Kinds /\ e.ver \in Nat
             /\ e.rev \in 0..tick /\ e.id \in 1..tick
             /\ e.kind = "dir" => e.ver = 0
             /\ e.kind = "file" => e.ver \in Versions /\ e.rev \in 1..tick
             /\ e = [kind |-> e.kind, id |-> e.id, rev |-> e.rev, ver |-> e.ver]
  <2>1. CASE e \in [kind : {"file"}, id : 1..tick, rev : 1..tick, ver : Versions]
    <3>1. /\ e.kind = "file" /\ e.id \in 1..tick /\ e.rev \in 1..tick /\ e.ver \in Versions
          /\ e = [kind |-> e.kind, id |-> e.id, rev |-> e.rev, ver |-> e.ver]
      BY <2>1
    <3>2. e.kind \in Kinds /\ e.id \in Nat /\ e.rev \in Nat /\ e.ver \in Nat
      BY <1>1, <3>1 DEF Kinds
    <3>3. e \in [kind : Kinds, id : Nat, rev : Nat, ver : Nat]
      BY <3>1, <3>2
    <3> QED  BY <1>1, <3>1, <3>2, <3>3, AbsentAssumption DEF Kinds
  <2>2. CASE e \in [kind : {"dir"}, id : 1..tick, rev : {0}, ver : {0}]
    <3>1. e \in [kind : Kinds, id : Nat, rev : Nat, ver : Nat]
      BY <1>1, <2>2 DEF Kinds
    <3> QED  BY <1>1, <2>2, <3>1, AbsentAssumption DEF Kinds
  <2> QED  BY <1>3, <2>1, <2>2 DEF RemoteEntries
<1> QED  BY <1>2, <1>3

\* What the server has given out stays given out.
LEMMA RemoteEntriesGrow ==
  ASSUME tick \in Nat, tick' \in Nat, tick <= tick'
  PROVE  RemoteEntries \subseteq RemoteEntries'
BY DEF RemoteEntries

\* The entries an upload or a download leaves.
LEMMA UploadedType ==
  ASSUME tick \in Nat, tick' = tick + 1, NEW l \in LocalEntries,
         NEW r \in RemoteEntries \union {Absent}, TypeOK
  PROVE  /\ Uploaded(l, r, tick + 1) \in RemoteEntries'
         /\ Uploaded(l, r, tick + 1) \notin RemoteEntries
         /\ Uploaded(l, r, tick + 1).kind = l.kind
         /\ Uploaded(l, r, tick + 1).ver = l.ver
         /\ l.kind = "file" => Uploaded(l, r, tick + 1).rev = tick + 1
<1>1. l.kind \in Kinds /\ (l.kind = "dir" => l.ver = 0) /\ (l.kind = "file" => l.ver \in Versions)
  BY EntryShapes
<1>2. r # Absent => r.id \in 1..tick
  BY EntryShapes
<1>3. CASE l.kind = "dir"
  BY <1>1, <1>3 DEF Uploaded, RemoteEntries
<1>4. CASE l.kind = "file"
  BY <1>1, <1>2, <1>4 DEF Uploaded, RemoteEntries
<1> QED  BY <1>1, <1>3, <1>4 DEF Kinds

LEMMA DownloadedType ==
  ASSUME TypeOK, NEW r \in RemoteEntries
  PROVE  /\ Downloaded(r) \in LocalEntries
         /\ Downloaded(r).kind = r.kind /\ Downloaded(r).ver = r.ver
BY EntryShapes DEF Downloaded, LocalEntries, Kinds

LEMMA InitPass == Init => PassInv
<1> SUFFICES ASSUME Init PROVE PassInv
  OBVIOUS
<1>1. TypeOK
  <2>1. /\ local \in [Paths -> LocalEntries \union {Absent}]
        /\ remote \in [Paths -> RemoteEntries \union {Absent}]
    BY DEF Init
  <2>2. baseline \in [Paths -> [local : LocalEntries \union {Absent},
                               remote : RemoteEntries \union {Absent}]]
    BY DEF Init, EmptyBaseline
  <2>3. conflicts \in [Paths -> [kind : ConflictKinds \union {"none"},
                                local : LocalEntries \union {Absent},
                                remote : RemoteEntries \union {Absent}]]
    BY DEF Init, NoConflict
  <2>4. initialized \in BOOLEAN /\ tick \in Nat /\ edits \in 0..MaxEdits
    <3>1. initialized \in BOOLEAN
      BY DEF Init
    <3>2. tick = 0 /\ edits = 0 /\ MaxEdits \in Nat
      BY ReconcileAssumption DEF Init
    <3> QED  BY <3>1, <3>2
  <2> QED  BY <2>1, <2>2, <2>3, <2>4 DEF TypeOK
<1>2. BaselineAgrees /\ RevisionsKnown
  BY DEF Init, BaselineAgrees, RevisionsKnown, InSync, EmptyBaseline
<1> QED  BY <1>1, <1>2 DEF PassInv

(***************************************************************************)
(* One path of a pass                                                      *)
(***************************************************************************)

\* When decision kind d can be executed on entries l and r: what it copies is
\* there, and the other side of what it deletes is gone.
Executable(d, l, r) ==
  /\ d = "ensure-remote" => l # Absent
  /\ d = "ensure-local" => r # Absent
  /\ d = "delete-remote" => l = Absent
  /\ d = "delete-local" => r = Absent

\* Executing a decision leaves entries of the right shape, and the same entry on
\* both sides.
LEMMA ExecutedPath ==
  ASSUME TypeOK, tick' \in {tick, tick + 1},
         NEW d, NEW l \in LocalEntries \union {Absent},
         NEW r \in RemoteEntries \union {Absent}, Executable(d, l, r),
         RemoteAfter(d, l, r, tick + 1) # r => tick' = tick + 1
  PROVE  /\ LocalAfter(d, l, r) \in LocalEntries \union {Absent}
         /\ RemoteAfter(d, l, r, tick + 1) \in RemoteEntries' \union {Absent}
         /\ d \in ExternalKinds =>
              InSync(LocalAfter(d, l, r), RemoteAfter(d, l, r, tick + 1))
<1> DEFINE l2 == LocalAfter(d, l, r)
           r2 == RemoteAfter(d, l, r, tick + 1)
<1>1. /\ tick \in Nat /\ tick' \in Nat /\ tick <= tick'
      /\ RemoteEntries \subseteq RemoteEntries'
  BY RemoteEntriesGrow DEF TypeOK
<1>2. CASE d = "ensure-remote"
  <2>1. l2 = l /\ r2 = Uploaded(l, r, tick + 1) /\ l \in LocalEntries
    BY <1>2 DEF LocalAfter, RemoteAfter, Executable
  <2>2. r2 # r
    <3>1. CASE r = Absent
      <4>1. r2 \in [kind : Kinds, id : Nat, rev : Nat, ver : Nat]
        BY <1>1, <2>1, <3>1, EntryShapes DEF Uploaded, Kinds
      <4> QED  BY <3>1, <4>1, AbsentAssumption
    <3>2. CASE r # Absent
      BY <1>1, <2>1, <3>2, EntryShapes DEF Uploaded, Kinds
    <3> QED  BY <3>1, <3>2
  <2>3. tick' = tick + 1
    BY <2>2
  <2>4. r2 \in RemoteEntries' /\ r2.kind = l.kind /\ r2.ver = l.ver
    BY <1>1, <2>1, <2>3, UploadedType
  <2>5. r2 # Absent
    BY <2>1, <2>4, <1>1, EntryShapes, AbsentAssumption DEF Uploaded, Kinds
  <2>6. l # Absent
    BY <1>2 DEF Executable
  <2> QED  BY <2>1, <2>4, <2>5, <2>6 DEF InSync
<1>3. CASE d = "ensure-local"
  <2>1. l2 = Downloaded(r) /\ r2 = r /\ r \in RemoteEntries
    BY <1>3 DEF LocalAfter, RemoteAfter, Executable
  <2>2. l2 \in LocalEntries /\ l2.kind = r.kind /\ l2.ver = r.ver
    BY <2>1, DownloadedType
  <2>3. l2 # Absent /\ r # Absent
    BY <2>1, <2>2, EntryShapes
  <2> QED  BY <1>1, <2>1, <2>2, <2>3 DEF InSync
<1>4. CASE d \notin {"ensure-remote", "ensure-local"}
  BY <1>1, <1>4 DEF LocalAfter, RemoteAfter, Executable, InSync, ExternalKinds
<1> QED  BY <1>2, <1>3, <1>4

\* The decisions of a pass are justified, and by bytes that were compared
\* wherever the plan needed them.
LEMMA PlanJustified ==
  ASSUME PassInv, NEW p \in Paths
  PROVE  /\ Justified(Plan[p], initialized, baseline[p], local[p], remote[p],
                      ContentEvidence(p))
         /\ Plan[p].kind # "compare-content"
         /\ ContentEvidence(p) = "equal" => local[p].ver = remote[p].ver
<1> DEFINE e == ContentEvidence(p)
           blind == PlanPath(initialized, baseline[p], local[p], remote[p], "unknown")
<1>1. /\ e \in Evidence /\ "unknown" \in Evidence /\ initialized \in BOOLEAN
      /\ e = "equal" => local[p].ver = remote[p].ver
      /\ e = "unknown" <=> blind.kind # "compare-content"
  BY DEF ContentEvidence, Evidence, PassInv, TypeOK
<1>2. Plan[p] = PlanPath(initialized, baseline[p], local[p], remote[p], e)
  BY DEF Plan, PlanFullSnapshot, PassInv, TypeOK
<1> HIDE DEF e, blind
<1>3. Justified(Plan[p], initialized, baseline[p], local[p], remote[p], e)
  BY <1>1, <1>2, PlanPathJustified
<1>4. Plan[p].kind # "compare-content"
  BY <1>1, <1>2, <1>3 DEF Justified, blind
<1> QED  BY <1>1, <1>3, <1>4 DEF e

\* What a pass does to one path.
LEMMA PassPath ==
  ASSUME PassInv, Pass, NEW p \in Paths
  PROVE  /\ local'[p] = LocalAfter(Plan[p].kind, local[p], remote[p])
         /\ remote'[p] = RemoteAfter(Plan[p].kind, local[p], remote[p], tick + 1)
         /\ baseline'[p] = BaselineAfter(Plan[p].kind, baseline[p], local'[p], remote'[p])
         /\ local'[p] \in LocalEntries \union {Absent}
         /\ remote'[p] \in RemoteEntries' \union {Absent}
         /\ Plan[p].kind \notin {"noop", "conflict"} => InSync(local'[p], remote'[p])
<1> DEFINE d == Plan[p].kind
<1>1. /\ local'[p] = LocalAfter(d, local[p], remote[p])
      /\ remote'[p] = RemoteAfter(d, local[p], remote[p], tick + 1)
      /\ baseline'[p] = BaselineAfter(d, baseline[p], local'[p], remote'[p])
  <2>1. local' = [q \in Paths |-> LocalAfter(Plan[q].kind, local[q], remote[q])]
    BY DEF Pass, LocalLeft, RemoteLeft, ConflictsLeft
  <2>2. remote' = [q \in Paths |-> RemoteAfter(Plan[q].kind, local[q], remote[q], tick + 1)]
    BY DEF Pass, LocalLeft, RemoteLeft, ConflictsLeft
  <2>3. baseline' = [q \in Paths |->
                       BaselineAfter(Plan[q].kind, baseline[q], local'[q], remote'[q])]
    BY DEF Pass, LocalLeft, RemoteLeft, ConflictsLeft
  <2> QED  BY <2>1, <2>2, <2>3
<1>2. /\ TypeOK
      /\ local[p] \in LocalEntries \union {Absent}
      /\ remote[p] \in RemoteEntries \union {Absent}
  BY DEF PassInv, TypeOK
<1>3. tick' = IF remote' = remote THEN tick ELSE tick + 1
  BY DEF Pass, LocalLeft, RemoteLeft, ConflictsLeft
<1>4. remote'[p] # remote[p] => tick' = tick + 1
  BY <1>3
<1>5. Justified(Plan[p], initialized, baseline[p], local[p], remote[p], ContentEvidence(p))
      /\ d # "compare-content"
      /\ (ContentEvidence(p) = "equal" => local[p].ver = remote[p].ver)
  BY PlanJustified
<1> HIDE DEF d
<1>6. Executable(d, local[p], remote[p])
  BY <1>5 DEF Executable, Justified, d
<1>7. /\ LocalAfter(d, local[p], remote[p]) \in LocalEntries \union {Absent}
      /\ RemoteAfter(d, local[p], remote[p], tick + 1) \in RemoteEntries' \union {Absent}
      /\ d \in ExternalKinds => InSync(local'[p], remote'[p])
  BY <1>1, <1>2, <1>3, <1>4, <1>6, ExecutedPath
<1>8. d \in DecisionKinds
  BY <1>5 DEF Justified, Decisions, d
<1>9. d = "drop-baseline" => InSync(local'[p], remote'[p])
  BY <1>1, <1>5 DEF Justified, d, LocalAfter, RemoteAfter, InSync
<1>10. d = "commit-baseline" => InSync(local'[p], remote'[p])
  <2>1. SUFFICES ASSUME d = "commit-baseline" PROVE InSync(local[p], remote[p])
    BY <1>1 DEF LocalAfter, RemoteAfter
  <2>2. /\ local[p] # Absent /\ remote[p] # Absent /\ local[p].kind = remote[p].kind
        /\ local[p].kind = "dir" \/ local[p].ver = remote[p].ver
    BY <1>5, <2>1 DEF Justified, d
  <2>3. local[p].kind = "dir" => local[p].ver = 0 /\ remote[p].ver = 0
    BY <1>2, <2>2, EntryShapes
  <2> QED  BY <2>2, <2>3 DEF InSync
<1>11. d \notin {"noop", "conflict"} => InSync(local'[p], remote'[p])
  BY <1>5, <1>7, <1>8, <1>9, <1>10 DEF DecisionKinds
<1> QED  BY <1>1, <1>7, <1>11 DEF d

\* A record made of entries of the right shape, or removed, has the right shape.
LEMMA RecordedType ==
  ASSUME tick' \in Nat, NEW d,
         NEW b \in [local : LocalEntries \union {Absent},
                    remote : RemoteEntries' \union {Absent}],
         NEW l \in LocalEntries \union {Absent}, NEW r \in RemoteEntries' \union {Absent}
  PROVE  BaselineAfter(d, b, l, r) \in [local : LocalEntries \union {Absent},
                                        remote : RemoteEntries' \union {Absent}]
BY DEF BaselineAfter, EmptyBaseline

\* A record of a pair in sync agrees and knows its revision.
LEMMA RecordedAgrees ==
  ASSUME NEW d, NEW b, NEW l, NEW r, InSync(b.local, b.remote),
         d \notin {"noop", "conflict"} => InSync(l, r)
  PROVE  /\ InSync(BaselineAfter(d, b, l, r).local, BaselineAfter(d, b, l, r).remote)
         /\ \/ BaselineAfter(d, b, l, r).remote \in {Absent, r}
            \/ d \in {"noop", "conflict"} /\ BaselineAfter(d, b, l, r) = b
BY DEF BaselineAfter, EmptyBaseline, InSync

\* A baseline row keeps its shape when the server gives out a new number.
LEMMA RowsGrow ==
  ASSUME TypeOK, tick' \in Nat, tick <= tick'
  PROVE  /\ tick \in Nat /\ RemoteEntries \subseteq RemoteEntries'
         /\ baseline \in [Paths -> [local : LocalEntries \union {Absent},
                                    remote : RemoteEntries' \union {Absent}]]
         /\ conflicts \in [Paths -> [kind : ConflictKinds \union {"none"},
                                     local : LocalEntries \union {Absent},
                                     remote : RemoteEntries' \union {Absent}]]
<1>1. tick \in Nat /\ RemoteEntries \subseteq RemoteEntries'
  BY RemoteEntriesGrow DEF TypeOK
<1> DEFINE L == LocalEntries \union {Absent}
           R == RemoteEntries \union {Absent}
           S == RemoteEntries' \union {Absent}
           K == ConflictKinds \union {"none"}
<1>2. /\ baseline \in [Paths -> [local : L, remote : R]]
      /\ conflicts \in [Paths -> [kind : K, local : L, remote : R]]
      /\ R \subseteq S
  BY <1>1 DEF TypeOK
<1> HIDE DEF L, R, S, K
<1>3. /\ baseline \in [Paths -> [local : L, remote : S]]
      /\ conflicts \in [Paths -> [kind : K, local : L, remote : S]]
  BY <1>2
<1> QED  BY <1>1, <1>3 DEF L, S, K

LEMMA PassKeepsInv == PassInv /\ Pass => PassInv'
<1> SUFFICES ASSUME PassInv, Pass PROVE PassInv'
  OBVIOUS
<1>1. TypeOK /\ tick \in Nat /\ tick' \in {tick, tick + 1}
  BY DEF PassInv, TypeOK, Pass, LocalLeft, RemoteLeft, ConflictsLeft
<1>2. tick' \in Nat /\ tick <= tick'
  BY <1>1
<1>3. baseline \in [Paths -> [local : LocalEntries \union {Absent},
                              remote : RemoteEntries' \union {Absent}]]
  BY <1>1, <1>2, RowsGrow
<1>4. TypeOK'
  <2>1. /\ \A p \in Paths : local'[p] \in LocalEntries \union {Absent}
        /\ \A p \in Paths : remote'[p] \in RemoteEntries' \union {Absent}
    BY PassPath
  <2>2. /\ local' \in [Paths -> LocalEntries \union {Absent}]
        /\ remote' \in [Paths -> RemoteEntries' \union {Absent}]
    BY <2>1 DEF Pass, LocalLeft, RemoteLeft, ConflictsLeft
  <2>3. baseline' \in [Paths -> [local : LocalEntries \union {Absent},
                                 remote : RemoteEntries' \union {Absent}]]
    <3>1. \A p \in Paths : baseline'[p] \in [local : LocalEntries \union {Absent},
                                            remote : RemoteEntries' \union {Absent}]
      BY <1>2, <1>3, <2>1, PassPath, RecordedType
    <3> QED  BY <3>1 DEF Pass, LocalLeft, RemoteLeft, ConflictsLeft
  <2>4. conflicts' \in [Paths -> [kind : ConflictKinds \union {"none"},
                                  local : LocalEntries \union {Absent},
                                  remote : RemoteEntries' \union {Absent}]]
    <3>1. ASSUME NEW p \in Paths
          PROVE  ConflictAfter(Plan[p], local[p], remote[p])
                   \in [kind : ConflictKinds \union {"none"},
                        local : LocalEntries \union {Absent},
                        remote : RemoteEntries' \union {Absent}]
      <4>1. Plan[p].kind = "conflict" => Plan[p].conflict \in ConflictKinds
        BY PlanJustified DEF Justified
      <4>2. local[p] \in LocalEntries \union {Absent}
            /\ remote[p] \in RemoteEntries' \union {Absent}
        BY <1>1, <1>2, RowsGrow DEF TypeOK
      <4> QED  BY <4>1, <4>2 DEF ConflictAfter, NoConflict
    <3> QED  BY <3>1, Zenon DEF Pass, LocalLeft, RemoteLeft, ConflictsLeft
  <2>5. initialized' \in BOOLEAN /\ edits' \in 0..MaxEdits
    <3>1. edits' \in 0..MaxEdits
      BY <1>1 DEF TypeOK, Pass, LocalLeft, RemoteLeft, ConflictsLeft
    <3>2. initialized' \in BOOLEAN
      BY <1>1 DEF TypeOK, Pass, LocalLeft, RemoteLeft, ConflictsLeft
    <3> QED  BY <3>1, <3>2
  <2> QED  BY <1>2, <2>2, <2>3, <2>4, <2>5 DEF TypeOK, LocalEntries
<1>5. ASSUME NEW p \in Paths
      PROVE  /\ InSync(baseline'[p].local, baseline'[p].remote)
             /\ baseline'[p].remote # Absent =>
                  \/ baseline'[p].remote = remote'[p]
                  \/ baseline'[p] = baseline[p] /\ remote'[p] = remote[p]
  <2>1. InSync(baseline[p].local, baseline[p].remote)
    BY DEF PassInv, BaselineAgrees
  <2>2. Plan[p].kind \in {"noop", "conflict"} => remote'[p] = remote[p]
    BY PassPath DEF RemoteAfter
  <2> QED  BY <2>1, <2>2, PassPath, RecordedAgrees
<1>6. BaselineAgrees'
  BY <1>5 DEF BaselineAgrees, InSync
<1>7. RevisionsKnown'
  BY <1>5 DEF RevisionsKnown, PassInv
<1> QED  BY <1>4, <1>6, <1>7 DEF PassInv

(***************************************************************************)
(* Edits and resolutions                                                   *)
(***************************************************************************)

LEMMA LocalEditKeepsInv ==
  ASSUME PassInv, NEW p \in Paths, LocalEdit(p)
  PROVE  PassInv'
<1>1. TypeOK /\ edits' \in 0..MaxEdits
  BY ReconcileAssumption DEF PassInv, TypeOK, LocalEdit, Edit
<1>2. local' \in [Paths -> LocalEntries \union {Absent}]
  BY <1>1 DEF TypeOK, LocalEdit
<1>3. UNCHANGED <<remote, baseline, conflicts, initialized, tick>>
  BY DEF LocalEdit
<1>4. TypeOK'
  BY <1>1, <1>2, <1>3 DEF TypeOK, RemoteEntries
<1> QED  BY <1>3, <1>4 DEF PassInv, BaselineAgrees, RevisionsKnown

LEMMA RemotePutKeepsInv ==
  ASSUME PassInv, NEW p \in Paths, RemotePut(p)
  PROVE  PassInv'
<1>1. TypeOK /\ edits' \in 0..MaxEdits
  BY ReconcileAssumption DEF PassInv, TypeOK, RemotePut, Edit
<1>2. /\ UNCHANGED <<local, baseline, conflicts, initialized>>
      /\ tick' = tick + 1
  BY DEF RemotePut
<1>3. PICK l \in LocalEntries, keepId \in BOOLEAN :
        /\ keepId => remote[p] # Absent
        /\ remote' = [remote EXCEPT ![p] =
                        Uploaded(l, IF keepId THEN remote[p] ELSE Absent, tick + 1)]
  BY DEF RemotePut
<1> DEFINE r == IF keepId THEN remote[p] ELSE Absent
           new == Uploaded(l, r, tick + 1)
<1>4. /\ tick \in Nat /\ tick' \in Nat /\ tick <= tick'
      /\ r \in RemoteEntries \union {Absent}
      /\ remote \in [Paths -> RemoteEntries \union {Absent}]
      /\ remote' = [remote EXCEPT ![p] = new]
  BY <1>1, <1>2, <1>3 DEF TypeOK
<1> HIDE DEF r
<1>5. new \in RemoteEntries' /\ (new.kind = "file" => new.rev = tick + 1)
  BY <1>1, <1>2, <1>4, UploadedType
<1> HIDE DEF new
<1>6. RemoteEntries \subseteq RemoteEntries'
  BY <1>4, RemoteEntriesGrow
<1>7. remote' \in [Paths -> RemoteEntries' \union {Absent}]
  BY <1>4, <1>5, <1>6
<1>8. /\ baseline' \in [Paths -> [local : LocalEntries \union {Absent},
                                  remote : RemoteEntries' \union {Absent}]]
      /\ conflicts' \in [Paths -> [kind : ConflictKinds \union {"none"},
                                   local : LocalEntries \union {Absent},
                                   remote : RemoteEntries' \union {Absent}]]
  BY <1>1, <1>2, <1>4, RowsGrow
<1>9. local' \in [Paths -> LocalEntries \union {Absent}] /\ initialized' \in BOOLEAN
  BY <1>1, <1>2 DEF TypeOK
<1>10. TypeOK'
  BY <1>1, <1>4, <1>7, <1>8, <1>9 DEF TypeOK, LocalEntries
<1>11. BaselineAgrees'
  BY <1>2 DEF PassInv, BaselineAgrees
<1>12. RevisionsKnown'
  <2> SUFFICES ASSUME NEW q \in Paths,
                      baseline[q].remote # Absent, remote'[q] # Absent,
                      baseline[q].remote.kind = "file", remote'[q].kind = "file",
                      baseline[q].remote.rev = remote'[q].rev
               PROVE  baseline[q].remote.ver = remote'[q].ver
    BY <1>2 DEF RevisionsKnown
  <2>1. CASE q = p
    <3>1. remote'[q].rev = tick + 1
      BY <1>4, <1>5, <2>1
    <3>2. baseline[q].remote \in RemoteEntries
      BY <1>1 DEF TypeOK
    <3>3. baseline[q].remote.rev \in 0..tick
      BY <1>1, <3>2, EntryShapes
    <3> QED  BY <1>4, <3>1, <3>3
  <2>2. CASE q # p
    BY <1>4, <2>2 DEF PassInv, RevisionsKnown
  <2> QED  BY <2>1, <2>2
<1> QED  BY <1>10, <1>11, <1>12 DEF PassInv

LEMMA RemoteRemoveKeepsInv ==
  ASSUME PassInv, NEW p \in Paths, RemoteRemove(p)
  PROVE  PassInv'
<1>1. TypeOK /\ edits' \in 0..MaxEdits
  BY ReconcileAssumption DEF PassInv, TypeOK, RemoteRemove, Edit
<1>2. /\ UNCHANGED <<local, baseline, conflicts, initialized, tick>>
      /\ remote' = [remote EXCEPT ![p] = Absent]
  BY DEF RemoteRemove
<1>3. remote' \in [Paths -> RemoteEntries \union {Absent}]
  BY <1>1, <1>2 DEF TypeOK
<1>4. TypeOK'
  BY <1>1, <1>2, <1>3 DEF TypeOK, RemoteEntries
<1>5. \A q \in Paths : remote'[q] \in {remote[q], Absent}
  BY <1>1, <1>2 DEF TypeOK
<1> QED  BY <1>2, <1>4, <1>5 DEF PassInv, BaselineAgrees, RevisionsKnown

\* A resolution is executed only on what the conflict describes, so it copies
\* what is there and deletes where the other side is gone.
LEMMA ResolveExecutable ==
  ASSUME NEW p \in Paths, NEW choice \in Resolutions, Resolve(p, choice)
  PROVE  /\ Executable(ResolutionKind(conflicts[p], choice), local[p], remote[p])
         /\ ResolutionKind(conflicts[p], choice) \in ExternalKinds
BY DEF Resolve, Resolutions, ResolutionKind, Executable, ExternalKinds,
       LocalEquivalent, RemoteEquivalent

LEMMA ResolveKeepsInv ==
  ASSUME PassInv, NEW p \in Paths, NEW choice \in Resolutions, Resolve(p, choice)
  PROVE  PassInv'
<1> DEFINE d == ResolutionKind(conflicts[p], choice)
           l2 == LocalAfter(d, local[p], remote[p])
           r2 == RemoteAfter(d, local[p], remote[p], tick + 1)
           b2 == BaselineAfter(d, baseline[p], l2, r2)
<1>1. /\ TypeOK
      /\ local \in [Paths -> LocalEntries \union {Absent}]
      /\ remote \in [Paths -> RemoteEntries \union {Absent}]
      /\ tick \in Nat
      /\ DOMAIN baseline = Paths
  BY DEF PassInv, TypeOK
<1>2. Executable(d, local[p], remote[p]) /\ d \in ExternalKinds
  BY ResolveExecutable
<1>3. /\ local' = [local EXCEPT ![p] = l2]
      /\ remote' = [remote EXCEPT ![p] = r2]
      /\ tick' = IF remote' = remote THEN tick ELSE tick + 1
      /\ UNCHANGED <<conflicts, initialized, edits>>
  BY DEF Resolve
<1>4. baseline' = [baseline EXCEPT ![p] = b2]
  <2>1. local'[p] = l2 /\ remote'[p] = r2
    BY <1>1, <1>3
  <2>2. baseline' = [baseline EXCEPT ![p] = BaselineAfter(d, baseline[p], local'[p], remote'[p])]
    BY DEF Resolve
  <2> QED  BY <2>1, <2>2
<1> HIDE DEF d
<1>5. /\ tick' \in {tick, tick + 1} /\ tick' \in Nat /\ tick <= tick'
      /\ r2 # remote[p] => tick' = tick + 1
  BY <1>1, <1>3
<1>6. /\ l2 \in LocalEntries \union {Absent}
      /\ r2 \in RemoteEntries' \union {Absent}
      /\ InSync(l2, r2)
  BY <1>1, <1>2, <1>5, ExecutedPath
<1> HIDE DEF l2, r2
<1>7. /\ RemoteEntries \subseteq RemoteEntries'
      /\ baseline \in [Paths -> [local : LocalEntries \union {Absent},
                                 remote : RemoteEntries' \union {Absent}]]
      /\ conflicts \in [Paths -> [kind : ConflictKinds \union {"none"},
                                  local : LocalEntries \union {Absent},
                                  remote : RemoteEntries' \union {Absent}]]
  BY <1>1, <1>5, RowsGrow
<1>8. b2 \in [local : LocalEntries \union {Absent}, remote : RemoteEntries' \union {Absent}]
  BY <1>5, <1>6, <1>7, RecordedType
<1>9. InSync(b2.local, b2.remote) /\ b2.remote \in {Absent, r2}
  BY <1>2, <1>6, RecordedAgrees DEF BaselineAfter, ExternalKinds, EmptyBaseline, PassInv, BaselineAgrees
<1> HIDE DEF b2
<1>10. TypeOK'
  <2>1. local' \in [Paths -> LocalEntries \union {Absent}]
    BY <1>1, <1>3, <1>6
  <2>2. remote' \in [Paths -> RemoteEntries' \union {Absent}]
    BY <1>1, <1>3, <1>6, <1>7
  <2>3. baseline' \in [Paths -> [local : LocalEntries \union {Absent},
                                 remote : RemoteEntries' \union {Absent}]]
    BY <1>4, <1>7, <1>8
  <2>4. initialized' \in BOOLEAN /\ edits' \in 0..MaxEdits
    BY <1>1, <1>3 DEF TypeOK
  <2> QED  BY <1>3, <1>5, <1>7, <2>1, <2>2, <2>3, <2>4 DEF TypeOK, LocalEntries
<1>11. ASSUME NEW q \in Paths
       PROVE  /\ InSync(baseline'[q].local, baseline'[q].remote)
              /\ baseline'[q].remote # Absent =>
                   \/ baseline'[q].remote = remote'[q]
                   \/ baseline'[q] = baseline[q] /\ remote'[q] = remote[q]
  BY <1>1, <1>3, <1>4, <1>9 DEF PassInv, BaselineAgrees
<1>12. BaselineAgrees' /\ RevisionsKnown'
  BY <1>11 DEF BaselineAgrees, RevisionsKnown, InSync, PassInv
<1> QED  BY <1>10, <1>12 DEF PassInv

LEMMA PassInvStep == PassInv /\ [Next]_vars => PassInv'
<1> SUFFICES ASSUME PassInv, [Next]_vars PROVE PassInv'
  OBVIOUS
<1>1. CASE Pass
  BY <1>1, PassKeepsInv
<1>2. ASSUME NEW p \in Paths, LocalEdit(p) PROVE PassInv'
  BY <1>2, LocalEditKeepsInv
<1>3. ASSUME NEW p \in Paths, RemotePut(p) PROVE PassInv'
  BY <1>3, RemotePutKeepsInv
<1>4. ASSUME NEW p \in Paths, RemoteRemove(p) PROVE PassInv'
  BY <1>4, RemoteRemoveKeepsInv
<1>5. ASSUME NEW p \in Paths, NEW choice \in Resolutions, Resolve(p, choice) PROVE PassInv'
  BY <1>5, ResolveKeepsInv
<1>6. CASE UNCHANGED vars
  BY <1>6 DEF vars, PassInv, TypeOK, RemoteEntries, BaselineAgrees, RevisionsKnown
<1> QED  BY <1>1, <1>2, <1>3, <1>4, <1>5, <1>6 DEF Next, UserNext

(***************************************************************************)
(* Theorems                                                                *)
(***************************************************************************)

LEMMA PassInvHolds == Spec => []PassInv
BY InitPass, PassInvStep, PTL DEF Spec

\* The two trees and the store rows about them always have their types,
\* whatever the users edit and resolve (entries.go, conflicts.go).
THEOREM ReconcileTypeCorrect == Spec => []TypeOK
<1>1. PassInv => TypeOK
  BY DEF PassInv
<1> QED  BY <1>1, PassInvHolds, PTL

\* However many passes, edits and resolutions, a baseline never records two
\* different contents as the common one (root.go, PlanFullSnapshot): each way to
\* record one leaves equal bytes on both sides.
THEOREM BaselinesAlwaysAgree == Spec => []BaselineAgrees
<1>1. PassInv => BaselineAgrees
  BY DEF PassInv
<1> QED  BY <1>1, PassInvHolds, PTL

\* A pass wipes out only bytes that the baseline had recorded as in sync: what
\* it replaces or deletes is, by its fingerprint, what the baseline has, and the
\* fingerprint identifies the bytes (planner.go, PlanThreeWay).
THEOREM PassLosesNothingElse == Spec => PassLosesOnlySynced
<1> DEFINE Lossless ==
      Pass => \A p \in Paths, ver \in Versions :
        /\ Holds(local, p, ver) \/ Holds(remote, p, ver)
        /\ ~Holds(local', p, ver) /\ ~Holds(remote', p, ver)
        => baseline[p].local # Absent /\ baseline[p].local.ver = ver
<1>1. PassInv => Lossless
  <2> SUFFICES ASSUME PassInv, Pass, NEW p \in Paths, NEW ver \in Versions,
                      Holds(local, p, ver) \/ Holds(remote, p, ver),
                      ~Holds(local', p, ver), ~Holds(remote', p, ver)
               PROVE  baseline[p].local # Absent /\ baseline[p].local.ver = ver
    OBVIOUS
  <2> DEFINE d == Plan[p].kind
             l == local[p]
             r == remote[p]
             b == baseline[p]
  <2>1. /\ Justified(Plan[p], initialized, b, l, r, ContentEvidence(p))
        /\ d # "compare-content"
        /\ d \in DecisionKinds
    BY PlanJustified DEF Justified, Decisions
  <2>2. /\ local'[p] = LocalAfter(d, l, r)
        /\ remote'[p] = RemoteAfter(d, l, r, tick + 1)
    BY PassPath
  <2>3. /\ TypeOK /\ InSync(b.local, b.remote)
        /\ l \in LocalEntries \union {Absent} /\ r \in RemoteEntries \union {Absent}
        /\ /\ b.remote # Absent /\ r # Absent
           /\ b.remote.kind = "file" /\ r.kind = "file" /\ b.remote.rev = r.rev
           => b.remote.ver = r.ver
    BY DEF PassInv, TypeOK, BaselineAgrees, RevisionsKnown
  <2>4. /\ Holds(local, p, ver) <=> l # Absent /\ l.kind = "file" /\ l.ver = ver
        /\ Holds(remote, p, ver) <=> r # Absent /\ r.kind = "file" /\ r.ver = ver
        /\ Holds(local', p, ver) <=>
             local'[p] # Absent /\ local'[p].kind = "file" /\ local'[p].ver = ver
        /\ Holds(remote', p, ver) <=>
             remote'[p] # Absent /\ remote'[p].kind = "file" /\ remote'[p].ver = ver
    BY DEF Holds
  <2> HIDE DEF d, l, r, b
  <2>5. Holds(remote, p, ver) /\ RemoteEquivalent(b.remote, r)
          => b.local # Absent /\ b.local.ver = ver
    BY <2>3, <2>4 DEF RemoteEquivalent, InSync
  <2>6. Holds(local, p, ver) /\ LocalEquivalent(b.local, l)
          => b.local # Absent /\ b.local.ver = ver
    BY <2>4 DEF LocalEquivalent
  <2>7. CASE d = "ensure-remote"
    BY <2>1, <2>2, <2>4, <2>5, <2>7 DEF LocalAfter, RemoteAfter, Justified, b, d
  <2>8. CASE d = "ensure-local"
    BY <2>1, <2>2, <2>4, <2>6, <2>8 DEF LocalAfter, RemoteAfter, Justified, b, d
  <2>9. CASE d \in {"delete-remote", "delete-local"}
    BY <2>1, <2>2, <2>4, <2>5, <2>6, <2>9 DEF LocalAfter, RemoteAfter, Justified, b, d
  <2>10. CASE d \notin ExternalKinds
    BY <2>2, <2>4, <2>10 DEF LocalAfter, RemoteAfter, ExternalKinds
  <2> QED  BY <2>7, <2>8, <2>9, <2>10 DEF ExternalKinds
<1>2. PassInv => [Lossless]_vars
  BY <1>1
<1> QED  BY <1>2, PassInvHolds, PTL DEF PassLosesOnlySynced, Lossless

\* While a root is being paired a pass leaves both sides' data as it is: only an
\* initialized root replaces or deletes (root.go, PlanFullSnapshot).
THEOREM FirstPairingOnlyAdds == Spec => PairingOnlyAdds
<1> DEFINE Adds ==
      Pass /\ ~initialized => \A p \in Paths :
        /\ local[p] # Absent => local'[p] = local[p]
        /\ remote[p] # Absent => remote'[p] = remote[p]
<1>1. PassInv => Adds
  <2> SUFFICES ASSUME PassInv, Pass, ~initialized, NEW p \in Paths
               PROVE  /\ local[p] # Absent => local'[p] = local[p]
                      /\ remote[p] # Absent => remote'[p] = remote[p]
    OBVIOUS
  <2>1. Justified(Plan[p], initialized, baseline[p], local[p], remote[p], ContentEvidence(p))
    BY PlanJustified
  <2>2. /\ local'[p] = LocalAfter(Plan[p].kind, local[p], remote[p])
        /\ remote'[p] = RemoteAfter(Plan[p].kind, local[p], remote[p], tick + 1)
    BY PassPath
  <2> QED  BY <2>1, <2>2 DEF Justified, LocalAfter, RemoteAfter
<1>2. PassInv => [Adds]_vars
  BY <1>1
<1> QED  BY <1>2, PassInvHolds, PTL DEF PairingOnlyAdds, Adds

\* What is as the baseline has it is in sync.
LEMMA UnchangedInSync ==
  ASSUME PassInv, NEW p \in Paths, Unchanged(baseline[p], local[p], remote[p])
  PROVE  InSync(local[p], remote[p])
<1> DEFINE bl == baseline[p].local
           br == baseline[p].remote
<1>1. /\ TypeOK /\ InSync(bl, br)
      /\ local[p] \in LocalEntries \union {Absent}
      /\ remote[p] \in RemoteEntries \union {Absent}
  BY DEF PassInv, TypeOK, BaselineAgrees
<1>2. bl = Absent <=> local[p] = Absent
  BY DEF Unchanged, LocalEquivalent
<1>3. CASE local[p] = Absent
  BY <1>1, <1>2, <1>3 DEF InSync, Unchanged, RemoteEquivalent
<1>4. CASE local[p] # Absent
  <2>1. /\ bl # Absent /\ br # Absent /\ remote[p] # Absent
        /\ bl.kind = br.kind /\ bl.ver = br.ver
        /\ bl.kind = local[p].kind /\ br.kind = remote[p].kind
    BY <1>1, <1>2, <1>4 DEF InSync, Unchanged, LocalEquivalent, RemoteEquivalent
  <2>2. bl.kind = "file" => bl.ver = local[p].ver /\ br.rev = remote[p].rev
    BY <1>4, <2>1 DEF Unchanged, LocalEquivalent, RemoteEquivalent
  <2>3. bl.kind = "file" => br.ver = remote[p].ver
    BY <2>1, <2>2 DEF PassInv, RevisionsKnown
  <2>4. /\ bl.kind \in Kinds
        /\ local[p].kind = "dir" => local[p].ver = 0
        /\ remote[p].kind = "dir" => remote[p].ver = 0
    BY <1>1, <1>4, <2>1, EntryShapes
  <2> QED  BY <1>4, <2>1, <2>2, <2>3, <2>4 DEF InSync, Kinds
<1> QED  BY <1>3, <1>4

\* A root leaves the pairing phase only when both sides agree at every path, and
\* every entry has its baseline (cycle.go:248): the last pass had nothing to
\* carry out and no conflict.
THEOREM PairingIsComplete == Spec => InitializedWhenPaired
<1> DEFINE Complete ==
      ~initialized /\ initialized' =>
        \A p \in Paths : /\ InSync(local[p], remote[p])
                         /\ baseline'[p] # EmptyBaseline <=> local[p] # Absent
<1>1. PassInv /\ [Next]_vars => Complete
  <2> SUFFICES ASSUME PassInv, [Next]_vars, ~initialized, initialized', NEW p \in Paths
               PROVE  /\ InSync(local[p], remote[p])
                      /\ baseline'[p] # EmptyBaseline <=> local[p] # Absent
    OBVIOUS
  <2>1. Pass
    BY DEF Next, UserNext, LocalEdit, RemotePut, RemoteRemove, Resolve, vars
  <2> DEFINE d == Plan[p].kind
  <2>2. d \notin ExternalKinds
    BY <2>1 DEF Pass, External, ConflictsLeft, LocalLeft, RemoteLeft
  <2>3. d # "conflict"
    <3>1. conflicts'[p] = NoConflict
      BY <2>1 DEF Pass, ConflictsLeft, LocalLeft, RemoteLeft
    <3>2. conflicts'[p] = ConflictAfter(Plan[p], local[p], remote[p])
      BY <2>1 DEF Pass, ConflictsLeft, LocalLeft, RemoteLeft
    <3>3. d = "conflict" => Plan[p].conflict \in ConflictKinds
      BY PlanJustified DEF Justified
    <3> QED  BY <3>1, <3>2, <3>3 DEF ConflictAfter, NoConflict, ConflictKinds
  <2>4. /\ Justified(Plan[p], initialized, baseline[p], local[p], remote[p],
                     ContentEvidence(p))
        /\ d \in {"noop", "commit-baseline", "drop-baseline"}
    BY <2>2, <2>3, PlanJustified DEF Justified, Decisions, DecisionKinds
  <2>5. /\ local'[p] = local[p] /\ remote'[p] = remote[p]
        /\ baseline'[p] = BaselineAfter(d, baseline[p], local[p], remote[p])
        /\ d # "noop" => InSync(local[p], remote[p])
    BY <2>1, <2>2, <2>4, PassPath DEF LocalAfter, RemoteAfter, ExternalKinds
  <2>6. /\ TypeOK /\ InSync(baseline[p].local, baseline[p].remote)
        /\ baseline[p] = [local |-> baseline[p].local, remote |-> baseline[p].remote]
        /\ baseline[p].local \in LocalEntries \union {Absent}
        /\ baseline[p].remote \in RemoteEntries \union {Absent}
        /\ local[p] \in LocalEntries \union {Absent}
        /\ remote[p] \in RemoteEntries \union {Absent}
    BY DEF PassInv, TypeOK, BaselineAgrees
  <2>7. CASE d = "noop"
    <3>1. Unchanged(baseline[p], local[p], remote[p]) /\ baseline'[p] = baseline[p]
      BY <2>4, <2>5, <2>7 DEF Justified, BaselineAfter
    <3>2. baseline[p].local = Absent <=> local[p] = Absent
      BY <3>1 DEF Unchanged, LocalEquivalent
    <3>3. baseline[p].local = Absent <=> baseline[p] = EmptyBaseline
      BY <2>6 DEF InSync, EmptyBaseline
    <3>4. InSync(local[p], remote[p])
      BY <3>1, UnchangedInSync
    <3> QED  BY <3>1, <3>2, <3>3, <3>4
  <2>8. CASE d # "noop"
    <3>1. d # "conflict" /\ InSync(local[p], remote[p])
      BY <2>3, <2>5, <2>8
    <3> QED  BY <2>5, <2>8, <3>1 DEF BaselineAfter, EmptyBaseline, InSync
  <2> QED  BY <2>7, <2>8
<1> QED  BY <1>1, PassInvHolds, PTL DEF Spec, InitializedWhenPaired, Complete

\* What a pass removes on one side has a delete decision for that side.
LEMMA RemovedIsDecided ==
  ASSUME PassInv, Pass
  PROVE  /\ RemovedBy(local, local') = {p \in Paths : Plan[p].kind = "delete-local"}
         /\ RemovedBy(remote, remote') = {p \in Paths : Plan[p].kind = "delete-remote"}
<1>1. ASSUME NEW p \in Paths
      PROVE  /\ local[p] # Absent /\ local'[p] = Absent <=> Plan[p].kind = "delete-local"
             /\ remote[p] # Absent /\ remote'[p] = Absent <=> Plan[p].kind = "delete-remote"
  <2>1. Justified(Plan[p], initialized, baseline[p], local[p], remote[p], ContentEvidence(p))
    BY PlanJustified
  <2>2. /\ local'[p] = LocalAfter(Plan[p].kind, local[p], remote[p])
        /\ remote'[p] = RemoteAfter(Plan[p].kind, local[p], remote[p], tick + 1)
        /\ Plan[p].kind = "ensure-remote" \/ Plan[p].kind = "ensure-local" =>
             InSync(local'[p], remote'[p])
    BY PassPath
  <2> QED  BY <2>1, <2>2 DEF Justified, LocalAfter, RemoteAfter, InSync
<1> QED  BY <1>1 DEF RemovedBy

\* The entries a pass removes, on both sides together, stay within the limit on
\* the number of deletes (safety.go, evaluateDeleteGate), whatever the number of
\* paths.
THEOREM MassDeletesAreBounded == Spec => MassDeleteBounded
<1> DEFINE Bounded ==
      Pass /\ MaxDeleteCount > 0 =>
        Cardinality(RemovedBy(local, local')) + Cardinality(RemovedBy(remote, remote'))
          <= MaxDeleteCount
<1>1. PassInv => Bounded
  <2> SUFFICES ASSUME PassInv, Pass, MaxDeleteCount > 0
               PROVE  Cardinality(RemovedBy(local, local'))
                        + Cardinality(RemovedBy(remote, remote')) <= MaxDeleteCount
    OBVIOUS
  <2> DEFINE L == {p \in Paths : Plan[p].kind = "delete-local"}
             R == {p \in Paths : Plan[p].kind = "delete-remote"}
             n == ProposedDeletes(Plan)
  <2>1. RemovedBy(local, local') = L /\ RemovedBy(remote, remote') = R
    BY RemovedIsDecided
  <2>2. IsFiniteSet(L) /\ IsFiniteSet(R)
    BY ReconcileAssumption, FS_Subset
  <2>3. n = Cardinality(L \union R)
    <3>1. DOMAIN Plan = Paths
      BY DEF Plan, PlanFullSnapshot, PassInv, TypeOK
    <3>2. {p \in DOMAIN Plan : Plan[p].kind \in DeleteKinds} = L \union R
      BY <3>1 DEF DeleteKinds
    <3> QED  BY <3>2 DEF ProposedDeletes
  <2>4. L \intersect R = {}
    OBVIOUS
  <2>5. /\ Cardinality(L) \in Nat /\ Cardinality(R) \in Nat
        /\ n = Cardinality(L) + Cardinality(R)
    <3>1. Cardinality(L \union R)
            = Cardinality(L) + Cardinality(R) - Cardinality(L \intersect R)
      BY <2>2, FS_Union
    <3>2. Cardinality(L \intersect R) = 0
      BY <2>4, FS_EmptySet
    <3>3. Cardinality(L) \in Nat /\ Cardinality(R) \in Nat
      BY <2>2, FS_CardinalityType
    <3> HIDE DEF L, R
    <3> QED  BY <2>3, <3>1, <3>2, <3>3
  <2> HIDE DEF n
  <2>6. CASE initialized
    <3>1. ~(n > 0 /\ MaxDeleteCount > 0 /\ n > MaxDeleteCount)
      BY <2>6 DEF Pass, Blocked, PlanBlocked, DeleteGateBlocks, n
    <3> QED  BY <2>1, <2>5, <3>1, PlannerAssumption
  <2>7. CASE ~initialized
    <3>1. L \union R = {}
      BY <2>7, PlanJustified DEF Justified
    <3>2. n = 0
      BY <2>3, <3>1, FS_EmptySet
    <3> QED  BY <2>1, <2>5, <3>2, PlannerAssumption
  <2> QED  BY <2>6, <2>7
<1>2. PassInv => [Bounded]_vars
  BY <1>1
<1> QED  BY <1>2, PassInvHolds, PTL DEF MassDeleteBounded, Bounded

\* One undisturbed pass leaves every path in sync or in a conflict that is
\* recorded as it is (cycle.go, runRootCycle), whatever baselines, conflicts and
\* edits it starts from: every kind of decision, carried out, settles its path.
THEOREM EveryPassSettles == Spec => []OnePassSettles
<1>1. PassInv => OnePassSettles
  <2> SUFFICES ASSUME PassInv, NEW p \in Paths
               PROVE  Settled(LocalLeft(Plan)[p], RemoteLeft(Plan)[p], ConflictsLeft(Plan)[p])
    BY DEF OnePassSettles
  <2> DEFINE d == Plan[p].kind
             l == local[p]
             r == remote[p]
             l2 == LocalAfter(d, l, r)
             r2 == RemoteAfter(d, l, r, tick + 1)
  <2>1. /\ LocalLeft(Plan)[p] = l2 /\ RemoteLeft(Plan)[p] = r2
        /\ ConflictsLeft(Plan)[p] = ConflictAfter(Plan[p], l, r)
    BY DEF LocalLeft, RemoteLeft, ConflictsLeft
  <2>2. /\ Justified(Plan[p], initialized, baseline[p], l, r, ContentEvidence(p))
        /\ d # "compare-content"
        /\ ContentEvidence(p) = "equal" => l.ver = r.ver
    BY PlanJustified
  <2>3. TypeOK /\ l \in LocalEntries \union {Absent} /\ r \in RemoteEntries \union {Absent}
    BY DEF PassInv, TypeOK
  <2>4. Unchanged(baseline[p], l, r) => InSync(l, r)
    BY UnchangedInSync
  <2>5. ASSUME l # Absent PROVE InSync(l, Uploaded(l, r, tick + 1))
    <3>1. l.kind \in Kinds /\ l.ver \in Nat /\ (l.kind = "dir" => l.ver = 0)
      BY <2>3, <2>5, EntryShapes
    <3>2. tick + 1 \in Nat /\ (r # Absent => r.id \in Nat)
      BY <2>3 DEF TypeOK, RemoteEntries
    <3>3. Uploaded(l, r, tick + 1) \in [kind : Kinds, id : Nat, rev : Nat, ver : Nat]
      BY <3>1, <3>2 DEF Uploaded, Kinds
    <3>4. Uploaded(l, r, tick + 1).kind = l.kind /\ Uploaded(l, r, tick + 1).ver = l.ver
      BY <3>1 DEF Uploaded, Kinds
    <3> QED  BY <2>5, <3>3, <3>4, AbsentAssumption DEF InSync
  <2>6. r # Absent => InSync(Downloaded(r), r)
    BY <2>3, DownloadedType, EntryShapes DEF InSync
  <2> HIDE DEF d, l, r
  <2>7. d \in DecisionKinds
    BY <2>2 DEF Justified, Decisions, d
  <2>8. d \notin ExternalKinds => l2 = l /\ r2 = r
    BY DEF LocalAfter, RemoteAfter, ExternalKinds
  <2>9. CASE d \in ExternalKinds
    <3>1. InSync(l2, r2)
      BY <2>2, <2>5, <2>6, <2>9 DEF Justified, LocalAfter, RemoteAfter, InSync, ExternalKinds, d
    <3> QED  BY <2>1, <3>1 DEF Settled
  <2>10. CASE d \in {"noop", "drop-baseline"}
    <3>1. InSync(l, r)
      BY <2>2, <2>4, <2>10 DEF Justified, InSync, d
    <3> QED  BY <2>1, <2>8, <2>10, <3>1 DEF Settled, ExternalKinds
  <2>11. CASE d = "commit-baseline"
    <3>1. l # Absent /\ r # Absent /\ l.kind = r.kind /\ (l.kind = "dir" \/ l.ver = r.ver)
      BY <2>2, <2>11 DEF Justified, d
    <3>2. l.kind = "dir" => l.ver = 0 /\ r.ver = 0
      BY <2>3, <3>1, EntryShapes
    <3> QED  BY <2>1, <2>8, <2>11, <3>1, <3>2 DEF Settled, InSync, ExternalKinds
  <2>12. CASE d = "conflict"
    <3>1. /\ ConflictAfter(Plan[p], l, r).kind \in ConflictKinds
          /\ ConflictAfter(Plan[p], l, r).local = l
          /\ ConflictAfter(Plan[p], l, r).remote = r
      BY <2>2, <2>12 DEF Justified, ConflictAfter, d
    <3> QED  BY <2>1, <2>8, <2>12, <3>1 DEF Settled, ConflictKinds, ExternalKinds
  <2> QED  BY <2>2, <2>7, <2>9, <2>10, <2>11, <2>12 DEF DecisionKinds
<1> QED  BY <1>1, PassInvHolds, PTL
=============================================================================
