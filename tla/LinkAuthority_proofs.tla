------------------------ MODULE LinkAuthority_proofs ------------------------
(***************************************************************************)
(* Who may change what a link leads to, for every tree, every number of    *)
(* roots, links, edits and crashes.                                        *)
(***************************************************************************)
EXTENDS LinkAuthority, TLAPS

(***************************************************************************)
(* The inductive invariant                                                 *)
(***************************************************************************)

\* The worker steps that are about the operation in the journal.
Working == {"recover", "resolve", "authorize", "check", "mutate"}

\* Workers, operations and conflicts belong to registered roots.
OwnerOK(r) ==
  /\ pc[r] # "idle" \/ op[r] # None \/ conflict[r] # None => mode[r] # "none"
  /\ pc[r] \in Working => op[r] # None

\* The scan has seen a target behind its boundary, and a plan of a following
\* root is made with that boundary claimed.
SeenOK(r) ==
  seen[r].bound # None =>
    /\ seen[r].bound.id # 0
    /\ pc[r] = "plan" /\ mode[r] = "follow" => claim[r] = seen[r].bound

\* The claim of a following root is the boundary its operation was planned for.
ScannedOK(r) ==
  op[r] # None /\ mode[r] = "follow" /\ op[r].scanned # None =>
    claim[r] # None /\ claim[r].place = op[r].scanned.place

\* In copy mode an operation is resolved in the cycle that planned it.
ResolveOK(r) ==
  pc[r] = "resolve" /\ mode[r] = "copy" => op[r].scanned = seen[r].bound

\* What a resolution finds: the root's own entry, or a place behind the link.
FoundOK(r) ==
  pc[r] = "authorize" =>
    /\ found[r].authority \in {"lexical", "follow", "copy"}
    /\ found[r].authority = "lexical" => found[r].place = Entry[r]
    /\ found[r].authority # "lexical" =>
         /\ mode[r] = found[r].authority
         /\ found[r].bound # None /\ Behind(found[r].place, found[r].bound)
    /\ found[r].final # None =>
         /\ mode[r] = "copy" /\ found[r].authority = "lexical"
         /\ found[r].bound # None /\ found[r].bound.place = found[r].final
    /\ mode[r] = "copy" => found[r].bound = op[r].scanned

\* A pinned operation is about the root's own entry, a place behind its claim,
\* or a place behind the copied link as the scan has seen it.
PinOK(r) ==
  op[r] # None =>
    /\ op[r].authority = "lexical" => op[r].place = Entry[r]
    /\ op[r].authority = "follow" =>
         mode[r] = "follow" /\ claim[r] # None /\ Behind(op[r].place, claim[r])
    /\ op[r].authority = "copy" =>
         mode[r] = "copy" /\ op[r].scanned # None /\ Behind(op[r].place, op[r].scanned)
    /\ op[r].final # None =>
         /\ mode[r] = "copy" /\ op[r].authority = "lexical"
         /\ op[r].scanned # None /\ op[r].scanned.place = op[r].final

\* Nothing is started without a pin.
StartedOK(r) ==
  op[r] # None /\ (op[r].phase # "planned" \/ pc[r] \in {"check", "mutate"}) =>
    op[r].authority # "none"

RootInv(r) ==
  /\ OwnerOK(r) /\ SeenOK(r) /\ ScannedOK(r) /\ ResolveOK(r)
  /\ FoundOK(r) /\ PinOK(r) /\ StartedOK(r)

\* No registered root lies in another, and none where an operation is pinned
\* through a copied link of another.
HomesApart ==
  \A r, s \in Registered : r # s => ~Overlap(Home[r], Home[s])

CopiesApart ==
  \A r \in Roots : op[r] # None /\ op[r].authority = "copy" => ~Foreign(r, op[r].place)

LinkInv == TypeOK /\ (\A r \in Roots : RootInv(r)) /\ HomesApart /\ CopiesApart /\ ClaimsDisjoint

(***************************************************************************)
(* The tree                                                                *)
(***************************************************************************)

LEMMA OverlapSymmetric ==
  ASSUME NEW p, NEW q
  PROVE  Overlap(p, q) <=> Overlap(q, p)
BY DEF Overlap

\* What overlaps a file below a directory overlaps the directory.
LEMMA ChildOverlaps ==
  ASSUME NEW f \in Files, NEW d \in Dirs, Parent[f] = d, NEW q \in Places, Overlap(q, f)
  PROVE  Overlap(q, d)
<1>1. Above[f] = {d} \union Above[d]
  <2>1. f \in Places /\ d # None
    BY LinkAuthorityAssumption DEF Places
  <2>2. \A p \in Places :
          Above[p] = IF Parent[p] = None THEN {} ELSE {Parent[p]} \union Above[Parent[p]]
    BY TreeAssumption
  <2> QED  BY <2>1, <2>2
<1>2. CASE q = f
  BY <1>1, <1>2 DEF Overlap
<1>3. CASE q \in Above[f]
  BY <1>1, <1>3 DEF Overlap
<1>4. CASE f \in Above[q]
  BY <1>4, TreeAssumption DEF Places
<1> QED  BY <1>2, <1>3, <1>4 DEF Overlap

\* What overlaps a place behind a boundary overlaps the boundary.
LEMMA BehindOverlaps ==
  ASSUME NEW b, b.place \in Places, NEW p, Behind(p, b), NEW q \in Places, Overlap(q, p)
  PROVE  Overlap(q, b.place)
<1>1. CASE p = b.place
  BY <1>1
<1>2. CASE b.place \in Dirs /\ p = Child[b.place]
  <2>1. p \in Files /\ Parent[p] = b.place
    BY <1>2, TreeAssumption, LinkAuthorityAssumption
  <2> QED  BY <1>2, <2>1, ChildOverlaps
<1> QED  BY <1>1, <1>2 DEF Behind

\* The home of one root that overlaps the entry of another overlaps its home.
LEMMA EntryOverlaps ==
  ASSUME NEW r \in Roots, NEW q \in Places, Overlap(q, Entry[r])
  PROVE  Overlap(q, Home[r])
<1>1. Entry[r] \in Files /\ Home[r] \in Dirs /\ Parent[Entry[r]] = Home[r]
  BY TreeAssumption, LinkAuthorityAssumption
<1> QED  BY <1>1, ChildOverlaps

(***************************************************************************)
(* Steps of one root                                                       *)
(***************************************************************************)

\* Nothing the invariant of root s is about changes.
Kept(s) ==
  /\ claim'[s] = claim[s] /\ conflict'[s] = conflict[s] /\ op'[s] = op[s]
  /\ pc'[s] = pc[s] /\ seen'[s] = seen[s] /\ found'[s] = found[s]

LEMMA KeptRoot ==
  ASSUME NEW s \in Roots, RootInv(s), Kept(s), mode'[s] = mode[s]
  PROVE  RootInv(s)'
BY DEF RootInv, Kept, OwnerOK, SeenOK, ScannedOK, ResolveOK, FoundOK, PinOK, StartedOK, Behind

\* The claim of r is as before, or one that nobody else owns.
ClaimAllowed(r) == claim'[r] = claim[r] \/ (claim'[r].id # 0 /\ ~Owned(r, claim'[r]))

\* The pin of r through a copied link is as before, or in no other root.
PinAllowed(r) ==
  op'[r] # None /\ op'[r].authority = "copy" =>
    \/ op[r] # None /\ op[r].authority = "copy" /\ op'[r].place = op[r].place
    \/ ~Foreign(r, op'[r].place)

\* It suffices to look at the root that takes the step.
LEMMA OneRoot ==
  ASSUME LinkInv, NEW r \in Roots, TypeOK', UNCHANGED mode,
         \A s \in Roots \ {r} : Kept(s),
         RootInv(r)', ClaimAllowed(r), PinAllowed(r)
  PROVE  LinkInv'
<1>1. \A s \in Roots : RootInv(s)'
  <2>1. ASSUME NEW s \in Roots \ {r} PROVE RootInv(s)'
    BY KeptRoot DEF LinkInv
  <2> QED  BY <2>1
<1>2. Registered' = Registered /\ (\A s \in Roots : Peers(s)' = Peers(s))
  BY DEF Registered, Peers
<1>3. HomesApart'
  BY <1>2 DEF LinkInv, HomesApart
<1>4. CopiesApart'
  <2> SUFFICES ASSUME NEW s \in Roots, op'[s] # None, op'[s].authority = "copy"
               PROVE  ~Foreign(s, op[s].place)'
    BY DEF CopiesApart
  <2>1. ~Foreign(s, op'[s].place)
    <3>1. CASE s = r
      BY <3>1 DEF PinAllowed, LinkInv, CopiesApart
    <3>2. CASE s # r
      BY <3>2 DEF Kept, LinkInv, CopiesApart
    <3> QED  BY <3>1, <3>2
  <2> QED  BY <1>2, <2>1 DEF Foreign
<1>5. ClaimsDisjoint'
  <2> SUFFICES ASSUME NEW s \in Roots, claim'[s] # None
               PROVE  /\ \A other \in Registered \ {s} : ~Overlap(Home[other], claim'[s].place)
                      /\ \A other \in Roots \ {s} : claim'[other] # None =>
                           /\ claim'[other].id # claim'[s].id
                           /\ ~Overlap(claim'[other].place, claim'[s].place)
    BY <1>2 DEF ClaimsDisjoint
  <2>1. CASE claim'[r] = claim[r]
    <3>1. \A t \in Roots : claim'[t] = claim[t]
      BY <2>1 DEF Kept
    <3> QED  BY <3>1 DEF LinkInv, ClaimsDisjoint
  <2>2. CASE claim'[r].id # 0 /\ ~Owned(r, claim'[r])
    <3>1. ASSUME NEW t \in Roots \ {r}, claim[t] # None
          PROVE  /\ claim'[t] = claim[t] /\ claim[t].id # claim'[r].id
                 /\ ~Overlap(claim[t].place, claim'[r].place)
                 /\ ~Overlap(claim'[r].place, claim[t].place)
      BY <2>2, <3>1, OverlapSymmetric DEF Owned, Kept
    <3>2. CASE s = r
      <4>1. \A other \in Registered \ {s} : ~Overlap(Home[other], claim'[s].place)
        BY <2>2, <3>2 DEF Owned, Foreign, Peers
      <4>2. \A t \in Roots \ {r} : claim'[t] = claim[t]
        BY DEF Kept
      <4> QED  BY <3>1, <3>2, <4>1, <4>2
    <3>3. CASE s # r
      <4>1. claim[s] = claim'[s] /\ claim[s] # None
        BY <3>3 DEF Kept
      <4>2. \A other \in Registered \ {s} : ~Overlap(Home[other], claim'[s].place)
        BY <4>1 DEF LinkInv, ClaimsDisjoint
      <4>3. ASSUME NEW other \in Roots \ {s}, claim'[other] # None
            PROVE  /\ claim'[other].id # claim'[s].id
                   /\ ~Overlap(claim'[other].place, claim'[s].place)
        <5>1. CASE other = r
          BY <3>1, <3>3, <4>1, <5>1
        <5>2. CASE other # r
          <6>1. claim'[other] = claim[other]
            BY <5>2 DEF Kept
          <6> QED  BY <4>1, <4>3, <6>1 DEF LinkInv, ClaimsDisjoint
        <5> QED  BY <5>1, <5>2
      <4> QED  BY <4>2, <4>3
    <3> QED  BY <3>2, <3>3
  <2> QED  BY <2>1, <2>2 DEF ClaimAllowed
<1> QED  BY <1>1, <1>3, <1>4, <1>5 DEF LinkInv

(***************************************************************************)
(* Types                                                                   *)
(***************************************************************************)

Labels == {"idle", "reserve", "plan", "recover", "resolve", "authorize", "check", "mutate"}
Scans == [bound : Boundaries \union {None}, view : [Paths -> Views], dangling : BOOLEAN]
Resolutions == [authority : {"none", "lexical", "follow", "copy"},
                place : Places \union {None}, anchor : Nat,
                final : Places \union {None}, bound : Boundaries \union {None}]

WorkerType ==
  /\ pc \in [Roots -> Labels] /\ seen \in [Roots -> Scans] /\ found \in [Roots -> Resolutions]
StoreType ==
  /\ mode \in [Roots -> {"none", "follow", "copy"}] /\ initialized \in [Roots -> BOOLEAN]
  /\ claim \in [Roots -> Boundaries \union {None}]
  /\ conflict \in [Roots -> Conflicts \union {None}]
OpType == op \in [Roots -> Operations \union {None}]
FileType ==
  link \in [Roots -> Places \union {None}] /\ at \in [Places -> Nat] /\ tick \in Nat
BoundType == ops \in [Roots -> Nat] /\ edits \in Nat /\ crashes \in Nat

LEMMA TypeParts ==
  /\ TypeOK <=> WorkerType /\ StoreType /\ OpType /\ FileType /\ BoundType
  /\ TypeOK' <=> WorkerType' /\ StoreType' /\ OpType' /\ FileType' /\ BoundType'
BY DEF TypeOK, WorkerType, StoreType, OpType, FileType, BoundType, Labels, Scans, Resolutions

LEMMA ConstantTypes ==
  /\ NoScan \in Scans /\ NoTarget \in Resolutions
  /\ \A v \in Views, p \in Places, r \in Roots :
       KindAt(p) \in Views /\ Child \in [Dirs -> Files] /\ Home[r] \in Places /\ Entry[r] \in Places
BY LinkAuthorityAssumption DEF NoScan, NoTarget, Scans, Resolutions, Views, KindAt, Places

\* The end of a cycle, whatever it has done to the operation and the files.
LEMMA EndCycleEffect ==
  ASSUME WorkerType, NEW r \in Roots, EndCycle(r)
  PROVE  /\ WorkerType'
         /\ pc'[r] = "idle" /\ seen'[r] = NoScan /\ found'[r] = NoTarget
         /\ \A s \in Roots \ {r} : pc'[s] = pc[s] /\ seen'[s] = seen[s] /\ found'[s] = found[s]
BY ConstantTypes DEF EndCycle, WorkerType, Labels

LEMMA GotoEffect ==
  ASSUME WorkerType, NEW r \in Roots, NEW label \in Labels, Goto(r, label)
  PROVE  /\ WorkerType'
         /\ pc'[r] = label /\ seen' = seen /\ found' = found
         /\ \A s \in Roots \ {r} : pc'[s] = pc[s]
BY DEF Goto, WorkerType, Labels

\* The operation keeps its plan and its pin from phase to phase.
LEMMA SetPhaseEffect ==
  ASSUME OpType, NEW r \in Roots, op[r] # None,
         NEW phase \in {"planned", "running", "recovering", "blocked"}, SetPhase(r, phase)
  PROVE  /\ OpType' /\ op'[r] # None
         /\ op'[r] = [op[r] EXCEPT !.phase = phase]
         /\ op[r] \in Operations /\ op'[r] \in Operations
         /\ \A s \in Roots \ {r} : op'[s] = op[s]
<1>1. op[r] \in Operations
  BY DEF OpType
<1>2. [op[r] EXCEPT !.phase = phase] \in Operations
  BY <1>1 DEF Operations
<1>3. op' = [op EXCEPT ![r] = [op[r] EXCEPT !.phase = phase]]
  BY DEF SetPhase
<1> QED  BY <1>1, <1>2, <1>3, NoneAssumption DEF OpType

LEMMA DeleteOpEffect ==
  ASSUME OpType, WorkerType, NEW r \in Roots, DeleteOp(r)
  PROVE  /\ OpType' /\ WorkerType' /\ op'[r] = None
         /\ pc'[r] = "idle" /\ seen'[r] = NoScan /\ found'[r] = NoTarget
         /\ \A s \in Roots \ {r} : /\ op'[s] = op[s] /\ pc'[s] = pc[s]
                                   /\ seen'[s] = seen[s] /\ found'[s] = found[s]
<1>1. EndCycle(r) /\ op' = [op EXCEPT ![r] = None]
  BY DEF DeleteOp
<1> QED  BY <1>1, EndCycleEffect DEF OpType

\* A root whose operation is gone and whose worker is idle keeps its invariant.
LEMMA IdleWithoutOp ==
  ASSUME NEW r \in Roots, RootInv(r), UNCHANGED mode, conflict'[r] = conflict[r],
         op'[r] = None, pc'[r] = "idle", seen'[r] = NoScan
  PROVE  RootInv(r)' /\ PinAllowed(r)
BY DEF RootInv, OwnerOK, SeenOK, ScannedOK, ResolveOK, FoundOK, PinOK, StartedOK,
       PinAllowed, NoScan, Working

\* So does one whose worker ends the cycle and leaves the operation.
LEMMA IdleWithOp ==
  ASSUME NEW r \in Roots, RootInv(r), UNCHANGED mode,
         conflict'[r] = conflict[r] \/ conflict'[r] = None \/ pc[r] # "idle",
         op'[r] = op[r], claim'[r] = claim[r], pc'[r] = "idle", seen'[r] = NoScan
  PROVE  RootInv(r)' /\ PinAllowed(r)
BY DEF RootInv, OwnerOK, SeenOK, ScannedOK, ResolveOK, FoundOK, PinOK, StartedOK,
       PinAllowed, NoScan, Working, Behind

(***************************************************************************)
(* The cycle: scan, claims, plan                                           *)
(***************************************************************************)

LEMMA ViewType ==
  ASSUME FileType, NEW r \in Roots, NEW path \in Paths
  PROVE  View(r, path) \in Views
<1>1. path = "entry" \/ path = "below"
  BY DEF Paths
<1> QED  BY <1>1 DEF View, KindAt, Views

LEMMA BoundType1 ==
  ASSUME FileType, NEW r \in Roots
  PROVE  /\ Bound(r) \in Boundaries \union {None}
         /\ link[r] # None => /\ Bound(r) # None /\ Bound(r).place = link[r]
                              /\ Bound(r).id = at[link[r]] /\ link[r] \in Places
BY NoneAssumption DEF Bound, FileType, Boundaries

LEMMA ScanKeepsInv ==
  ASSUME LinkInv, NEW r \in Roots, Scan(r)
  PROVE  LinkInv'
<1>1. /\ WorkerType /\ StoreType /\ OpType /\ FileType /\ BoundType /\ RootInv(r)
      /\ pc[r] = "idle" /\ mode[r] # "none"
      /\ UNCHANGED <<storeVars, fileVars, boundVars>>
  BY TypeParts DEF LinkInv, Scan, Registered
<1>2. UNCHANGED <<mode, initialized, claim, conflict, op, link, at, tick, ops, edits, crashes>>
  BY <1>1 DEF storeVars, fileVars, boundVars
<1>3. StoreType' /\ OpType' /\ FileType' /\ BoundType' /\ ClaimAllowed(r)
  BY <1>1, <1>2 DEF StoreType, OpType, FileType, BoundType, ClaimAllowed
<1>4. CASE EndCycle(r)
  <2>1. WorkerType' /\ (\A s \in Roots \ {r} : Kept(s))
    BY <1>1, <1>2, <1>4, EndCycleEffect DEF Kept
  <2>2. RootInv(r)' /\ PinAllowed(r)
    BY <1>1, <1>2, <1>4, EndCycleEffect, IdleWithOp
  <2> QED  BY <1>2, <1>3, <2>1, <2>2, OneRoot, TypeParts
<1>5. CASE ~EndCycle(r)
  <2> DEFINE scan == [bound |-> IF Dangling(r) THEN None ELSE Bound(r),
                      view |-> [path \in Paths |-> View(r, path)], dangling |-> Dangling(r)]
  <2>1. /\ seen' = [seen EXCEPT ![r] = scan]
        /\ pc' = [pc EXCEPT ![r] = "reserve"] /\ UNCHANGED found
    BY <1>5 DEF Scan
  <2>2. scan \in Scans
    <3>1. [path \in Paths |-> View(r, path)] \in [Paths -> Views]
      BY <1>1, ViewType
    <3>2. Dangling(r) \in BOOLEAN /\ Bound(r) \in Boundaries \union {None}
      BY <1>1, BoundType1 DEF Dangling
    <3> QED  BY <3>1, <3>2 DEF Scans
  <2>3. scan.bound # None => scan.bound.id # 0
    BY <1>1, BoundType1 DEF Dangling, Bound
  <2> HIDE DEF scan
  <2>4. WorkerType' /\ (\A s \in Roots \ {r} : Kept(s))
    BY <1>1, <1>2, <2>1, <2>2 DEF WorkerType, Labels, Kept
  <2>5. pc'[r] = "reserve" /\ seen'[r] = scan
    BY <1>1, <2>1 DEF WorkerType
  <2>6. RootInv(r)'
    BY <1>1, <1>2, <2>3, <2>5
       DEF RootInv, OwnerOK, SeenOK, ScannedOK, ResolveOK, FoundOK, PinOK, StartedOK, Working, Behind
  <2>7. PinAllowed(r)
    BY <1>2 DEF PinAllowed
  <2> QED  BY <1>2, <1>3, <2>4, <2>6, <2>7, OneRoot, TypeParts
<1> QED  BY <1>4, <1>5

LEMMA ReserveKeepsInv ==
  ASSUME LinkInv, NEW r \in Roots, Reserve(r)
  PROVE  LinkInv'
<1> DEFINE b == seen[r].bound
           follows == mode[r] = "follow" /\ b # None
<1>1. /\ WorkerType /\ StoreType /\ OpType /\ FileType /\ BoundType /\ RootInv(r)
      /\ pc[r] = "reserve"
      /\ claim' = IF follows /\ Reservable(r, b) THEN [claim EXCEPT ![r] = b] ELSE claim
      /\ \/ EndCycle(r)
         \/ /\ Goto(r, IF op[r] = None THEN "plan" ELSE "recover")
            /\ follows => Reservable(r, b)
  BY TypeParts DEF LinkInv, Reserve
<1>2. UNCHANGED <<mode, initialized, conflict, op, link, at, tick, ops, edits, crashes>>
  BY DEF Reserve, fileVars, boundVars
<1>3. b \in Boundaries \union {None} /\ (b # None => b.id # 0)
  BY <1>1 DEF WorkerType, Scans, RootInv, SeenOK
<1>4. /\ StoreType' /\ OpType' /\ FileType' /\ BoundType'
      /\ \A s \in Roots \ {r} : claim'[s] = claim[s]
  BY <1>1, <1>2, <1>3 DEF StoreType, OpType, FileType, BoundType
<1>5. /\ claim'[r] = claim[r] \/ (follows /\ Reservable(r, b) /\ claim'[r] = b)
      /\ follows /\ Reservable(r, b) => claim'[r] = b
  BY <1>1 DEF StoreType
<1>6. ClaimAllowed(r)
  BY <1>3, <1>5 DEF ClaimAllowed, Reservable
<1>7. claim[r] # None => claim'[r] # None /\ claim'[r].place = claim[r].place
  BY <1>5 DEF Reservable, Continues
<1>8. /\ op'[r] = op[r] /\ mode'[r] = mode[r] /\ conflict'[r] = conflict[r]
      /\ PinAllowed(r)
  BY <1>2 DEF PinAllowed
<1>9. CASE EndCycle(r)
  <2>1. WorkerType' /\ (\A s \in Roots \ {r} : Kept(s))
    BY <1>1, <1>2, <1>4, <1>9, EndCycleEffect DEF Kept
  <2>2. pc'[r] = "idle" /\ seen'[r] = NoScan
    BY <1>1, <1>9, EndCycleEffect
  <2>3. RootInv(r)'
    BY <1>1, <1>7, <1>8, <2>2 DEF RootInv, OwnerOK, SeenOK, ScannedOK, ResolveOK, FoundOK,
       PinOK, StartedOK, NoScan, Working, Behind
  <2> QED  BY <1>2, <1>4, <1>6, <1>8, <2>1, <2>3, OneRoot, TypeParts
<1>10. CASE Goto(r, IF op[r] = None THEN "plan" ELSE "recover") /\ (follows => Reservable(r, b))
  <2>1. (IF op[r] = None THEN "plan" ELSE "recover") \in Labels
    BY DEF Labels
  <2>2. /\ WorkerType' /\ seen'[r] = seen[r]
        /\ pc'[r] = IF op[r] = None THEN "plan" ELSE "recover"
        /\ \A s \in Roots \ {r} : Kept(s)
    BY <1>1, <1>2, <1>4, <1>10, <2>1, GotoEffect DEF Kept
  <2>3. pc'[r] = "plan" /\ mode[r] = "follow" /\ b # None => claim'[r] = b
    BY <1>5, <1>10
  <2>4. RootInv(r)'
    BY <1>1, <1>3, <1>7, <1>8, <2>2, <2>3 DEF RootInv, OwnerOK, SeenOK, ScannedOK, ResolveOK,
       FoundOK, PinOK, StartedOK, Working, Behind
  <2> QED  BY <1>2, <1>4, <1>6, <1>8, <2>2, <2>4, OneRoot, TypeParts
<1> QED  BY <1>1, <1>9, <1>10

\* The steps that end a cycle on a plan with nothing to carry out.
LEMMA PlanEndKeepsInv ==
  ASSUME LinkInv, NEW r \in Roots,
         \/ Rest(r) \/ Initialize(r) \/ \E path \in Paths : RecordConflict(r, path)
  PROVE  LinkInv'
<1>1. /\ WorkerType /\ StoreType /\ OpType /\ FileType /\ BoundType /\ RootInv(r)
  BY TypeParts DEF LinkInv
<1>2. /\ pc[r] = "plan" /\ EndCycle(r)
      /\ UNCHANGED <<mode, claim, op, link, at, tick, ops, edits, crashes>>
  BY DEF Rest, Initialize, RecordConflict, fileVars, boundVars
<1>3. /\ initialized' \in [Roots -> BOOLEAN]
      /\ conflict' \in [Roots -> Conflicts \union {None}]
      /\ \A s \in Roots \ {r} : conflict'[s] = conflict[s]
  <2>1. CASE Rest(r)
    BY <1>1, <2>1 DEF Rest, StoreType
  <2>2. CASE Initialize(r)
    BY <1>1, <2>2 DEF Initialize, StoreType
  <2>3. ASSUME NEW path \in Paths, RecordConflict(r, path)
        PROVE  /\ initialized' \in [Roots -> BOOLEAN]
               /\ conflict' \in [Roots -> Conflicts \union {None}]
               /\ \A s \in Roots \ {r} : conflict'[s] = conflict[s]
    <3> DEFINE c == [path |-> path, view |-> seen[r].view[path]]
    <3>1. c \in Conflicts
      BY <1>1 DEF WorkerType, Scans, Conflicts
    <3>2. conflict' = [conflict EXCEPT ![r] = c] /\ UNCHANGED initialized
      BY <2>3 DEF RecordConflict
    <3> QED  BY <1>1, <3>1, <3>2 DEF StoreType
  <2> QED  BY <2>1, <2>2, <2>3
<1>4. StoreType' /\ OpType' /\ FileType' /\ BoundType' /\ ClaimAllowed(r)
  BY <1>1, <1>2, <1>3 DEF StoreType, OpType, FileType, BoundType, ClaimAllowed
<1>5. WorkerType' /\ (\A s \in Roots \ {r} : Kept(s))
  BY <1>1, <1>2, <1>3, EndCycleEffect DEF Kept
<1>6. RootInv(r)' /\ PinAllowed(r)
  BY <1>1, <1>2, EndCycleEffect, IdleWithOp
<1> QED  BY <1>2, <1>4, <1>5, <1>6, OneRoot, TypeParts

LEMMA PlanKeepsInv ==
  ASSUME LinkInv, NEW r \in Roots, NEW path \in Paths, NEW kind \in {"ensure", "delete"},
         Plan(r, path, kind)
  PROVE  LinkInv'
<1> DEFINE o == Planned(path, kind, seen[r].view[path], FALSE, seen[r].bound)
<1>1. /\ WorkerType /\ StoreType /\ OpType /\ FileType /\ BoundType /\ RootInv(r)
      /\ pc[r] = "plan" /\ Goto(r, "resolve")
      /\ op' = [op EXCEPT ![r] = o] /\ ops' = [ops EXCEPT ![r] = @ + 1]
      /\ conflict' = [conflict EXCEPT ![r] = None]
  BY TypeParts DEF LinkInv, Plan, CreateOperation
<1>2. UNCHANGED <<mode, initialized, claim, link, at, tick, edits, crashes>>
  BY DEF Plan, fileVars
<1>3. /\ o \in Operations /\ o # None
      /\ o.authority = "none" /\ o.phase = "planned" /\ o.final = None
      /\ o.scanned = seen[r].bound
  <2>1. seen[r].view[path] \in Views /\ seen[r].bound \in Boundaries \union {None}
    BY <1>1 DEF WorkerType, Scans
  <2>2. o \in Operations
    BY <2>1 DEF Planned, Operations
  <2> QED  BY <2>2, NoneAssumption DEF Planned
<1> HIDE DEF o
<1>4. /\ WorkerType' /\ pc'[r] = "resolve" /\ seen' = seen
      /\ \A s \in Roots \ {r} : Kept(s)
  <2>1. "resolve" \in Labels
    BY DEF Labels
  <2> QED  BY <1>1, <1>2, <2>1, GotoEffect DEF Kept
<1>5. StoreType' /\ OpType' /\ FileType' /\ BoundType' /\ ClaimAllowed(r)
  BY <1>1, <1>2, <1>3 DEF StoreType, OpType, FileType, BoundType, ClaimAllowed
<1>6. op'[r] = o
  BY <1>1 DEF OpType
<1>7. RootInv(r)' /\ PinAllowed(r)
  BY <1>1, <1>2, <1>3, <1>4, <1>6 DEF RootInv, OwnerOK, SeenOK, ScannedOK, ResolveOK, FoundOK,
     PinOK, StartedOK, Working, Behind, PinAllowed
<1> QED  BY <1>2, <1>4, <1>5, <1>7, OneRoot, TypeParts

(***************************************************************************)
(* The cycle: pinning the target                                           *)
(***************************************************************************)

\* What a resolution finds is the root's own entry or lies behind its link.
LEMMA TargetFound ==
  ASSUME FileType, NEW r \in Roots, mode[r] \in {"follow", "copy"},
         NEW path \in Paths, NEW expects, Resolvable(r, path, expects)
  PROVE  LET t == Target(r, path, expects)
         IN /\ t \in Resolutions /\ t.authority \in {"lexical", "follow", "copy"}
            /\ t.authority = "lexical" => t.place = Entry[r]
            /\ t.authority # "lexical" =>
                 mode[r] = t.authority /\ t.bound # None /\ Behind(t.place, t.bound)
            /\ t.final # None =>
                 /\ mode[r] = "copy" /\ t.authority = "lexical"
                 /\ t.bound # None /\ t.bound.place = t.final
<1> DEFINE t == Target(r, path, expects)
           place == CASE path = "below" -> Child[link[r]]
                      [] path = "entry" /\ mode[r] = "follow" /\ link[r] # None -> link[r]
                      [] path = "entry" /\ ~(mode[r] = "follow" /\ link[r] # None) -> Entry[r]
           final == IF mode[r] = "copy" /\ path = "entry" THEN link[r] ELSE None
           authority == IF link[r] = None \/ final # None THEN "lexical" ELSE mode[r]
           anchor == IF expects = "absent" \/ final # None THEN ParentId(place) ELSE at[place]
<1>1. t = [authority |-> authority, place |-> place, anchor |-> anchor, final |-> final,
           bound |-> Bound(r)]
  BY DEF Target
<1>2. /\ link[r] \in Places \union {None} /\ None \notin Places
      /\ Bound(r) \in Boundaries \union {None}
      /\ link[r] # None => Bound(r) # None /\ Bound(r).place = link[r]
      /\ path = "entry" \/ path = "below"
  BY BoundType1, LinkAuthorityAssumption DEF FileType, Paths
<1>3. path = "below" => link[r] \in Dirs /\ link[r] # None
  BY <1>2 DEF Resolvable, LinkToDir, Places
<1>4. place \in Places
  <2>1. CASE path = "below"
    BY <1>3, <2>1, ConstantTypes, LinkAuthorityAssumption DEF Places
  <2>2. CASE path = "entry"
    BY <1>2, <2>2, LinkAuthorityAssumption DEF Places
  <2> QED  BY <1>2, <2>1, <2>2
<1>5. /\ authority = "lexical" => place = Entry[r]
      /\ authority # "lexical" => authority = mode[r] /\ Behind(place, Bound(r))
      /\ authority \in {"lexical", "follow", "copy"}
      /\ final \in Places \union {None}
      /\ final # None => mode[r] = "copy" /\ authority = "lexical" /\ final = link[r]
  <2>1. CASE path = "below"
    BY <1>2, <1>3, <2>1 DEF Behind
  <2>2. CASE path = "entry"
    BY <1>2, <2>2 DEF Behind
  <2> QED  BY <1>2, <2>1, <2>2
<1>6. authority # "lexical" \/ final # None => link[r] # None
  OBVIOUS
<1> HIDE DEF place, final, authority
<1>7. anchor \in Nat
  <2>1. Parent[place] \in Dirs \union {None} /\ at[place] \in Nat
    BY <1>4, LinkAuthorityAssumption DEF FileType
  <2>2. ParentId(place) \in Nat
    BY <2>1 DEF ParentId, FileType, Places
  <2> QED  BY <2>1, <2>2
<1> HIDE DEF anchor, t
<1>8. t \in Resolutions
  BY <1>1, <1>2, <1>4, <1>5, <1>7 DEF Resolutions
<1> QED  BY <1>1, <1>2, <1>5, <1>6, <1>8 DEF t

LEMMA ResolveKeepsInv ==
  ASSUME LinkInv, NEW r \in Roots, Resolve(r)
  PROVE  LinkInv'
<1> DEFINE target == Target(r, op[r].path, op[r].expects)
<1>1. /\ WorkerType /\ StoreType /\ OpType /\ FileType /\ BoundType /\ RootInv(r)
      /\ pc[r] = "resolve"
      /\ UNCHANGED <<mode, initialized, claim, conflict, link, at, tick, ops, edits, crashes>>
  BY TypeParts DEF LinkInv, Resolve, fileVars, boundVars
<1>2. /\ op[r] # None /\ op[r] \in Operations /\ mode[r] \in {"follow", "copy"}
      /\ op[r].path \in Paths
  BY <1>1 DEF RootInv, OwnerOK, Working, OpType, StoreType, Operations
<1>3. StoreType' /\ FileType' /\ BoundType' /\ ClaimAllowed(r)
  BY <1>1 DEF StoreType, FileType, BoundType, ClaimAllowed
<1>4. CASE DeleteOp(r)
  <2>1. OpType' /\ WorkerType' /\ (\A s \in Roots \ {r} : Kept(s))
    BY <1>1, <1>4, DeleteOpEffect DEF Kept
  <2>2. RootInv(r)' /\ PinAllowed(r)
    BY <1>1, <1>4, DeleteOpEffect, IdleWithoutOp
  <2> QED  BY <1>1, <1>3, <2>1, <2>2, OneRoot, TypeParts
<1>5. CASE ~DeleteOp(r)
  <2>1. /\ Resolvable(r, op[r].path, op[r].expects)
        /\ mode[r] = "copy" => target.bound = seen[r].bound
        /\ found' = [found EXCEPT ![r] = target]
        /\ pc' = [pc EXCEPT ![r] = "authorize"]
        /\ seen' = [seen EXCEPT ![r] = NoScan] /\ UNCHANGED op
    BY <1>1, <1>5 DEF Resolve, Continuity
  <2>2. /\ target \in Resolutions /\ target.authority \in {"lexical", "follow", "copy"}
        /\ target.authority = "lexical" => target.place = Entry[r]
        /\ target.authority # "lexical" =>
             mode[r] = target.authority /\ target.bound # None
             /\ Behind(target.place, target.bound)
        /\ target.final # None =>
             /\ mode[r] = "copy" /\ target.authority = "lexical"
             /\ target.bound # None /\ target.bound.place = target.final
    BY <1>1, <1>2, <2>1, TargetFound
  <2> HIDE DEF target
  <2>3. /\ WorkerType' /\ OpType' /\ (\A s \in Roots \ {r} : Kept(s))
        /\ pc'[r] = "authorize" /\ seen'[r] = NoScan /\ found'[r] = target
    BY <1>1, <2>1, <2>2, ConstantTypes DEF WorkerType, OpType, Labels, Kept
  <2>4. mode[r] = "copy" => target.bound = op[r].scanned
    BY <1>1, <2>1 DEF RootInv, ResolveOK
  <2>5. FoundOK(r)'
    <3>1. pc'[r] = "authorize" /\ found'[r] = target /\ op'[r] = op[r] /\ mode'[r] = mode[r]
      BY <1>1, <2>1, <2>3
    <3> QED  BY <2>2, <2>4, <3>1 DEF FoundOK, Behind
  <2>6. RootInv(r)'
    BY <1>1, <1>2, <2>1, <2>3, <2>5 DEF RootInv, OwnerOK, SeenOK, ScannedOK, ResolveOK,
       PinOK, StartedOK, Working, NoScan, Behind
  <2>7. PinAllowed(r)
    BY <2>1 DEF PinAllowed
  <2> QED  BY <1>1, <1>3, <2>3, <2>6, <2>7, OneRoot, TypeParts
<1> QED  BY <1>4, <1>5

LEMMA AuthorizeKeepsInv ==
  ASSUME LinkInv, NEW r \in Roots, Authorize(r)
  PROVE  LinkInv'
<1> DEFINE t == found[r]
           o == [op[r] EXCEPT !.authority = t.authority, !.place = t.place,
                              !.anchor = t.anchor, !.final = t.final]
<1>1. /\ WorkerType /\ StoreType /\ OpType /\ FileType /\ BoundType /\ RootInv(r)
      /\ pc[r] = "authorize"
      /\ UNCHANGED <<mode, initialized, conflict, link, at, tick, ops, edits, crashes>>
  BY TypeParts DEF LinkInv, Authorize, fileVars, boundVars
<1>2. op[r] # None /\ op[r] \in Operations /\ t \in Resolutions
  BY <1>1 DEF RootInv, OwnerOK, Working, OpType, WorkerType
<1>3. FileType' /\ BoundType'
  BY <1>1 DEF FileType, BoundType
<1>4. CASE DeleteOp(r) /\ UNCHANGED claim
  <2>1. OpType' /\ WorkerType' /\ StoreType' /\ (\A s \in Roots \ {r} : Kept(s)) /\ ClaimAllowed(r)
    BY <1>1, <1>4, DeleteOpEffect DEF Kept, StoreType, ClaimAllowed
  <2>2. RootInv(r)' /\ PinAllowed(r)
    BY <1>1, <1>4, DeleteOpEffect, IdleWithoutOp
  <2> QED  BY <1>1, <1>3, <2>1, <2>2, OneRoot, TypeParts
<1>5. CASE ~(DeleteOp(r) /\ UNCHANGED claim)
  <2> DEFINE claims == t.authority = "follow" /\ t.bound.id # 0
  <2>1. /\ Authorized(r, t)
        /\ op' = [op EXCEPT ![r].authority = t.authority, ![r].place = t.place,
                            ![r].anchor = t.anchor, ![r].final = t.final]
        /\ claim' = IF claims THEN [claim EXCEPT ![r] = t.bound] ELSE claim
        /\ pc' = [pc EXCEPT ![r] = "check"]
        /\ found' = [found EXCEPT ![r] = NoTarget] /\ UNCHANGED seen
    BY <1>1, <1>5 DEF Authorize
  <2>2. op' = [op EXCEPT ![r] = o]
    BY <1>2, <2>1 DEF OpType
  <2>3. /\ o \in Operations /\ o # None
        /\ o.authority = t.authority /\ o.place = t.place /\ o.final = t.final
        /\ o.scanned = op[r].scanned /\ o.phase = op[r].phase
    <3>1. o \in Operations /\ o.authority = t.authority /\ o.place = t.place
          /\ o.final = t.final /\ o.scanned = op[r].scanned /\ o.phase = op[r].phase
      BY <1>2 DEF Operations, Resolutions
    <3> QED  BY <3>1, NoneAssumption
  <2> HIDE DEF o
  <2>4. op'[r] = o
    BY <1>1, <2>2 DEF OpType
  <2>5. /\ WorkerType' /\ OpType' /\ pc'[r] = "check" /\ seen'[r] = seen[r]
        /\ \A s \in Roots \ {r} : Kept(s)
    <3>1. WorkerType' /\ OpType' /\ pc'[r] = "check" /\ seen'[r] = seen[r]
      <4>1. NoTarget \in Resolutions /\ "check" \in Labels
        BY ConstantTypes DEF Labels
      <4>2. WorkerType' /\ pc'[r] = "check" /\ seen'[r] = seen[r]
        BY <1>1, <2>1, <4>1 DEF WorkerType
      <4>3. OpType'
        BY <1>1, <2>2, <2>3 DEF OpType
      <4> QED  BY <4>2, <4>3
    <3>2. ASSUME NEW s \in Roots \ {r} PROVE Kept(s)
      <4>1. claim'[s] = claim[s] /\ op'[s] = op[s]
        BY <1>1, <2>1, <2>2 DEF StoreType, OpType
      <4>2. pc'[s] = pc[s] /\ seen'[s] = seen[s] /\ found'[s] = found[s]
        BY <1>1, <2>1 DEF WorkerType
      <4> QED  BY <1>1, <4>1, <4>2 DEF Kept
    <3> QED  BY <3>1, <3>2
  <2>6. t.bound \in Boundaries \union {None}
    BY <1>2 DEF Resolutions
  <2>7. StoreType'
    BY <1>1, <2>1, <2>6 DEF StoreType
  <2>8. claim'[r] = claim[r] \/ (claims /\ claim'[r] = t.bound)
    BY <1>1, <2>1 DEF StoreType
  <2>9. ClaimAllowed(r)
    BY <2>1, <2>8 DEF ClaimAllowed, Authorized
  <2>10. FoundOK(r)
    BY <1>1 DEF RootInv
  <2>11. claim[r] # None => claim'[r] # None /\ claim'[r].place = claim[r].place
    BY <1>1, <2>1, <2>8, <2>10 DEF FoundOK, Authorized, Continues
  <2>12. t.authority = "follow" =>
           claim'[r] # None /\ claim'[r].place = t.bound.place /\ Behind(t.place, t.bound)
    BY <1>1, <2>1, <2>8, <2>10, <2>11 DEF FoundOK, Authorized, Continues
  <2>13. PinOK(r)'
    <3>1. /\ op'[r] = o /\ mode'[r] = mode[r] /\ pc[r] = "authorize"
          /\ t.authority \in {"lexical", "follow", "copy"}
      BY <1>1, <2>4, <2>10 DEF FoundOK
    <3> QED  BY <2>3, <2>10, <2>12, <3>1 DEF PinOK, FoundOK, Behind
  <2>14. RootInv(r)'
    <3>1. o.authority # "none"
      BY <1>1, <2>3, <2>10 DEF FoundOK
    <3> QED  BY <1>1, <2>3, <2>4, <2>5, <2>11, <2>13, <3>1 DEF RootInv, OwnerOK, SeenOK, ScannedOK,
             ResolveOK, FoundOK, StartedOK, Working
  <2>15. PinAllowed(r)
    BY <2>1, <2>3, <2>4 DEF PinAllowed, Authorized
  <2> QED  BY <1>1, <1>3, <2>5, <2>7, <2>9, <2>14, <2>15, OneRoot, TypeParts
<1> QED  BY <1>4, <1>5

(***************************************************************************)
(* The cycle: the mutation and its recovery                                *)
(***************************************************************************)

\* A pinned operation may change its phase.
LEMMA PhaseKeepsRoot ==
  ASSUME OpType, NEW r \in Roots, RootInv(r), op[r] # None, op[r].authority # "none",
         NEW phase \in {"planned", "running", "recovering", "blocked"}, SetPhase(r, phase),
         UNCHANGED mode, claim'[r] = claim[r], conflict'[r] = conflict[r],
         pc'[r] \in {"idle", "mutate"}, seen'[r] \in {seen[r], NoScan}
  PROVE  RootInv(r)' /\ PinAllowed(r)
<1> DEFINE o == [op[r] EXCEPT !.phase = phase]
<1>1. op'[r] = o /\ op'[r] # None
  BY SetPhaseEffect
<1>2. /\ o.authority = op[r].authority /\ o.place = op[r].place /\ o.final = op[r].final
      /\ o.scanned = op[r].scanned
  BY SetPhaseEffect DEF Operations
<1> HIDE DEF o
<1>3. mode[r] # "none"
  BY DEF RootInv, OwnerOK
<1>4. PinOK(r)'
  BY <1>1, <1>2 DEF RootInv, PinOK, Behind
<1>5. RootInv(r)'
  BY <1>1, <1>2, <1>3, <1>4
     DEF RootInv, OwnerOK, SeenOK, ScannedOK, ResolveOK, FoundOK, StartedOK, Working, NoScan
<1>6. PinAllowed(r)
  BY <1>1, <1>2 DEF PinAllowed
<1> QED  BY <1>5, <1>6

LEMMA CheckKeepsInv ==
  ASSUME LinkInv, NEW r \in Roots, Check(r)
  PROVE  LinkInv'
<1>1. /\ WorkerType /\ StoreType /\ OpType /\ FileType /\ BoundType /\ RootInv(r)
      /\ pc[r] = "check"
      /\ UNCHANGED <<mode, initialized, claim, conflict, link, at, tick, ops, edits, crashes>>
      /\ (SetPhase(r, "running") /\ Goto(r, "mutate")) \/ DeleteOp(r)
  BY TypeParts DEF LinkInv, Check, fileVars, boundVars
<1>2. op[r] # None /\ op[r].authority # "none"
  BY <1>1 DEF RootInv, OwnerOK, StartedOK, Working
<1>3. StoreType' /\ FileType' /\ BoundType' /\ ClaimAllowed(r)
  BY <1>1 DEF StoreType, FileType, BoundType, ClaimAllowed
<1>4. CASE DeleteOp(r)
  <2>1. OpType' /\ WorkerType' /\ (\A s \in Roots \ {r} : Kept(s))
    BY <1>1, <1>4, DeleteOpEffect DEF Kept
  <2>2. RootInv(r)' /\ PinAllowed(r)
    BY <1>1, <1>4, DeleteOpEffect, IdleWithoutOp
  <2> QED  BY <1>1, <1>3, <2>1, <2>2, OneRoot, TypeParts
<1>5. CASE SetPhase(r, "running") /\ Goto(r, "mutate")
  <2>1. "mutate" \in Labels
    BY DEF Labels
  <2>2. OpType' /\ WorkerType' /\ (\A s \in Roots \ {r} : Kept(s))
    BY <1>1, <1>2, <1>5, <2>1, SetPhaseEffect, GotoEffect DEF Kept
  <2>3. RootInv(r)' /\ PinAllowed(r)
    BY <1>1, <1>2, <1>5, <2>1, GotoEffect, PhaseKeepsRoot
  <2> QED  BY <1>1, <1>3, <2>2, <2>3, OneRoot, TypeParts
<1> QED  BY <1>1, <1>4, <1>5

LEMMA MutateKeepsInv ==
  ASSUME LinkInv, NEW r \in Roots, Mutate(r)
  PROVE  LinkInv'
<1>1. /\ WorkerType /\ StoreType /\ OpType /\ FileType /\ BoundType /\ RootInv(r)
      /\ pc[r] = "mutate" /\ EndCycle(r)
      /\ UNCHANGED <<mode, initialized, claim, conflict, ops, edits, crashes>>
      /\ op' = [op EXCEPT ![r] = None] \/ SetPhase(r, "recovering")
  BY TypeParts DEF LinkInv, Mutate, boundVars
<1>2. op[r] # None /\ op[r].authority # "none"
  BY <1>1 DEF RootInv, OwnerOK, StartedOK, Working
<1>3. StoreType' /\ BoundType' /\ ClaimAllowed(r)
  BY <1>1 DEF StoreType, BoundType, ClaimAllowed
<1>4. FileType'
  <2>1. CASE UNCHANGED fileVars
    BY <1>1, <2>1 DEF fileVars, FileType
  <2>2. CASE ~UNCHANGED fileVars
    <3>1. /\ link' = IF op[r].final # None THEN [link EXCEPT ![r] = None] ELSE link
          /\ tick' = IF op[r].kind = "ensure" THEN tick + 1 ELSE tick
          /\ at' = [at EXCEPT ![op[r].place] = IF op[r].kind = "ensure" THEN tick' ELSE 0]
      BY <2>2 DEF Mutate
    <3>2. tick' \in Nat
      BY <1>1, <3>1 DEF FileType
    <3>3. link' \in [Roots -> Places \union {None}]
      BY <1>1, <3>1 DEF FileType
    <3>4. at' \in [Places -> Nat]
      BY <1>1, <3>1, <3>2 DEF FileType
    <3> QED  BY <3>2, <3>3, <3>4 DEF FileType
  <2> QED  BY <2>1, <2>2
<1>5. WorkerType' /\ pc'[r] = "idle" /\ seen'[r] = NoScan
  BY <1>1, EndCycleEffect
<1>6. CASE op' = [op EXCEPT ![r] = None]
  <2>1. OpType' /\ op'[r] = None /\ (\A s \in Roots \ {r} : Kept(s))
    BY <1>1, <1>6, EndCycleEffect DEF Kept, OpType
  <2>2. RootInv(r)' /\ PinAllowed(r)
    BY <1>1, <1>5, <2>1, IdleWithoutOp
  <2> QED  BY <1>1, <1>3, <1>4, <1>5, <2>1, <2>2, OneRoot, TypeParts
<1>7. CASE SetPhase(r, "recovering")
  <2>1. OpType' /\ (\A s \in Roots \ {r} : Kept(s))
    BY <1>1, <1>2, <1>7, SetPhaseEffect, EndCycleEffect DEF Kept
  <2>2. RootInv(r)' /\ PinAllowed(r)
    BY <1>1, <1>2, <1>5, <1>7, PhaseKeepsRoot
  <2> QED  BY <1>1, <1>3, <1>4, <1>5, <2>1, <2>2, OneRoot, TypeParts
<1> QED  BY <1>1, <1>6, <1>7

LEMMA RecoverKeepsInv ==
  ASSUME LinkInv, NEW r \in Roots, RecoverPlanned(r) \/ RecoverStarted(r) \/ RecoverBlocked(r)
  PROVE  LinkInv'
<1>1. /\ WorkerType /\ StoreType /\ OpType /\ FileType /\ BoundType /\ RootInv(r)
      /\ pc[r] = "recover"
      /\ UNCHANGED <<mode, initialized, claim, conflict, link, at, tick, ops, edits, crashes>>
  BY TypeParts DEF LinkInv, RecoverPlanned, RecoverStarted, RecoverBlocked,
                   storeVars, fileVars, boundVars
<1>2. op[r] # None
  BY <1>1 DEF RootInv, OwnerOK, Working
<1>3. StoreType' /\ FileType' /\ BoundType' /\ ClaimAllowed(r)
  BY <1>1 DEF StoreType, FileType, BoundType, ClaimAllowed
<1>4. CASE DeleteOp(r)
  <2>1. OpType' /\ WorkerType' /\ (\A s \in Roots \ {r} : Kept(s))
    BY <1>1, <1>4, DeleteOpEffect DEF Kept
  <2>2. RootInv(r)' /\ PinAllowed(r)
    BY <1>1, <1>4, DeleteOpEffect, IdleWithoutOp
  <2> QED  BY <1>1, <1>3, <2>1, <2>2, OneRoot, TypeParts
<1>5. CASE RecoverPlanned(r) /\ ~DeleteOp(r)
  <2>1. /\ UNCHANGED op
        /\ \/ op[r].authority # "none" /\ Goto(r, "check")
           \/ mode[r] # "copy" /\ Goto(r, "resolve")
    BY <1>5 DEF RecoverPlanned
  <2>2. {"check", "resolve"} \subseteq Labels
    BY DEF Labels
  <2>3. /\ WorkerType' /\ OpType' /\ (\A s \in Roots \ {r} : Kept(s))
        /\ \/ op[r].authority # "none" /\ pc'[r] = "check"
           \/ mode[r] # "copy" /\ pc'[r] = "resolve"
        /\ op'[r] = op[r] /\ seen'[r] = seen[r]
    BY <1>1, <2>1, <2>2, GotoEffect DEF Kept, OpType
  <2>4. RootInv(r)'
    BY <1>1, <1>2, <2>3 DEF RootInv, OwnerOK, SeenOK, ScannedOK, ResolveOK, FoundOK, PinOK,
       StartedOK, Working, Behind
  <2>5. PinAllowed(r)
    BY <2>1 DEF PinAllowed
  <2> QED  BY <1>1, <1>3, <2>3, <2>4, <2>5, OneRoot, TypeParts
<1>6. CASE RecoverStarted(r) /\ ~DeleteOp(r)
  <2>1. /\ op[r].phase \in {"running", "recovering"}
        /\ \/ SetPhase(r, "running") /\ Goto(r, "mutate")
           \/ SetPhase(r, "blocked") /\ EndCycle(r)
    BY <1>6 DEF RecoverStarted
  <2>2. op[r].authority # "none"
    BY <1>1, <1>2, <2>1 DEF RootInv, StartedOK
  <2>3. "mutate" \in Labels
    BY DEF Labels
  <2>4. CASE SetPhase(r, "running") /\ Goto(r, "mutate")
    <3>1. OpType' /\ WorkerType' /\ (\A s \in Roots \ {r} : Kept(s))
      BY <1>1, <1>2, <2>3, <2>4, SetPhaseEffect, GotoEffect DEF Kept
    <3>2. RootInv(r)' /\ PinAllowed(r)
      BY <1>1, <1>2, <2>2, <2>3, <2>4, GotoEffect, PhaseKeepsRoot
    <3> QED  BY <1>1, <1>3, <3>1, <3>2, OneRoot, TypeParts
  <2>5. CASE SetPhase(r, "blocked") /\ EndCycle(r)
    <3>1. OpType' /\ WorkerType' /\ (\A s \in Roots \ {r} : Kept(s))
      BY <1>1, <1>2, <2>5, SetPhaseEffect, EndCycleEffect DEF Kept
    <3>2. RootInv(r)' /\ PinAllowed(r)
      BY <1>1, <1>2, <2>2, <2>5, EndCycleEffect, PhaseKeepsRoot
    <3> QED  BY <1>1, <1>3, <3>1, <3>2, OneRoot, TypeParts
  <2> QED  BY <2>1, <2>4, <2>5
<1>7. CASE RecoverBlocked(r)
  <2>1. EndCycle(r) /\ UNCHANGED op
    BY <1>7 DEF RecoverBlocked, storeVars
  <2>2. OpType' /\ WorkerType' /\ (\A s \in Roots \ {r} : Kept(s))
    BY <1>1, <2>1, EndCycleEffect DEF Kept, OpType
  <2>3. RootInv(r)' /\ PinAllowed(r)
    BY <1>1, <2>1, EndCycleEffect, IdleWithOp
  <2> QED  BY <1>1, <1>3, <2>2, <2>3, OneRoot, TypeParts
<1> QED  BY <1>4, <1>5, <1>6, <1>7

(***************************************************************************)
(* Crashes, commands and the user                                          *)
(***************************************************************************)

LEMMA CrashKeepsInv == LinkInv /\ Crash => LinkInv'
<1> SUFFICES ASSUME LinkInv, Crash PROVE LinkInv'
  OBVIOUS
<1>1. /\ WorkerType /\ StoreType /\ OpType /\ FileType /\ BoundType
      /\ UNCHANGED <<mode, initialized, claim, conflict, op, link, at, tick, ops, edits>>
      /\ crashes' = crashes + 1
      /\ pc' = [r \in Roots |-> "idle"] /\ seen' = [r \in Roots |-> NoScan]
      /\ found' = [r \in Roots |-> NoTarget]
  BY TypeParts DEF LinkInv, Crash, storeVars, fileVars
<1>2. TypeOK'
  <2>1. WorkerType'
    BY <1>1, ConstantTypes DEF WorkerType, Labels
  <2>2. StoreType' /\ OpType' /\ FileType' /\ BoundType'
    BY <1>1 DEF StoreType, OpType, FileType, BoundType
  <2> QED  BY <2>1, <2>2, TypeParts
<1>3. ASSUME NEW r \in Roots PROVE RootInv(r)'
  <2>1. /\ RootInv(r) /\ pc'[r] = "idle" /\ seen'[r] = NoScan /\ op'[r] = op[r]
        /\ conflict'[r] = conflict[r] /\ claim'[r] = claim[r]
    BY <1>1 DEF LinkInv
  <2> QED  BY <1>1, <2>1, IdleWithOp
<1>4. HomesApart' /\ CopiesApart' /\ ClaimsDisjoint'
  BY <1>1 DEF LinkInv, HomesApart, CopiesApart, ClaimsDisjoint, Registered, Foreign, Peers
<1> QED  BY <1>2, <1>3, <1>4 DEF LinkInv

LEMMA AddRootKeepsInv ==
  ASSUME LinkInv, NEW r \in Roots, NEW policy \in Policies[r], AddRoot(r, policy)
  PROVE  LinkInv'
<1>1. /\ WorkerType /\ StoreType /\ OpType /\ FileType /\ BoundType
      /\ r \notin Registered /\ Reserved(r)
      /\ mode' = [mode EXCEPT ![r] = policy]
      /\ UNCHANGED <<initialized, claim, conflict, op, link, at, tick, pc, seen, found,
                     ops, edits, crashes>>
      /\ policy \in {"follow", "copy"}
  BY TypeParts, LinkAuthorityAssumption DEF LinkInv, AddRoot, fileVars, workerVars, boundVars
<1>2. TypeOK'
  <2>1. StoreType'
    BY <1>1 DEF StoreType
  <2>2. WorkerType' /\ OpType' /\ FileType' /\ BoundType'
    BY <1>1 DEF WorkerType, OpType, FileType, BoundType
  <2> QED  BY <2>1, <2>2, TypeParts
<1>3. /\ mode'[r] = policy /\ mode[r] = "none"
      /\ \A s \in Roots \ {r} : mode'[s] = mode[s]
      /\ Registered' = Registered \union {r}
  BY <1>1 DEF StoreType, Registered
<1>4. pc[r] = "idle" /\ op[r] = None /\ conflict[r] = None
  BY <1>3 DEF LinkInv, RootInv, OwnerOK
<1>5. ASSUME NEW s \in Roots PROVE RootInv(s)'
  <2>1. RootInv(s) /\ Kept(s)
    BY <1>1 DEF LinkInv, Kept
  <2>2. CASE s = r
    BY <1>1, <1>4, <2>1, <2>2
       DEF RootInv, OwnerOK, SeenOK, ScannedOK, ResolveOK, FoundOK, PinOK, StartedOK, Working
  <2>3. CASE s # r
    BY <1>3, <2>1, <2>3, KeptRoot
  <2> QED  BY <2>2, <2>3
<1>6. /\ \A other \in Registered : ~Overlap(Home[other], Home[r]) /\ ~Overlap(Home[r], Home[other])
      /\ \A s \in Roots : claim[s] # None => ~Overlap(Home[r], claim[s].place)
      /\ \A s \in Roots : op[s] # None /\ op[s].authority = "copy" =>
                            ~Overlap(Home[r], op[s].place)
  BY <1>1, OverlapSymmetric DEF Reserved
<1>7. HomesApart'
  BY <1>3, <1>6 DEF LinkInv, HomesApart
<1>8. CopiesApart'
  <2> SUFFICES ASSUME NEW s \in Roots, op[s] # None, op[s].authority = "copy",
                      NEW peer \in Registered' \ {s}
               PROVE  ~Overlap(Home[peer], op[s].place)
    BY <1>1 DEF CopiesApart, Foreign, Peers
  <2>1. CASE peer = r
    BY <1>6, <2>1
  <2>2. CASE peer # r
    BY <1>3, <2>2 DEF LinkInv, CopiesApart, Foreign, Peers
  <2> QED  BY <2>1, <2>2
<1>9. ClaimsDisjoint'
  <2> SUFFICES ASSUME NEW s \in Roots, claim[s] # None, NEW other \in Registered' \ {s}
               PROVE  ~Overlap(Home[other], claim[s].place)
    BY <1>1 DEF ClaimsDisjoint, LinkInv
  <2>1. CASE other = r
    BY <1>6, <2>1
  <2>2. CASE other # r
    BY <1>3, <2>2 DEF LinkInv, ClaimsDisjoint
  <2> QED  BY <2>1, <2>2
<1> QED  BY <1>2, <1>5, <1>7, <1>8, <1>9 DEF LinkInv

LEMMA RemoveRootKeepsInv ==
  ASSUME LinkInv, NEW r \in Roots, RemoveRoot(r)
  PROVE  LinkInv'
<1>1. /\ WorkerType /\ StoreType /\ OpType /\ FileType /\ BoundType
      /\ pc[r] = "idle" /\ op[r] = None
      /\ mode' = [mode EXCEPT ![r] = "none"]
      /\ initialized' = [initialized EXCEPT ![r] = FALSE]
      /\ claim' = [claim EXCEPT ![r] = None] /\ conflict' = [conflict EXCEPT ![r] = None]
      /\ UNCHANGED <<op, link, at, tick, pc, seen, found, ops, edits, crashes>>
  BY TypeParts DEF LinkInv, RemoveRoot, Stopped, fileVars, workerVars, boundVars
<1>2. TypeOK'
  <2>1. StoreType'
    BY <1>1 DEF StoreType
  <2>2. WorkerType' /\ OpType' /\ FileType' /\ BoundType'
    BY <1>1 DEF WorkerType, OpType, FileType, BoundType
  <2> QED  BY <2>1, <2>2, TypeParts
<1>3. /\ mode'[r] = "none" /\ claim'[r] = None /\ conflict'[r] = None
      /\ \A s \in Roots \ {r} : mode'[s] = mode[s] /\ Kept(s)
      /\ Registered' = Registered \ {r}
  BY <1>1 DEF StoreType, Registered, Kept
<1>4. ASSUME NEW s \in Roots PROVE RootInv(s)'
  <2>1. CASE s = r
    BY <1>1, <1>3, <2>1
       DEF LinkInv, RootInv, OwnerOK, SeenOK, ScannedOK, ResolveOK, FoundOK, PinOK, StartedOK, Working
  <2>2. CASE s # r
    BY <1>3, <2>2, KeptRoot DEF LinkInv
  <2> QED  BY <2>1, <2>2
<1>5. HomesApart'
  BY <1>3 DEF LinkInv, HomesApart
<1>6. CopiesApart'
  BY <1>1, <1>3 DEF LinkInv, CopiesApart, Foreign, Peers
<1>7. ClaimsDisjoint'
  <2> SUFFICES ASSUME NEW s \in Roots, claim'[s] # None
               PROVE  /\ \A other \in Registered' \ {s} : ~Overlap(Home[other], claim'[s].place)
                      /\ \A other \in Roots \ {s} : claim'[other] # None =>
                           /\ claim'[other].id # claim'[s].id
                           /\ ~Overlap(claim'[other].place, claim'[s].place)
    BY DEF ClaimsDisjoint
  <2>1. s # r /\ claim'[s] = claim[s]
    BY <1>3 DEF Kept
  <2>2. \A other \in Roots \ {s} : claim'[other] # None => claim'[other] = claim[other]
    BY <1>3 DEF Kept
  <2> QED  BY <1>3, <2>1, <2>2 DEF LinkInv, ClaimsDisjoint
<1> QED  BY <1>2, <1>4, <1>5, <1>6, <1>7 DEF LinkInv

LEMMA QueueResolveKeepsInv ==
  ASSUME LinkInv, NEW r \in Roots, NEW kind \in {"ensure", "delete"}, QueueResolve(r, kind)
  PROVE  LinkInv'
<1> DEFINE o == Planned(conflict[r].path, kind, conflict[r].view, TRUE, None)
<1>1. /\ WorkerType /\ StoreType /\ OpType /\ FileType /\ BoundType /\ RootInv(r)
      /\ pc[r] = "idle" /\ conflict[r] # None
      /\ op' = [op EXCEPT ![r] = o] /\ ops' = [ops EXCEPT ![r] = @ + 1]
      /\ UNCHANGED <<mode, initialized, claim, conflict, link, at, tick, pc, seen, found,
                     edits, crashes>>
  BY TypeParts DEF LinkInv, QueueResolve, CreateOperation, fileVars, workerVars
<1>2. /\ o \in Operations /\ o # None
      /\ o.authority = "none" /\ o.phase = "planned" /\ o.final = None /\ o.scanned = None
  <2>1. conflict[r] \in Conflicts
    BY <1>1 DEF StoreType
  <2>2. o \in Operations
    BY <2>1 DEF Planned, Operations, Conflicts
  <2> QED  BY <2>2, NoneAssumption DEF Planned
<1> HIDE DEF o
<1>3. /\ WorkerType' /\ StoreType' /\ OpType' /\ FileType' /\ BoundType' /\ ClaimAllowed(r)
      /\ op'[r] = o /\ (\A s \in Roots \ {r} : Kept(s))
  BY <1>1, <1>2 DEF WorkerType, StoreType, OpType, FileType, BoundType, ClaimAllowed, Kept
<1>4. RootInv(r)' /\ PinAllowed(r)
  BY <1>1, <1>2, <1>3 DEF RootInv, OwnerOK, SeenOK, ScannedOK, ResolveOK, FoundOK,
     PinOK, StartedOK, Working, PinAllowed
<1> QED  BY <1>1, <1>3, <1>4, OneRoot, TypeParts

LEMMA ResolveRetryKeepsInv ==
  ASSUME LinkInv, NEW r \in Roots, ResolveRetry(r)
  PROVE  LinkInv'
<1>1. /\ WorkerType /\ StoreType /\ OpType /\ FileType /\ BoundType /\ RootInv(r)
      /\ pc[r] = "idle" /\ op[r] # None /\ op[r].phase = "blocked" /\ SetPhase(r, "recovering")
      /\ UNCHANGED <<mode, initialized, claim, conflict, link, at, tick, pc, seen, found,
                     ops, edits, crashes>>
  BY TypeParts DEF LinkInv, ResolveRetry, Stopped, fileVars, workerVars, boundVars
<1>2. op[r].authority # "none"
  BY <1>1 DEF RootInv, StartedOK
<1>3. /\ WorkerType' /\ StoreType' /\ FileType' /\ BoundType' /\ ClaimAllowed(r)
  BY <1>1 DEF WorkerType, StoreType, FileType, BoundType, ClaimAllowed
<1>4. OpType' /\ (\A s \in Roots \ {r} : Kept(s))
  BY <1>1, SetPhaseEffect DEF Kept
<1>5. RootInv(r)' /\ PinAllowed(r)
  BY <1>1, <1>2, PhaseKeepsRoot
<1> QED  BY <1>1, <1>3, <1>4, <1>5, OneRoot, TypeParts

LEMMA EditKeepsInv == LinkInv /\ UserNext => LinkInv'
<1> SUFFICES ASSUME LinkInv, UserNext PROVE LinkInv'
  OBVIOUS
<1>1. /\ WorkerType /\ StoreType /\ OpType /\ FileType /\ BoundType
      /\ UNCHANGED <<mode, initialized, claim, conflict, op, pc, seen, found, ops, crashes>>
      /\ edits' = edits + 1
  BY TypeParts DEF LinkInv, UserNext, PutEntry, Relink, Replace, Remove, Edit,
                   storeVars, workerVars
<1>2. FileType'
  <2>1. ASSUME NEW r \in Roots, PutEntry(r) PROVE FileType'
    <3>1. /\ link' = [link EXCEPT ![r] = None] /\ tick' = tick + 1
          /\ at' = [at EXCEPT ![Entry[r]] = tick']
      BY <2>1 DEF PutEntry
    <3>2. tick' \in Nat
      BY <1>1, <3>1 DEF FileType
    <3>3. link' \in [Roots -> Places \union {None}]
      BY <1>1, <3>1 DEF FileType
    <3>4. at' \in [Places -> Nat]
      BY <1>1, <3>1, <3>2 DEF FileType
    <3> QED  BY <3>2, <3>3, <3>4 DEF FileType
  <2>2. ASSUME NEW r \in Roots, NEW p \in Targets[r] \union {None}, Relink(r, p) PROVE FileType'
    <3>1. p \in Places \union {None}
      BY LinkAuthorityAssumption
    <3> QED  BY <1>1, <2>2, <3>1 DEF Relink, FileType
  <2>3. ASSUME NEW p \in Places, Replace(p) PROVE FileType'
    BY <1>1, <2>3 DEF Replace, FileType
  <2>4. ASSUME NEW p \in Places, Remove(p) PROVE FileType'
    BY <1>1, <2>4 DEF Remove, FileType
  <2> QED  BY <2>1, <2>2, <2>3, <2>4 DEF UserNext
<1>3. TypeOK'
  BY <1>1, <1>2, TypeParts DEF WorkerType, StoreType, OpType, BoundType
<1>4. ASSUME NEW s \in Roots PROVE RootInv(s)'
  BY <1>1, KeptRoot DEF LinkInv, Kept
<1>5. HomesApart' /\ CopiesApart' /\ ClaimsDisjoint'
  BY <1>1 DEF LinkInv, HomesApart, CopiesApart, ClaimsDisjoint, Registered, Foreign, Peers
<1> QED  BY <1>3, <1>4, <1>5 DEF LinkInv

(***************************************************************************)
(* The inductive invariant holds                                           *)
(***************************************************************************)

LEMMA InitLink == Init => LinkInv
<1> SUFFICES ASSUME Init PROVE LinkInv
  OBVIOUS
<1>1. TypeOK
  <2>1. WorkerType
    BY ConstantTypes DEF Init, WorkerType, Labels
  <2>2. StoreType /\ OpType
    BY DEF Init, StoreType, OpType
  <2>3. FileType
    <3>1. link \in [Roots -> Places \union {None}]
      BY LinkAuthorityAssumption DEF Init
    <3>2. at \in [Places -> Nat]
      BY LinkAuthorityAssumption DEF Init
    <3>3. tick \in Nat
      BY LinkAuthorityAssumption DEF Init
    <3> QED  BY <3>1, <3>2, <3>3 DEF FileType
  <2>4. BoundType
    BY DEF Init, BoundType
  <2> QED  BY <2>1, <2>2, <2>3, <2>4, TypeParts
<1>2. \A r \in Roots : RootInv(r)
  BY DEF Init, RootInv, OwnerOK, SeenOK, ScannedOK, ResolveOK, FoundOK, PinOK, StartedOK,
         Working, NoScan
<1>3. HomesApart /\ CopiesApart /\ ClaimsDisjoint
  BY DEF Init, HomesApart, CopiesApart, ClaimsDisjoint, Registered
<1> QED  BY <1>1, <1>2, <1>3 DEF LinkInv

LEMMA LinkInvStep == LinkInv /\ [Next]_vars => LinkInv'
<1> SUFFICES ASSUME LinkInv, [Next]_vars PROVE LinkInv'
  OBVIOUS
<1>1. ASSUME NEW r \in Roots, WorkerStep(r) PROVE LinkInv'
  BY <1>1, ScanKeepsInv, ReserveKeepsInv, PlanEndKeepsInv, PlanKeepsInv, ResolveKeepsInv,
     AuthorizeKeepsInv, CheckKeepsInv, MutateKeepsInv, RecoverKeepsInv DEF WorkerStep
<1>2. CASE Crash
  BY <1>2, CrashKeepsInv
<1>3. CASE CliNext
  BY <1>3, AddRootKeepsInv, RemoveRootKeepsInv, QueueResolveKeepsInv, ResolveRetryKeepsInv
     DEF CliNext
<1>4. CASE UserNext
  BY <1>4, EditKeepsInv
<1>5. CASE UNCHANGED vars
  <2>1. /\ UNCHANGED <<mode, initialized, claim, conflict, op, link, at, tick>>
        /\ UNCHANGED <<pc, seen, found, ops, edits, crashes>>
    BY <1>5 DEF vars, storeVars, fileVars, workerVars, boundVars
  <2>2. TypeOK'
    BY <2>1, TypeParts DEF LinkInv, WorkerType, StoreType, OpType, FileType, BoundType
  <2>3. ASSUME NEW s \in Roots PROVE RootInv(s)'
    BY <2>1, KeptRoot DEF LinkInv, Kept
  <2>4. HomesApart' /\ CopiesApart' /\ ClaimsDisjoint'
    BY <2>1 DEF LinkInv, HomesApart, CopiesApart, ClaimsDisjoint, Registered, Foreign, Peers
  <2> QED  BY <2>2, <2>3, <2>4 DEF LinkInv
<1> QED  BY <1>1, <1>2, <1>3, <1>4, <1>5 DEF Next

LEMMA LinkInvHolds == Spec => []LinkInv
BY InitLink, LinkInvStep, PTL DEF Spec

(***************************************************************************)
(* Theorems                                                                *)
(***************************************************************************)

\* The store, the file system and the workers always have their types: what a
\* resolution finds and a pin records is a place with a boundary
\* (followed_boundaries.go, local_path.go).
THEOREM LinkTypeCorrect == Spec => []TypeOK
<1>1. LinkInv => TypeOK
  BY DEF LinkInv
<1> QED  BY <1>1, LinkInvHolds, PTL

\* Scans, pins and root adds of any number of roots, in any order, never let two
\* claims overlap or share an object, nor a root lie in another one's claim
\* (followed_boundaries.go:455, roots.go:138).
THEOREM ClaimsStayDisjoint == Spec => []ClaimsDisjoint
<1>1. LinkInv => ClaimsDisjoint
  BY DEF LinkInv
<1> QED  BY <1>1, LinkInvHolds, PTL

\* What an operation is pinned to lies in no other root's home and, through a
\* followed link, in nobody else's claim.
LEMMA PinsOwned ==
  ASSUME LinkInv, NEW r \in Roots, op[r] # None, op[r].authority # "none"
  PROVE  /\ ~Foreign(r, op[r].place)
         /\ op[r].authority = "follow" => \A other \in Roots \ {r} :
              claim[other] # None => ~Overlap(claim[other].place, op[r].place)
<1>1. /\ PinOK(r) /\ OwnerOK(r) /\ HomesApart /\ CopiesApart /\ ClaimsDisjoint
      /\ op[r].authority \in {"lexical", "follow", "copy"}
      /\ \A s \in Roots : Home[s] \in Places
      /\ \A s \in Roots : claim[s] # None => claim[s].place \in Places
      /\ r \in Registered /\ Peers(r) \subseteq Roots
  <2>1. PinOK(r) /\ OwnerOK(r) /\ HomesApart /\ CopiesApart /\ ClaimsDisjoint
        /\ OpType /\ StoreType
    BY TypeParts DEF LinkInv, RootInv
  <2>2. op[r].authority \in {"lexical", "follow", "copy"}
    BY <2>1 DEF OpType, Operations
  <2>3. \A s \in Roots : Home[s] \in Places
    BY LinkAuthorityAssumption DEF Places
  <2>4. \A s \in Roots : claim[s] # None => claim[s].place \in Places
    BY <2>1 DEF StoreType, Boundaries
  <2>5. r \in Registered /\ Peers(r) \subseteq Roots
    BY <2>1 DEF OwnerOK, Registered, Peers
  <2> QED  BY <2>1, <2>2, <2>3, <2>4, <2>5
<1>2. CASE op[r].authority = "lexical"
  <2>1. op[r].place = Entry[r]
    BY <1>1, <1>2 DEF PinOK
  <2>2. \A peer \in Peers(r) : ~Overlap(Home[peer], Home[r])
    BY <1>1 DEF HomesApart, Peers
  <2> QED  BY <1>1, <1>2, <2>1, <2>2, EntryOverlaps DEF Foreign
<1>3. CASE op[r].authority = "follow"
  <2>1. claim[r] # None /\ Behind(op[r].place, claim[r]) /\ claim[r].place \in Places
    BY <1>1, <1>3 DEF PinOK
  <2>2. /\ \A other \in Registered \ {r} : ~Overlap(Home[other], claim[r].place)
        /\ \A other \in Roots \ {r} : claim[other] # None =>
             ~Overlap(claim[other].place, claim[r].place)
    BY <1>1, <2>1 DEF ClaimsDisjoint
  <2> QED  BY <1>1, <2>1, <2>2, BehindOverlaps DEF Foreign, Peers
<1>4. CASE op[r].authority = "copy"
  BY <1>1, <1>4 DEF CopiesApart
<1> QED  BY <1>1, <1>2, <1>3, <1>4

\* A mutation is carried out under a pin.
LEMMA MutationPinned ==
  ASSUME LinkInv, NEW r \in Roots, Mutates(r)
  PROVE  op[r] # None /\ op[r].authority # "none" /\ RootInv(r)
BY DEF Mutates, LinkInv, RootInv, OwnerOK, StartedOK, Working

\* Whatever is linked, relinked or registered between the scan and the mutation,
\* the daemon changes nothing in another registered root, and nothing another
\* root has claimed through a followed link (followed_boundaries.go:205,
\* AuthorizeAndPinLocalMutation; roots.go:138).
THEOREM MutationsAreOwned == Spec => MutationOwned
<1> DEFINE Owns ==
      \A r \in Roots : Mutates(r) =>
        /\ ~Foreign(r, op[r].place)
        /\ op[r].authority = "follow" => \A other \in Roots \ {r} :
             claim[other] # None => ~Overlap(claim[other].place, op[r].place)
<1>1. LinkInv => [Owns]_vars
  BY MutationPinned, PinsOwned
<1> QED  BY <1>1, LinkInvHolds, PTL DEF MutationOwned, Owns

\* A plan made for one target is never carried out on another one that looks the
\* same (cycle.go:418, followed_boundaries.go:299).
THEOREM PlansMeetTheirTarget == Spec => MutatesWhatWasScanned
<1> DEFINE Meets ==
      \A r \in Roots : Mutates(r) /\ ~op[r].resolves =>
        LET o == op[r]
        IN /\ o.authority = "copy" => o.scanned # None /\ Behind(o.place, o.scanned)
           /\ o.final # None => o.scanned # None /\ o.scanned.place = o.final
           /\ o.authority = "follow" =>
                /\ claim[r] # None /\ Behind(o.place, claim[r])
                /\ o.scanned # None => o.scanned.place = claim[r].place
<1>1. LinkInv => [Meets]_vars
  BY MutationPinned DEF RootInv, PinOK, ScannedOK
<1> QED  BY <1>1, LinkInvHolds, PTL DEF MutatesWhatWasScanned, Meets

\* Claims change where they are reserved, refreshed by a pin, or released.
LEMMA ClaimChanges ==
  ASSUME LinkInv, [Next]_vars, NEW r \in Roots, claim'[r] # claim[r]
  PROVE  Reserve(r) \/ Authorize(r) \/ RemoveRoot(r)
<1>1. ASSUME NEW s \in Roots, WorkerStep(s) PROVE (Reserve(s) \/ Authorize(s)) /\ s = r
  <2>1. CASE Reserve(s)
    BY <2>1 DEF Reserve, LinkInv, TypeOK
  <2>2. CASE Authorize(s)
    BY <2>2 DEF Authorize, LinkInv, TypeOK
  <2>3. CASE ~Reserve(s) /\ ~Authorize(s)
    BY <1>1, <2>3 DEF WorkerStep, Scan, Rest, Initialize, RecordConflict, Plan, Resolve, Check,
       Mutate, RecoverPlanned, RecoverStarted, RecoverBlocked, storeVars
  <2> QED  BY <2>1, <2>2, <2>3
<1>2. CASE CliNext
  <2>1. PICK s \in Roots : RemoveRoot(s)
    BY <1>2 DEF CliNext, AddRoot, ResolveRetry, QueueResolve
  <2> QED  BY <2>1 DEF RemoveRoot, LinkInv, TypeOK
<1>3. CASE Crash \/ UserNext \/ UNCHANGED vars
  BY <1>3 DEF Crash, UserNext, PutEntry, Relink, Replace, Remove, Edit, storeVars, vars
<1> QED  BY <1>1, <1>2, <1>3 DEF Next

\* An initialized pairing learns no new boundary, and no pairing accepts another
\* directory for one it has claimed (followed_boundaries.go,
\* ReserveFollowedPhysicalClaims).
THEOREM BoundariesStayFixed == Spec => BoundariesFixed
<1> DEFINE Fixed ==
      \A r \in Registered : mode'[r] # "none" /\ claim'[r] # claim[r] =>
        IF claim[r] = None THEN ~initialized[r]
        ELSE /\ claim'[r] # None /\ claim'[r].place = claim[r].place
             /\ claim[r].place \in Dirs => claim'[r].id = claim[r].id
<1>1. LinkInv /\ [Next]_vars => Fixed
  <2> SUFFICES ASSUME LinkInv, [Next]_vars, NEW r \in Roots, mode'[r] # "none",
                      claim'[r] # claim[r]
               PROVE  IF claim[r] = None THEN ~initialized[r]
                      ELSE /\ claim'[r] # None /\ claim'[r].place = claim[r].place
                           /\ claim[r].place \in Dirs => claim'[r].id = claim[r].id
    BY DEF Registered
  <2>1. claim \in [Roots -> Boundaries \union {None}] /\ mode \in [Roots -> {"none", "follow", "copy"}]
    BY DEF LinkInv, TypeOK
  <2>2. CASE Reserve(r)
    <3>1. /\ seen[r].bound # None /\ Reservable(r, seen[r].bound)
          /\ claim'[r] = seen[r].bound
      BY <2>1, <2>2 DEF Reserve
    <3> QED  BY <3>1 DEF Reservable, Continues
  <2>3. CASE Authorize(r)
    <3>1. /\ pc[r] = "authorize" /\ found[r].authority = "follow" /\ found[r].bound.id # 0
          /\ Authorized(r, found[r]) /\ claim'[r] = found[r].bound
      BY <2>1, <2>3 DEF Authorize
    <3>2. found[r].bound # None
      BY <3>1 DEF LinkInv, RootInv, FoundOK
    <3> QED  BY <3>1, <3>2 DEF Authorized, Continues
  <2>4. CASE RemoveRoot(r)
    BY <2>1, <2>4 DEF RemoveRoot
  <2> QED  BY <2>2, <2>3, <2>4, ClaimChanges
<1> QED  BY <1>1, LinkInvHolds, PTL DEF Spec, BoundariesFixed, Fixed
=============================================================================
