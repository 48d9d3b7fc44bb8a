--------------------------- MODULE LinkAuthority ---------------------------
(***************************************************************************)
(* Who may change what a symbolic link leads to: durable claims on the     *)
(* targets of followed links, operation pins through copied links, and     *)
(* their arbitration with root add (internal/store/followed_boundaries.go, *)
(* roots.go), as internal/syncer and internal/executor use them.           *)
(*                                                                         *)
(* Every root has one entry of its own, which may be a file, or a link to  *)
(* a file or a directory; a directory has one child.  A place is a         *)
(* canonical pathname and keeps its kind; what is there is an object       *)
(* identity, 0 for none.  Two places hold the same identity when they are  *)
(* hard links.  Fingerprints are reduced to the kind of what is there: all *)
(* files look alike, so that only the authority tells targets apart, and   *)
(* what the remote side looks like is left open.  The mutation itself is   *)
(* one step; SyncCycle takes it apart.                                     *)
(***************************************************************************)
EXTENDS Integers, FiniteSets

CONSTANTS Roots,        \* candidate sync roots
          None,
          Files, Dirs,  \* places, by the kind of what they hold
          Parent,       \* the directory a place is in, None at the top
          Child,        \* the file in each directory
          Home,         \* the local root of each sync root
          Entry,        \* the place of its one entry
          Targets,      \* where the user may point the entry
          FirstIds,     \* the objects at the places in the beginning
          FirstLinks,   \* where the entries point in the beginning
          Policies,     \* the symlink modes each root may be added with
          MaxOps,       \* bound: operations ever journaled for each root
          MaxEdits,     \* bound: edits by the user, and crashes
          MaxCrashes,   \* bound: crashes of the daemon, each in place of an edit
          ConflictPaths \* bound: the paths of each root conflicts are recorded for

Places == Files \union Dirs
Paths == {"entry", "below"}    \* the entry, and the child below it

ASSUME LinkAuthorityAssumption ==
  /\ Parent \in [Places -> Dirs \union {None}]
  /\ Child \in [Dirs -> Files] /\ Home \in [Roots -> Dirs] /\ Entry \in [Roots -> Files]
  /\ Targets \in [Roots -> SUBSET Places]
  /\ FirstIds \in [Places -> Nat \ {0}]
  /\ \A p, q \in Places : FirstIds[p] = FirstIds[q] => p = q \/ {p, q} \subseteq Files
  /\ FirstLinks \subseteq [Roots -> Places \union {None}]
  /\ Policies \in [Roots -> SUBSET {"follow", "copy"}]
  /\ ConflictPaths \in [Roots -> SUBSET Paths] /\ None \notin Places \union Roots
  /\ MaxOps \in [Roots -> Nat] /\ {MaxEdits, MaxCrashes} \subseteq Nat

VARIABLES
  \* the state store
  mode,         \* sync_roots.symlink_mode, "none" without a row
  initialized,  \* sync_roots.initialized
  claim,        \* followed_physical_claims: the claim of the root's entry
  conflict,     \* the unresolved conflict of the root
  op,           \* the operation of the root in the journal
  \* the file system
  link,         \* where the entry points, None if it is no link
  at,           \* the object at each place
  tick,         \* last identity given out
  \* the daemon's workers
  pc,
  seen,         \* what the complete scan found
  found,        \* the target resolved for the operation
  \* what has been used of the bounds
  ops, edits, crashes

storeVars == <<mode, initialized, claim, conflict, op>>
fileVars == <<link, at, tick>>
workerVars == <<pc, seen, found>>
boundVars == <<ops, edits, crashes>>
vars == <<storeVars, fileVars, workerVars, boundVars>>

(***************************************************************************)
(* Values                                                                  *)
(***************************************************************************)

Above[p \in Places] ==
  IF Parent[p] = None THEN {} ELSE {Parent[p]} \union Above[Parent[p]]

\* The places form a forest with the files as leaves, and the homes and entries
\* of the roots are in it as the file system has them.
ASSUME TreeAssumption ==
  /\ Files \intersect Dirs = {}
  /\ \A p \in Places :
       Above[p] = IF Parent[p] = None THEN {} ELSE {Parent[p]} \union Above[Parent[p]]
  /\ \A p \in Places : Above[p] \subseteq Dirs
  /\ \A d \in Dirs : Parent[Child[d]] = d
  /\ \A r \in Roots : Parent[Entry[r]] = Home[r]

\* physicalOwnershipPathsOverlap: a directory owns everything below it.
Overlap(p, q) == p = q \/ p \in Above[q] \/ q \in Above[p]

Registered == {r \in Roots : mode[r] # "none"}
Peers(r) == Registered \ {r}

\* A followed or copied boundary: the link's target and the object there.
Boundaries == [place : Places, id : Nat]

Views == {"absent", "file", "dir"}

Conflicts == [path : Paths, view : Views]

\* place, anchor and final are the pin: local_target_path,
\* local_target_identity and local_symlink_target.  scanned is history: the
\* boundary seen by the scan the operation was planned from.
Operations ==
  [path : Paths, kind : {"ensure", "delete"}, expects : Views, resolves : BOOLEAN,
   phase : {"planned", "running", "recovering", "blocked"},
   authority : {"none", "lexical", "follow", "copy"},
   place : Places \union {None}, anchor : Nat, final : Places \union {None},
   scanned : Boundaries \union {None}]

\* What is missing is told apart from every boundary, conflict and operation.
ASSUME NoneAssumption == None \notin Boundaries \union Conflicts \union Operations

NoScan == [bound |-> None, view |-> [p \in Paths |-> "absent"], dangling |-> FALSE]
NoTarget == [authority |-> "none", place |-> None, anchor |-> 0, final |-> None, bound |-> None]

\* The type invariant of the store, the file system and the workers.
TypeOK ==
  /\ mode \in [Roots -> {"none", "follow", "copy"}]
  /\ initialized \in [Roots -> BOOLEAN]
  /\ claim \in [Roots -> Boundaries \union {None}]
  /\ conflict \in [Roots -> Conflicts \union {None}]
  /\ op \in [Roots -> Operations \union {None}]
  /\ link \in [Roots -> Places \union {None}]
  /\ at \in [Places -> Nat] /\ tick \in Nat
  /\ pc \in [Roots -> {"idle", "reserve", "plan", "recover", "resolve", "authorize",
                       "check", "mutate"}]
  /\ seen \in [Roots -> [bound : Boundaries \union {None}, view : [Paths -> Views],
                         dangling : BOOLEAN]]
  /\ found \in [Roots -> [authority : {"none", "lexical", "follow", "copy"},
                          place : Places \union {None}, anchor : Nat,
                          final : Places \union {None}, bound : Boundaries \union {None}]]
  /\ ops \in [Roots -> Nat] /\ {edits, crashes} \subseteq Nat

\* Everything is there but the entries, which may be links already.
Init ==
  /\ mode = [r \in Roots |-> "none"] /\ initialized = [r \in Roots |-> FALSE]
  /\ claim = [r \in Roots |-> None] /\ conflict = [r \in Roots |-> None]
  /\ op = [r \in Roots |-> None]
  /\ link \in FirstLinks
  /\ at = [p \in Places |-> IF \E r \in Roots : p = Entry[r] THEN 0 ELSE FirstIds[p]]
  /\ \E p \in Places : tick = FirstIds[p] /\ \A q \in Places : FirstIds[q] <= tick
  /\ pc = [r \in Roots |-> "idle"]
  /\ seen = [r \in Roots |-> NoScan] /\ found = [r \in Roots |-> NoTarget]
  /\ ops = [r \in Roots |-> 0] /\ edits = 0 /\ crashes = 0

(***************************************************************************)
(* The file system as a root sees it                                       *)
(***************************************************************************)

\* The directory a place is in.  The top, which has none, is always there and
\* always the same.
ParentIsThere(p) == Parent[p] # None => at[Parent[p]] # 0
ParentId(p) == IF Parent[p] = None THEN 0 ELSE at[Parent[p]]

KindAt(p) == IF at[p] = 0 THEN "absent" ELSE IF p \in Dirs THEN "dir" ELSE "file"

LinkToDir(r) == link[r] \in Dirs /\ at[link[r]] # 0

\* Mutant of View: links are not followed.
ViewLstat(r, path) ==
  CASE path = "entry" -> IF link[r] = None THEN KindAt(Entry[r]) ELSE "link"
    [] path = "below" -> IF LinkToDir(r) THEN KindAt(Child[link[r]]) ELSE "absent"

\* ObserveLocalEntry: links are followed, in both modes.
View(r, path) ==
  CASE path = "entry" -> IF link[r] = None THEN KindAt(Entry[r]) ELSE KindAt(link[r])
    [] path = "below" -> IF LinkToDir(r) THEN KindAt(Child[link[r]]) ELSE "absent"

Dangling(r) == link[r] # None /\ at[link[r]] = 0

\* The boundary the entry of r leads through now.
Bound(r) == IF link[r] = None THEN None ELSE [place |-> link[r], id |-> at[link[r]]]

\* rejectPeerRootPath and rejectForeignRootTarget: a marker lies in the home of
\* every registered root, and the rows are read in the same step.
Foreign(r, p) == \E peer \in Peers(r) : Overlap(Home[peer], p)

\* ResolveLocalMutationTarget, and whether it finds a target at all.
Resolvable(r, path, expects) ==
  /\ View(r, path) = expects
  /\ path = "below" => LinkToDir(r)
  /\ path = "entry" /\ Dangling(r) =>
       mode[r] = "follow" /\ ParentIsThere(link[r])
  /\ mode[r] = "copy" /\ link[r] # None => ~Foreign(r, link[r])

Target(r, path, expects) ==
  LET place == CASE path = "below" -> Child[link[r]]
                 [] path = "entry" /\ mode[r] = "follow" /\ link[r] # None -> link[r]
                 [] path = "entry" /\ ~(mode[r] = "follow" /\ link[r] # None) -> Entry[r]
      final == IF mode[r] = "copy" /\ path = "entry" THEN link[r] ELSE None
  IN [authority |-> IF link[r] = None \/ final # None THEN "lexical" ELSE mode[r],
      place |-> place,
      anchor |-> IF expects = "absent" \/ final # None THEN ParentId(place) ELSE at[place],
      final |-> final,
      bound |-> Bound(r)]

\* verifyPinnedLocalMutationAnchor
AnchorHolds(o) ==
  o.anchor = IF o.expects = "absent" \/ o.final # None THEN ParentId(o.place)
                                                      ELSE at[o.place]

\* PinnedLocalPreconditionHolds: the link is not resolved again.
PinnedAsExpected(r, o) ==
  /\ IF o.final # None THEN link[r] = o.final /\ KindAt(o.final) = o.expects
     ELSE /\ KindAt(o.place) = o.expects
          /\ o.place = Entry[r] => link[r] = None
  /\ AnchorHolds(o)

(***************************************************************************)
(* A cycle: the complete scan and the claims                               *)
(***************************************************************************)

EndCycle(r) ==
  /\ pc' = [pc EXCEPT ![r] = "idle"]
  /\ seen' = [seen EXCEPT ![r] = NoScan] /\ found' = [found EXCEPT ![r] = NoTarget]

Goto(r, label) == pc' = [pc EXCEPT ![r] = label] /\ UNCHANGED <<seen, found>>

\* ScanLocal.  It fails on a link into another root, or to a directory that
\* holds one.
Scan(r) ==
  /\ pc[r] = "idle" /\ r \in Registered
  /\ IF link[r] # None /\ ~Dangling(r) /\ Foreign(r, link[r]) THEN EndCycle(r)
     ELSE /\ seen' = [seen EXCEPT ![r] =
               [bound |-> IF Dangling(r) THEN None ELSE Bound(r),
                view |-> [path \in Paths |-> View(r, path)], dangling |-> Dangling(r)]]
          /\ pc' = [pc EXCEPT ![r] = "reserve"] /\ UNCHANGED found
  /\ UNCHANGED <<storeVars, fileVars, boundVars>>

\* Mutant of Owned: hard links are not told apart.
OwnedByName(r, b) ==
  \/ \E other \in Roots \ {r} : claim[other] # None /\ Overlap(claim[other].place, b.place)
  \/ Foreign(r, b.place)

\* followedOwnershipConflictTx: boundary b belongs to another root.
Owned(r, b) ==
  \/ \E other \in Roots \ {r} :
       /\ claim[other] # None
       /\ \/ b.id # 0 /\ claim[other].id = b.id
          \/ Overlap(claim[other].place, b.place)
  \/ Foreign(r, b.place)

\* Mutant of Continues: only the pathname of a claimed directory must hold.
ContinuesByName(r, b) == claim[r].place = b.place

\* A boundary continues the claim of r: the same place and, for a directory,
\* the same object.
Continues(r, b) ==
  claim[r].place = b.place /\ (b.place \in Dirs => claim[r].id = b.id)

\* ReserveFollowedPhysicalClaims, one transaction.
Reservable(r, b) ==
  /\ IF claim[r] = None THEN ~initialized[r] ELSE Continues(r, b)
  /\ ~Owned(r, b)

\* followedPhysicalAuthority: a claim the scan did not confirm.  It blocks the
\* pairing, and later a replacement of the link.
Unconfirmed(r) ==
  /\ claim[r] # None /\ seen[r].bound = None
  /\ ~initialized[r] \/ (~seen[r].dangling /\ seen[r].view["entry"] # "absent")

Reserve(r) ==
  LET b == seen[r].bound
      follows == mode[r] = "follow" /\ b # None
  IN /\ pc[r] = "reserve"
     /\ claim' = IF follows /\ Reservable(r, b) THEN [claim EXCEPT ![r] = b] ELSE claim
     /\ IF (follows /\ ~Reservable(r, b)) \/ Unconfirmed(r) THEN EndCycle(r)
        ELSE Goto(r, IF op[r] = None THEN "plan" ELSE "recover")
     /\ UNCHANGED <<mode, initialized, conflict, op, fileVars, boundVars>>

(***************************************************************************)
(* A cycle: the plan                                                       *)
(***************************************************************************)

\* Nothing to do, perhaps because the remote side agrees by now.
Rest(r) ==
  /\ pc[r] = "plan" /\ EndCycle(r)
  /\ conflict' = [conflict EXCEPT ![r] = None]
  /\ UNCHANGED <<mode, initialized, claim, op, fileVars, boundVars>>

\* InitializeSyncRoot: the claims must be the ones the scan observed.
Initialize(r) ==
  /\ pc[r] = "plan" /\ ~initialized[r]
  /\ mode[r] = "follow" => claim[r] = seen[r].bound
  /\ initialized' = [initialized EXCEPT ![r] = TRUE]
  /\ conflict' = [conflict EXCEPT ![r] = None]
  /\ EndCycle(r)
  /\ UNCHANGED <<mode, claim, op, fileVars, boundVars>>

\* A path the plan may decide: not below an unavailable target, and no
\* directory but a copied link as a whole.
Decidable(r, path) ==
  /\ ~seen[r].dangling
  /\ path = "below" => seen[r].view["entry"] = "dir"

RecordConflict(r, path) ==
  /\ pc[r] = "plan" /\ path \in ConflictPaths[r]
  /\ Decidable(r, path) /\ seen[r].view[path] # "dir"
  /\ conflict' = [conflict EXCEPT ![r] = [path |-> path, view |-> seen[r].view[path]]]
  /\ EndCycle(r)
  /\ UNCHANGED <<mode, initialized, claim, op, fileVars, boundVars>>

Planned(path, kind, expects, resolves, scanned) ==
  [path |-> path, kind |-> kind, expects |-> expects, resolves |-> resolves,
   phase |-> "planned", authority |-> "none", place |-> None, anchor |-> 0,
   final |-> None, scanned |-> scanned]

CreateOperation(r, o) ==
  /\ ops[r] < MaxOps[r] /\ ops' = [ops EXCEPT ![r] = @ + 1]
  /\ op' = [op EXCEPT ![r] = o]

\* A local mutation; the remote side may ask for any.  Only an initialized root
\* loses anything.
Plan(r, path, kind) ==
  LET expects == seen[r].view[path]
  IN /\ pc[r] = "plan" /\ Decidable(r, path)
     /\ kind = "delete" => initialized[r] /\ expects # "absent"
     /\ kind = "ensure" => expects = "absent" \/ (initialized[r] /\ expects = "file")
     /\ expects = "dir" => mode[r] = "copy" /\ seen[r].bound # None
     /\ CreateOperation(r, Planned(path, kind, expects, FALSE, seen[r].bound))
     /\ conflict' = [conflict EXCEPT ![r] = None]
     /\ Goto(r, "resolve")
     /\ UNCHANGED <<mode, initialized, claim, fileVars, edits, crashes>>

(***************************************************************************)
(* Pinning the target                                                      *)
(***************************************************************************)

DeleteOp(r) == op' = [op EXCEPT ![r] = None] /\ EndCycle(r)

\* Mutant of Continuity: the alias may lead elsewhere by now.
ContinuityOfKind(r, target) == seen[r].bound = None <=> target.bound = None

\* copyProjectionContinuityHolds: the boundary is exactly the scanned one.
Continuity(r, target) == target.bound = seen[r].bound

\* The first half of pinLocalMutationTarget.  Whatever is refused here or in
\* Authorize is forgotten.
Resolve(r) ==
  LET o == op[r]
      target == Target(r, o.path, o.expects)
  IN /\ pc[r] = "resolve"
     /\ IF /\ Resolvable(r, o.path, o.expects)
           /\ mode[r] = "copy" => Continuity(r, target)
          THEN /\ found' = [found EXCEPT ![r] = target]
               /\ pc' = [pc EXCEPT ![r] = "authorize"]
               /\ seen' = [seen EXCEPT ![r] = NoScan] /\ UNCHANGED op
          ELSE DeleteOp(r)
     /\ UNCHANGED <<mode, initialized, claim, conflict, fileVars, boundVars>>

\* AuthorizeAndPinLocalMutation: a copy-physical target is in no other root, a
\* followed boundary is the claimed one and nobody else's.
Authorized(r, target) ==
  /\ target.authority = "copy" => ~Foreign(r, target.place)
  /\ target.authority = "follow" =>
       /\ claim[r] # None
       /\ IF target.bound.id = 0 THEN claim[r].place = target.bound.place
                                 ELSE Continues(r, target.bound)
       /\ ~Owned(r, target.bound)

Authorize(r) ==
  LET target == found[r]
  IN /\ pc[r] = "authorize"
     /\ IF Authorized(r, target)
          THEN /\ op' = [op EXCEPT ![r].authority = target.authority, ![r].place = target.place,
                                   ![r].anchor = target.anchor, ![r].final = target.final]
               /\ claim' = IF target.authority = "follow" /\ target.bound.id # 0
                             THEN [claim EXCEPT ![r] = target.bound] ELSE claim
               /\ pc' = [pc EXCEPT ![r] = "check"]
               /\ found' = [found EXCEPT ![r] = NoTarget] /\ UNCHANGED seen
          ELSE DeleteOp(r) /\ UNCHANGED claim
     /\ UNCHANGED <<mode, initialized, conflict, fileVars, boundVars>>

(***************************************************************************)
(* The mutation                                                            *)
(***************************************************************************)

SetPhase(r, phase) == op' = [op EXCEPT ![r].phase = phase]

\* localMutationTargetMatchesPin
MatchesPin(o, target) ==
  <<o.place, o.authority, o.final>> = <<target.place, target.authority, target.final>>

\* The last check of a first attempt, and the durable running boundary.
Check(r) ==
  LET o == op[r]
  IN /\ pc[r] = "check"
     /\ IF /\ Resolvable(r, o.path, o.expects)
           /\ MatchesPin(o, Target(r, o.path, o.expects)) /\ AnchorHolds(o)
          THEN SetPhase(r, "running") /\ Goto(r, "mutate")
          ELSE DeleteOp(r)
     /\ UNCHANGED <<mode, initialized, claim, conflict, fileVars, boundVars>>

\* What the mutation needs at the place: the very object or link, validated
\* once it is moved aside, or a free name in a directory that is there.
Movable(r, o) ==
  CASE o.final # None -> link[r] = o.final /\ KindAt(o.final) = o.expects
    [] o.final = None /\ o.expects # "absent" -> at[o.place] = o.anchor
    [] o.final = None /\ o.expects = "absent" ->
         /\ at[o.place] = 0 /\ ParentIsThere(o.place)
         /\ o.place = Entry[r] => link[r] = None

\* The wanted state is at the pinned place, as an ordinary file or absence.
Satisfied(r, o) ==
  /\ o.place = Entry[r] => link[r] = None
  /\ IF o.kind = "delete" THEN at[o.place] = 0 ELSE at[o.place] # 0

\* The target, or the copied link itself, is removed or replaced.  The
\* postcondition is observed at the pinned place; the remote side, the bytes or
\* another edit may refute it.
Mutate(r) ==
  LET o == op[r]
  IN /\ pc[r] = "mutate" /\ EndCycle(r)
     /\ IF Movable(r, o)
          THEN /\ link' = IF o.final # None THEN [link EXCEPT ![r] = None] ELSE link
               /\ tick' = IF o.kind = "ensure" THEN tick + 1 ELSE tick
               /\ at' = [at EXCEPT ![o.place] = IF o.kind = "ensure" THEN tick' ELSE 0]
               /\ \/ op' = [op EXCEPT ![r] = None]
                  \/ SetPhase(r, "recovering")
          ELSE SetPhase(r, "recovering") /\ UNCHANGED fileVars
     /\ UNCHANGED <<mode, initialized, claim, conflict, boundVars>>

(***************************************************************************)
(* Recovery                                                                *)
(***************************************************************************)

\* A planned operation of an earlier cycle.  In copy mode the evidence of its
\* scan is gone: unless it is pinned, it is discarded.
RecoverPlanned(r) ==
  /\ pc[r] = "recover" /\ op[r].phase = "planned"
  /\ IF op[r].authority # "none" THEN Goto(r, "check") /\ UNCHANGED op
     ELSE IF mode[r] = "copy" THEN DeleteOp(r)
     ELSE Goto(r, "resolve") /\ UNCHANGED op
  /\ UNCHANGED <<mode, initialized, claim, conflict, fileVars, boundVars>>

\* A started operation: done, to be repeated at the pinned place, or blocked.
RecoverStarted(r) ==
  /\ pc[r] = "recover" /\ op[r].phase \in {"running", "recovering"}
  /\ \/ Satisfied(r, op[r]) /\ DeleteOp(r)
     \/ PinnedAsExpected(r, op[r]) /\ SetPhase(r, "running") /\ Goto(r, "mutate")
     \/ SetPhase(r, "blocked") /\ EndCycle(r)
  /\ UNCHANGED <<mode, initialized, claim, conflict, fileVars, boundVars>>

RecoverBlocked(r) ==
  /\ pc[r] = "recover" /\ op[r].phase = "blocked" /\ EndCycle(r)
  /\ UNCHANGED <<storeVars, fileVars, boundVars>>

Crash ==
  /\ crashes < MaxCrashes /\ edits + crashes < MaxEdits /\ crashes' = crashes + 1
  /\ pc' = [r \in Roots |-> "idle"]
  /\ seen' = [r \in Roots |-> NoScan] /\ found' = [r \in Roots |-> NoTarget]
  /\ UNCHANGED <<storeVars, fileVars, ops, edits>>

(***************************************************************************)
(* The CLI                                                                 *)
(***************************************************************************)

Stopped == \A r \in Roots : pc[r] = "idle"

\* Mutant of Reserved: pins of copied links are not consulted.
ReservedWithoutPins(r) ==
  /\ \A other \in Registered : ~Overlap(Home[other], Home[r])
  /\ \A other \in Roots : claim[other] # None => ~Overlap(Home[r], claim[other].place)

\* PrepareSyncRootCreate: the new home is apart from every root, every claim
\* and every pin through a copied link.
Reserved(r) ==
  /\ \A other \in Registered : ~Overlap(Home[other], Home[r])
  /\ \A other \in Roots : claim[other] # None => ~Overlap(Home[r], claim[other].place)
  /\ \A other \in Roots : op[other] # None /\ op[other].authority = "copy" =>
                            ~Overlap(Home[r], op[other].place)

AddRoot(r, policy) ==
  /\ r \notin Registered /\ Reserved(r)
  /\ mode' = [mode EXCEPT ![r] = policy]
  /\ UNCHANGED <<initialized, claim, conflict, op, fileVars, workerVars, boundVars>>

\* DeleteSyncRoot, with the daemon's lease: the row takes its claims with it.
RemoveRoot(r) ==
  /\ r \in Registered /\ Stopped /\ op[r] = None
  /\ mode' = [mode EXCEPT ![r] = "none"] /\ initialized' = [initialized EXCEPT ![r] = FALSE]
  /\ claim' = [claim EXCEPT ![r] = None] /\ conflict' = [conflict EXCEPT ![r] = None]
  /\ UNCHANGED <<op, fileVars, workerVars, boundVars>>

\* conflict resolve: the recorded view is what the operation expects.
QueueResolve(r, kind) ==
  /\ pc[r] = "idle" /\ conflict[r] # None /\ op[r] = None
  /\ kind = "delete" => conflict[r].view # "absent"
  /\ CreateOperation(r, Planned(conflict[r].path, kind, conflict[r].view, TRUE, None))
  /\ UNCHANGED <<mode, initialized, claim, conflict, fileVars, workerVars, edits, crashes>>

\* operation resolve --retry
ResolveRetry(r) ==
  /\ Stopped /\ op[r] # None /\ op[r].phase = "blocked" /\ SetPhase(r, "recovering")
  /\ UNCHANGED <<mode, initialized, claim, conflict, fileVars, workerVars, boundVars>>

(***************************************************************************)
(* The user                                                                *)
(***************************************************************************)

Edit ==
  /\ Registered # {} /\ edits + crashes < MaxEdits /\ edits' = edits + 1
  /\ UNCHANGED <<storeVars, workerVars, ops, crashes>>

\* The entry becomes a link, a file, or nothing.
Relink(r, p) ==
  /\ Edit /\ link' = [link EXCEPT ![r] = p] /\ at' = [at EXCEPT ![Entry[r]] = 0]
  /\ UNCHANGED tick

PutEntry(r) ==
  /\ Edit /\ link' = [link EXCEPT ![r] = None]
  /\ tick' = tick + 1 /\ at' = [at EXCEPT ![Entry[r]] = tick']

Editable(p) ==
  /\ \A r \in Roots : p # Entry[r] /\ p # Home[r] /\ p \notin Above[Home[r]]
  /\ ParentIsThere(p)

\* A new object at a place: a file saved anew, or a directory, into which its
\* file is moved.
Replace(p) ==
  /\ Edit /\ Editable(p) /\ tick' = tick + 1
  /\ at' = [at EXCEPT ![p] = tick']
  /\ UNCHANGED link

Remove(p) ==
  /\ Edit /\ Editable(p) /\ at[p] # 0
  /\ at' = [q \in Places |-> IF q = p \/ p \in Above[q] THEN 0 ELSE at[q]]
  /\ UNCHANGED <<link, tick>>

(***************************************************************************)
(* The specification                                                       *)
(***************************************************************************)

WorkerStep(r) ==
  \/ Scan(r) \/ Reserve(r) \/ Rest(r) \/ Initialize(r)
  \/ \E path \in Paths : \/ RecordConflict(r, path)
                         \/ \E kind \in {"ensure", "delete"} : Plan(r, path, kind)
  \/ Resolve(r) \/ Authorize(r) \/ Check(r) \/ Mutate(r)
  \/ RecoverPlanned(r) \/ RecoverStarted(r) \/ RecoverBlocked(r)

CliNext ==
  \E r \in Roots : \/ \E policy \in Policies[r] : AddRoot(r, policy)
                   \/ RemoveRoot(r) \/ ResolveRetry(r)
                   \/ \E kind \in {"ensure", "delete"} : QueueResolve(r, kind)

UserNext ==
  \/ \E r \in Roots : PutEntry(r) \/ \E p \in Targets[r] \union {None} : Relink(r, p)
  \/ \E p \in Places : Replace(p) \/ Remove(p)

Next == (\E r \in Roots : WorkerStep(r)) \/ Crash \/ CliNext \/ UserNext

Spec == Init /\ [][Next]_vars

(***************************************************************************)
(* Safety                                                                  *)
(***************************************************************************)

\* Whoever holds a claim holds it alone: claims overlap neither in the tree nor
\* by identity, and no registered root lies in another one's claim or around
\* it.  The scans, pins and root adds of all processes share one check.
ClaimsDisjoint ==
  \A r \in Roots : claim[r] # None =>
    /\ \A other \in Registered \ {r} : ~Overlap(Home[other], claim[r].place)
    /\ \A other \in Roots \ {r} : claim[other] # None =>
         /\ claim[other].id # claim[r].id
         /\ ~Overlap(claim[other].place, claim[r].place)

Mutates(r) == pc[r] = "mutate" /\ pc'[r] = "idle" /\ <<link', at'>> # <<link, at>>

\* The daemon changes nothing in another registered root, whatever was linked,
\* relinked or registered since the scan, and a mutation through a followed
\* link nothing that another root has claimed.
MutationOwned ==
  [][\A r \in Roots : Mutates(r) =>
       /\ ~Foreign(r, op[r].place)
       /\ op[r].authority = "follow" => \A other \in Roots \ {r} :
            claim[other] # None => ~Overlap(claim[other].place, op[r].place)]_vars

\* A place that a link to boundary b leads to: its target, or the child below.
Behind(p, b) == p = b.place \/ (b.place \in Dirs /\ p = Child[b.place])

\* A plan made for one target is never carried out on another one that looks
\* the same.  What is changed through a copied link lies behind the boundary
\* that the scan of the plan has seen.  What is changed through a followed link
\* lies behind the claim of the root, which is the boundary the scan has seen
\* if it has seen one: an entry that was missing then may have become a link to
\* the claimed place again.
MutatesWhatWasScanned ==
  [][\A r \in Roots : Mutates(r) /\ ~op[r].resolves =>
       LET o == op[r]
       IN /\ o.authority = "copy" => o.scanned # None /\ Behind(o.place, o.scanned)
          /\ o.final # None => o.scanned # None /\ o.scanned.place = o.final
          /\ o.authority = "follow" =>
               /\ claim[r] # None /\ Behind(o.place, claim[r])
               /\ o.scanned # None => o.scanned.place = claim[r].place]_vars

\* As long as a pairing lasts it learns no new boundary once it is initialized,
\* and never accepts another directory for one it knows.
BoundariesFixed ==
  [][\A r \in Registered : mode'[r] # "none" /\ claim'[r] # claim[r] =>
       IF claim[r] = None THEN ~initialized[r]
       ELSE /\ claim'[r] # None /\ claim'[r].place = claim[r].place
            /\ claim[r].place \in Dirs => claim'[r].id = claim[r].id]_vars

(***************************************************************************)
(* What the documentation promises and the code does not do                *)
(***************************************************************************)

\* A queued resolution is given up before it has done anything only when the
\* entry is not what the conflict recorded: "If either side changed after the
\* conflict was recorded, the stale resolution is discarded"
\* (docs/operations.md).
ResolutionHonoured ==
  [][\A r \in Roots :
       /\ op[r] # None /\ op[r].resolves /\ op[r].phase = "planned" /\ op'[r] = None
       => View(r, op[r].path) # op[r].expects]_vars
=============================================================================
