---------------------------- MODULE Runner_proofs ----------------------------
(***************************************************************************)
(* The commands that add, change and remove roots, and the daemon's workers *)
(* under them, for every set of UUIDs, directories and policies: first what *)
(* the commands of RootSetup keep, then what the steps of Runner add.      *)
(***************************************************************************)
EXTENDS Runner, TLAPS

(***************************************************************************)
(* The inductive invariant of the commands                                 *)
(***************************************************************************)

Reserving(u) == adding[u].stage \in {"reserved", "marked"}

\* A reservation belongs to the process that holds the write lock.  Its UUID
\* has no row yet, its directory overlaps no registered root, and a marker it
\* has written is still there.
ReservationOK ==
  \A u \in Uuids : Reserving(u) =>
    /\ writer = u
    /\ adding[u].dir \in Dirs
    /\ \A v \in Registered : <<rows[v].dir, adding[u].dir>> \notin Overlaps
    /\ adding[u].stage = "marked" => marker[adding[u].dir] = u

\* UUIDs are fresh: only a `root add` that is over can have left a row.
RowsFresh == \A u \in Registered : adding[u].stage = "over"

\* A removal works on a registered root under the lease.
RemovalOK == removal # None => lease = "remove" /\ removal.root \in Registered

SetupInv == SetupTypeOK /\ ReservationOK /\ RowsFresh /\ RemovalOK /\ RootsDisjoint

LEMMA SetupInvInit == SetupInit => SetupInv
BY RootSetupAssumption
   DEF SetupInit, SetupInv, SetupTypeOK, ReservationOK, Reserving, RowsFresh, RemovalOK,
       RootsDisjoint, Registered

(***************************************************************************)
(* root add                                                                *)
(***************************************************************************)

\* The fields of a registered row and of a reservation.
LEMMA SetupTypes ==
  ASSUME SetupTypeOK
  PROVE  /\ \A u \in Registered : rows[u] \in Rows /\ rows[u].dir \in Dirs /\ u \in Uuids
         /\ \A u \in Uuids : adding[u].dir \in Dirs \union {None}
         /\ removal # None => removal \in Removals /\ removal.root \in Uuids
BY DEF SetupTypeOK, Registered, Rows, Removals

\* Where one directory overlaps another, so does the other the first, and a
\* directory overlaps itself.
LEMMA OverlapsBothWays ==
  \A d, e \in Dirs : /\ <<d, d>> \in Overlaps
                     /\ <<d, e>> \notin Overlaps => <<e, d>> \notin Overlaps /\ d # e
BY RootSetupAssumption

LEMMA ReserveInv ==
  ASSUME SetupInv, NEW u \in Uuids, NEW d \in Dirs, Reserve(u, d) PROVE SetupInv'
<1> USE DEF SetupInv
<1>1. Registered' = Registered
  BY DEF Reserve, Registered
<1>2. /\ adding'[u] = [stage |-> "reserved", dir |-> d]
      /\ \A v \in Uuids \ {u} : adding'[v] = adding[v]
  BY DEF Reserve, SetupTypeOK
<1>3. SetupTypeOK'
  BY <1>1 DEF Reserve, SetupTypeOK
<1>4. \A v \in Uuids : v # u => ~Reserving(v)
  BY RootSetupAssumption DEF Reserve, ReservationOK
<1>5. ReservationOK'
  BY <1>1, <1>2, <1>4 DEF Reserve, ReservationOK, Reserving
<1>6. RowsFresh' /\ RemovalOK' /\ RootsDisjoint'
  BY <1>1, <1>2 DEF Reserve, RowsFresh, RemovalOK, RootsDisjoint
<1> QED  BY <1>3, <1>5, <1>6

\* Any step of a process with a reservation.
LEMMA AddStepInv == ASSUME SetupInv, NEW u \in Uuids, AddStep(u) PROVE SetupInv'
<1> USE DEF SetupInv
<1>1. ASSUME NEW d \in Dirs, Reserve(u, d) PROVE SetupInv'
  BY <1>1, ReserveInv
<1>2. CASE WriteMarker(u)
  <2>1. Registered' = Registered /\ writer = u /\ adding[u].dir \in Dirs
    BY <1>2 DEF WriteMarker, Registered, ReservationOK, Reserving
  <2>2. /\ adding'[u].stage = "marked" /\ adding'[u].dir = adding[u].dir
        /\ \A v \in Uuids \ {u} : adding'[v] = adding[v]
        /\ marker'[adding[u].dir] = u
    BY <1>2, <2>1 DEF WriteMarker, SetupTypeOK
  <2>3. SetupTypeOK'
    BY <1>2, <2>1 DEF WriteMarker, SetupTypeOK
  <2>4. ReservationOK'
    BY <1>2, <2>1, <2>2 DEF WriteMarker, ReservationOK, Reserving
  <2>5. RowsFresh' /\ RemovalOK' /\ RootsDisjoint'
    BY <1>2, <2>1, <2>2 DEF WriteMarker, RowsFresh, RemovalOK, RootsDisjoint
  <2> QED  BY <2>3, <2>4, <2>5
<1>3. CASE DropOrphanMarker(u)
  <2>1. Registered' = Registered /\ writer = u /\ adding[u].dir \in Dirs
    BY <1>3 DEF DropOrphanMarker, Registered, ReservationOK, Reserving
  <2>2. SetupTypeOK'
    BY <1>3, <2>1 DEF DropOrphanMarker, SetupTypeOK
  <2>3. ReservationOK'
    BY <1>3, <2>1 DEF DropOrphanMarker, ReservationOK, Reserving
  <2>4. RowsFresh' /\ RemovalOK' /\ RootsDisjoint'
    BY <1>3, <2>1 DEF DropOrphanMarker, RowsFresh, RemovalOK, RootsDisjoint
  <2> QED  BY <2>2, <2>3, <2>4
<1>4. CASE CommitRow(u)
  <2>1. PICK m \in SymlinkModes :
          rows' = [rows EXCEPT ![u] = [dir |-> adding[u].dir, enabled |-> TRUE, mode |-> m]]
    BY <1>4 DEF CommitRow
  <2>2. writer = u /\ adding[u].dir \in Dirs /\ writer' = None
        /\ \A v \in Registered : <<rows[v].dir, adding[u].dir>> \notin Overlaps
    BY <1>4 DEF CommitRow, ReservationOK, Reserving
  <2>3. /\ rows'[u] \in Rows /\ rows'[u].dir = adding[u].dir
        /\ \A v \in Uuids \ {u} : rows'[v] = rows[v]
    BY <2>1, <2>2 DEF SetupTypeOK, Rows
  <2>4. Registered' = Registered \union {u}
    BY <2>3, NoneAssumption DEF Registered
  <2>5. /\ adding'[u].stage = "over"
        /\ \A v \in Uuids \ {u} : adding'[v] = adding[v]
    BY <1>4 DEF CommitRow, SetupTypeOK
  <2>6. SetupTypeOK'
    <3>1. rows' \in [Uuids -> Rows \union {None}]
      BY <2>1, <2>3 DEF SetupTypeOK
    <3> QED  BY <1>4, <2>4, <3>1, RootSetupAssumption DEF CommitRow, SetupTypeOK
  <2>7. ReservationOK'
    <3>1. \A v \in Uuids : ~Reserving(v)'
      BY <2>2, <2>5 DEF ReservationOK, Reserving
    <3> QED  BY <3>1 DEF ReservationOK, Reserving
  <2>8. RowsFresh' /\ RemovalOK'
    BY <1>4, <2>4, <2>5 DEF CommitRow, RowsFresh, RemovalOK, Registered
  <2>9. RootsDisjoint'
    BY <2>2, <2>3, <2>4, SetupTypes, OverlapsBothWays DEF RootsDisjoint, Registered
  <2> QED  BY <2>6, <2>7, <2>8, <2>9
<1>5. CASE AbandonAdd(u)
  <2>1. Registered' = Registered /\ writer = u /\ adding'[u].stage = "over"
        /\ \A v \in Uuids \ {u} : adding'[v] = adding[v]
    BY <1>5 DEF AbandonAdd, Registered, ReservationOK, Reserving, SetupTypeOK
  <2>2. SetupTypeOK'
    BY <1>5, <2>1 DEF AbandonAdd, SetupTypeOK
  <2>3. ReservationOK'
    BY <2>1 DEF ReservationOK, Reserving
  <2>4. RowsFresh' /\ RemovalOK' /\ RootsDisjoint'
    BY <1>5, <2>1 DEF AbandonAdd, RowsFresh, RemovalOK, RootsDisjoint, Registered
  <2> QED  BY <2>2, <2>3, <2>4
<1> QED  BY <1>1, <1>2, <1>3, <1>4, <1>5 DEF AddStep

(***************************************************************************)
(* root pause, resume, config and conflict resolve                         *)
(***************************************************************************)

\* A change of the fields of a row that leaves its directory alone.
LEMMA RowUpdate ==
  ASSUME SetupInv, NEW u \in Registered, NEW row \in Rows, row.dir = rows[u].dir,
         rows' = [rows EXCEPT ![u] = row],
         UNCHANGED <<queued, writer, marker, adding, removal, lease>>
  PROVE  SetupInv'
<1> USE DEF SetupInv
<1>1. Registered' = Registered /\ \A v \in Registered : rows'[v].dir = rows[v].dir
  BY NoneAssumption DEF Registered, SetupTypeOK
<1>2. SetupTypeOK'
  BY <1>1 DEF SetupTypeOK, Registered
<1>3. ReservationOK'
  BY <1>1 DEF ReservationOK, Reserving
<1> QED  BY <1>1, <1>2, <1>3 DEF RowsFresh, RemovalOK, RootsDisjoint

\* Changes of the operations table of registered roots.
LEMMA QueueUpdate ==
  ASSUME SetupInv, queued' \subseteq Registered,
         UNCHANGED <<rows, writer, marker, adding, removal, lease>>
  PROVE  SetupInv'
BY DEF SetupInv, SetupTypeOK, ReservationOK, Reserving, RowsFresh, RemovalOK, RootsDisjoint,
       Registered

\* A configuration command changes at most the fields of one row, and not its
\* directory.
LEMMA ConfigRows ==
  ASSUME SetupTypeOK, NEW u \in Uuids, ConfigStep(u)
  PROVE  \/ rows' = rows
         \/ /\ u \in Registered
            /\ \E row \in Rows : row.dir = rows[u].dir /\ rows' = [rows EXCEPT ![u] = row]
<1>1. u \in Registered => rows[u] \in Rows
  BY SetupTypes
<1>2. ASSUME NEW enabled \in BOOLEAN, SetSyncRootEnabled(u, enabled)
      PROVE  /\ u \in Registered
             /\ \E row \in Rows : row.dir = rows[u].dir /\ rows' = [rows EXCEPT ![u] = row]
  <2> DEFINE row == [rows[u] EXCEPT !.enabled = enabled]
  <2>1. u \in Registered /\ rows' = [rows EXCEPT ![u] = row]
    BY <1>2 DEF SetSyncRootEnabled
  <2>2. row \in Rows /\ row.dir = rows[u].dir
    BY <1>1, <2>1 DEF Rows
  <2> HIDE DEF row
  <2> QED  BY <2>1, <2>2
<1>3. ASSUME NEW mode \in SymlinkModes, SetSyncRootSymlinkMode(u, mode)
      PROVE  /\ u \in Registered
             /\ \E row \in Rows : row.dir = rows[u].dir /\ rows' = [rows EXCEPT ![u] = row]
  <2> DEFINE row == [rows[u] EXCEPT !.mode = mode]
  <2>1. u \in Registered /\ rows' = [rows EXCEPT ![u] = row]
    BY <1>3 DEF SetSyncRootSymlinkMode
  <2>2. row \in Rows /\ row.dir = rows[u].dir
    BY <1>1, <2>1 DEF Rows
  <2> HIDE DEF row
  <2> QED  BY <2>1, <2>2
<1>4. CASE CreateOperation(u)
  BY <1>4 DEF CreateOperation
<1> QED  BY <1>2, <1>3, <1>4 DEF ConfigStep

LEMMA ConfigStepInv == ASSUME SetupInv, NEW u \in Uuids, ConfigStep(u) PROVE SetupInv'
<1>1. CASE ~CreateOperation(u)
  <2>1. UNCHANGED <<queued, writer, marker, adding, removal, lease>>
    BY <1>1 DEF ConfigStep, SetSyncRootEnabled, SetSyncRootSymlinkMode
  <2>2. CASE rows' = rows
    BY <2>1, <2>2, QueueUpdate DEF SetupInv, SetupTypeOK
  <2> QED  BY <2>1, <2>2, ConfigRows, RowUpdate DEF SetupInv
<1>2. CASE CreateOperation(u)
  <2>1. queued' \subseteq Registered
    BY <1>2 DEF CreateOperation, SetupInv, SetupTypeOK
  <2> QED  BY <1>2, <2>1, QueueUpdate DEF CreateOperation
<1> QED  BY <1>1, <1>2

(***************************************************************************)
(* root remove                                                             *)
(***************************************************************************)

LEMMA RemoveStepInv == ASSUME SetupInv, RemoveStep PROVE SetupInv'
<1> USE DEF SetupInv
<1>1. ASSUME NEW u \in Uuids, BeginRemove(u) PROVE SetupInv'
  <2>1. Registered' = Registered /\ removal' \in Removals
        /\ removal'.root = u /\ u \in Registered
    BY <1>1 DEF BeginRemove, Registered, Removals
  <2>2. SetupTypeOK'
    BY <1>1, <2>1 DEF BeginRemove, SetupTypeOK
  <2> QED  BY <1>1, <2>1, <2>2
       DEF BeginRemove, ReservationOK, Reserving, RowsFresh, RemovalOK, RootsDisjoint
<1>2. CASE RemoveMarker
  <2>1. /\ removal \in Removals /\ removal.root \in Registered /\ lease = "remove"
        /\ Registered' = Registered
    BY <1>2, SetupTypes DEF RemoveMarker, RemovalOK, Registered
  <2>2. removal' \in Removals /\ removal'.root = removal.root
    BY <1>2, <2>1 DEF RemoveMarker, Removals
  <2>3. SetupTypeOK'
    BY <1>2, <2>1, <2>2 DEF RemoveMarker, SetupTypeOK
  <2>4. ReservationOK'
    <3> SUFFICES ASSUME NEW u \in Uuids, adding[u].stage = "marked"
                 PROVE  adding[u].dir # rows[removal.root].dir
      BY <1>2, <2>1, SetupTypes DEF RemoveMarker, ReservationOK, Reserving, SetupTypeOK
    <3> QED  BY <2>1, SetupTypes, OverlapsBothWays DEF ReservationOK, Reserving
  <2>5. RowsFresh' /\ RemovalOK' /\ RootsDisjoint'
    BY <1>2, <2>1, <2>2 DEF RemoveMarker, RowsFresh, RemovalOK, RootsDisjoint
  <2> QED  BY <2>3, <2>4, <2>5
<1>3. CASE DeleteRow
  <2>1. removal.root \in Uuids /\ Registered' = Registered \ {removal.root}
        /\ \A v \in Registered' : rows'[v] = rows[v]
    BY <1>3, SetupTypes DEF DeleteRow, Registered, SetupTypeOK
  <2>2. SetupTypeOK'
    BY <1>3, <2>1 DEF DeleteRow, SetupTypeOK
  <2>3. ReservationOK'
    BY <1>3, <2>1 DEF DeleteRow, ReservationOK, Reserving
  <2>4. RowsFresh' /\ RemovalOK' /\ RootsDisjoint'
    BY <1>3, <2>1 DEF DeleteRow, RowsFresh, RemovalOK, RootsDisjoint
  <2> QED  BY <2>2, <2>3, <2>4
<1>4. CASE DeleteRefused
  <2>1. /\ removal \in Removals /\ removal.root \in Registered /\ lease = "remove"
        /\ Registered' = Registered
    BY <1>4, SetupTypes DEF DeleteRefused, RemovalOK, Registered
  <2>2. removal' \in Removals /\ removal'.root = removal.root
    BY <1>4, <2>1 DEF DeleteRefused, Removals
  <2>3. SetupTypeOK'
    BY <1>4, <2>1, <2>2 DEF DeleteRefused, SetupTypeOK
  <2> QED  BY <1>4, <2>1, <2>2, <2>3
       DEF DeleteRefused, ReservationOK, Reserving, RowsFresh, RemovalOK, RootsDisjoint
<1>5. CASE RestoreMarker
  <2>1. /\ removal.root \in Registered /\ removal.root \in Uuids
        /\ rows[removal.root].dir \in Dirs /\ Registered' = Registered
    BY <1>5, SetupTypes DEF RestoreMarker, RemovalOK, Registered
  <2>2. /\ marker' \in [Dirs -> Uuids \union {None}]
        /\ \A d \in Dirs : marker[d] # None => marker'[d] = marker[d]
    BY <1>5, <2>1 DEF RestoreMarker, SetupTypeOK
  <2>3. SetupTypeOK'
    BY <1>5, <2>1, <2>2 DEF RestoreMarker, SetupTypeOK
  <2>4. ReservationOK'
    BY <1>5, <2>1, <2>2, RootSetupAssumption DEF RestoreMarker, ReservationOK, Reserving
  <2> QED  BY <1>5, <2>1, <2>3, <2>4
       DEF RestoreMarker, RowsFresh, RemovalOK, RootsDisjoint
<1>6. CASE AbandonRemove
  BY <1>6 DEF AbandonRemove, SetupTypeOK, ReservationOK, Reserving, RowsFresh, RemovalOK,
              RootsDisjoint, Registered
<1> QED  BY <1>1, <1>2, <1>3, <1>4, <1>5, <1>6 DEF RemoveStep

LEMMA CommandStepInv == ASSUME SetupInv, CommandStep PROVE SetupInv'
BY AddStepInv, ConfigStepInv, RemoveStepInv DEF CommandStep

(***************************************************************************)
(* What a command may do to a marker and to a row                          *)
(***************************************************************************)

\* The steps MarkerFences and RemovalKeepsWork allow.
FencedStep ==
  \A u \in Uuids :
    /\ rows[u] = None /\ rows'[u] # None => marker'[rows'[u].dir] = u
    /\ rows[u] # None /\ rows'[u] # None /\ MarkerHolds(u) /\ marker'[rows[u].dir] # u
         => removal # None /\ removal.root = u

KeepingStep ==
  \A u \in Uuids : rows[u] # None /\ rows'[u] = None => u \notin queued /\ ~rows[u].enabled

\* Two registered roots have different directories, and so have a registered
\* root and a reservation.
LEMMA DirectoriesApart ==
  ASSUME SetupInv
  PROVE  /\ \A u, v \in Registered : u # v => rows[u].dir # rows[v].dir
         /\ \A u \in Registered, v \in Uuids : Reserving(v) => rows[u].dir # adding[v].dir
BY SetupTypes, OverlapsBothWays DEF SetupInv, RootsDisjoint, ReservationOK

LEMMA CommandFenced == ASSUME SetupInv, CommandStep PROVE FencedStep
<1> SUFFICES ASSUME NEW u \in Uuids PROVE FencedStep!(u)
  BY DEF FencedStep
<1> USE DEF SetupInv
<1>1. ASSUME NEW v \in Uuids, AddStep(v) PROVE FencedStep!(u)
  <2>1. CASE (\E d \in Dirs : Reserve(v, d)) \/ AbandonAdd(v)
    BY <2>1 DEF Reserve, AbandonAdd, MarkerHolds
  <2>2. CASE WriteMarker(v) \/ DropOrphanMarker(v)
    <3>1. u \in Registered => rows[u].dir # adding[v].dir /\ rows[u].dir \in Dirs
      BY <2>2, DirectoriesApart, SetupTypes DEF WriteMarker, DropOrphanMarker, Reserving
    <3> QED  BY <2>2, <3>1
         DEF WriteMarker, DropOrphanMarker, MarkerHolds, SetupTypeOK, Registered
  <2>3. CASE CommitRow(v)
    <3>1. marker[adding[v].dir] = v
      BY <2>3 DEF CommitRow, ReservationOK, Reserving
    <3>2. PICK m \in SymlinkModes :
            rows' = [rows EXCEPT ![v] = [dir |-> adding[v].dir, enabled |-> TRUE, mode |-> m]]
      BY <2>3 DEF CommitRow
    <3> QED  BY <2>3, <3>1, <3>2 DEF CommitRow, SetupTypeOK, MarkerHolds
  <2> QED  BY <1>1, <2>1, <2>2, <2>3 DEF AddStep
<1>2. ASSUME NEW v \in Uuids, ConfigStep(v) PROVE FencedStep!(u)
  BY <1>2 DEF ConfigStep, SetSyncRootEnabled, SetSyncRootSymlinkMode, CreateOperation,
              SetupTypeOK, MarkerHolds, Registered
<1>3. CASE RemoveMarker \/ RestoreMarker
  <2>1. /\ removal # None /\ removal.root \in Registered /\ UNCHANGED rows
        /\ rows[removal.root].dir \in Dirs
    BY <1>3, SetupTypes DEF RemoveMarker, RestoreMarker, RemovalOK
  <2>2. u \in Registered /\ u # removal.root => rows[u].dir # rows[removal.root].dir
    BY <2>1, DirectoriesApart
  <2> QED  BY <1>3, <2>1, <2>2, SetupTypes
       DEF RemoveMarker, RestoreMarker, SetupTypeOK, MarkerHolds, Registered
<1>4. CASE DeleteRow
  BY <1>4, SetupTypes DEF DeleteRow, SetupTypeOK, MarkerHolds
<1>5. CASE (\E v \in Uuids : BeginRemove(v)) \/ DeleteRefused \/ AbandonRemove
  BY <1>5 DEF BeginRemove, DeleteRefused, AbandonRemove, MarkerHolds
<1> QED  BY <1>1, <1>2, <1>3, <1>4, <1>5 DEF CommandStep, RemoveStep

LEMMA CommandKeepsWork == ASSUME SetupInv, CommandStep PROVE KeepingStep
<1> SUFFICES ASSUME NEW u \in Uuids PROVE KeepingStep!(u)
  BY DEF KeepingStep
<1> USE DEF SetupInv
<1>1. ASSUME NEW v \in Uuids, AddStep(v) PROVE KeepingStep!(u)
  <2>1. ASSUME CommitRow(v), rows[u] # None PROVE u # v
    BY <2>1 DEF CommitRow, RowsFresh, Registered
  <2> QED  BY <1>1, <2>1
       DEF AddStep, Reserve, WriteMarker, DropOrphanMarker, CommitRow, AbandonAdd, SetupTypeOK
<1>2. ASSUME NEW v \in Uuids, ConfigStep(v) PROVE KeepingStep!(u)
  <2>1. CASE v \in Registered /\ \E row \in Rows : rows' = [rows EXCEPT ![v] = row]
    BY <2>1, NoneAssumption DEF SetupTypeOK
  <2> QED  BY <1>2, <2>1, ConfigRows
<1>3. CASE RemoveStep
  BY <1>3, SetupTypes
     DEF RemoveStep, BeginRemove, RemoveMarker, DeleteRow, DeleteRefused, RestoreMarker,
         AbandonRemove, Deletable, SetupTypeOK
<1> QED  BY <1>1, <1>2, <1>3 DEF CommandStep

\* Where a registered root is never changes, and only a removal, which has the
\* lease, takes a row away.
RowsStayPut ==
  \A u \in Registered : IF rows'[u] = None THEN removal # None ELSE rows'[u].dir = rows[u].dir

LEMMA CommandRowsStayPut == ASSUME SetupInv, CommandStep PROVE RowsStayPut
<1> SUFFICES ASSUME NEW u \in Registered PROVE RowsStayPut!(u)
  BY DEF RowsStayPut
<1> USE DEF SetupInv
<1>1. ASSUME NEW v \in Uuids, AddStep(v) PROVE RowsStayPut!(u)
  <2>1. ASSUME CommitRow(v) PROVE u # v
    BY <2>1 DEF CommitRow, RowsFresh
  <2> QED  BY <1>1, <2>1
       DEF AddStep, Reserve, WriteMarker, DropOrphanMarker, CommitRow, AbandonAdd, SetupTypeOK,
           Registered
<1>2. ASSUME NEW v \in Uuids, ConfigStep(v) PROVE RowsStayPut!(u)
  <2>1. ASSUME v \in Registered, NEW row \in Rows, row.dir = rows[v].dir,
               rows' = [rows EXCEPT ![v] = row]
        PROVE  RowsStayPut!(u)
    BY <2>1, NoneAssumption DEF SetupTypeOK, Registered
  <2> QED  BY <1>2, <2>1, ConfigRows DEF Registered
<1>3. CASE RemoveStep
  BY <1>3, SetupTypes
     DEF RemoveStep, BeginRemove, RemoveMarker, DeleteRow, DeleteRefused, RestoreMarker,
         AbandonRemove, SetupTypeOK, Registered
<1> QED  BY <1>1, <1>2, <1>3 DEF CommandStep

\* Commands neither take the lease from the daemon nor give it to it.
LEMMA CommandLease ==
  ASSUME SetupInv, CommandStep PROVE lease' = "daemon" <=> lease = "daemon"
<1>1. ASSUME NEW u \in Uuids, AddStep(u) \/ ConfigStep(u) PROVE lease' = lease
  BY <1>1 DEF AddStep, Reserve, WriteMarker, DropOrphanMarker, CommitRow, AbandonAdd,
              ConfigStep, SetSyncRootEnabled, SetSyncRootSymlinkMode, CreateOperation
<1>2. CASE RemoveStep
  BY <1>2 DEF RemoveStep, BeginRemove, RemoveMarker, DeleteRow, DeleteRefused, RestoreMarker,
              AbandonRemove, SetupInv, RemovalOK
<1> QED  BY <1>1, <1>2 DEF CommandStep

(***************************************************************************)
(* The inductive invariant of the daemon's workers                         *)
(***************************************************************************)

\* The daemon has the lease as long as it is not down, and only then has it
\* goroutines.
LeaseOK ==
  /\ lease = "daemon" <=> daemon # "down"
  /\ daemon = "down" => \A u \in Uuids, g \in Goroutines : ~Alive(u, g)

\* A goroutine that has not finished is the one its root's map entry stands
\* for, canceled or not.
WorkersKnown == \A u \in Uuids, g \in Goroutines : Alive(u, g) => workers[u] = g

InCycle(u, g) == Is(u, g, "scan") \/ Is(u, g, "run")

FencesOK == \A u \in Uuids, g \in Goroutines :
              InCycle(u, g) => u \in Registered /\ MarkerHolds(u)

\* From the scan on, and as long as the worker sleeps, a change after the scan
\* is in the hint channel of an open watcher.
HintOK == \A u \in Uuids, g \in Goroutines :
  LET t == task[u][g]
  IN /\ t # None /\ t.stage \notin {"look", "done"} /\ t.scanned /\ t.watch # "none"
     /\ u \in unseen
     => t.hint \/ t.watch = "dead"

RunnerTypeOK ==
  /\ daemon \in {"down", "up", "stopping"}
  /\ task \in [Uuids -> [Goroutines -> Tasks \union {None}]]
  /\ workers \in [Uuids -> Goroutines \union {0}]
  /\ unseen \subseteq Uuids

DaemonInv == RunnerTypeOK /\ LeaseOK /\ WorkersKnown /\ FencesOK /\ HintOK
RunnerInv == SetupInv /\ DaemonInv

LEMMA RunnerInvInit == Init => RunnerInv
<1> SUFFICES ASSUME Init PROVE RunnerInv
  OBVIOUS
<1>1. SetupInv
  BY SetupInvInit DEF Init
<1>2. \A u \in Uuids, g \in Goroutines : task[u][g] = None
  BY DEF Init, NoTasks
<1>3. RunnerTypeOK
  BY DEF Init, NoTasks, NoWorkers, RunnerTypeOK
<1> QED  BY <1>1, <1>2, <1>3
     DEF Init, SetupInit, RunnerInv, DaemonInv, LeaseOK, WorkersKnown, FencesOK, HintOK, Alive,
         InCycle, Is

(***************************************************************************)
(* Commands                                                                *)
(***************************************************************************)

LEMMA CommandInv ==
  ASSUME RunnerInv, CommandStep, UNCHANGED daemonVars PROVE RunnerInv'
<1> USE DEF RunnerInv, DaemonInv
<1>1. SetupInv'
  BY CommandStepInv
<1>2. RunnerTypeOK' /\ WorkersKnown' /\ HintOK'
  BY DEF daemonVars, RunnerTypeOK, WorkersKnown, HintOK, Alive
<1>3. LeaseOK'
  BY CommandLease DEF daemonVars, LeaseOK, Alive
<1>4. FencesOK'
  <2> SUFFICES ASSUME NEW u \in Uuids, NEW g \in Goroutines, InCycle(u, g)
               PROVE  (u \in Registered /\ MarkerHolds(u))'
    BY DEF daemonVars, FencesOK, InCycle, Is
  <2>1. u \in Registered /\ MarkerHolds(u)
    BY DEF FencesOK
  <2>2. removal = None
    BY DEF InCycle, Is, LeaseOK, Alive, SetupInv, RemovalOK
  <2>3. rows'[u] # None /\ rows'[u].dir = rows[u].dir
    BY <2>1, <2>2, CommandRowsStayPut DEF RowsStayPut
  <2> QED  BY <2>1, <2>2, <2>3, CommandFenced DEF FencedStep, Registered, MarkerHolds
<1> QED  BY <1>1, <1>2, <1>3, <1>4

(***************************************************************************)
(* The process                                                             *)
(***************************************************************************)

\* The daemon is down: nothing runs.
LEMMA DownInv ==
  ASSUME RunnerInv, daemon # "down", daemon' = "down", lease' = "free", task' = NoTasks,
         workers' = NoWorkers, UNCHANGED <<rows, queued, writer, marker, adding, removal, unseen>>
  PROVE  RunnerInv'
<1> USE DEF RunnerInv, DaemonInv
<1>1. \A u \in Uuids, g \in Goroutines : task'[u][g] = None
  BY DEF NoTasks
<1>2. RunnerTypeOK'
  BY DEF RunnerTypeOK, NoTasks, NoWorkers
<1>3. SetupInv'
  BY DEF SetupInv, SetupTypeOK, ReservationOK, Reserving, RowsFresh, RemovalOK, RootsDisjoint,
         Registered, LeaseOK
<1> QED  BY <1>1, <1>2, <1>3 DEF LeaseOK, WorkersKnown, FencesOK, HintOK, Alive, InCycle, Is

LEMMA StartInv == ASSUME RunnerInv, StartDaemon PROVE RunnerInv'
<1> USE DEF RunnerInv, DaemonInv
<1>1. SetupInv'
  BY DEF StartDaemon, SetupInv, SetupTypeOK, ReservationOK, Reserving, RowsFresh, RemovalOK,
         RootsDisjoint, Registered
<1> QED  BY <1>1
     DEF StartDaemon, RunnerTypeOK, LeaseOK, WorkersKnown, FencesOK, HintOK, Alive, InCycle, Is,
         Registered, MarkerHolds

\* The rows, marker files and reservations stay as they are.
LEMMA SetupUntouched == ASSUME SetupInv, UNCHANGED setupVars PROVE SetupInv'
BY DEF setupVars, SetupInv, SetupTypeOK, ReservationOK, Reserving, RowsFresh, RemovalOK,
       RootsDisjoint, Registered

\* Goroutine t is s, canceled or not.
SameButCanceled(t, s) ==
  s # None /\ t.stage = s.stage /\ t.scanned = s.scanned /\ t.watch = s.watch /\ t.hint = s.hint

\* Goroutines go on, canceled or not, or end, and new ones start.
LEMMA CancelingInv ==
  ASSUME RunnerInv, UNCHANGED <<setupVars, unseen>>, daemon # "down", daemon' # "down",
         RunnerTypeOK', WorkersKnown',
         \A u \in Uuids, g \in Goroutines :
           task'[u][g] \in {NewTask, None} \/ SameButCanceled(task'[u][g], task[u][g])
  PROVE  RunnerInv'
<1> USE DEF RunnerInv, DaemonInv
<1>1. SetupInv'
  BY SetupUntouched
<1>2. LeaseOK'
  BY DEF LeaseOK, setupVars
<1>3. ASSUME NEW u \in Uuids, NEW g \in Goroutines
      PROVE  FencesOK!(u, g)' /\ HintOK!(u, g)'
  <2>1. CASE task'[u][g] \in {NewTask, None}
    BY <2>1 DEF NewTask, InCycle, Is
  <2>2. CASE SameButCanceled(task'[u][g], task[u][g])
    BY <2>2
       DEF SameButCanceled, FencesOK, HintOK, InCycle, Is, setupVars, Registered, MarkerHolds
  <2> QED  BY <2>1, <2>2
<1> QED  BY <1>1, <1>2, <1>3 DEF FencesOK, HintOK

LEMMA StopInv == ASSUME RunnerInv, StopDaemon PROVE RunnerInv'
<1> USE DEF RunnerInv, DaemonInv
<1>1. ASSUME NEW u \in Uuids, NEW g \in Goroutines
      PROVE  /\ task'[u][g] \in Tasks \union {None}
             /\ Alive(u, g)' <=> Alive(u, g)
             /\ task'[u][g] = None \/ SameButCanceled(task'[u][g], task[u][g])
  <2>1. task'[u][g] = IF task[u][g] = None THEN None ELSE [task[u][g] EXCEPT !.canceled = TRUE]
    BY DEF StopDaemon
  <2>2. CASE task[u][g] = None
    BY <2>1, <2>2 DEF Alive
  <2>3. CASE task[u][g] # None
    <3>1. task[u][g] \in Tasks
      BY <2>3 DEF RunnerTypeOK
    <3>2. task'[u][g] \in Tasks
      BY <2>1, <2>3, <3>1 DEF Tasks
    <3>3. SameButCanceled(task'[u][g], task[u][g])
      BY <2>1, <2>3, <3>1 DEF Tasks, SameButCanceled
    <3> QED  BY <2>3, <3>2, <3>3, NoTaskAssumption DEF Alive, SameButCanceled
  <2> QED  BY <2>2, <2>3
<1>2. RunnerTypeOK'
  <2>1. task' \in [Uuids -> [Goroutines -> Tasks \union {None}]]
    BY <1>1 DEF StopDaemon
  <2> QED  BY <2>1 DEF StopDaemon, RunnerTypeOK
<1>3. WorkersKnown'
  BY <1>1 DEF StopDaemon, WorkersKnown
<1> QED  BY <1>1, <1>2, <1>3, CancelingInv DEF StopDaemon

LEMMA RefreshInv == ASSUME RunnerInv, Refresh PROVE RunnerInv'
<1> USE DEF RunnerInv, DaemonInv
<1> DEFINE kept == {u \in Uuids : workers[u] # 0 /\ ~Reaped(u)}
           started == {u \in Uuids : Enabled(u) /\ u \notin kept}
           free(u) == CHOOSE g \in Goroutines : ~Alive(u, g)
           new(u, g) == u \in started /\ g = free(u)
<1>1. \A u \in started : /\ \A g \in Goroutines : ~Alive(u, g)
                         /\ free(u) \in Goroutines
  <2> SUFFICES ASSUME NEW u \in started PROVE \A g \in Goroutines : ~Alive(u, g)
    BY DEF Goroutines
  <2> QED  BY DEF Reaped, WorkersKnown, Goroutines
<1>2. /\ workers' = [u \in Uuids |-> IF u \in started THEN free(u)
                                     ELSE IF u \in kept THEN workers[u] ELSE 0]
      /\ UNCHANGED <<setupVars, daemon, unseen>> /\ daemon = "up"
  BY DEF Refresh
<1>3. \A u \in Uuids, g \in Goroutines : \E c \in BOOLEAN :
        task'[u][g] = IF new(u, g) THEN NewTask
                      ELSE IF ~Alive(u, g) THEN None
                      ELSE [task[u][g] EXCEPT !.canceled = c]
  <2> SUFFICES ASSUME NEW u \in Uuids, NEW g \in Goroutines
               PROVE <1>3!(u, g)
    OBVIOUS
  <2> DEFINE c == task[u][g].canceled \/ (u \in kept /\ g = workers[u] /\ ~Enabled(u))
  <2>1. task'[u][g] = IF new(u, g) THEN NewTask
                      ELSE IF ~Alive(u, g) THEN None
                      ELSE [task[u][g] EXCEPT !.canceled = c]
    BY DEF Refresh
  <2>2. c \in BOOLEAN
    OBVIOUS
  <2> HIDE DEF c, kept, started, free
  <2> QED  BY <2>1, <2>2
<1> HIDE DEF kept, started, free
<1>4. ASSUME NEW u \in Uuids, NEW g \in Goroutines
      PROVE  /\ task'[u][g] \in Tasks \union {None}
             /\ task'[u][g] \in {NewTask, None} \/ SameButCanceled(task'[u][g], task[u][g])
             /\ Alive(u, g)' => new(u, g) \/ Alive(u, g)
  <2>1. CASE new(u, g) \/ ~Alive(u, g)
    <3>1. task'[u][g] \in {NewTask, None} /\ (~new(u, g) => task'[u][g] = None)
      BY <1>3, <2>1
    <3>2. NewTask \in Tasks
      BY DEF NewTask, Tasks
    <3> QED  BY <3>1, <3>2 DEF Alive
  <2>2. CASE ~new(u, g) /\ Alive(u, g)
    <3>1. task[u][g] \in Tasks /\ task[u][g] # None
      BY <2>2 DEF RunnerTypeOK, Alive
    <3>2. PICK c \in BOOLEAN : task'[u][g] = [task[u][g] EXCEPT !.canceled = c]
      BY <1>3, <2>2
    <3> QED  BY <2>2, <3>1, <3>2 DEF Tasks, SameButCanceled
  <2> QED  BY <2>1, <2>2
<1>5. task' \in [Uuids -> [Goroutines -> Tasks \union {None}]]
  BY <1>4 DEF Refresh
<1>6. RunnerTypeOK'
  BY <1>1, <1>2, <1>5 DEF RunnerTypeOK
<1>7. WorkersKnown'
  <2> SUFFICES ASSUME NEW u \in Uuids, NEW g \in Goroutines, Alive(u, g)'
               PROVE  workers'[u] = g
    BY DEF WorkersKnown
  <2>1. CASE u \in started
    BY <1>1, <1>2, <1>4, <2>1
  <2>2. CASE u \notin started
    <3>1. Alive(u, g) /\ workers[u] = g
      BY <1>4, <2>2 DEF WorkersKnown
    <3>2. u \in kept
      BY <3>1 DEF kept, Reaped, Goroutines
    <3> QED  BY <1>2, <2>2, <3>1, <3>2
  <2> QED  BY <2>1, <2>2
<1> QED  BY <1>2, <1>4, <1>6, <1>7, CancelingInv

LEMMA DaemonStepInv == ASSUME RunnerInv, DaemonStep PROVE RunnerInv'
BY StartInv, RefreshInv, StopInv, DownInv DEF DaemonStep, ReleaseLease, DaemonDies

(***************************************************************************)
(* The workers                                                             *)
(***************************************************************************)

\* What FencesOK and HintOK ask of goroutine t of root u after the step.
TaskOK(t, u) ==
  /\ t.stage \in {"scan", "run"} => u \in Registered /\ MarkerHolds(u)
  /\ t.stage \notin {"look", "done"} /\ t.scanned /\ t.watch # "none" /\ u \in unseen'
       => t.hint \/ t.watch = "dead"

\* One goroutine moves on.
LEMMA TaskUpdate ==
  ASSUME RunnerInv, NEW u \in Uuids, NEW g \in Goroutines, Alive(u, g), NEW t \in Tasks,
         Become(u, g, t), TaskOK(t, u), UNCHANGED <<setupVars, daemon, workers>>,
         unseen' \subseteq unseen
  PROVE  RunnerInv'
<1> USE DEF RunnerInv, DaemonInv
<1>1. /\ task' \in [Uuids -> [Goroutines -> Tasks \union {None}]]
      /\ task'[u][g] = t
      /\ \A v \in Uuids, h \in Goroutines : v # u \/ h # g => task'[v][h] = task[v][h]
  BY DEF Become, RunnerTypeOK
<1>2. SetupInv'
  BY SetupUntouched
<1>3. RunnerTypeOK'
  BY <1>1 DEF RunnerTypeOK
<1>4. LeaseOK'
  BY <1>1 DEF LeaseOK, Alive, setupVars
<1>5. WorkersKnown'
  BY <1>1 DEF WorkersKnown, Alive
<1>6. FencesOK'
  BY <1>1 DEF FencesOK, InCycle, Is, TaskOK, setupVars, Registered, MarkerHolds
<1>7. HintOK'
  <2> SUFFICES ASSUME NEW v \in Uuids, NEW h \in Goroutines PROVE HintOK!(v, h)'
    BY DEF HintOK
  <2>1. CASE v = u /\ h = g
    BY <1>1, <2>1 DEF TaskOK
  <2>2. CASE v # u \/ h # g
    BY <1>1, <2>2 DEF HintOK
  <2> QED  BY <2>1, <2>2
<1> QED  BY <1>2, <1>3, <1>4, <1>5, <1>6, <1>7

\* A goroutine that is not new is well typed, and what a changed field makes
\* of it is, too.
LEMMA TaskTypes ==
  ASSUME RunnerInv, NEW u \in Uuids, NEW g \in Goroutines, task[u][g] # None
  PROVE  task[u][g] \in Tasks
BY DEF RunnerInv, DaemonInv, RunnerTypeOK

LEMMA LookInv ==
  ASSUME RunnerInv, NEW u \in Uuids, NEW g \in Goroutines,
         LookFails(u, g) \/ LookPaused(u, g) \/ LookEnabled(u, g)
  PROVE  RunnerInv'
<1> DEFINE s == task[u][g]
<1>1. Alive(u, g) /\ s \in Tasks
  BY TaskTypes DEF LookFails, LookPaused, LookEnabled, Is, Alive
<1>2. UNCHANGED <<setupVars, daemon, workers, unseen>>
  BY DEF LookFails, LookPaused, LookEnabled
<1>3. \E t \in Tasks : Become(u, g, t) /\ t.stage \in {"wait", "enter"} /\ ~t.scanned
  <2>1. CASE LookFails(u, g)
    <3> DEFINE t == [Rest(s) EXCEPT !.scanned = FALSE]
    <3>1. Become(u, g, t)
      BY <2>1 DEF LookFails
    <3>2. t \in Tasks /\ t.stage = "wait" /\ ~t.scanned
      BY <1>1 DEF Tasks, Rest
    <3> HIDE DEF t
    <3> QED  BY <3>1, <3>2
  <2>2. CASE LookPaused(u, g)
    <3> DEFINE t == [Rest(s) EXCEPT !.lastEnabled = FALSE, !.scanned = FALSE]
    <3>1. Become(u, g, t)
      BY <2>2 DEF LookPaused
    <3>2. t \in Tasks /\ t.stage = "wait" /\ ~t.scanned
      BY <1>1 DEF Tasks, Rest
    <3> HIDE DEF t
    <3> QED  BY <3>1, <3>2
  <2>3. CASE LookEnabled(u, g)
    <3> DEFINE looked == [s EXCEPT !.lastEnabled = TRUE, !.scanned = FALSE]
               executor == IF looked.executor = None THEN rows[u].mode ELSE looked.executor
               entering(watch) == [looked EXCEPT !.stage = "enter", !.executor = executor,
                                                 !.watch = watch]
    <3>1. looked \in Tasks /\ looked.watch = s.watch /\ ~looked.scanned
          /\ executor \in SymlinkModes \union {None}
      BY <1>1, <2>3, SetupTypes
         DEF Tasks, LookEnabled, Enabled, Rows, RunnerInv, SetupInv
    <3>2. PICK watch \in IF s.watch = "none" THEN {"none", "open"} ELSE {s.watch} :
            Become(u, g, entering(watch)) \/ Become(u, g, Rest(looked))
      BY <2>3 DEF LookEnabled
    <3>3. watch \in {"none", "open", "dead"}
      BY <1>1, <3>2 DEF Tasks
    <3>4. entering(watch) \in Tasks /\ entering(watch).stage = "enter"
          /\ ~entering(watch).scanned
      <4> HIDE DEF looked, executor
      <4> QED  BY <3>1, <3>3 DEF Tasks
    <3>5. Rest(looked) \in Tasks /\ Rest(looked).stage = "wait" /\ ~Rest(looked).scanned
      <4> HIDE DEF looked
      <4> QED  BY <3>1 DEF Tasks, Rest
    <3> HIDE DEF entering, looked
    <3> QED  BY <3>2, <3>4, <3>5
  <2> QED  BY <2>1, <2>2, <2>3
<1>4. PICK t \in Tasks : Become(u, g, t) /\ t.stage \in {"wait", "enter"} /\ ~t.scanned
  BY <1>3
<1>5. TaskOK(t, u)
  BY <1>4 DEF TaskOK
<1> QED  BY <1>1, <1>2, <1>4, <1>5, TaskUpdate

\* The goroutine waits, looks at its row again, or ends.
LEMMA MoveInv ==
  ASSUME RunnerInv, NEW u \in Uuids, NEW g \in Goroutines, Alive(u, g),
         NEW stage \in {"look", "wait", "done"},
         stage = "wait" => ~Is(u, g, "look"),
         Become(u, g, [task[u][g] EXCEPT !.stage = stage]),
         UNCHANGED <<setupVars, daemon, workers, unseen>>
  PROVE  RunnerInv'
<1> DEFINE s == task[u][g]
           t == [s EXCEPT !.stage = stage]
<1>1. s \in Tasks /\ s # None /\ s.stage # "done"
  BY TaskTypes DEF Alive
<1>2. t \in Tasks /\ t.stage = stage /\ t.scanned = s.scanned /\ t.watch = s.watch
      /\ t.hint = s.hint
  BY <1>1 DEF Tasks
<1>3. HintOK!(u, g)
  BY DEF RunnerInv, DaemonInv, HintOK
<1> HIDE DEF t
<1>4. TaskOK(t, u)
  BY <1>1, <1>2, <1>3 DEF TaskOK, Is
<1> QED  BY <1>2, <1>4, TaskUpdate DEF t

LEMMA CycleInv ==
  ASSUME RunnerInv, NEW u \in Uuids, NEW g \in Goroutines, CycleStep(u, g)
  PROVE  RunnerInv'
<1> DEFINE s == task[u][g]
<1>1. Alive(u, g) /\ s \in Tasks /\ s # None /\ ~Is(u, g, "look")
  BY TaskTypes
     DEF CycleStep, BeginPass, Scan, EndCycle, JournalOperation, CompleteOperation, Is, Alive
<1>2. HintOK!(u, g) /\ FencesOK!(u, g)
  BY DEF RunnerInv, DaemonInv, HintOK, FencesOK
<1>3. CASE BeginPass(u, g)
  <2>1. CASE Enabled(u) /\ MarkerHolds(u)
    <3> DEFINE t == [s EXCEPT !.stage = "scan"]
    <3>1. t \in Tasks /\ t.stage = "scan" /\ t.scanned = s.scanned /\ t.watch = s.watch
          /\ t.hint = s.hint
      BY <1>1 DEF Tasks
    <3>2. Become(u, g, t) /\ UNCHANGED <<setupVars, daemon, workers, unseen>>
          /\ s.stage \notin {"look", "done"}
      BY <1>3, <2>1 DEF BeginPass, Is
    <3> HIDE DEF t
    <3>3. TaskOK(t, u)
      BY <1>1, <1>2, <2>1, <3>1, <3>2 DEF TaskOK, Enabled
    <3> QED  BY <1>1, <3>1, <3>2, <3>3, TaskUpdate
  <2>2. CASE ~(Enabled(u) /\ MarkerHolds(u))
    BY <1>1, <1>3, <2>2, MoveInv DEF BeginPass, Rest
  <2> QED  BY <2>1, <2>2
<1>4. CASE Scan(u, g)
  <2> DEFINE t == [s EXCEPT !.stage = "run", !.scanned = TRUE]
  <2>1. t \in Tasks /\ t.stage = "run"
    BY <1>1 DEF Tasks
  <2>2. /\ Become(u, g, t) /\ UNCHANGED <<setupVars, daemon, workers>>
        /\ unseen' = unseen \ {u} /\ Is(u, g, "scan")
    BY <1>4 DEF Scan
  <2> HIDE DEF t
  <2>3. TaskOK(t, u)
    BY <1>2, <2>1, <2>2 DEF TaskOK, InCycle
  <2> QED  BY <1>1, <2>1, <2>2, <2>3, TaskUpdate
<1>5. CASE EndCycle(u, g)
  BY <1>1, <1>5, MoveInv DEF EndCycle, Rest
<1>6. CASE JournalOperation(u, g) \/ CompleteOperation(u, g)
  <2>1. /\ UNCHANGED daemonVars /\ UNCHANGED <<rows, writer, marker, adding, removal, lease>>
        /\ queued' \subseteq Registered
    BY <1>6 DEF JournalOperation, CompleteOperation, CreateOperation, RunnerInv, SetupInv,
                SetupTypeOK
  <2>2. SetupInv'
    BY <2>1, QueueUpdate DEF RunnerInv
  <2> QED  BY <2>1, <2>2
       DEF RunnerInv, DaemonInv, daemonVars, RunnerTypeOK, LeaseOK, WorkersKnown, FencesOK,
           HintOK, Alive, InCycle, Is, Registered, MarkerHolds
<1> QED  BY <1>3, <1>4, <1>5, <1>6 DEF CycleStep

LEMMA WakeInv ==
  ASSUME RunnerInv, NEW u \in Uuids, NEW g \in Goroutines, WakeStep(u, g)
  PROVE  RunnerInv'
<1> DEFINE s == task[u][g]
<1>1. Alive(u, g) /\ s \in Tasks /\ s # None /\ s.stage = "wait"
  BY TaskTypes DEF WakeStep, Poll, Health, TakeHint, WatchDone, Is, Alive
<1>2. HintOK!(u, g)
  BY DEF RunnerInv, DaemonInv, HintOK
<1>3. UNCHANGED <<setupVars, daemon, workers, unseen>>
  BY DEF WakeStep, Poll, Health, TakeHint, WatchDone
<1>4. \E t \in Tasks : /\ Become(u, g, t)
                       /\ \/ t.stage = "look"
                          \/ t.stage = "wait" /\ t.scanned = s.scanned /\ t.watch = s.watch
                             /\ t.hint = s.hint
  <2>1. CASE Poll(u, g)
    <3> DEFINE t == [s EXCEPT !.stage = "look"]
    <3>1. Become(u, g, t) /\ t \in Tasks /\ t.stage = "look"
      BY <1>1, <2>1 DEF Poll, Tasks
    <3> HIDE DEF t
    <3> QED  BY <3>1
  <2>2. CASE Health(u, g)
    <3>1. PICK stage \in {"look", "wait"} :
            Become(u, g, [s EXCEPT !.lastEnabled = Enabled(u), !.stage = stage])
      BY <2>2 DEF Health
    <3> DEFINE t == [s EXCEPT !.lastEnabled = Enabled(u), !.stage = stage]
    <3>2. Enabled(u) \in BOOLEAN
      BY SetupTypes DEF Enabled, RunnerInv, SetupInv, Rows
    <3>3. t \in Tasks /\ t.stage = stage /\ t.scanned = s.scanned /\ t.watch = s.watch
          /\ t.hint = s.hint
      BY <1>1, <3>2 DEF Tasks
    <3> HIDE DEF t
    <3> QED  BY <3>1, <3>3 DEF t
  <2>3. CASE TakeHint(u, g)
    <3> DEFINE t == [s EXCEPT !.hint = FALSE, !.stage = "look"]
    <3>1. Become(u, g, t) /\ t \in Tasks /\ t.stage = "look"
      BY <1>1, <2>3 DEF TakeHint, Tasks
    <3> HIDE DEF t
    <3> QED  BY <3>1
  <2>4. CASE WatchDone(u, g)
    <3> DEFINE t == [s EXCEPT !.watch = "none", !.hint = FALSE, !.stage = "look"]
    <3>1. Become(u, g, t) /\ t \in Tasks /\ t.stage = "look"
      BY <1>1, <2>4 DEF WatchDone, Tasks
    <3> HIDE DEF t
    <3> QED  BY <3>1
  <2> QED  BY <2>1, <2>2, <2>3, <2>4 DEF WakeStep
<1>5. PICK t \in Tasks : /\ Become(u, g, t)
                         /\ \/ t.stage = "look"
                            \/ t.stage = "wait" /\ t.scanned = s.scanned /\ t.watch = s.watch
                               /\ t.hint = s.hint
  BY <1>4
<1>6. TaskOK(t, u)
  BY <1>1, <1>2, <1>3, <1>5 DEF TaskOK
<1> QED  BY <1>1, <1>3, <1>5, <1>6, TaskUpdate

LEMMA WatcherDiesInv ==
  ASSUME RunnerInv, NEW u \in Uuids, NEW g \in Goroutines, WatcherDies(u, g)
  PROVE  RunnerInv'
<1> DEFINE s == task[u][g]
           t == [s EXCEPT !.watch = "dead"]
<1>1. Alive(u, g) /\ s \in Tasks /\ s # None
  BY TaskTypes DEF WatcherDies, Alive
<1>2. t \in Tasks /\ t.stage = s.stage /\ t.watch = "dead"
  BY <1>1 DEF Tasks
<1>3. Become(u, g, t) /\ UNCHANGED <<setupVars, daemon, workers, unseen>>
  BY DEF WatcherDies
<1> HIDE DEF t
<1>4. TaskOK(t, u)
  BY <1>1, <1>2 DEF TaskOK, RunnerInv, DaemonInv, FencesOK, InCycle, Is
<1> QED  BY <1>1, <1>2, <1>3, <1>4, TaskUpdate

LEMMA TaskStepInv ==
  ASSUME RunnerInv, NEW u \in Uuids, NEW g \in Goroutines, TaskStep(u, g)
  PROVE  RunnerInv'
<1>1. CASE Exit(u, g)
  BY <1>1, MoveInv DEF Exit, Is, Alive
<1> QED  BY <1>1, LookInv, CycleInv, WakeInv, WatcherDiesInv DEF TaskStep

\* The signal reaches every goroutine of the root whose watcher is open.
LEMMA LocalChangeInv ==
  ASSUME RunnerInv, NEW u \in Uuids, LocalChange(u) PROVE RunnerInv'
<1> USE DEF RunnerInv, DaemonInv
<1>1. ASSUME NEW v \in Uuids, NEW g \in Goroutines
      PROVE  /\ task'[v][g] \in Tasks \union {None}
             /\ task'[v][g] = None <=> task[v][g] = None
             /\ task[v][g] # None =>
                  /\ task'[v][g].stage = task[v][g].stage
                  /\ task'[v][g].watch = task[v][g].watch
                  /\ task'[v][g].scanned = task[v][g].scanned
                  /\ task[v][g].hint => task'[v][g].hint
                  /\ v = u /\ task[v][g].watch = "open" /\ task[v][g].stage # "done"
                       => task'[v][g].hint
  <2> DEFINE s == task[v][g]
  <2>1. task'[v][g] = IF v = u THEN Signaled(s) ELSE s
    BY DEF LocalChange, RunnerTypeOK
  <2>2. s \in Tasks \union {None}
    BY DEF RunnerTypeOK
  <2>3. CASE s \in Tasks
    <3>1. s # None
      BY <2>3, NoTaskAssumption
    <3> HIDE DEF s
    <3>2. Signaled(s) \in Tasks /\ Signaled(s).stage = s.stage /\ Signaled(s).watch = s.watch
          /\ Signaled(s).scanned = s.scanned /\ (s.hint => Signaled(s).hint)
          /\ (s.watch = "open" /\ s.stage # "done" => Signaled(s).hint)
      BY <2>3, <3>1 DEF Signaled, Tasks
    <3>3. Signaled(s) # None
      BY <3>2, NoTaskAssumption
    <3> QED  BY <2>1, <2>3, <3>1, <3>2, <3>3 DEF s
  <2>4. CASE s = None
    BY <2>1, <2>4 DEF Signaled
  <2> QED  BY <2>2, <2>3, <2>4
<1>2. RunnerTypeOK'
  <2>1. DOMAIN task' = Uuids /\ \A v \in Uuids : task'[v] \in [Goroutines -> Tasks \union {None}]
    <3> SUFFICES ASSUME NEW v \in Uuids
                 PROVE  task'[v] \in [Goroutines -> Tasks \union {None}]
      BY DEF LocalChange, RunnerTypeOK
    <3>1. task'[v] = IF v = u THEN [g \in Goroutines |-> Signaled(task[u][g])] ELSE task[v]
      BY DEF LocalChange, RunnerTypeOK
    <3>2. task'[v] = [g \in Goroutines |-> task'[v][g]]
      BY <3>1 DEF RunnerTypeOK
    <3> QED  BY <1>1, <3>2
  <2>2. task' = [v \in Uuids |-> task'[v]]
    BY DEF LocalChange, RunnerTypeOK
  <2> QED  BY <2>1, <2>2 DEF LocalChange, RunnerTypeOK
<1>3. SetupInv'
  BY SetupUntouched DEF LocalChange
<1>4. \A v \in Uuids, g \in Goroutines : Alive(v, g)' <=> Alive(v, g)
  BY <1>1 DEF Alive
<1>5. LeaseOK' /\ WorkersKnown'
  BY <1>4 DEF LocalChange, LeaseOK, WorkersKnown, setupVars
<1>6. FencesOK'
  BY <1>1 DEF LocalChange, FencesOK, InCycle, Is, setupVars, Registered, MarkerHolds
<1>7. HintOK'
  <2> SUFFICES ASSUME NEW v \in Uuids, NEW g \in Goroutines PROVE HintOK!(v, g)'
    BY DEF HintOK
  <2>1. HintOK!(v, g) /\ task[v][g] \in Tasks \union {None}
    BY DEF HintOK, RunnerTypeOK
  <2> QED  BY <1>1, <2>1 DEF LocalChange, Tasks
<1> QED  BY <1>2, <1>3, <1>5, <1>6, <1>7

\* Every step, and every stuttering step, keeps the invariant.
LEMMA RunnerInvStep == RunnerInv /\ [Next]_vars => RunnerInv'
<1> SUFFICES ASSUME RunnerInv, [Next]_vars PROVE RunnerInv'
  OBVIOUS
<1>1. CASE UNCHANGED vars
  <2>1. UNCHANGED setupVars /\ UNCHANGED daemonVars
    BY <1>1 DEF vars, setupVars, daemonVars
  <2> QED  BY <2>1, SetupUntouched
       DEF RunnerInv, DaemonInv, RunnerTypeOK, LeaseOK, WorkersKnown, FencesOK, HintOK, Alive,
           InCycle, Is, Registered, MarkerHolds, setupVars, daemonVars
<1> QED  BY <1>1, CommandInv, DaemonStepInv, TaskStepInv, LocalChangeInv DEF Next

(***************************************************************************)
(* The theorems                                                            *)
(***************************************************************************)

LEMMA RunnerInvariant == Spec => []RunnerInv
BY RunnerInvInit, RunnerInvStep, PTL DEF Spec

\* Whatever commands and daemons run, die and race, the tables, the marker
\* files and the goroutines keep their types.
THEOREM RunnerTypeCorrect == Spec => []TypeOK
<1>1. RunnerInv => TypeOK
  BY DEF RunnerInv, SetupInv, DaemonInv, RunnerTypeOK, TypeOK
<1> QED  BY <1>1, RunnerInvariant, PTL

\* However many `root add` commands race, no registered root ever contains
\* another one.
THEOREM RootsStayDisjoint == Spec => []RootsDisjoint
<1>1. RunnerInv => RootsDisjoint
  BY DEF RunnerInv, SetupInv
<1> QED  BY <1>1, RunnerInvariant, PTL

\* A canceled worker that has not unwound keeps its root from getting a
\* second one, however the root is paused, resumed, removed and added.
THEOREM WorkersAreUnique == Spec => []OneWorker
<1>1. RunnerInv => OneWorker
  BY DEF RunnerInv, DaemonInv, WorkersKnown, OneWorker
<1> QED  BY <1>1, RunnerInvariant, PTL

\* A cycle past its checks keeps its row, its marker and the lease until it is
\* over: no command takes them away from it.
THEOREM CyclesAreFenced == Spec => []CycleFenced
<1>1. RunnerInv => CycleFenced
  BY DEF RunnerInv, DaemonInv, FencesOK, InCycle, LeaseOK, Alive, Is, CycleFenced
<1> QED  BY <1>1, RunnerInvariant, PTL

\* A change after the scan reaches a worker that has a watcher, at whatever
\* point of its loop it is signaled.
THEOREM HintsAreKept == Spec => []NoLostHint
<1>1. RunnerInv => NoLostHint
  BY DEF RunnerInv, DaemonInv, HintOK, NoLostHint, Is
<1> QED  BY <1>1, RunnerInvariant, PTL

\* The daemon's steps leave rows and marker files alone.
LEMMA StepsKeepFences == RunnerInv /\ [Next]_vars => FencedStep /\ KeepingStep
<1> SUFFICES ASSUME RunnerInv, [Next]_vars PROVE FencedStep /\ KeepingStep
  OBVIOUS
<1>1. CASE CommandStep
  BY <1>1, CommandFenced, CommandKeepsWork DEF RunnerInv
<1>2. CASE UNCHANGED <<rows, marker>>
  BY <1>2 DEF FencedStep, KeepingStep, MarkerHolds
<1>3. ASSUME DaemonStep PROVE UNCHANGED <<rows, marker>>
  BY <1>3 DEF DaemonStep, StartDaemon, Refresh, StopDaemon, ReleaseLease, DaemonDies, setupVars
<1>4. ASSUME NEW u \in Uuids, NEW g \in Goroutines, TaskStep(u, g)
      PROVE  UNCHANGED <<rows, marker>>
  BY <1>4 DEF TaskStep, Exit, LookFails, LookPaused, LookEnabled, CycleStep, BeginPass, Scan,
     EndCycle, JournalOperation, CompleteOperation, CreateOperation, WakeStep, Poll, Health,
     TakeHint, WatchDone, WatcherDies, setupVars
<1>5. ASSUME NEW u \in Uuids, LocalChange(u) PROVE UNCHANGED <<rows, marker>>
  BY <1>5 DEF LocalChange, setupVars
<1>6. ASSUME UNCHANGED vars PROVE UNCHANGED <<rows, marker>>
  BY <1>6 DEF vars
<1> QED  BY <1>1, <1>2, <1>3, <1>4, <1>5, <1>6 DEF Next

\* A row never comes into being without its marker, and no step but the root's
\* own removal takes the marker away.
THEOREM MarkersFence == Spec => MarkerFences
<1>1. RunnerInv /\ [Next]_vars => [FencedStep]_setupVars
  BY StepsKeepFences
<1> QED  BY <1>1, RunnerInvariant, PTL DEF Spec, MarkerFences, FencedStep

\* A row that goes is that of a paused root with nothing left to do, whatever
\* happened between the removal's checks and its DELETE.
THEOREM RemovalsKeepWork == Spec => RemovalKeepsWork
<1>1. RunnerInv /\ [Next]_vars => [KeepingStep]_setupVars
  BY StepsKeepFences
<1> QED  BY <1>1, RunnerInvariant, PTL DEF Spec, RemovalKeepsWork, KeepingStep
=============================================================================
