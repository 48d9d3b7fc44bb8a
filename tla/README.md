# A TLA+ model of pkudisk-sync

pkudisk-sync keeps local directories and directories of the PKU drive in step, in
both directions, from a per-user daemon and a command-line interface that share one
SQLite database. This directory models its sync engine and its daemon in TLA+, checks
the models with TLC and proves all of their safety properties with TLAPS.

    tlc -workers 2 -config MCCycleCrash.cfg MCSyncCycle     one of the runs below
    tlapm SyncCycle_proofs.tla                              one of the eight proof modules

Source paths below are relative to the repository. `PROJECT.json` maps every
definition to the lines it models, and lists the runs, hazards, findings and theorems.

## 1. The system

### Components

| component | state it keeps | operations | model |
|---|---|---|---|
| Planner `internal/reconcile` | none (pure) | `PlanInitial`, `PlanThreeWay`, `PlanFullSnapshot`, mass-delete gate | `Planner`, `Reconcile` |
| Coordinator `internal/syncer` | none between cycles; a snapshot and a plan during one | `RunRoot`: recovery, up to eight passes, conflict and baseline records, dispatch, completion | `SyncCycle`; `Tree` (order of a pass), `LinkAuthority` (claims and pins of a cycle) |
| Journal and entry store `internal/store` | `operations`, `entry_baselines`, `conflicts`, `sync_roots.initialized` | transactions: create, set phase and pin, commit, discard, record | `OperationJournal`, `SyncCycle`, `SyncCycleJournal` |
| Guarded data plane `internal/executor` | user files, recovery and download slots beside the target, remote objects | upload, download, preserve, validate, install, restore, drop, delete, cleanup | `SyncCycle` (files), `Tree` (directories), `LinkAuthority` (targets behind links) |
| Scanner `internal/executor/scan.go` | none | complete local and remote snapshots; artifact ownership; links | `SyncCycle`, `Tree`, `LinkAuthority` |
| Conflict and operation commands `internal/cli` | none | `conflict resolve`, `operation resolve`, `root pause`, `root resume` | `SyncCycle` |
| Daemon scheduler `internal/daemon/runner.go` | map of workers; one goroutine per root with executor, watcher, tickers | refresh, cancel, wake, cycle, stop | `Runner` |
| Root lifecycle `internal/daemon/setup.go`, `internal/rootmarker`, `internal/store/roots.go` | `sync_roots` rows, marker files | `root add`, `config`, `remove` | `RootSetup`; `LinkAuthority` (overlap with claims and pins) |
| Daemon lock `internal/daemonlock` | per-user lease file | `Acquire`, `Close` | `RootSetup`, `Runner` |
| Watcher `internal/watcher` | watched directories, a one-slot hint channel | signal, refresh, close | `Runner` (hint only) |
| Followed and copied symlink authority `internal/store/followed_boundaries.go`, `internal/executor/local_path.go` | physical claims, copy pins, projection evidence | reserve, authorize and pin, initialize, arbitrate with `root add`, release | `LinkAuthority` |
| Namespace validation | none (pure) | name and case checks | not modelled |
| Schema migrations, `DecideRecovery`, remote configuration, user service, paths and build information | | | not modelled |

### How they interact

The daemon holds the lease and starts a worker per enabled root. A worker runs a *cycle*
when a poll tick (60 s), a health tick or a watcher hint asks for one. A cycle first
recovers the operations found in the journal, then makes passes: scan both sides, plan,
record conflicts and baselines, journal each external operation, execute it, observe
both sides, commit a new baseline with the removal of the journal row. The CLI is another
process. It does not talk to the daemon: it changes rows of the same database while the
daemon works, and only `root remove`, the service commands and `operation resolve` ask
for the lease. The user edits the local tree and other clients the remote one at any
moment. Rename and SQLite transactions are the only atomic things there are.

### What is hard, and what makes each component correct

* **Planner.** "Unchanged since the baseline" is a licence to overwrite or delete. A
  baseline must therefore never record two sides that differ (`BaselineAgrees`); a pass
  may lose only what was in sync (`PassLosesOnlySynced`); an interrupted pairing must copy
  entries back and delete nothing (`PairingOnlyAdds`); the mass-delete gate has zeros,
  fractions and boundaries (`MassDeleteBounded`); two files of one size need a look at
  their bytes before anything can be decided, and nothing may stay undecided
  (`OnePassSettles`).
* **Coordinator, journal, data plane.** The phases (`planned`, `running`, `recovering`,
  `blocked`) and the pin of the physical target must cover every crash, failed call and lost
  reply. What the daemon puts beside the user's files, moved-aside data and staged downloads,
  must have an owner and be gone before a pass (`NothingLeftBehind`), only known data may be
  destroyed (`OnlySyncedBytesDestroyed`, `OnlySyncedRemoteReplaced`), an effect must not happen
  twice (`DestroysOnce`), a file must not be overwritten in place (`LocalFileMovedAside`), a
  blocked operation must stop the root (`BlockedFreezes`), a cycle must end (`CycleAdvances`)
  and be right when it finds nothing to do (`QuietCycleSettles`), and the root must get
  somewhere (`Settles`). All of it has one abstract form, a journal that is written ahead of
  the effect and forgets nothing that did something (`JournalKept`).
* **Directories.** A directory is moved and deleted with everything in it, and what is in
  it may be newer than the scan: no file may go that the daemon was not told to remove
  (`ChildrenSurvive` here, `RemoteChildrenSurvive` on the drive), what is aside keeps its
  owner (`AsideOwned`), and the operations of a pass must come in an order that works
  (`OneSideSettles`).
* **Symlink authority.** Links, hard links and nested directories let two roots reach one
  file, and a link may be pointed elsewhere between any two looks at it. One owner per
  physical target (`ClaimsDisjoint`), no change inside another root (`MutationOwned`), no
  plan carried out on another target than the one it was made for
  (`MutatesWhatWasScanned`), and no new boundary for a paired root (`BoundariesFixed`).
* **Scheduler.** A canceled worker unwinds slowly while its root may already be enabled
  again (`OneWorker`); hints arrive when nobody listens (`NoLostHint`); roots disappear
  under a cycle (`CycleFenced`); a root that stays enabled must be served (`Attended`).
* **Root lifecycle.** A row and a marker file are kept together with no transaction across
  them, by processes that may be killed (`MarkerFences`, `RootsDisjoint`,
  `RemovalKeepsWork`).

The complete list, with the line where each one bites, is `hazards` in `PROJECT.json`.

## 2. Modules

| module | contents |
|---|---|
| `Planner` | The pure decisions, as operators over fingerprints. No state. |
| `Reconcile` | EXTENDS `Planner`. A root whose passes run undisturbed, between edits and resolutions; files and directories. The coarse view: what one pass as a whole may do. |
| `SyncCycle` | EXTENDS `Planner`. The same pass taken apart into observations, transactions and effects, interleaved with users, other clients, commands, failures and crashes. |
| `OperationJournal` | The abstract specification of the journal: how far each operation is, which ones keep user data aside, which ones are complete. |
| `SyncCycleJournal` | EXTENDS `SyncCycle`. The refinement mapping to `OperationJournal`. |
| `Tree` | EXTENDS `Planner`. A directory and its files: the same cycle with file operations as one step, and the directory operations taken apart. |
| `LinkAuthority` | Two roots, links into each other's directories, claims and pins, in cycles, commands and edits. |
| `RootSetup` | The rows, marker files and lease, and the commands that change them. |
| `Runner` | EXTENDS `RootSetup`. The daemon, its goroutines and the watcher's hint, composed with those commands. |
| `MCReconcile`, `MCSyncCycle`, `MCTree`, `MCLinkAuthority`, `MCRunner` | Constants of the instances that TLC checks, and symmetry. |
| `Planner_proofs` | EXTENDS `Planner`. Lemmas about one decision of the planner, and the loop around content comparisons. |
| `Reconcile_proofs` | EXTENDS `Reconcile`, `Planner_proofs`. All safety theorems about undisturbed passes. |
| `SyncCycle_proofs` | EXTENDS `SyncCycle`, `Planner_proofs`. Types, and who owns what is in a recovery slot. |
| `SyncCycleEffects_proofs` | EXTENDS `SyncCycle_proofs`. The order of operations, where objects are, effects happen once. |
| `SyncCyclePass_proofs` | EXTENDS `SyncCycleEffects_proofs`, `SyncCycleJournal`. What a pass decides, records and destroys, the refinement and what it promises, the end of a cycle, and that nothing is left behind. |
| `Tree_proofs` | EXTENDS `Tree`, `Planner_proofs`. Directories and what is in them. |
| `LinkAuthority_proofs` | EXTENDS `LinkAuthority`. Claims, pins and boundaries. |
| `Runner_proofs` | EXTENDS `Runner`. First what the commands of `RootSetup` keep, then the daemon under them. |

Actions carry the names of the functions they model where these have one. The main
correspondences:

* **`Planner`**: `PlanInitial`, `PlanThreeWay`, `PlanFullSnapshot` are the functions of
  `planner.go` and `root.go`, `ProposedDeletes` and `PlanBlocked` those of `safety.go`. A
  *version* stands for the bytes of a file with the size and modification time that come
  with them; `SizeOf` is the part both sides can compare. `Evidence` is what the caller
  found out by comparing content.
* **`SyncCycle`**, by value of `pc` (the worker's position in `cycle.go`):
  `idle`/`down` → `BeginCycle`, `Start`; recovery → `RecoverBlocked`, `RecoverPlanned`,
  `RecoverStarted`, then `Prove`, or `FetchPinned` and `ComparePinned` for a download (the
  two halves of `ComparePinnedFileContent`, which stages the remote file in the operation's
  own download slot and removes it again), `Cleanup`, `Commit`, `Retry`; a pass → `ScanLocal`,
  `PlanPass`, `RecordPath`, `DecidePass`, `Dispatch`; an operation → `Pin`, `CheckPlanned`,
  then `BeginRemote`, `Upload` / `RemoteDelete` for the remote side or `Download`,
  `BeginLocal`, `Preserve`, `Validate`, `Install` / `Restore` / `Drop` for the local one,
  then `Observe`, `Settle`, `Commit`. `CallFails` is an error before the effect of
  the next call; where the effect may happen and its reply be lost, the action itself
  has that outcome. `Crash` also stands for a stop of the daemon. `SetEnabled`,
  `CheckResolve` and `QueueResolve` (two transactions, as in the code), `ResolveRetry` and
  `ResolveRestore` are the commands.
  The journal, `baseline`, `conflicts`, `initialized` and `enabled` are database rows;
  `slot[o]` and `temp[o]` are the recovery and staging files that carry the ID of
  operation `o` in their names (a staged download is its bytes; it becomes an object when
  `Install` gives it the name); `tick` gives out inodes, object IDs and revisions.
* **`SyncCycleJournal`** reads the stage of an operation off the journal and the next free
  ID (an ID that was given out and has no row is settled), takes the operations whose
  recovery slot is filled for those that keep data aside, and the history variable
  `applied` for those whose effect is complete.
* **`Tree`**, by value of `pc` as in `SyncCycle`: recovery is `RecoverPlanned`,
  `RecoverStarted`, `RecoverBlocked`; a pass is `Scan`, `PlanPass` and `Dispatch`, which
  takes the decisions in the order of `decisionGroup`; directories are created by
  `MakeLocalDir` and `MakeRemoteDir`, deleted on the drive by `BeginRemote` (the listing)
  and `DeleteRemote` (the recursive delete), and here by `MoveDirAside` and `RemoveDir`.
* **`LinkAuthority`**: a root has one *entry*, which is a file, a link to a file or a link
  to a directory with one child. `claim` is `followed_physical_claims`, the pin is
  `place`, `anchor` and `final` of `op`. `Scan` is `ScanLocal` with its peer checks,
  `Reserve` is `ReserveFollowedPhysicalClaims` and `followedPhysicalAuthority`,
  `Initialize` is `InitializeSyncRoot`, `Resolve` and `Authorize` are the two halves of
  `pinLocalMutationTarget` (resolution without, authorization with a transaction), `Check`
  and `Mutate` the last checks and the change at the pinned place, `Recover…` recovery,
  `AddRoot` and `RemoveRoot` the ownership side of `root add` and `root remove`. Objects
  have identities, so hard links are two places with one identity.
* **`RootSetup`**: `Reserve` is the IMMEDIATE transaction of `root add` with its ownership
  check, followed by `WriteMarker` (or `DropOrphanMarker`) and `CommitRow`;
  `BeginRemove`, `RemoveMarker`, `DeleteRow` (whose guard the DELETE statement evaluates
  itself), `DeleteRefused` and `RestoreMarker` are `root remove`; `AbandonAdd` and
  `AbandonRemove` are errors and deaths.
* **`Runner`**: `Refresh` is one turn of `Run`'s loop, `Look…`, `Scan`, `EndCycle`, `Poll`,
  `Health`, `TakeHint`, `WatchDone` are `runRoot`, `LocalChange` is the watcher's signal.
  Goroutines (`task`) are kept apart from the map entries that stand for them (`workers`),
  as a canceled one lives on.

### Granularity

One step of `SyncCycle` is one observation, one store transaction or one change of user data. A
check is merged with the check or transaction that immediately follows it, as no effect lies
between them: `SetRunning` with the upload's own checks, the read of `enabled` with the local
scan, the remote observation with the planning and the content comparison, the remote
observation after the call with the commit, and the conflict and the baseline of one path. The
mass-delete gate, which the code evaluates again after the content comparisons, is evaluated
once: the second verdict is the first one (`OneComparisonRound`, `PlansPassTheGate`). `Fail`
removes the staging file and writes the journal in one step; `GiveUp` is an error before the
download began, which leaves the file of an earlier attempt alone. `operation resolve` runs
under the lease, so with no daemon, and its restore and retry are one step each.

In `Tree` the last check of a file, its replacement and the cleanup are one step (`SyncCycle`
has them apart), and the journal has room for one operation, which is all that a cycle ever
puts there: the next one is created when the last one is settled. In `LinkAuthority` the
mutation as a whole is one step; the planner is a choice among what the local snapshot, the
mode and `initialized` allow, since the remote side may ask for any of it.

The server refuses an upload whose base revision is not the current one; a deletion goes by
object ID after a check of the revision, as `internal/executor/root.go` does; the transfer
refuses a source that changed after it was opened. These describe rclone and the drive as
the code uses them, and are marked external in the map.

## 3. Runs

`SyncCycle` is explored through instances that each give one kind of trouble more room,
as all of them together do not fit. State counts are approximate.

| run | instance | states | shows |
|---|---|---|---|
| `reconcile` | 2 paths, files and directories, 3 versions of which two have one size, gate at 1 entry or 60 %, 4 edits | 150 k | What undisturbed passes overwrite, delete, record and pair, and that one pass leaves nothing undecided. |
| `cycle_crash` | 1 path, 2 versions of one size, 3 edits, 2 crashes, 1 command | 530 k | Journal, slots and baselines across crashes at any points, `operation resolve` between two stops, nothing left behind, and the refinement of `OperationJournal`. |
| `cycle_faults` | as above, writes in place, 1 failing call or lost reply, 1 crash, 1 command | 1.2 M | Executing an operation destroys no unseen edit, even one made in place; a cycle is bounded and finds no work left only when everything is settled. |
| `cycle_settles` | as `cycle_faults`, without writes in place; `FairSpec` | 920 k | With fair cycles, the root settles or waits for the user, whatever call fails and wherever the daemon dies. |
| `cycle_paths` | 2 paths, 1 version, 5 operations, 4 edits, undisturbed otherwise | 430 k | Operations dispatched one after the other from one snapshot, and the end of a pairing. |
| `tree` | a directory, 2 files, 1 version, 3 edits, 1 crash; `FairSpec` | 240 k | What is in a directory survives its deletion, and edits of one side settle. |
| `follow` | 2 roots (one may copy), links to a directory, to a hard link and into the other root, 2 edits or an edit and a crash, 1 operation | 1.3 M | Who owns what links lead to, through relinking, root add and remove. |
| `runner` | 2 root UUIDs, 2 overlapping directories, 2 symlink policies | 240 k | Scheduler, commands and process deaths. |
| `lost_edit`, `copy_resolution`, `tree_stuck`, `stale_policy` | the smallest instance that shows it | | The findings of section 5. |

### Bounds and why they are enough

* *One path* (most `SyncCycle` runs). Files at different paths share only the queue, the
  snapshot, the pass counter, `initialized` and the gate. `cycle_paths` and `reconcile`
  have two, so that a stale rest of a plan, and a gate that sees part of a tree, occur.
* *Two versions of one size* (`SyncCycle`) need the content comparison, which is the harder
  case; `reconcile` has a third of another size, so both kinds of evidence occur. In
  `cycle_paths` one version is enough: there, what differs is whether a file exists and
  which object it is.
* *`MaxCyclePasses` = 2* (eight in the code). The second pass is the first that follows
  another one, and every further pass starts in the same kind of state; giving up after
  the last one is reached as well.
* *`MaxEdits` = 3 or 4, `MaxOps` = 3 to 6.* An edit before the scan, one between check and
  effect and one before recovery fit in. Dispatch stops at `MaxOps`; in `cycle_faults` and
  `cycle_settles` that bound is never reached (no behaviour of these instances journals more
  than four operations), so it does not hide a loop.
* *`InPlaceWrites`* is off in `cycle_settles`, so that the liveness check stays small: a
  write in place is an edit that keeps the object, and safety under it is `cycle_faults`'.
* *`MaxFaults`, `MaxCommands`* at 1, *`MaxCrashes`* at 1 in `cycle_faults` and
  `cycle_settles`, where it meets the failing call, and at 2 in `cycle_crash`, where the
  second crash interrupts a recovery or what the operator started.
* *`Tree`*: two files, as one that the daemon knows and one that appears are what it takes
  to delete a directory that is not empty; one version, since the comparison of contents
  is `SyncCycle`'s; three edits, so that a directory can be removed, made again and filled.
  The gate allows three deletes, so that it never stops a pass; `reconcile` checks the gate.
* *`LinkAuthority`*: places `xd/{xf, zf}` (hard links of each other at first), `yd/yf`, which
  is inside the home of `r2`, and the two entries. `r1` may follow or copy and may link to
  `xd`, to `zf` and to `yd`; `r2` follows and may link to `xf`. So the two roots compete for
  one file by its name, by its directory and by its identity, and `r1` may reach into `r2`
  before or after that is a root. `MaxEdits` = 2 counts the edits and the crashes together
  (one relink and one more event between scan and mutation); `r1` has one operation,
  and `ConflictPaths` limits resolutions to its entry. There is no symmetry.
* *`Runner`* has one named bound, `Goroutines`: two goroutines per root, one more than the
  code allows itself, so that a second one would be noticed. Each `root add` draws a
  fresh UUID of a set of two, and the rest of the state is finite. Both directories
  overlap, as that is the case `RootsDisjoint` is about.
* Paths are symmetric: nothing in the code or the model tells one from the other. No run
  with a liveness property uses symmetry.
* Deadlock is not checked: when the bounds are used up and everything is in sync, or the
  gate or a blocked operation waits for the user, the system stops.

### Fairness

* `SyncCycle!FairSpec`: WF of `WorkerStep`, as the worker is one goroutine that nothing
  else blocks, and of `Start`, as the service manager restarts the daemon. Every call may
  fail, but not for ever (`MaxFaults`).
* `Tree!FairSpec`: WF of `WorkerStep`. A crash ends in `idle`, from which the restarted
  daemon's next cycle starts.
* `Runner!Fairness`: WF of `Refresh` (a two-second ticker), of the unwinding of a goroutine
  (`Exit`: cancellation reaches all its calls), of reading its row (`Look…`), of the end of
  a cycle (`EndCycle`: a cycle is bounded, which is the theorem `CyclesAdvance` about
  `SyncCycle`) and of `Poll` (a ticker). Nothing is assumed of
  commands, of the watcher or of stops. `Attended` is conditional: it promises a root a
  scan of every change *provided* daemon and root eventually stay up and enabled.

No run assumes strong fairness, and most of what makes the system get somewhere is stated
without any: one undisturbed pass is enough (`OnePassSettles`), a cycle is bounded
(`CycleAdvances`), and it stops looking only when everything is settled
(`QuietCycleSettles`). These are proved. `Settles` adds that in the end such a cycle comes.

### How the properties were tested

Every property of a passing run has a *mutant*: a definition changed the way a plausible
bug would change the code (a guard dropped, a cleanup skipped, a state read too early),
under which TLC finds the property violated in the same instance. The mutated definitions
stand beside the ones they replace and say so (`Mutant of …`); no other definition uses
them.

## 4. Proofs

Every safety property of the passing runs is a theorem, for all values of the constants.
The bounds of the runs are constants too, so this is for any number of paths, files,
roots, operations, passes, edits, crashes and failures.

| module | theorem | property |
|---|---|---|
| `Reconcile_proofs` | `ReconcileTypeCorrect`, `BaselinesAlwaysAgree` | `TypeOK`, `BaselineAgrees` |
| | `PassLosesNothingElse`, `FirstPairingOnlyAdds` | `PassLosesOnlySynced`, `PairingOnlyAdds` |
| | `PairingIsComplete`, `MassDeletesAreBounded` | `InitializedWhenPaired`, `MassDeleteBounded` |
| | `EveryPassSettles` | `OnePassSettles` |
| `SyncCycle_proofs` | `TypeCorrect`, `PreservedOwned` | `TypeOK`, `PreservedHasOwner` (a part of `NothingLeftBehind`) |
| `SyncCycleEffects_proofs` | `BlockedIsFinal`, `EffectsAreOnce`, `TakenIsMovedAside` | `BlockedFreezes`, `DestroysOnce`, `LocalFileMovedAside` |
| `SyncCyclePass_proofs` | `BaselinesAgree`, `FirstPairingOnlyAdds`, `PairingIsComplete` | `BaselineAgrees`, `PairingOnlyAdds`, `InitializedWhenPaired` |
| | `SyncedRemoteOnly`, `ExecutionKeepsEdits` | `OnlySyncedRemoteReplaced`, `ExecutionDestroysOnlySynced` |
| | `SyncedBytesOnly` (assumes `~InPlaceWrites`) | `OnlySyncedBytesDestroyed` |
| | `NothingIsLeftBehind` | `NothingLeftBehind` |
| | `CyclesAdvance`, `QuietCyclesSettle` | `CycleAdvances`, `QuietCycleSettles` |
| | `JournalIsKept` | `JournalKept`: the refinement of `OperationJournal` |
| `Tree_proofs` | `TreeTypeCorrect`, `AsideIsOwned` | `TypeOK`, `AsideOwned` |
| | `LocalChildrenSurvive`, `RemoteFilesSurvive` | `ChildrenSurvive`, `RemoteChildrenSurvive` |
| `LinkAuthority_proofs` | `LinkTypeCorrect`, `ClaimsStayDisjoint` | `TypeOK`, `ClaimsDisjoint` |
| | `MutationsAreOwned`, `PlansMeetTheirTarget`, `BoundariesStayFixed` | `MutationOwned`, `MutatesWhatWasScanned`, `BoundariesFixed` |
| `Runner_proofs` | `RunnerTypeCorrect`, `RootsStayDisjoint`, `WorkersAreUnique` | `TypeOK`, `RootsDisjoint`, `OneWorker` |
| | `CyclesAreFenced`, `HintsAreKept` | `CycleFenced`, `NoLostHint` |
| | `MarkersFence`, `RemovalsKeepWork` | `MarkerFences`, `RemovalKeepsWork` |

Some theorems state what no run checks as a property of its own:

* `OneComparisonRound` (`Planner_proofs`): once every content that was asked for has been
  compared, planning again asks for no other, changes no other decision, proposes the same
  deletes and gets the same verdict of the gate. So the loop of
  `internal/syncer/cycle.go:201-227` ends after one round. `PlansPassTheGate`
  (`SyncCyclePass_proofs`) is what that means for `PlanPass`.
* `JournalPromises` (`SyncCyclePass_proofs`) is what `OperationJournal` is good for,
  whatever implements it: data is aside only for a started or blocked operation that is not
  complete, IDs are given out in order, and an operation that is settled is over.
  `CycleKeepsPromise` carries this over to `SyncCycle` along the refinement.

### Assumptions

The assumptions are the named ones of the modules, and TLC evaluates each in a run. They
give the constants their types (`PlannerAssumption`, `SyncCycleAssumption`,
`ReconcileAssumption`, `RootSetupAssumption`, `LinkAuthorityAssumption`), say that a missing
value is told apart from every value (`AbsentAssumption`, `NoneAssumption`,
`NoTaskAssumption`), that containment of directories is reflexive and symmetric
(`RootSetupAssumption`), and that places form a forest in which the entries lie in the homes
of their roots (the `TreeAssumption` of `LinkAuthority`). Paths and files are finite sets,
and `Tree` has at least one version. One theorem has a hypothesis of its own:
`SyncedBytesOnly` is about users who replace files instead of writing them in place.
Finding 1 is what happens otherwise.

### The inductive invariants

No property is inductive as it stands. TLC checked each strengthening before its proof.

**`SyncCycle`**, in layers, each of which adds to the one before:

* `TypeInv` adds to `TypeOK` what an action needs to know of the operation it works on:
  it is in the journal (`WorkerOK`), an upload expects a local entry and a download a remote
  one (`OpsShape`), and so do the plan and its snapshot (`PlanShape`).
* `OwnerInv`: ownership of a slot is a matter of the *durable* record, and a step such as
  `Preserve` fills the slot without touching it. So a started local mutation has its pin
  (`StartedPinned`), and at each point of the program the record says what it must
  (`StageOK`).
* `EffectInv`: recovery takes the journal in the order of IDs, a pass finds nothing in it but
  its own operation and resolutions queued meanwhile, which have no pin yet, and the operation
  in hand is not blocked (`OrderInv`); every object in a tree or a slot is dated by `tick`
  and is in one place (`ObjectsInv`, `RevisionsInv`); what a completed operation expected to
  find is gone for good (`AppliedInv`, `StepInv`).
* `PassInv`: a decision of the plan is justified by the baseline *as it still is* when the
  decision is carried out (`PlanInv`); at `record` and after it the baselines of a path agree
  with the snapshot (`RecordInv`); an operation of a pass expects what the baseline has, or
  resolves a conflict (`OriginInv`); and at each point between transfer and commit the bytes
  observed are those of the revision observed (`BytesInv`).
* `MovedInv` (for `ExecutionKeepsEdits`): what was moved aside and validated has the version
  the operation was journaled for. `PinInv` (for `SyncedBytesOnly`): when nobody
  writes in place an inode keeps its bytes, so the object under a pin has the version that
  was pinned, wherever it is moved.
* `GenuineInv` (for `QuietCycleSettles`): a revision that a baseline or a snapshot knows
  never comes back with other bytes, so "the same revision" is as good as a comparison.
* `TakenInv` (for `CycleAdvances`): the operation in hand carries out a decision that is still
  in the plan, so when it is over the plan has become smaller.
* `StagingInv` (for `NothingIsLeftBehind`): a staged download belongs to a pinned download in
  the journal, and is gone at every point from which an operation can leave the journal
  without a look at the slot (`ClearedPcs`). With `OrderInv` this leaves nothing for a
  scan to find.

**The refinement** (`JournalIsKept`) is shown operation by operation. For each operation a
step of `SyncCycle` either moves its stage, its slot and its completion as one action of
`OperationJournal` does, or leaves all three alone; at most one operation moves in a step, and a
new ID is the next one. One lemma per group of actions
shows this from `PassInv`, and `StepImplements` puts them together. The promise of the
abstract journal is then proved from its own actions, in each of which one operation moves and
the others stay (`OneMoves`).

**`Reconcile`**: `PassInv` is `TypeOK`, `BaselineAgrees`, and that a baseline which has the
revision of the remote file has its bytes too (`RevisionsKnown`). `OnePassSettles` is then a
matter of one path: each decision, carried out on the entries it was made from, settles
it. The gate's theorem needs no enumeration: what a
pass removes is a subset of the set that the gate has counted.

**`Planner_proofs`** has the lemma that both models of a pass cite: what each kind of
decision says about the baseline and the two entries it was made from
(`PlanPathJustified`), and the one about the loop of content comparisons: evidence for a
path turns its `compare-content` into a decision that deletes nothing and leaves every other
path alone (`EvidenceResolves`).

**`Tree`**: `TreeInv` says where objects can be (`WorldInv`: what is aside is not also in the
tree), that no revision comes from the future (`RevisionInv`), what is still true of a
plan (`PlanInv`), what the journaled operation expects and what stage its phase stands for
(`OpInv`, `StageInv`), and what may have appeared on the drive between the listing of a
directory and its recursive delete (`WindowInv`).

**`LinkAuthority`**: `LinkInv` says for each root which of its claim, scan, resolution and pin
were looked at under which authority (`RootInv`, by the worker's position), that the homes of
registered roots are apart (`HomesApart`), and that neither a claim nor an operation pinned
through a copied link reaches into another root (`ClaimsDisjoint`, `CopiesApart`). Overlap of
places is used through the ancestors of a place (`Above`), of which the assumption states the
defining equation, so that no induction is needed.

**`Runner`**: `SetupInv` (a reservation belongs to the writer, whose UUID has no row and whose
directory overlaps none; an unfinished `root remove` has the lease) is kept by every command
and every death. `RunnerInv` adds that a live goroutine is the one in the worker map, that a
cycle past its checks has its row, marker and lease, and where a hint is while its
worker does not wait for it.

### What the proofs changed

Three statements that TLC accepted were not true in general, or not defined:

* `LinkAuthority` asked for the object at the parent of a place, which a top-level place
  does not have. It now says what the code then finds (`ParentIsThere`, `ParentId`).
* `MutatesWhatWasScanned` identified the target by the place the scan saw. With more than two
  edits a followed entry that was missing at the scan can become a link to its claimed place
  again, and the operation is rightly carried out there. The property now speaks of the
  boundary that the scan saw or the claim records (`Behind`).
* `OnlySyncedBytesDestroyed` compared what is destroyed with the *present* baseline. With four
  edits, a crash and a `conflict resolve` that queues its resolution while the pass dispatches
  a download of the same path, recovery can carry out the resolution first, commit a new
  baseline, and then clean up after the download: what it removes was in sync when the
  download was journaled and is not any more. Nothing is lost. The property now compares with
  the version the operation was journaled for (`DestroyedIsKnown`) and says separately that a
  pass journals for the version in sync (`JournaledAsSynced`).

### What stays with TLC

`Settles`, `OneSideSettles` and `Attended`, because liveness under fairness is out of the
prover's reach. The properties of the four runs of section 5 are false.

## 5. Findings

Four runs end in a counterexample, each a short behaviour of the model that the code can
take.

1. **`lost_edit`** (`internal/executor/entry_ops.go:1081`). `CleanupLocalRecoveryArtifact`
   deletes a recovery slot when its inode is the pinned one, and does not compare the
   fingerprint. A file written in place between the last check and the move keeps its
   inode. If the daemon dies after the move and before the moved object is validated, and
   the target has the wanted state at recovery, the edited bytes are deleted.
   `docs/architecture.md:127` says that a true concurrent change preserves both sides.
   Executing an operation keeps the promise (`ExecutionKeepsEdits`), and so does the whole
   program when nobody writes in place (`SyncedBytesOnly`): it takes both, the write in
   place and the crash.
2. **`copy_resolution`** (`internal/syncer/cycle.go:456`). `conflict resolve --keep-remote`
   queues a planned local mutation without a pin, and in a root with the copy policy
   recovery discards every planned local mutation that has none. The resolution is dropped
   although nothing changed, the conflict is planned again, and so on;
   `docs/operations.md:180-182` says that a resolution is discarded if either side changed.
3. **`tree_stuck`** (`internal/syncer/cycle.go:407`). The user removes a directory while
   another client adds a file to it. The download comes before the remote delete, its
   target cannot be resolved as the parent is gone
   (`internal/executor/entry_ops.go:621`), the operation is discarded and the error ends
   the cycle; every later cycle does the same. Nothing is blocked and no conflict is
   recorded, where `docs/architecture.md:127` says that a concurrent change becomes a
   durable conflict. The run has no crash, and its uploads create missing directories,
   so that this is the only way to get stuck. `tree` checks `OneSideSettles` instead,
   with uploads that need their directory.
4. **`stale_policy`** (`internal/daemon/runner.go:253`). The executor is built once per
   worker. Pausing, changing the symlink policy and resuming between two refreshes, the
   sequence of `docs/operations.md:70-76`, leaves the worker with the old policy.

Smaller observations, which no run states as a property:

* A resolution that becomes stale after its planned check is blocked, and the root with it
  (`internal/syncer/cycle.go:543`), where `docs/architecture.md:131` says it is discarded.
* An upload that happened, and whose object another client removed, is done again by
  recovery, which cannot tell this from an upload that never happened
  (`docs/architecture.md:68` says it retries only what is proved not to have happened).
* `Tree`: when a directory gets a new child, is moved aside and the daemon dies, its delete
  counts as done but cleanup fails on the child in every cycle
  (`internal/executor/entry_ops.go:1084`); the operation is never blocked, so
  `operation resolve` does not apply. When it got the child after the scan and nothing
  crashes, the directory goes back, and the delete is tried again, in every cycle. No data
  is lost in either case (`ChildrenSurvive`, `AsideOwned`), but the root makes no progress.
* `LinkAuthority`: an unconfirmed claim is not looked at again when the link is replaced by a
  plain entry between the scan and the pin (`internal/store/followed_boundaries.go:299`); an
  uninitialized root that has claims and is switched away from `follow` is blocked in every
  cycle (`internal/syncer/cycle.go:337`); an initialized root whose link was deleted and
  whose entry is recreated remotely gets a plain file and is blocked from then on. A
  mutation through a copied link may touch what another root follows, which is documented
  and left out of `MutationOwned`.

## 6. What the models leave out

* `SyncCycle` has regular files only, with lexical authority, a healthy root marker, an
  existing remote root, no operations of the old unpinned format and no moves (the planner
  never emits them). A version is bytes, size and time together, so a `touch` is not a
  change of its own. Reads are not torn, and a process that keeps an open descriptor to a
  moved file is not modelled. The code ignores errors of the removal of a staging file; in
  the model it succeeds.
* A pause cancels the worker's context: in `SyncCycle` that is a `CallFails` step.
* An operation that is blocked with preconditions that can never hold again has no way out
  but a retry or a restore. `Settles` counts it as waiting for the user.
* `Reconcile` has no nested directories; `Tree` has one level of them. Excluded paths and
  incomplete snapshots, which remove paths or refuse the pass, are left out of `Planner`.
* `Tree` starts from a paired root and has no resolutions, conflict records or pass number (a
  cycle that gives up after eight passes starts again), no staging files, and no failing calls
  other than those its own guards cause. The order of two files within a group, by name in the
  code, is left open, and so is how the drive treats an upload without its directory
  (`UploadsMakeDirs`).
* `LinkAuthority` leaves out links below links and several entries per root, the reject and
  ignore policies, a change of the policy of a paired root, claims filled in for old
  schemas, and the steps inside a mutation. Fingerprints are kinds, so two files always
  look alike: that is the case in which only the authority can tell targets apart. The
  peer roots are read in the step that uses them.
* `RootSetup` pairs a local with a remote directory, so that overlaps on either side are
  one relation. A commit with an unknown outcome is `CommitRow` or `AbandonAdd`. Claims
  and pins are `LinkAuthority`'s; a marker file deleted by the user is left out.
* A cycle in `Runner` is its checks, its scan, and operations appearing and disappearing;
  watch errors have the effect of a poll; the watcher's set of directories is not modelled.
  The leases of the service commands, `operation resolve` and the remote configuration are
  not in `Runner`.
* Not modelled at all: namespace validation (its data is what could be wrong), schema
  migrations (one transaction per version, before anything else), `DecideRecovery` (called
  by tests only), remote configuration, the native user services, paths, build information
  and the entry point.

## 7. Plan

Still to be modelled, in order of importance:

1. *Root availability*: an unmounted root, a missing marker or remote root in `SyncCycle`.
2. *The watcher's watched set*: directories that appear between the scan and the watch.
3. *Deeper trees and links*: two levels in `Tree`, a link below a link in `LinkAuthority`.

What is left for the prover is what these extensions bring: `PassInv` under roots that come
and go, and, for a deeper `Tree`, `ChildrenSurvive` with the ancestors of a path in place of
the one directory, as `LinkAuthority` has them.
