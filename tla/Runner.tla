------------------------------- MODULE Runner -------------------------------
(***************************************************************************)
(* The daemon: one process that holds the lease and runs at most one       *)
(* worker goroutine per root.  A refresh loop compares the sync_roots      *)
(* table with the map of workers; a worker runs a cycle whenever a poll    *)
(* tick, a health tick or a watch event asks for one.  It composes with    *)
(* the commands of RootSetup, which change the table and the marker files  *)
(* under the daemon's feet.                                                *)
(*                                                                         *)
(* Goroutines are kept apart from the map entries that stand for them: a   *)
(* canceled worker lives on until it has unwound.                          *)
(***************************************************************************)
EXTENDS RootSetup

VARIABLES
  daemon,  \* "down", "up", or "stopping" while it waits for its workers
  task,    \* the goroutines of each root
  workers, \* Run's map: root -> the goroutine it knows of, or 0
  unseen   \* roots with a local change that no scan has seen yet

daemonVars == <<daemon, task, workers, unseen>>
vars == <<rows, queued, writer, marker, adding, removal, lease,
          daemon, task, workers, unseen>>

\* Bound: goroutines that one root may have at a time. One more than the code
\* allows itself, so that a second one would be seen.
Goroutines == 1..2

\* What a goroutine is doing: reading its row ("look"), entering a cycle
\* ("enter"), about to scan ("scan"), past the scan ("run"), in its select
\* ("wait"), or finished ("done").
\*   executor  the symlink policy its data plane was built with, or None
\*   watch     the state of its watcher
\*   hint      whether the watcher's one-slot hint channel is full
\*   scanned   whether its latest wake got as far as a complete scan
Tasks == [stage : {"look", "enter", "scan", "run", "wait", "done"},
          canceled : BOOLEAN, lastEnabled : BOOLEAN,
          executor : SymlinkModes \union {None},
          watch : {"none", "open", "dead"}, hint : BOOLEAN, scanned : BOOLEAN]

\* No goroutine is none.
ASSUME NoTaskAssumption == None \notin Tasks

NewTask == [stage |-> "look", canceled |-> FALSE, lastEnabled |-> TRUE,
            executor |-> None, watch |-> "none", hint |-> FALSE, scanned |-> FALSE]

NoTasks == [u \in Uuids |-> [g \in Goroutines |-> None]]
NoWorkers == [u \in Uuids |-> 0]

\* The state stays within its types.
TypeOK ==
  /\ SetupTypeOK
  /\ daemon \in {"down", "up", "stopping"}
  /\ task \in [Uuids -> [Goroutines -> Tasks \union {None}]]
  /\ workers \in [Uuids -> Goroutines \union {0}]
  /\ unseen \subseteq Uuids

Init ==
  /\ SetupInit
  /\ daemon = "down" /\ task = NoTasks /\ workers = NoWorkers /\ unseen = {}

Is(u, g, stage) == task[u][g] # None /\ task[u][g].stage = stage
Alive(u, g) == task[u][g] # None /\ task[u][g].stage # "done"
Become(u, g, t) == task' = [task EXCEPT ![u][g] = t]
Rest(t) == [t EXCEPT !.stage = "wait"]

(***************************************************************************)
(* The process and its refresh loop                                        *)
(***************************************************************************)

StartDaemon ==
  /\ daemon = "down" /\ lease = "free"
  /\ lease' = "daemon" /\ daemon' = "up"
  /\ UNCHANGED <<rows, queued, writer, marker, adding, removal, task, workers, unseen>>

\* Mutants of Reaped: a canceled worker leaves the map at once, or no worker does.
ReapedWhenCanceled(u) ==
  workers[u] # 0 /\ (~Alive(u, workers[u]) \/ task[u][workers[u]].canceled)
ReapedNever(u) == FALSE

\* Only a worker that has exited leaves the map.
Reaped(u) == workers[u] # 0 /\ ~Alive(u, workers[u])

\* syncWorkers: reap, cancel the workers of paused and removed roots, start
\* one for each enabled root that has none in the map.
Refresh ==
  LET kept == {u \in Uuids : workers[u] # 0 /\ ~Reaped(u)}
      started == {u \in Uuids : Enabled(u) /\ u \notin kept}
      free(u) == CHOOSE g \in Goroutines : ~Alive(u, g)
      refreshed(u, g) ==
        IF u \in started /\ g = free(u) THEN NewTask
        ELSE IF ~Alive(u, g) THEN None
        ELSE [task[u][g] EXCEPT !.canceled =
               @ \/ (u \in kept /\ g = workers[u] /\ ~Enabled(u))]
  IN /\ daemon = "up"
     /\ task' = [u \in Uuids |-> [g \in Goroutines |-> refreshed(u, g)]]
     /\ workers' = [u \in Uuids |-> IF u \in started THEN free(u)
                                    ELSE IF u \in kept THEN workers[u] ELSE 0]
     /\ UNCHANGED <<setupVars, daemon, unseen>>

\* A signal, or a refresh that cannot read the table: every worker is canceled.
StopDaemon ==
  /\ daemon = "up"
  /\ daemon' = "stopping"
  /\ task' = [u \in Uuids |-> [g \in Goroutines |->
                IF task[u][g] = None THEN None ELSE [task[u][g] EXCEPT !.canceled = TRUE]]]
  /\ UNCHANGED <<setupVars, workers, unseen>>

\* stopWorkers waits for the goroutines before Run returns and the lease is
\* closed.
AllExited == \A u \in Uuids, g \in Goroutines : ~Alive(u, g)

ReleaseLease ==
  /\ daemon = "stopping" /\ AllExited
  /\ daemon' = "down" /\ lease' = "free"
  /\ task' = NoTasks /\ workers' = NoWorkers
  /\ UNCHANGED <<rows, queued, writer, marker, adding, removal, unseen>>

\* The operating system releases the lease of a dead process.
DaemonDies ==
  /\ daemon # "down"
  /\ daemon' = "down" /\ lease' = "free"
  /\ task' = NoTasks /\ workers' = NoWorkers
  /\ UNCHANGED <<rows, queued, writer, marker, adding, removal, unseen>>

(***************************************************************************)
(* A worker (runRoot)                                                      *)
(***************************************************************************)

\* The head of the loop: a canceled context ends the worker.
Exit(u, g) ==
  /\ Is(u, g, "look") \/ Is(u, g, "wait")
  /\ task[u][g].canceled \/ u \notin Registered
  /\ Become(u, g, [task[u][g] EXCEPT !.stage = "done"])
  /\ UNCHANGED <<setupVars, daemon, workers, unseen>>

\* The row cannot be read: the worker waits for its next wake.
LookFails(u, g) ==
  /\ Is(u, g, "look") /\ ~task[u][g].canceled
  /\ Become(u, g, [Rest(task[u][g]) EXCEPT !.scanned = FALSE])
  /\ UNCHANGED <<setupVars, daemon, workers, unseen>>

LookPaused(u, g) ==
  /\ Is(u, g, "look") /\ ~task[u][g].canceled
  /\ u \in Registered /\ ~rows[u].enabled
  /\ Become(u, g, [Rest(task[u][g]) EXCEPT !.lastEnabled = FALSE, !.scanned = FALSE])
  /\ UNCHANGED <<setupVars, daemon, workers, unseen>>

\* The executor is built once and kept; a watcher that failed to open is tried
\* again on every wake, always before the cycle that will scan.
LookEnabled(u, g) ==
  /\ Is(u, g, "look") /\ ~task[u][g].canceled
  /\ Enabled(u)
  /\ \E watch \in IF task[u][g].watch = "none" THEN {"none", "open"} ELSE {task[u][g].watch} :
       LET t == [task[u][g] EXCEPT !.lastEnabled = TRUE, !.scanned = FALSE]
           executor == IF t.executor = None THEN rows[u].mode ELSE t.executor
       IN \/ Become(u, g, [t EXCEPT !.stage = "enter", !.executor = executor, !.watch = watch])
          \/ t.executor = None /\ Become(u, g, Rest(t))
  /\ UNCHANGED <<setupVars, daemon, workers, unseen>>

\* Every pass of a cycle, the first included, starts with these checks.
BeginPass(u, g) ==
  /\ Is(u, g, "enter") \/ Is(u, g, "run")
  /\ Become(u, g, IF Enabled(u) /\ MarkerHolds(u)
                  THEN [task[u][g] EXCEPT !.stage = "scan"]
                  ELSE Rest(task[u][g]))
  /\ UNCHANGED <<setupVars, daemon, workers, unseen>>

Scan(u, g) ==
  /\ Is(u, g, "scan")
  /\ Become(u, g, [task[u][g] EXCEPT !.stage = "run", !.scanned = TRUE])
  /\ unseen' = unseen \ {u}
  /\ UNCHANGED <<setupVars, daemon, workers>>

\* A cycle journals operations and completes them, new and recovered ones.
JournalOperation(u, g) ==
  /\ Is(u, g, "run")
  /\ CreateOperation(u)
  /\ UNCHANGED daemonVars

CompleteOperation(u, g) ==
  /\ Is(u, g, "run")
  /\ writer = None /\ u \in queued
  /\ queued' = queued \ {u}
  /\ UNCHANGED <<rows, writer, marker, adding, removal, lease, daemonVars>>

\* The cycle returns: done, blocked, failed, or canceled.
EndCycle(u, g) ==
  /\ Is(u, g, "enter") \/ Is(u, g, "scan") \/ Is(u, g, "run")
  /\ Become(u, g, Rest(task[u][g]))
  /\ UNCHANGED <<setupVars, daemon, workers, unseen>>

\* The poll interval has passed, or the watcher reported an error.
Poll(u, g) ==
  /\ Is(u, g, "wait")
  /\ Become(u, g, [task[u][g] EXCEPT !.stage = "look"])
  /\ UNCHANGED <<setupVars, daemon, workers, unseen>>

\* A health tick wakes the worker of a resumed root, and of one that has an
\* operation still planned, such as one `conflict resolve` has queued.
Health(u, g) ==
  /\ Is(u, g, "wait") /\ u \in Registered
  /\ \E planned \in BOOLEAN :
       LET wake == Enabled(u) /\ (~task[u][g].lastEnabled \/ planned)
       IN /\ planned => u \in queued
          /\ Become(u, g, [task[u][g] EXCEPT !.lastEnabled = Enabled(u),
                                            !.stage = IF wake THEN "look" ELSE "wait"])
  /\ UNCHANGED <<setupVars, daemon, workers, unseen>>

TakeHint(u, g) ==
  /\ Is(u, g, "wait") /\ task[u][g].hint
  /\ Become(u, g, [task[u][g] EXCEPT !.hint = FALSE, !.stage = "look"])
  /\ UNCHANGED <<setupVars, daemon, workers, unseen>>

WatchDone(u, g) ==
  /\ Is(u, g, "wait") /\ task[u][g].watch = "dead"
  /\ Become(u, g, [task[u][g] EXCEPT !.watch = "none", !.hint = FALSE, !.stage = "look"])
  /\ UNCHANGED <<setupVars, daemon, workers, unseen>>

WatcherDies(u, g) ==
  /\ Alive(u, g) /\ task[u][g].watch = "open"
  /\ Become(u, g, [task[u][g] EXCEPT !.watch = "dead"])
  /\ UNCHANGED <<setupVars, daemon, workers, unseen>>

\* Mutant of Signaled: a hint channel without a buffer only reaches a worker that
\* is in its select.
SignaledInSelect(t) == IF t # None /\ t.watch = "open" /\ t.stage = "wait"
                       THEN [t EXCEPT !.hint = TRUE] ELSE t

\* The watcher's signal never blocks: a full hint channel stays full.
Signaled(t) == IF t # None /\ t.watch = "open" /\ t.stage # "done"
               THEN [t EXCEPT !.hint = TRUE] ELSE t

LocalChange(u) ==
  /\ u \in Registered
  /\ unseen' = unseen \union {u}
  /\ task' = [task EXCEPT ![u] = [g \in Goroutines |-> Signaled(task[u][g])]]
  /\ UNCHANGED <<setupVars, daemon, workers>>

WakeStep(u, g) ==
  Poll(u, g) \/ Health(u, g) \/ TakeHint(u, g) \/ WatchDone(u, g)

CycleStep(u, g) ==
  \/ BeginPass(u, g) \/ Scan(u, g) \/ EndCycle(u, g)
  \/ JournalOperation(u, g) \/ CompleteOperation(u, g)

TaskStep(u, g) ==
  \/ Exit(u, g) \/ LookFails(u, g) \/ LookPaused(u, g) \/ LookEnabled(u, g)
  \/ CycleStep(u, g) \/ WakeStep(u, g) \/ WatcherDies(u, g)

DaemonStep == StartDaemon \/ Refresh \/ StopDaemon \/ ReleaseLease \/ DaemonDies

Next ==
  \/ CommandStep /\ UNCHANGED daemonVars
  \/ DaemonStep
  \/ \E u \in Uuids, g \in Goroutines : TaskStep(u, g)
  \/ \E u \in Uuids : LocalChange(u)

\* Tickers fire, goroutines are scheduled, and a cycle ends: its passes and
\* the calls it makes are bounded. Nothing is assumed of the commands, of the
\* watcher, or of how often the daemon is stopped.
Fairness ==
  /\ WF_vars(Refresh)
  /\ \A u \in Uuids, g \in Goroutines :
       /\ WF_vars(Exit(u, g))
       /\ WF_vars(LookFails(u, g) \/ LookPaused(u, g) \/ LookEnabled(u, g))
       /\ WF_vars(EndCycle(u, g))
       /\ WF_vars(Poll(u, g))

Spec == Init /\ [][Next]_vars /\ Fairness

(***************************************************************************)
(* Properties                                                              *)
(***************************************************************************)

\* A root never has two live workers: resuming it before the canceled worker
\* has unwound must not start a second one.
OneWorker ==
  \A u \in Uuids, g, h \in Goroutines : Alive(u, g) /\ Alive(u, h) => g = h

\* Whatever commands run meanwhile, a cycle past its checks works on a root
\* that is registered, whose directory carries its marker, and that no other
\* daemon and no `root remove` can be working on.
CycleFenced ==
  \A u \in Uuids, g \in Goroutines :
    Is(u, g, "scan") \/ Is(u, g, "run")
      => lease = "daemon" /\ u \in Registered /\ MarkerHolds(u)

\* A worker whose latest wake got as far as a scan does not go to sleep on a
\* change that came after the scan, as long as it has a watcher: the change is
\* in the hint channel, or the watcher's end is about to wake it.
NoLostHint ==
  \A u \in Uuids, g \in Goroutines :
    Is(u, g, "wait") /\ task[u][g].scanned /\ task[u][g].watch # "none" /\ u \in unseen
      => task[u][g].hint \/ task[u][g].watch = "dead"

\* While the daemon stays up and a root stays enabled, its worker looks at the
\* root again and again, however it was paused, canceled and resumed before.
Attended ==
  \A u \in Uuids :
    <>[](daemon = "up" /\ Enabled(u)) => []<>(\E g \in Goroutines : Is(u, g, "look"))

\* docs/operations.md:70-76 changes the symlink policy by pause, config and
\* resume while the daemon runs: every later pass works under the policy of
\* the root's row.
PolicyInForce ==
  [][\A u \in Uuids, g \in Goroutines :
       ~Is(u, g, "scan") /\ task'[u][g] # None /\ task'[u][g].stage = "scan"
         => task'[u][g].executor = rows[u].mode]_vars
=============================================================================
