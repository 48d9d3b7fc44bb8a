-------------------------- MODULE OperationJournal --------------------------
(***************************************************************************)
(* What the operation journal promises: an abstract specification of the   *)
(* life of the operations of one root.  It says nothing of how an          *)
(* operation works; it says when an operation may touch user data, when it *)
(* may be forgotten, and who may move it on.                               *)
(***************************************************************************)
EXTENDS Naturals

CONSTANT Ops   \* operation IDs, given out in order

VARIABLES stage,  \* stage[o]: how far operation o is
          held,   \* operations that keep user data aside
          done    \* operations whose effect on user data is complete

journalVars == <<stage, held, done>>

Init == /\ stage = [o \in Ops |-> "free"]
        /\ held = {} /\ done = {}

Move(o, from, to) == stage[o] = from /\ stage' = [stage EXCEPT ![o] = to]

\* IDs are never used twice, not even after the row is gone.
Plan(o) ==
  /\ Move(o, "free", "planned")
  /\ \A earlier \in Ops : earlier < o => stage[earlier] # "free"
  /\ UNCHANGED <<held, done>>

\* Only an operation that has done nothing is forgotten without an outcome.
Discard(o) ==
  /\ Move(o, "planned", "settled") /\ o \notin held \union done
  /\ UNCHANGED <<held, done>>

\* The record that it may have an effect comes before the effect, and not
\* while an earlier operation waits for the user.
Start(o) ==
  /\ Move(o, "planned", "started")
  /\ \A earlier \in Ops : earlier < o => stage[earlier] # "blocked"
  /\ UNCHANGED <<held, done>>

\* Data is put aside once at most: not after the effect is complete.
Hold(o) ==
  /\ stage[o] = "started" /\ o \notin held \union done
  /\ held' = held \union {o} /\ UNCHANGED <<stage, done>>

PutBack(o) ==
  /\ stage[o] = "started" /\ o \in held \ done
  /\ held' = held \ {o} /\ UNCHANGED <<stage, done>>

\* The effect is complete when what was kept aside is removed for good.
Complete(o) ==
  /\ stage[o] = "started"
  /\ done' = done \union {o} /\ held' = held \ {o} /\ UNCHANGED stage

\* The outcome is known; nothing is kept aside any more.
Settle(o) ==
  /\ Move(o, "started", "settled") /\ o \notin held
  /\ UNCHANGED <<held, done>>

Block(o) == Move(o, "started", "blocked") /\ UNCHANGED <<held, done>>

\* The user queues it again, and may have its data put back.
Resume(o) ==
  /\ Move(o, "blocked", "started")
  /\ \/ UNCHANGED held
     \/ o \in held \ done /\ held' = held \ {o}
  /\ UNCHANGED done

Next == \E o \in Ops : \/ Plan(o) \/ Discard(o) \/ Start(o) \/ Hold(o) \/ PutBack(o)
                       \/ Complete(o) \/ Settle(o) \/ Block(o) \/ Resume(o)

Spec == Init /\ [][Next]_journalVars
=============================================================================
