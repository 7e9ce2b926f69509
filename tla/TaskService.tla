---------------------------- MODULE TaskService -----------------------------
(***************************************************************************)
(* What a thread pool promises to its callers, without threads, locks or   *)
(* condition variables: tasks start in the order they were accepted, each  *)
(* one once, and at most Width at a time; closing it gently leaves no      *)
(* accepted task unrun; after closing it, however it was closed, nothing   *)
(* runs any more.  ThreadPool implements it, and so do the two pools of     *)
(* PoolPrograms.                                                           *)
(***************************************************************************)
EXTENDS Naturals, Sequences, FiniteSets

CONSTANTS
  Task,   \* the tasks
  Width   \* how many tasks may run at the same time

VARIABLES
  accepted,  \* the tasks accepted and not started yet, oldest first
  running,   \* the tasks started and not finished
  finished,  \* the tasks finished
  state      \* "open", "drained" or "closed"

vars == <<accepted, running, finished, state>>

Init == accepted = << >> /\ running = {} /\ finished = {} /\ state = "open"

Accept(k) ==
  /\ state = "open"
  /\ k \notin running \cup finished
  /\ \A i \in 1 .. Len(accepted) : accepted[i] /= k
  /\ accepted' = Append(accepted, k)
  /\ UNCHANGED <<running, finished, state>>

Start ==
  /\ state = "open" /\ accepted /= << >>
  /\ Cardinality(running) < Width
  /\ running' = running \cup {Head(accepted)}
  /\ accepted' = Tail(accepted)
  /\ UNCHANGED <<finished, state>>

Finish(k) ==
  /\ k \in running
  /\ running' = running \ {k}
  /\ finished' = finished \cup {k}
  /\ UNCHANGED <<accepted, state>>

\* Close after all that was accepted has run.
Drain ==
  /\ state = "open" /\ accepted = << >> /\ running = {}
  /\ state' = "drained"
  /\ UNCHANGED <<accepted, running, finished>>

\* Close at once: running tasks end first, accepted ones are dropped.
Close ==
  /\ state /= "closed" /\ running = {}
  /\ state' = "closed"
  /\ UNCHANGED <<accepted, running, finished>>

Next == Start \/ Drain \/ Close \/ \E k \in Task : Accept(k) \/ Finish(k)

Spec == Init /\ [][Next]_vars
=============================================================================
