------------------------------- MODULE Rounds -------------------------------
(***************************************************************************)
(* src/concurrency/barrier.cpp: runners that meet at a barrier at the end  *)
(* of each round. The completion function of the barrier, which the last   *)
(* one to arrive runs, decides in the unprotected variable do_run whether  *)
(* there is another round.                                                 *)
(***************************************************************************)
EXTENDS Naturals, FiniteSets

CONSTANTS
  Runner,   \* names
  Limit     \* the number that round must stay below: 3

VARIABLES
  pc,       \* where each runner is
  do_run,
  round,    \* the state of the completion function
  arrived,  \* the runners that wait at the barrier
  laps      \* history: the rounds each runner has started

vars == <<pc, do_run, round, arrived, laps>>

Init ==
  /\ pc = [r \in Runner |-> "test"]
  /\ do_run = TRUE
  /\ round = 1
  /\ arrived = {}
  /\ laps = [r \in Runner |-> 0]

\* while (do_run)
Test(r) ==
  /\ pc[r] = "test"
  /\ pc' = [pc EXCEPT ![r] = IF do_run THEN "run" ELSE "done"]
  /\ laps' = [laps EXCEPT ![r] = IF do_run THEN @ + 1 ELSE @]
  /\ UNCHANGED <<do_run, round, arrived>>

\* barrier.arrive_and_wait().
Arrive(r) ==
  /\ pc[r] = "run"
  /\ arrived' = arrived \cup {r}
  /\ pc' = [pc EXCEPT ![r] = "wait"]
  /\ UNCHANGED <<do_run, round, laps>>

\* Faulty: the barrier expects one runner less.
EveryoneButOne == Cardinality(arrived) + 1 >= Cardinality(Runner)

Everyone == arrived = Runner

\* Faulty: the round is tested before it is counted.
GoesOnLate == round < Limit

\* do_run = (++round < Limit)
GoesOn == round + 1 < Limit

\* All have arrived: the completion function runs, and those who wait go on.
Complete ==
  /\ Everyone
  /\ round' = round + 1
  /\ do_run' = GoesOn
  /\ arrived' = {}
  /\ pc' = [r \in Runner |-> IF r \in arrived THEN "test" ELSE pc[r]]
  /\ UNCHANGED laps

AllDone == \A r \in Runner : pc[r] = "done"

\* The destructor of runners joins them.
Joined == AllDone /\ UNCHANGED vars

Next == (\E r \in Runner : Test(r) \/ Arrive(r)) \/ Complete \/ Joined

Spec == Init /\ [][Next]_vars

-----------------------------------------------------------------------------
\* do_run needs no protection: nobody tests it between its two values, so
\* that the runners agree on every round and the ones who leave leave
\* together.
SameRounds ==
  /\ \A r, s \in Runner : pc[r] = "run" /\ pc[s] \in {"run", "wait"} => laps[r] = laps[s]
  /\ \A r \in Runner : pc[r] = "done" => ~do_run /\ \A s \in Runner : laps[s] = laps[r]

\* There are Limit - 1 rounds, and nobody waits at the barrier for a runner
\* that has left.
AllLeave == <>(AllDone /\ \A r \in Runner : laps[r] = Limit - 1)
=============================================================================
