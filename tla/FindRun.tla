------------------------------ MODULE FindRun ------------------------------
(***************************************************************************)
(* src/Solutions/FindRun.cpp: threads that start together and search; the  *)
(* first one that finds sets a promise and stops the others, main waits    *)
(* for the promise and returns. The objects of main are destroyed in the   *)
(* reverse order of their declaration, that is latch, source and promise   *)
(* before the destructor of `threads` joins.                               *)
(***************************************************************************)
EXTENDS Naturals, FiniteSets, FiniteSetTheorems, TLAPS

CONSTANTS
  Runner,    \* the searching threads, nthread of them
  Main,
  NoRunner   \* the promise is not set, main has no winner

VARIABLES
  pc,       \* where each thread is
  latch,    \* the arrivals that the latch waits for
  promise,  \* the runner whose set_value succeeded
  stop,     \* stop_requested()
  alive,    \* the objects of main that are not destroyed
  winner    \* the result of get()

vars == <<pc, latch, promise, stop, alive, winner>>

Goto(t, l) == pc' = [pc EXCEPT ![t] = l]

Init ==
  /\ pc = [t \in Runner \cup {Main} |-> "arrive"]
  /\ latch = Cardinality(Runner) + 1
  /\ promise = NoRunner
  /\ stop = FALSE
  /\ alive = {"promise", "source", "latch"}
  /\ winner = NoRunner

-----------------------------------------------------------------------------
\* latch.arrive_and_wait(), of the runners and of main.
Arrive(t) ==
  /\ pc[t] = "arrive"
  /\ latch' = latch - 1
  /\ Goto(t, "wait")
  /\ UNCHANGED <<promise, stop, alive, winner>>

\* Faulty: a thread that has arrived does not wait.
PassAtOnce(t) ==
  /\ pc[t] = "wait"
  /\ Goto(t, IF t = Main THEN "get" ELSE "search")
  /\ UNCHANGED <<latch, promise, stop, alive, winner>>

Pass(t) ==
  /\ pc[t] = "wait" /\ latch = 0
  /\ Goto(t, IF t = Main THEN "get" ELSE "search")
  /\ UNCHANGED <<latch, promise, stop, alive, winner>>

\* The engine has drawn a multiple of 20092021; another draw changes nothing.
Find(r) ==
  /\ pc[r] = "search"
  /\ Goto(r, "set")
  /\ UNCHANGED <<latch, promise, stop, alive, winner>>

\* Faulty: the token has no stop state, so that it is never requested.
LeaveNot(r) ==
  /\ pc[r] = "search" /\ FALSE
  /\ UNCHANGED vars

\* A round in which the thread looks at its stop_token.
Leave(r) ==
  /\ pc[r] = "search" /\ stop
  /\ Goto(r, "done")
  /\ UNCHANGED <<latch, promise, stop, alive, winner>>

\* Faulty: a late winner overwrites the promise.
SetValueAgain(r) ==
  /\ pc[r] = "set" /\ "promise" \in alive
  /\ promise' = r /\ Goto(r, "request_stop")
  /\ UNCHANGED <<latch, stop, alive, winner>>

\* promise.set_value(id) throws when the promise is set: "too late".
SetValue(r) ==
  /\ pc[r] = "set" /\ "promise" \in alive
  /\ IF promise = NoRunner
     THEN promise' = r /\ Goto(r, "request_stop")
     ELSE Goto(r, "done") /\ UNCHANGED promise
  /\ UNCHANGED <<latch, stop, alive, winner>>

\* The promise is destroyed: undefined, the call throws or returns.
SetValueDestroyed(r) ==
  /\ pc[r] = "set" /\ "promise" \notin alive
  /\ Goto(r, "done") \/ Goto(r, "request_stop")
  /\ UNCHANGED <<latch, promise, stop, alive, winner>>

\* source.request_stop(), of a source that may be destroyed: then it stops
\* the others or does not.
RequestStop(r) ==
  /\ pc[r] = "request_stop"
  /\ stop' = TRUE \/ ("source" \notin alive /\ UNCHANGED stop)
  /\ Goto(r, "done")
  /\ UNCHANGED <<latch, promise, alive, winner>>

\* main: promise.get_future().get().
Get ==
  /\ pc[Main] = "get" /\ promise /= NoRunner
  /\ winner' = promise
  /\ Goto(Main, "return")
  /\ UNCHANGED <<latch, promise, stop, alive>>

\* The destructors of latch, source and promise, in this order.
Destroy(o) ==
  /\ pc[Main] = "return" /\ o \in alive
  /\ o = "source" => "latch" \notin alive
  /\ o = "promise" => "source" \notin alive
  /\ alive' = alive \ {o}
  /\ UNCHANGED <<pc, latch, promise, stop, winner>>

AllDone == \A r \in Runner : pc[r] = "done"

\* The destructor of threads: every jthread is joined.
Join ==
  /\ pc[Main] = "return" /\ alive = {} /\ AllDone
  /\ Goto(Main, "done")
  /\ UNCHANGED <<latch, promise, stop, alive, winner>>

Ended == pc[Main] = "done" /\ UNCHANGED vars

Run(r) ==
  \/ Arrive(r) \/ Pass(r) \/ Find(r) \/ Leave(r)
  \/ SetValue(r) \/ SetValueDestroyed(r) \/ RequestStop(r)

MainRun ==
  \/ Arrive(Main) \/ Pass(Main) \/ Get
  \/ (\E o \in {"promise", "source", "latch"} : Destroy(o)) \/ Join

Next == (\E r \in Runner : Run(r)) \/ MainRun \/ Ended

Spec == Init /\ [][Next]_vars

-----------------------------------------------------------------------------
\* All threads start the challenge together: nobody has searched, and main
\* does not wait for a winner, while a thread has not arrived.
StartTogether ==
  \A s, t \in Runner \cup {Main} :
    pc[s] = "arrive" => pc[t] \in {"arrive", "wait"}

\* The promise is set once: what main returned is the runner whose set_value
\* succeeded first, and nobody takes its place.
OneWinner ==
  /\ winner /= NoRunner => winner = promise
  /\ winner /= NoRunner => pc[promise] \in {"request_stop", "done"}
  /\ "source" \in alive =>
       \A r \in Runner : pc[r] = "request_stop" => r = promise

\* A thread that finds after another one is a late winner: its set_value
\* throws, for which the promise must exist.
LateWinnerTold == \A r \in Runner : pc[r] = "set" => "promise" \in alive

\* Once stop is requested every thread ends: those that search at their next
\* look at the token, the late winners after their exception.
StopsAll == stop ~> AllDone

-----------------------------------------------------------------------------
\* Proof of StartTogether and OneWinner, for any number of runners.
FindRunConstants ==
  IsFiniteSet(Runner) /\ Main \notin Runner /\ NoRunner \notin Runner \cup {Main}

Label == {"arrive", "wait", "get", "return", "search", "set", "request_stop", "done"}
Arriving == {t \in Runner \cup {Main} : pc[t] = "arrive"}

\* The latch counts those who have not arrived, and who is past it has seen 0.
LatchInv ==
  /\ pc \in [Runner \cup {Main} -> Label]
  /\ latch = Cardinality(Arriving)
  /\ \A t \in Runner \cup {Main} : pc[t] \notin {"arrive", "wait"} => latch = 0

\* The promise is set by a runner that is past set_value, and only that one can
\* be about to stop the others while main's source exists; the source is
\* destroyed before the promise.
PromiseInv ==
  /\ promise \in Runner \cup {NoRunner} /\ winner \in {NoRunner, promise}
  /\ promise \in Runner => pc[promise] \in {"request_stop", "done"}
  /\ "source" \in alive => "promise" \in alive
  /\ "source" \in alive => \A r \in Runner : pc[r] = "request_stop" => r = promise

LEMMA InitInv == ASSUME FindRunConstants, Init PROVE LatchInv /\ PromiseInv
<1>1. Arriving = Runner \cup {Main}
  BY DEF Init, Arriving
<1>2. Cardinality(Arriving) = Cardinality(Runner) + 1
  BY <1>1, FS_AddElement DEF FindRunConstants
<1>3. QED BY <1>2 DEF Init, LatchInv, PromiseInv, Label, FindRunConstants

LEMMA LatchKept == ASSUME FindRunConstants, LatchInv, [Next]_vars PROVE LatchInv'
<1> USE DEF FindRunConstants, LatchInv, Label, Goto
<1>1. IsFiniteSet(Arriving) /\ Cardinality(Arriving) \in Nat
  <2>1. IsFiniteSet(Runner \cup {Main}) /\ Arriving \subseteq Runner \cup {Main}
    BY FS_AddElement DEF Arriving
  <2>2. QED BY <2>1, FS_Subset, FS_CardinalityType
<1>2. ASSUME NEW t \in Runner \cup {Main}, Arrive(t) PROVE LatchInv'
  <2> USE <1>2 DEF Arrive
  <2>1. Arriving' = Arriving \ {t} /\ t \in Arriving
    BY DEF Arriving
  <2>2. Cardinality(Arriving') = Cardinality(Arriving) - 1
    BY <1>1, <2>1, FS_RemoveElement
  <2>3. pc' \in [Runner \cup {Main} -> Label]
    OBVIOUS
  <2>4. latch /= 0
    BY <1>1, <2>1, FS_EmptySet
  <2>5. \A s \in Runner \cup {Main} : pc'[s] \in {"arrive", "wait"}
    BY <2>4
  <2>6. QED BY <2>2, <2>3, <2>5
<1>3. ASSUME NEW t \in Runner \cup {Main}, NEW l \in Label \ {"arrive"},
             pc[t] /= "arrive", Goto(t, l), UNCHANGED latch,
             pc[t] /= "wait" \/ latch = 0
      PROVE  LatchInv'
  <2>1. Arriving' = Arriving
    BY <1>3 DEF Arriving
  <2>2. QED BY <1>3, <2>1
<1>4. ASSUME NEW r \in Runner, Run(r) PROVE LatchInv'
  <2>1. CASE Pass(r)
    BY <1>3, <2>1 DEF Pass
  <2>2. CASE Find(r) \/ Leave(r) \/ SetValue(r) \/ SetValueDestroyed(r) \/ RequestStop(r)
    BY <1>3, <2>2 DEF Find, Leave, SetValue, SetValueDestroyed, RequestStop
  <2>3. QED BY <1>2, <1>4, <2>1, <2>2 DEF Run
<1>5. ASSUME MainRun PROVE LatchInv'
  <2>1. CASE Pass(Main) \/ Get \/ Join
    BY <1>3, <2>1 DEF Pass, Get, Join
  <2>2. CASE \E o \in {"promise", "source", "latch"} : Destroy(o)
    BY <2>2 DEF Destroy, Arriving
  <2>3. QED BY <1>2, <1>5, <2>1, <2>2 DEF MainRun
<1>6. CASE UNCHANGED vars
  BY <1>6 DEF vars, Arriving
<1>7. QED BY <1>4, <1>5, <1>6 DEF Next, Ended

LEMMA PromiseKept ==
  ASSUME FindRunConstants, LatchInv, PromiseInv, [Next]_vars PROVE PromiseInv'
<1> USE DEF FindRunConstants, LatchInv, PromiseInv, Label, Goto
<1>1. ASSUME NEW t \in Runner \cup {Main}, Arrive(t) \/ Pass(t) PROVE PromiseInv'
  BY <1>1 DEF Arrive, Pass
<1>2. ASSUME NEW r \in Runner, Run(r) PROVE PromiseInv'
  <2>1. CASE Find(r) \/ Leave(r)
    BY <2>1 DEF Find, Leave
  <2>2. CASE SetValue(r)
    BY <2>2 DEF SetValue
  <2>3. CASE SetValueDestroyed(r)
    BY <2>3 DEF SetValueDestroyed
  <2>4. CASE RequestStop(r)
    BY <2>4 DEF RequestStop
  <2>5. QED BY <1>1, <1>2, <2>1, <2>2, <2>3, <2>4 DEF Run
<1>3. ASSUME MainRun PROVE PromiseInv'
  <2>1. CASE Get \/ Join
    BY <2>1 DEF Get, Join
  <2>2. CASE \E o \in {"promise", "source", "latch"} : Destroy(o)
    BY <2>2 DEF Destroy
  <2>3. QED BY <1>1, <1>3, <2>1, <2>2 DEF MainRun
<1>4. CASE UNCHANGED vars
  BY <1>4 DEF vars
<1>5. QED BY <1>2, <1>3, <1>4 DEF Next, Ended

LEMMA LatchMeans == ASSUME FindRunConstants, LatchInv PROVE StartTogether
<1> SUFFICES ASSUME NEW s \in Runner \cup {Main}, pc[s] = "arrive" PROVE latch /= 0
  BY DEF LatchInv, StartTogether
<1>1. IsFiniteSet(Runner \cup {Main}) /\ Arriving \subseteq Runner \cup {Main} /\ s \in Arriving
  BY FS_AddElement DEF Arriving, FindRunConstants
<1>2. QED BY <1>1, FS_Subset, FS_EmptySet DEF LatchInv

LEMMA PromiseMeans == ASSUME FindRunConstants, PromiseInv PROVE OneWinner
BY DEF PromiseInv, OneWinner, FindRunConstants

\* However many threads search, they start together, and main returns the one
\* whose set_value came first, even while others find too late.
THEOREM FirstWins ==
  ASSUME FindRunConstants
  PROVE  Spec => [](StartTogether /\ OneWinner)
<1>1. Init => LatchInv /\ PromiseInv
  BY InitInv
<1>2. LatchInv /\ PromiseInv /\ [Next]_vars => LatchInv' /\ PromiseInv'
  BY LatchKept, PromiseKept
<1>3. LatchInv /\ PromiseInv => StartTogether /\ OneWinner
  BY LatchMeans, PromiseMeans
<1>4. QED BY <1>1, <1>2, <1>3, PTL DEF Spec
=============================================================================
