------------------------- MODULE GeneratorPipeline -------------------------
(***************************************************************************)
(* src/coroutines/inlined-coroutines.cpp: seq, take_until, multiply and    *)
(* add, each a coroutine that iterates over the one before, and            *)
(* std::accumulate, which iterates over the last. A stage runs only while  *)
(* the next one begins or increments its iterator: the stages that run are *)
(* a stack of nested resume() calls.                                       *)
(***************************************************************************)
EXTENDS Integers

CONSTANTS limit, factor, adder   \* 10, 2 and 110 in main

\* 1 to 4: seq, take_until, multiply, add; 5: accumulate.
Stage == 1 .. 5
Accumulate == 5

VARIABLES
  top,    \* the stage on top of the stack
  state,  \* initial, running, waiting (for the stage below), yielded, final
  value,  \* promise().current_value
  i,      \* the i of seq, -1 before the loop
  sum     \* of accumulate

vars == <<top, state, value, i, sum>>

Init ==
  /\ top = Accumulate
  /\ state = [s \in Stage |-> IF s = Accumulate THEN "running" ELSE "initial"]
  /\ value = [s \in Stage |-> 0]
  /\ i = -1
  /\ sum = 0

\* The stage gives way to the one above it.
Suspend(s, l) == top' = s + 1 /\ state' = [state EXCEPT ![s] = l]

Yield(s, v) == value' = [value EXCEPT ![s] = v] /\ Suspend(s, "yielded")

\* begin() or operator++ of the iterator of s: the stage below is resumed.
Ask(s) ==
  /\ top = s /\ s > 1 /\ state[s] = "running"
  /\ state' = [state EXCEPT ![s] = "waiting", ![s - 1] = "running"]
  /\ top' = s - 1
  /\ UNCHANGED <<value, i, sum>>

\* for (T i = {};; ++i) co_yield i;
Seq ==
  /\ top = 1 /\ state[1] = "running"
  /\ i' = i + 1
  /\ Yield(1, i + 1)
  /\ UNCHANGED sum

Got(s) == top = s /\ state[s] = "waiting" /\ state[s - 1] = "yielded"

\* Faulty: the limit is taken too.
TakeUntilLast ==
  /\ Got(2)
  /\ IF value[1] <= limit THEN Yield(2, value[1]) ELSE Suspend(2, "final") /\ UNCHANGED value
  /\ UNCHANGED <<i, sum>>

TakeUntil ==
  /\ Got(2)
  /\ IF value[1] < limit THEN Yield(2, value[1]) ELSE Suspend(2, "final") /\ UNCHANGED value
  /\ UNCHANGED <<i, sum>>

Multiply == Got(3) /\ Yield(3, value[2] * factor) /\ UNCHANGED <<i, sum>>

AddStage == Got(4) /\ Yield(4, value[3] + adder) /\ UNCHANGED <<i, sum>>

Sum ==
  /\ Got(Accumulate)
  /\ sum' = sum + value[4]
  /\ state' = [state EXCEPT ![Accumulate] = "running"]
  /\ UNCHANGED <<top, value, i>>

\* Faulty: a stage does not look whether the one below has ended.
FinishNever(s) ==
  /\ top = s /\ state[s] = "waiting" /\ state[s - 1] = "final"
  /\ state' = [state EXCEPT ![s] = "running"]
  /\ UNCHANGED <<top, value, i, sum>>

\* The stage below has ended (_Done): so does this one.
Finish(s) ==
  /\ top = s /\ s > 1 /\ state[s] = "waiting" /\ state[s - 1] = "final"
  /\ IF s = Accumulate
     THEN state' = [state EXCEPT ![s] = "final"] /\ UNCHANGED top
     ELSE Suspend(s, "final")
  /\ UNCHANGED <<value, i, sum>>

Returned == state[Accumulate] = "final"

Next ==
  \/ \E s \in Stage : Ask(s) \/ Finish(s)
  \/ Seq \/ TakeUntil \/ Multiply \/ AddStage \/ Sum
  \/ Returned /\ UNCHANGED vars

Spec == Init /\ [][Next]_vars

-----------------------------------------------------------------------------
\* No stage is resumed at its final suspension point, which is undefined.
ResumedLive ==
  /\ \A s \in Stage : s > 1 /\ top = s /\ state[s] = "running" => state[s - 1] /= "final"
  /\ \A s \in Stage : s > top => state[s] = "waiting"

\* The infinite seq runs on demand: it is asked once more than accumulate has
\* got values, and main returns what the sum of the first limit values is.
OnDemand ==
  /\ i <= limit
  /\ Returned =>
       i = limit /\ sum = factor * ((limit * (limit - 1)) \div 2) + adder * limit
=============================================================================
