--------------------------- MODULE BoundedChannel ---------------------------
(***************************************************************************)
(* A bounded FIFO channel between threads: sending appends when there is   *)
(* room, receiving takes the oldest value when there is one.               *)
(***************************************************************************)
EXTENDS Naturals, Sequences

CONSTANTS Thread, Value, NoValue, Capacity

VARIABLES
  buffer,    \* the values sent and not received, oldest first
  received   \* the value each thread has received and not yet returned

vars == <<buffer, received>>

Init == buffer = << >> /\ received = [t \in Thread |-> NoValue]

Send(v) ==
  /\ Len(buffer) < Capacity
  /\ buffer' = Append(buffer, v)
  /\ UNCHANGED received

Receive(t) ==
  /\ buffer /= << >> /\ received[t] = NoValue
  /\ received' = [received EXCEPT ![t] = Head(buffer)]
  /\ buffer' = Tail(buffer)

Return(t) ==
  /\ received[t] /= NoValue
  /\ received' = [received EXCEPT ![t] = NoValue]
  /\ UNCHANGED buffer

Next ==
  \/ \E v \in Value : Send(v)
  \/ \E t \in Thread : Receive(t) \/ Return(t)

Spec == Init /\ [][Next]_vars
=============================================================================
