----------------------------- MODULE EchoStream -----------------------------
(***************************************************************************)
(* What one stream of the echo server does, seen without threads and jobs: *)
(* it echoes what its source has, one piece after the other, is done, and  *)
(* is destroyed after that.                                                *)
(***************************************************************************)
EXTENDS Naturals

VARIABLES
  left,   \* the pieces that are still to be echoed
  phase   \* "active", "done" or "destroyed"

vars == <<left, phase>>

Init == left \in Nat /\ phase = "active"

Echo ==
  /\ phase = "active" /\ left > 0
  /\ left' = left - 1
  /\ UNCHANGED phase

Finish == phase = "active" /\ left = 0 /\ phase' = "done" /\ UNCHANGED left

Destroy == phase = "done" /\ phase' = "destroyed" /\ UNCHANGED left

Next == Echo \/ Finish \/ Destroy

Spec == Init /\ [][Next]_vars
=============================================================================
