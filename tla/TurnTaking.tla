----------------------------- MODULE TurnTaking -----------------------------
(***************************************************************************)
(* Two players, ping and pong, take turns, ping first, until pong has had  *)
(* count_limit + 1 turns.  The tests of PingPong implement it.             *)
(***************************************************************************)
EXTENDS Naturals

CONSTANT count_limit

VARIABLE turns   \* the turns that "ping" and "pong" have had

Init == turns = [ping |-> 0, pong |-> 0]

\* ping may have one more turn after the last one of pong, which it may not
\* have seen counted.
Ping ==
  /\ turns.ping = turns.pong /\ turns.pong <= count_limit + 1
  /\ turns' = [turns EXCEPT !.ping = @ + 1]

Pong ==
  /\ turns.ping = turns.pong + 1 /\ turns.pong <= count_limit
  /\ turns' = [turns EXCEPT !.pong = @ + 1]

Spec == Init /\ [][Ping \/ Pong]_turns
=============================================================================
