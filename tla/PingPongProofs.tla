--------------------------- MODULE PingPongProofs ---------------------------
(***************************************************************************)
(* Proofs about PingPong, for every limit and every subset of the tests.   *)
(***************************************************************************)
EXTENDS PingPong, TLAPS

\* Where the players may be in each test.
Points(t) ==
  {"test", "wait", "done"} \cup
  CASE t = "atomic_bool"        -> {"count"}
    [] t = "atomic_wait"        -> {"asleep", "count", "pass", "notify"}
    [] t = "atomic_flags"       -> {"asleep"}
    [] t = "condition_variable" -> {"pred", "asleep", "count", "notify"}
    [] OTHER                    -> {"count", "notify"}

TypeOK ==
  /\ test \in AllTests
  /\ pc \in [Player -> Points(test)] /\ pc["ping"] /= "count"
  /\ counter \in Nat /\ flag \in BOOLEAN
  /\ signal_to \in [Player -> Nat]
  /\ turns \in [Player -> Nat]

One(b) == IF b THEN 1 ELSE 0

\* pong looks at counter before each turn, and counts the turn after it, or
\* before it in atomic_wait.
CountInv ==
  /\ counter <= count_limit + 1
  /\ pc["pong"] \in {"wait", "asleep", "pred", "count"} => counter <= count_limit
  /\ test /= "atomic_bool" =>
       turns["pong"] + One(pc["pong"] = "pass")
         = counter + One(pc["pong"] = "count" /\ test /= "atomic_wait")

\* Who has the next turn.
TurnInv ==
  /\ test \in {"atomic_wait", "condition_variable"} =>
       turns["ping"] = turns["pong"] + One(flag)
  /\ test = "semaphore" =>
       turns["ping"] =
         turns["pong"] + One(signal_to["pong"] > 0 \/ pc["ping"] = "notify")

\* Who passes the turn has it, and the two flags of atomic_flags stay false.
PassInv ==
  /\ test = "atomic_wait" =>
       \A p \in Player : pc[p] \in {"count", "pass"} => flag = Mine(p)
  /\ test = "atomic_flags" => signal_to = [p \in Player |-> 0]

Inv == TypeOK /\ CountInv /\ TurnInv /\ PassInv /\ NoLostNotify /\ OnePermit
-----------------------------------------------------------------------------
LEMMA InitInv == Init => Inv
<1> SUFFICES ASSUME Init PROVE Inv
  OBVIOUS
<1> USE PingPongAssumption DEF Init, Player
<1>1. TypeOK
  BY DEF TypeOK, Points, AllTests
<1>2. CountInv
  BY DEF CountInv, One
<1>3. TurnInv
  BY DEF TurnInv, One
<1>4. PassInv
  BY DEF PassInv
<1>5. NoLostNotify
  BY DEF NoLostNotify, Other, Mine
<1>6. OnePermit
  BY DEF OnePermit
<1> QED BY <1>1, <1>2, <1>3, <1>4, <1>5, <1>6 DEF Inv

LEMMA Step ==
  ASSUME Inv, NEW p \in Player, Turn(p) \/ SpuriousWake(p) \/ Kick
  PROVE  Inv'
<1> USE PingPongAssumption
        DEF Inv, TypeOK, Points, Player, AllTests, Mine, One, Goto
\* The three steps that take a turn.
<1>1. CASE Pass(p)
  <2> USE <1>1 DEF Pass
  <2>1. TypeOK' /\ CountInv' /\ PassInv'
    BY DEF CountInv, PassInv
  <2>2. TurnInv'
    <3>1. test' = test /\ test \in {"atomic_wait", "condition_variable"}
      OBVIOUS
    <3>2. flag = Mine(p) /\ flag' = ~flag /\ turns' = [turns EXCEPT ![p] = @ + 1]
      BY DEF PassInv
    <3>3. flag <=> p = "pong"
      BY <3>2
    <3>4. turns["ping"] = turns["pong"] + One(flag)
      BY <3>1 DEF TurnInv
    <3>5. turns'["ping"] = turns'["pong"] + One(~flag)
      BY <3>2, <3>3, <3>4
    <3> QED BY <3>1, <3>2, <3>5 DEF TurnInv
  <2>3. NoLostNotify' /\ OnePermit'
    BY DEF NoLostNotify, OnePermit, Other
  <2> QED BY <2>1, <2>2, <2>3
<1>2. CASE Ready(p)
  <2> USE <1>2 DEF Ready, TakeTurn, Forward
  <2>1. TypeOK' /\ CountInv' /\ PassInv'
    BY DEF CountInv, PassInv
  <2>2. TurnInv'
    <3>1. test' = test /\ test \in {"atomic_wait", "condition_variable"}
      OBVIOUS
    <3>2. flag = Mine(p) /\ flag' = ~flag /\ turns' = [turns EXCEPT ![p] = @ + 1]
      BY DEF PassInv
    <3>3. flag <=> p = "pong"
      BY <3>2
    <3>4. turns["ping"] = turns["pong"] + One(flag)
      BY <3>1 DEF TurnInv
    <3>5. turns'["ping"] = turns'["pong"] + One(~flag)
      BY <3>2, <3>3, <3>4
    <3> QED BY <3>1, <3>2, <3>5 DEF TurnInv
  <2>3. NoLostNotify' /\ OnePermit'
    BY DEF NoLostNotify, OnePermit, Other
  <2> QED BY <2>1, <2>2, <2>3
<1>3. CASE Acquire(p)
  <2> USE <1>3 DEF Acquire, TakeTurn, Forward
  <2>1. TypeOK' /\ CountInv' /\ PassInv'
    BY DEF CountInv, PassInv
  <2>2. TurnInv'
    BY DEF TurnInv, OnePermit
  <2>3. NoLostNotify' /\ OnePermit'
    BY DEF NoLostNotify, OnePermit, Other
  <2> QED BY <2>1, <2>2, <2>3
\* The others.
<1> USE DEF CountInv, TurnInv, PassInv, NoLostNotify, OnePermit, Other
<1>4. CASE Loop(p)
  BY <1>4 DEF Loop, GoesOn
<1>5. CASE Notify(p)
  BY <1>5 DEF Notify, Wake
<1>6. CASE p = "pong" /\ Count
  BY <1>6 DEF Count
<1>7. CASE Exchange(p)
  BY <1>7 DEF Exchange, Forward
<1>8. CASE ExchangeFails(p)
  BY <1>8 DEF ExchangeFails
<1>9. CASE Wait(p)
  BY <1>9 DEF Wait, Old
<1>10. CASE WaitOwn(p)
  BY <1>10 DEF WaitOwn, TakeTurn, Forward
<1>11. CASE Lock(p)
  BY <1>11 DEF Lock
<1>12. CASE Sleep(p)
  BY <1>12 DEF Sleep
<1>13. CASE SpuriousWake(p)
  BY <1>13 DEF SpuriousWake
<1>14. CASE Kick
  BY <1>14 DEF Kick
<1> QED
  BY <1>1, <1>2, <1>3, <1>4, <1>5, <1>6, <1>7,
     <1>8, <1>9, <1>10, <1>11, <1>12, <1>13, <1>14 DEF Turn

LEMMA InvHolds == Spec => []Inv
<1>1. Inv /\ [Next]_vars => Inv'
  <2> SUFFICES ASSUME Inv, [Next]_vars PROVE Inv'
    OBVIOUS
  <2>1. CASE \E p \in Player : Turn(p) \/ SpuriousWake(p)
    BY <2>1, Step
  <2>2. CASE Kick
    BY <2>2, Step DEF Player
  <2>3. CASE UNCHANGED vars
    BY <2>3
       DEF vars, Inv, TypeOK, CountInv, TurnInv, PassInv, NoLostNotify, OnePermit
  <2> QED BY <2>1, <2>2, <2>3 DEF Next, Joined
<1> QED BY <1>1, InitInv, PTL DEF Spec

-----------------------------------------------------------------------------
\* For every limit, no test loses a notification and one permit goes round.
THEOREM SignalsAlwaysKept == Spec => []SignalsKept
<1>1. Inv => SignalsKept
  BY DEF Inv, SignalsKept
<1> QED BY <1>1, InvHolds, PTL

\* p has a turn that is its own, within the limit.
TurnOf(p) ==
  /\ turns' = [turns EXCEPT ![p] = @ + 1]
  /\ turns["ping"] = turns["pong"] + One(p = "pong")
  /\ turns["pong"] <= count_limit + One(p = "ping")

LEMMA GameTurn ==
  ASSUME TypeOK, NEW p \in Player, TurnOf(p)
  PROVE  Game!Ping \/ Game!Pong
<1>1. turns.ping = turns["ping"] /\ turns.pong = turns["pong"]
  OBVIOUS
<1>2. CASE p = "ping"
  <2>1. turns' = [turns EXCEPT !.ping = @ + 1]
    BY <1>2 DEF TurnOf
  <2>2. turns["ping"] = turns["pong"] /\ turns["pong"] <= count_limit + 1
    BY <1>2 DEF TurnOf, One, TypeOK, Player
  <2> QED BY <1>1, <2>1, <2>2 DEF Game!Ping
<1>3. CASE p = "pong"
  <2>1. turns' = [turns EXCEPT !.pong = @ + 1]
    BY <1>3 DEF TurnOf
  <2>2. turns["ping"] = turns["pong"] + 1 /\ turns["pong"] <= count_limit
    BY <1>3, PingPongAssumption DEF TurnOf, One, TypeOK, Player
  <2> QED BY <1>1, <2>1, <2>2 DEF Game!Pong
<1> QED BY <1>2, <1>3 DEF Player

LEMMA GameStep ==
  ASSUME Inv, NEW p \in Player, Turn(p)
  PROVE  TurnOf(p) \/ UNCHANGED turns
<1> USE PingPongAssumption DEF Player, AllTests, One, Inv, TypeOK, TurnOf
<1>1. CASE Pass(p)
  <2>1. /\ test = "atomic_wait" /\ flag = Mine(p)
        /\ turns' = [turns EXCEPT ![p] = @ + 1]
    BY <1>1 DEF Pass, PassInv
  <2>2. flag <=> p = "pong"
    BY <2>1 DEF Mine
  <2>3. pc[p] = "pass"
    BY <1>1 DEF Pass
  <2> QED BY <2>1, <2>2, <2>3 DEF CountInv, TurnInv, Points
<1>2. CASE Ready(p)
  <2>1. test = "condition_variable"
    BY <1>2 DEF Ready, Points
  <2>2. flag = Mine(p) /\ pc[p] = "pred" /\ turns' = [turns EXCEPT ![p] = @ + 1]
    BY <1>2 DEF Ready, TakeTurn
  <2>3. flag <=> p = "pong"
    BY <2>2 DEF Mine
  <2> QED BY <2>1, <2>2, <2>3 DEF CountInv, TurnInv, Points
<1>3. CASE Acquire(p)
  BY <1>3 DEF Acquire, TakeTurn, CountInv, TurnInv, OnePermit, Points
<1>4. CASE WaitOwn(p)
  BY <1>4 DEF WaitOwn, PassInv
<1> QED
  BY <1>1, <1>2, <1>3, <1>4
     DEF Turn, Loop, Notify, Count, Exchange, ExchangeFails, Wait, Lock, Sleep

\* For every limit, each test takes turns but the spinning one, of which no
\* turns are recorded: pong has one turn after each turn of ping, and count_limit
\* + 1 of them at most.
THEOREM EveryTestTakesTurns == Spec => TakesTurns
<1>1. Init => Game!Init
  BY DEF Init, Game!Init, Player
<1>2. Inv /\ [Next]_vars => [Game!Ping \/ Game!Pong]_turns
  <2> SUFFICES ASSUME Inv, [Next]_vars PROVE [Game!Ping \/ Game!Pong]_turns
    OBVIOUS
  <2>1. CASE \E p \in Player : Turn(p)
    BY <2>1, GameStep, GameTurn DEF Inv
  <2> QED BY <2>1 DEF Next, SpuriousWake, Kick, Joined, vars
<1> QED BY <1>1, <1>2, InvHolds, PTL DEF Spec, TakesTurns, Game!Spec
=============================================================================
