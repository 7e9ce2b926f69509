------------------------------ MODULE PingPong ------------------------------
(***************************************************************************)
(* The tests of src/concurrency/pingpong--benchmark.cpp: two threads, ping *)
(* and pong, that pass a turn to each other until pong has counted past    *)
(* count_limit, with a different means in each test.  `test` is the one    *)
(* that runs; the steps that the tests share are written once.             *)
(*                                                                         *)
(*   atomic_bool         one std::atomic<bool> and compare_exchange_strong *)
(*   atomic_wait         one std::atomic_flag with wait and notify_one     *)
(*   atomic_flags        two of them (its registration is commented out)   *)
(*   condition_variable  a flag, a mutex, two condition variables          *)
(*   semaphore           two semaphores with a maximum of 1; the counting  *)
(*                       and the binary test have the same body            *)
(***************************************************************************)
EXTENDS Naturals

CONSTANTS
  Tests,        \* the tests that may be run
  count_limit,
  NoPlayer      \* the mutex is free

AllTests ==
  {"atomic_bool", "atomic_wait", "atomic_flags", "condition_variable", "semaphore"}

Player == {"ping", "pong"}

Other(p) == IF p = "ping" THEN "pong" ELSE "ping"

ASSUME PingPongAssumption ==
  Tests \subseteq AllTests /\ count_limit \in Nat /\ NoPlayer \notin Player

VARIABLES
  test,
  pc,        \* where each player is
  counter,
  flag,      \* atomicBool, condAtomicFlag, dataReady: true if it is pong's turn
  signal_to, \* the permits of the semaphores, the flags of atomic_flags (0, 1)
  expected,  \* the local `expected` of each player in atomic_bool
  mutex_,
  turns      \* history: the turns each player has had, but in atomic_bool, where
             \* ping may move forward any number of times in a row

vars == <<test, pc, counter, flag, signal_to, expected, mutex_, turns>>

\* The value of the flag at which p may take its turn.
Mine(p) == p = "pong"

Goto(p, l) == pc' = [pc EXCEPT ![p] = l]

\* p has moved forward; pong counts it next, ping goes to l.
Forward(p, l) == Goto(p, IF p = "pong" THEN "count" ELSE l)

TakeTurn(p, l) == turns' = [turns EXCEPT ![p] = @ + 1] /\ Forward(p, l)

Init ==
  /\ test \in Tests
  /\ pc = [p \in Player |-> "test"]
  /\ counter = 0
  /\ flag = FALSE
  /\ signal_to = [p \in Player |-> 0]
  /\ expected = [p \in Player |-> Mine(p)]
  /\ mutex_ = NoPlayer
  /\ turns = [p \in Player |-> 0]

-----------------------------------------------------------------------------
\* Faulty: one turn more.
GoesOnMore == counter <= count_limit + 1

GoesOn == counter <= count_limit

\* while (counter <= count_limit); `bool expected = ...` of atomic_bool.
Loop(p) ==
  /\ pc[p] = "test"
  /\ Goto(p, IF GoesOn THEN "wait" ELSE "done")
  /\ expected' = [expected EXCEPT ![p] = Mine(p)]
  /\ UNCHANGED <<test, counter, flag, signal_to, mutex_, turns>>

\* pong: ++counter.
Count ==
  /\ pc["pong"] = "count"
  /\ counter' = counter + 1
  /\ Goto("pong", CASE test = "atomic_bool" -> "test"
                    [] test = "atomic_wait" -> "pass"
                    [] OTHER -> "notify")
  /\ UNCHANGED <<test, flag, signal_to, expected, mutex_, turns>>

-----------------------------------------------------------------------------
\* atomic_bool: the exchange of `expected` for its opposite succeeds.
Exchange(p) ==
  /\ test = "atomic_bool" /\ pc[p] = "wait" /\ flag = expected[p]
  /\ flag' = ~Mine(p)
  /\ Forward(p, "test")
  /\ UNCHANGED <<test, counter, signal_to, expected, mutex_, turns>>

\* Faulty: `expected` is set again before each try, so that a player that
\* waits for a turn the other one will not take spins for ever.
ExchangeFailsAnew(p) ==
  /\ test = "atomic_bool" /\ pc[p] = "wait" /\ flag /= expected[p]
  /\ UNCHANGED vars

\* It fails, and overwrites `expected` with what it found.
ExchangeFails(p) ==
  /\ test = "atomic_bool" /\ pc[p] = "wait" /\ flag /= expected[p]
  /\ expected' = [expected EXCEPT ![p] = flag]
  /\ UNCHANGED <<test, pc, counter, flag, signal_to, mutex_, turns>>

-----------------------------------------------------------------------------
\* Faulty: each player waits for the value of the other one.
OldMine(p) == Mine(p)

\* The value that atomic_flag::wait of p waits to see no more.
Old(p) == ~Mine(p)

\* atomic_wait: wait(Old) returns at once, or the thread goes to sleep.
Wait(p) ==
  /\ test = "atomic_wait" /\ pc[p] = "wait"
  /\ Goto(p, IF flag = Old(p) THEN "asleep"
             ELSE IF p = "ping" THEN "pass" ELSE "count")
  /\ UNCHANGED <<test, counter, flag, signal_to, expected, mutex_, turns>>

\* ping: test_and_set(); pong, which has counted: clear().
Pass(p) ==
  /\ test = "atomic_wait" /\ pc[p] = "pass"
  /\ flag' = ~Mine(p)
  /\ turns' = [turns EXCEPT ![p] = @ + 1]
  /\ Goto(p, "notify")
  /\ UNCHANGED <<test, counter, signal_to, expected, mutex_>>

\* atomic_flags: both players wait for their own flag to be true, clear it
\* and go on to set the other one's.
WaitOwn(p) ==
  /\ test = "atomic_flags" /\ pc[p] = "wait"
  /\ IF signal_to[p] = 0
     THEN Goto(p, "asleep") /\ UNCHANGED <<signal_to, turns>>
     ELSE TakeTurn(p, "notify") /\ signal_to' = [signal_to EXCEPT ![p] = 0]
  /\ UNCHANGED <<test, counter, flag, expected, mutex_>>

-----------------------------------------------------------------------------
\* condition_variable: unique_lock.
Lock(p) ==
  /\ test = "condition_variable" /\ pc[p] = "wait" /\ mutex_ = NoPlayer
  /\ mutex_' = p
  /\ Goto(p, "pred")
  /\ UNCHANGED <<test, counter, flag, signal_to, expected, turns>>

\* The predicate is false: release the mutex and sleep.
Sleep(p) ==
  /\ pc[p] = "pred" /\ flag /= Mine(p)
  /\ mutex_' = NoPlayer
  /\ Goto(p, "asleep")
  /\ UNCHANGED <<test, counter, flag, signal_to, expected, turns>>

\* dataReady changes, the mutex is released.
Ready(p) ==
  /\ pc[p] = "pred" /\ flag = Mine(p)
  /\ flag' = ~Mine(p)
  /\ mutex_' = NoPlayer
  /\ TakeTurn(p, "notify")
  /\ UNCHANGED <<test, counter, signal_to, expected>>

-----------------------------------------------------------------------------
\* semaphore: the owner's signal_to_ping.release(), at any time, as nobody
\* can take a turn before it.
Kick ==
  /\ test = "semaphore" /\ turns["ping"] = 0 /\ signal_to["ping"] = 0
  /\ signal_to' = [signal_to EXCEPT !["ping"] = 1]
  /\ UNCHANGED <<test, pc, counter, flag, expected, mutex_, turns>>

\* Faulty: acquire does not use up the permit.
AcquireKeep(p) ==
  /\ test = "semaphore" /\ pc[p] = "wait" /\ signal_to[p] > 0
  /\ TakeTurn(p, "notify")
  /\ UNCHANGED <<test, counter, flag, signal_to, expected, mutex_>>

Acquire(p) ==
  /\ test = "semaphore" /\ pc[p] = "wait" /\ signal_to[p] > 0
  /\ signal_to' = [signal_to EXCEPT ![p] = @ - 1]
  /\ TakeTurn(p, "notify")
  /\ UNCHANGED <<test, counter, flag, expected, mutex_>>

-----------------------------------------------------------------------------
\* Faulty: the other player is not notified.
WakeNobody(p) == Goto(p, "test")

\* notify_one() of the player that p may have to wake: it looks again.
Wake(p) ==
  pc' = [pc EXCEPT ![p] = "test", ![Other(p)] = IF @ = "asleep" THEN "wait" ELSE @]

\* The end of a turn: release of the other semaphore, test_and_set of the
\* other flag and its notification, or notify_one alone.
Notify(p) ==
  /\ pc[p] = "notify"
  /\ CASE test = "semaphore" ->
            signal_to' = [signal_to EXCEPT ![Other(p)] = @ + 1] /\ Goto(p, "test")
       [] test = "atomic_flags" ->
            signal_to' = [signal_to EXCEPT ![Other(p)] = 1] /\ Wake(p)
       [] OTHER -> Wake(p) /\ UNCHANGED signal_to
  /\ UNCHANGED <<test, counter, flag, expected, mutex_, turns>>

\* A thread may wake up although nobody notified it.
SpuriousWake(p) ==
  /\ pc[p] = "asleep"
  /\ Goto(p, "wait")
  /\ UNCHANGED <<test, counter, flag, signal_to, expected, mutex_, turns>>

AllDone == \A p \in Player : pc[p] = "done"

\* The joins have returned.
Joined == AllDone /\ UNCHANGED vars

Turn(p) ==
  \/ Loop(p) \/ Notify(p) \/ (p = "pong" /\ Count)
  \/ Exchange(p) \/ ExchangeFails(p)
  \/ Wait(p) \/ Pass(p) \/ WaitOwn(p)
  \/ Lock(p) \/ Sleep(p) \/ Ready(p)
  \/ Acquire(p)

Next == (\E p \in Player : Turn(p) \/ SpuriousWake(p)) \/ Kick \/ Joined

Spec == Init /\ [][Next]_vars

\* Both threads are scheduled, and get the mutex in the end.
FairSpec ==
  /\ Spec /\ WF_vars(Kick)
  /\ \A p \in Player : WF_vars(Turn(p)) /\ SF_vars(Lock(p))

-----------------------------------------------------------------------------
\* No notification is lost: a player that sleeps although it may take its turn
\* is about to be notified.
NoLostNotify ==
  \A p \in Player :
    pc[p] = "asleep" /\ (IF test = "atomic_flags" THEN signal_to[p] = 1 ELSE flag = Mine(p))
      => pc[Other(p)] \in {"count", "notify"}

\* One permit goes round between the semaphores and the players, so that no
\* release exceeds the maximum of 1 of its semaphore.
OnePermit ==
  test = "semaphore" =>
    LET holds(p) == IF pc[p] \in {"count", "notify"} THEN 1 ELSE 0
        started == turns["ping"] > 0 \/ signal_to["ping"] > 0
    IN  signal_to["ping"] + signal_to["pong"] + holds("ping") + holds("pong")
          = IF started THEN 1 ELSE 0

\* Whatever a test signals with, a signal is neither lost nor doubled.
SignalsKept == NoLostNotify /\ OnePermit

\* The tests without a lock end, nobody spins or sleeps for ever after the last
\* turn, and they return the same count although only pong counts.
LockFreeReturns ==
  test \in {"atomic_bool", "atomic_wait", "semaphore"}
    ~> AllDone /\ counter = count_limit + 1

\* Every test that is run ends, as main, which joins its threads, expects.
Returns == <>AllDone

\* ping and pong take turns; only the spinning test does not.
Game == INSTANCE TurnTaking

TakesTurns == Game!Spec
=============================================================================
