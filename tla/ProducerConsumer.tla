-------------------------- MODULE ProducerConsumer --------------------------
(***************************************************************************)
(* The client of ConcurrentQueue in Solutions/                             *)
(* producer-consumer--unittest.cpp: producers that push values until one   *)
(* of them is 0, consumers that pop until a value is negative, a joiner    *)
(* that stops the consumers with one negative value each, and the test,    *)
(* which waits for the joiner under ASSERT_DURATION_LE: the joiner is a    *)
(* detached thread with references to the locals of the test.              *)
(***************************************************************************)
EXTENDS ConcurrentQueue

CONSTANTS
  Producer, Consumer,
  Joiner,    \* the detached thread of ASSERT_DURATION_LE
  MaxPush    \* bound: each producer draws a 0 at its MaxPush-th push at latest

\* Bound: the values of a run. The code tells only negative, zero and positive
\* ones apart.
Numbers == -1 .. 1

ASSUME ClientAssumption ==
  /\ Thread = Producer \cup Consumer \cup {Joiner}
  /\ Producer \cap Consumer = {} /\ Joiner \notin Producer \cup Consumer
  /\ {-1, 0} \subseteq Value /\ Value \subseteq Int
  /\ MaxPush \in Nat \ {0}

VARIABLES
  run,      \* "run" or "done" for each producer and consumer
  m_count,  \* Producer::m_count, Consumer::m_count
  joining,  \* "producers", "stop", "consumers", "complete" or "done"
  stops,    \* how many negative values the joiner has pushed
  test      \* "wait", "completed", "timeout", "terminated"

client == <<run, m_count, joining, stops, test>>
vars == <<queue, client>>

Init ==
  /\ QueueInit
  /\ run = [t \in Producer \cup Consumer |-> "run"]
  /\ m_count = [t \in Producer \cup Consumer |-> 0]
  /\ joining = "producers" /\ stops = 0
  /\ test = "wait"

\* The process exists: std::terminate has not been called.
Alive == test /= "terminated"

-----------------------------------------------------------------------------
\* Producer::run draws a value and pushes it.
Produce(p) ==
  /\ run[p] = "run"
  /\ \E v \in Value :
       /\ v >= 0 /\ (m_count[p] + 1 = MaxPush => v = 0)
       /\ CallPush(p, v)
  /\ UNCHANGED client

\* push has returned: the loop ends after a 0.
Produced(p) ==
  /\ PushNotify(p)
  /\ m_count' = [m_count EXCEPT ![p] = @ + 1]
  /\ run' = [run EXCEPT ![p] = IF item[p] /= 0 THEN "run" ELSE "done"]
  /\ UNCHANGED <<joining, stops, test>>

Consume(c) == run[c] = "run" /\ CallPop(c) /\ UNCHANGED client

\* Faulty: a consumer ends with a 0, like a producer.
GoesOnPositive(val) == val > 0

\* The consumer goes on as long as it gets no negative value.
GoesOn(val) == val >= 0

\* pop has returned.
Consumed(c) ==
  /\ PopNotify(c)
  /\ m_count' = [m_count EXCEPT ![c] = @ + 1]
  /\ run' = [run EXCEPT ![c] = IF GoesOn(item[c]) THEN "run" ELSE "done"]
  /\ UNCHANGED <<joining, stops, test>>

\* What push and pop do between the call and the return.
InQueue(t) ==
  /\ \/ PushLock(t) \/ PushSleep(t) \/ PushItem(t)
     \/ PopLock(t) \/ PopSleep(t) \/ PopItem(t)
  /\ UNCHANGED client

-----------------------------------------------------------------------------
\* Faulty: the consumers are stopped at once.
JoinProducersNone ==
  /\ joining = "producers"
  /\ joining' = "stop"
  /\ UNCHANGED <<queue, run, m_count, stops, test>>

\* Every producer thread has been joined.
JoinProducers ==
  /\ joining = "producers" /\ \A p \in Producer : run[p] = "done"
  /\ joining' = "stop"
  /\ UNCHANGED <<queue, run, m_count, stops, test>>

\* Faulty: one negative value for all consumers.
StopsWantedOne == 1

\* for (auto &&c : consumers)
StopsWanted == Cardinality(Consumer)

StopConsumer ==
  /\ joining = "stop" /\ stops < StopsWanted
  /\ CallPush(Joiner, -1)
  /\ UNCHANGED client

StopPushed ==
  /\ PushNotify(Joiner)
  /\ stops' = stops + 1
  /\ joining' = IF stops' = StopsWanted THEN "consumers" ELSE "stop"
  /\ UNCHANGED <<run, m_count, test>>

JoinConsumers ==
  /\ joining = "consumers" /\ \A c \in Consumer : run[c] = "done"
  /\ joining' = "complete"
  /\ UNCHANGED <<queue, run, m_count, stops, test>>

\* completed.set_value(true)
Complete ==
  /\ joining = "complete"
  /\ joining' = "done"
  /\ UNCHANGED <<queue, run, m_count, stops, test>>

\* The detached thread's part of the statement of ASSERT_DURATION_LE.
JoinerStep ==
  JoinProducers \/ StopConsumer \/ StopPushed \/ JoinConsumers \/ Complete

-----------------------------------------------------------------------------
\* stmt_future.wait_for has found the value: the test ends, every thread of
\* its vectors has been joined.
TestCompletes ==
  /\ test = "wait" /\ joining = "done"
  /\ test' = "completed"
  /\ UNCHANGED <<queue, run, m_count, joining, stops>>

\* The threads of the test's vectors that nobody has joined.
Joinable ==
  CASE joining = "producers" -> Producer \cup Consumer
    [] joining \in {"stop", "consumers"} -> Consumer
    [] OTHER -> {}

\* wait_for has run out of time, and the test returns.  The destructor of a
\* std::thread that is joinable calls std::terminate.
TestTimesOut ==
  /\ test = "wait" /\ joining /= "done"
  /\ test' = IF Joinable = {} THEN "timeout" ELSE "terminated"
  /\ UNCHANGED <<queue, run, m_count, joining, stops>>

-----------------------------------------------------------------------------
\* Everything that thread t does.
ThreadStep(t) ==
  \/ InQueue(t)
  \/ t \in Producer /\ (Produce(t) \/ Produced(t))
  \/ t \in Consumer /\ (Consume(t) \/ Consumed(t))
  \/ t = Joiner /\ JoinerStep

Threads == \E t \in Thread : ThreadStep(t)

Spurious == \E t \in Thread : SpuriousWake(t) /\ UNCHANGED client

\* The process has ended, or every thread has.
Ended ==
  /\ ~Alive \/ (joining = "done" /\ test /= "wait")
  /\ UNCHANGED vars

\* The test on a machine that is fast enough.
NextInTime == Threads \/ Spurious \/ TestCompletes \/ Ended

\* The test with the timeout at any moment.
Next ==
  \/ Alive /\ (Threads \/ Spurious \/ TestCompletes \/ TestTimesOut)
  \/ Ended

Spec == Init /\ [][Next]_vars
SpecInTime == Init /\ [][NextInTime]_vars

\* Each thread is scheduled, and gets the mutex in the end.
Fairness ==
  /\ \A t \in Thread :
       /\ WF_vars(ThreadStep(t))
       /\ SF_vars((PushLock(t) \/ PopLock(t)) /\ UNCHANGED client)
  /\ WF_vars(TestCompletes)

FairSpec == SpecInTime /\ Fairness

-----------------------------------------------------------------------------
\* The calls of push or pop that m_count has counted for the threads of S.
Returned(S) == UNION {{t} \X (1 .. m_count[t]) : t \in S}

\* Every value is popped once: what was pushed is what was popped and what is
\* in the queue, counting the calls on their way out of push and pop.
CountsBalance ==
  LET leaving(S, l) == Cardinality({t \in S : pc[t] = l}) IN
  Cardinality(Returned(Producer)) + stops + leaving(Producer \cup {Joiner}, "push_notify")
    = Cardinality(Returned(Consumer)) + leaving(Consumer, "pop_notify") + Len(m_queue)

\* A negative value is taken only when every producer is done and there is
\* nothing but negative values behind it, so that no consumer leaves work in
\* the queue; and each consumer takes one, so that none is left over.
OneStopEach ==
  /\ (\E c \in Consumer : run[c] = "done") =>
       /\ \A p \in Producer : run[p] = "done"
       /\ \A i \in 1 .. Len(m_queue) : m_queue[i] = -1
  /\ joining \in {"complete", "done"} =>
       m_queue = << >> /\ stops = Cardinality(Consumer)

\* Nothing is popped twice, nothing stays behind.
AllPopped == CountsBalance /\ OneStopEach

\* The joins of the test come back.
Completes == <>(test = "completed")

\* On a timeout the macro makes the test fail with "timed out": the process
\* goes on.
TimeoutIsReported == test /= "terminated"
=============================================================================
