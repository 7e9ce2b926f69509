--------------------------- MODULE ConcurrentQueue --------------------------
(***************************************************************************)
(* ConcurrentQueue<T> of Solutions/producer-consumer-queue.hpp: a bounded  *)
(* queue with one mutex and two condition variables, each notified for one *)
(* thread after the mutex has been released.  Here any thread may call     *)
(* push or pop at any time; ProducerConsumer is the client of the          *)
(* repository.                                                             *)
(***************************************************************************)
EXTENDS Integers, Sequences, FiniteSets

CONSTANTS
  Thread,    \* the threads that use the queue
  Value,     \* what they put in it
  CAPACITY,  \* its bound
  NoThread,  \* the mutex is free
  NoValue    \* a thread holds no value

ASSUME QueueAssumption ==
  /\ NoThread \notin Thread /\ NoValue \notin Value
  /\ CAPACITY \in Nat \ {0} /\ IsFiniteSet(Thread)

VARIABLES
  m_mutex,  \* the thread that holds the mutex, or NoThread
  m_queue,
  pc,       \* where each thread is in push or pop; "out" in neither
  item      \* the argument of push, the result of pop

queue == <<m_mutex, m_queue, pc, item>>

Pushing == {"push_lock", "push_pred", "push_wait", "push_notify"}
Popping == {"pop_lock", "pop_pred", "pop_wait", "pop_notify"}

\* The threads asleep on m_condition_full and on m_condition_empty.
WaitFull == {t \in Thread : pc[t] = "push_wait"}
WaitEmpty == {t \in Thread : pc[t] = "pop_wait"}

Goto(t, l) == pc' = [pc EXCEPT ![t] = l]
Acquire(t) == m_mutex = NoThread /\ m_mutex' = t
Release == m_mutex' = NoThread

\* notify_one by t on the condition variable that `waiting` sleep on; t goes
\* to l, and the thread that is woken, if there is one, asks for the mutex.
NotifyOne(t, l, waiting, wake) ==
  IF waiting = {} THEN Goto(t, l)
  ELSE \E u \in waiting : pc' = [pc EXCEPT ![t] = l, ![u] = wake]

QueueInit ==
  /\ m_mutex = NoThread
  /\ m_queue = << >>
  /\ pc = [t \in Thread |-> "out"]
  /\ item = [t \in Thread |-> NoValue]

-----------------------------------------------------------------------------
CallPush(t, v) ==
  /\ pc[t] = "out"
  /\ item' = [item EXCEPT ![t] = v]
  /\ Goto(t, "push_lock")
  /\ UNCHANGED <<m_mutex, m_queue>>

PushLock(t) ==
  /\ pc[t] = "push_lock"
  /\ Acquire(t)
  /\ Goto(t, "push_pred")
  /\ UNCHANGED <<m_queue, item>>

\* Faulty: one item too many.
HasRoomOneMore == Len(m_queue) <= CAPACITY

HasRoom == Len(m_queue) < CAPACITY

\* m_condition_full.wait: no room, release the mutex and sleep.
PushSleep(t) ==
  /\ pc[t] = "push_pred" /\ ~HasRoom
  /\ Release
  /\ Goto(t, "push_wait")
  /\ UNCHANGED <<m_queue, item>>

\* m_queue.push(item); lock.unlock()
PushItem(t) ==
  /\ pc[t] = "push_pred" /\ HasRoom
  /\ m_queue' = Append(m_queue, item[t])
  /\ Release
  /\ Goto(t, "push_notify")
  /\ UNCHANGED item

\* Faulty: a producer notifies the producers.
PushNotifyFull(t) ==
  /\ pc[t] = "push_notify"
  /\ NotifyOne(t, "out", WaitFull, "push_lock")
  /\ item' = [item EXCEPT ![t] = NoValue]
  /\ UNCHANGED <<m_mutex, m_queue>>

\* m_condition_empty.notify_one()
PushNotify(t) ==
  /\ pc[t] = "push_notify"
  /\ NotifyOne(t, "out", WaitEmpty, "pop_lock")
  /\ item' = [item EXCEPT ![t] = NoValue]
  /\ UNCHANGED <<m_mutex, m_queue>>

CallPop(t) ==
  /\ pc[t] = "out"
  /\ Goto(t, "pop_lock")
  /\ UNCHANGED <<m_mutex, m_queue, item>>

PopLock(t) ==
  /\ pc[t] = "pop_lock"
  /\ Acquire(t)
  /\ Goto(t, "pop_pred")
  /\ UNCHANGED <<m_queue, item>>

\* m_condition_empty.wait: nothing there, release the mutex and sleep.
PopSleep(t) ==
  /\ pc[t] = "pop_pred" /\ m_queue = << >>
  /\ Release
  /\ Goto(t, "pop_wait")
  /\ UNCHANGED <<m_queue, item>>

\* Faulty: front() without pop().
PopItemNoPop(t) ==
  /\ pc[t] = "pop_pred" /\ m_queue /= << >>
  /\ item' = [item EXCEPT ![t] = Head(m_queue)]
  /\ Release
  /\ Goto(t, "pop_notify")
  /\ UNCHANGED m_queue

\* Faulty: the newest item is taken.
PopItemBack(t) ==
  /\ pc[t] = "pop_pred" /\ m_queue /= << >>
  /\ item' = [item EXCEPT ![t] = m_queue[Len(m_queue)]]
  /\ m_queue' = SubSeq(m_queue, 1, Len(m_queue) - 1)
  /\ Release
  /\ Goto(t, "pop_notify")

\* val = front(); pop(); lock.unlock()
PopItem(t) ==
  /\ pc[t] = "pop_pred" /\ m_queue /= << >>
  /\ item' = [item EXCEPT ![t] = Head(m_queue)]
  /\ m_queue' = Tail(m_queue)
  /\ Release
  /\ Goto(t, "pop_notify")

\* Faulty: the producers are notified only when the queue has become empty.
PopNotifyEmpty(t) ==
  /\ pc[t] = "pop_notify"
  /\ IF m_queue = << >> THEN NotifyOne(t, "out", WaitFull, "push_lock") ELSE Goto(t, "out")
  /\ item' = [item EXCEPT ![t] = NoValue]
  /\ UNCHANGED <<m_mutex, m_queue>>

\* m_condition_full.notify_one(); return val
PopNotify(t) ==
  /\ pc[t] = "pop_notify"
  /\ NotifyOne(t, "out", WaitFull, "push_lock")
  /\ item' = [item EXCEPT ![t] = NoValue]
  /\ UNCHANGED <<m_mutex, m_queue>>

\* A condition variable may wake a thread that nobody notified.
SpuriousWake(t) ==
  /\ \/ pc[t] = "push_wait" /\ Goto(t, "push_lock")
     \/ pc[t] = "pop_wait" /\ Goto(t, "pop_lock")
  /\ UNCHANGED <<m_mutex, m_queue, item>>

-----------------------------------------------------------------------------
\* The steps of a thread inside push and inside pop.
PushStep(t) == PushLock(t) \/ PushSleep(t) \/ PushItem(t) \/ PushNotify(t)
PopStep(t) == PopLock(t) \/ PopSleep(t) \/ PopItem(t) \/ PopNotify(t)

QueueNext ==
  \E t \in Thread :
    \/ \E v \in Value : CallPush(t, v)
    \/ CallPop(t) \/ PushStep(t) \/ PopStep(t) \/ SpuriousWake(t)

QueueSpec == QueueInit /\ [][QueueNext]_queue

-----------------------------------------------------------------------------
\* The types of the variables; m_queue.size() never exceeds CAPACITY.
QueueTypeOK ==
  /\ m_mutex \in Thread \cup {NoThread}
  /\ m_queue \in Seq(Value) /\ Len(m_queue) <= CAPACITY
  /\ pc \in [Thread -> {"out"} \cup Pushing \cup Popping]
  /\ item \in [Thread -> Value \cup {NoValue}]
  /\ \A t \in Thread : pc[t] \in Pushing \cup {"pop_notify"} => item[t] \in Value

\* One thread at a time is between the lock and the unlock of push or pop.
QueueMutex ==
  \A t \in Thread : pc[t] \in {"push_pred", "pop_pred"} <=> m_mutex = t

AwakePopper == {t \in Thread : pc[t] \in {"pop_lock", "pop_pred"}}
AwakePusher == {t \in Thread : pc[t] \in {"push_lock", "push_pred"}}
NotifiesEmpty == {t \in Thread : pc[t] = "push_notify"}
NotifiesFull == {t \in Thread : pc[t] = "pop_notify"}

\* No wakeup of a consumer is lost: while one sleeps, each item in the queue
\* has a consumer that is awake to take it, or a producer that has yet to
\* notify.  (notify_one after the unlock, two condition variables.)
ConsumersWoken ==
  WaitEmpty /= {} =>
    Len(m_queue) <= Cardinality(NotifiesEmpty) + Cardinality(AwakePopper)

\* No wakeup of a producer is lost: while one sleeps, each free place has a
\* producer that is awake to fill it, or a consumer that has yet to notify.
ProducersWoken ==
  WaitFull /= {} =>
    CAPACITY - Len(m_queue) <= Cardinality(NotifiesFull) + Cardinality(AwakePusher)

\* The queue's invariant: the size of m_queue never exceeds CAPACITY, and
\* neither notify_one, each after the unlock, loses a wakeup.
QueueInv == QueueTypeOK /\ QueueMutex /\ ConsumersWoken /\ ProducersWoken

\* The queue is a bounded FIFO channel: what a pop returns is the oldest item
\* that was pushed and not popped.
Channel == INSTANCE BoundedChannel WITH
  Capacity <- CAPACITY, buffer <- m_queue,
  received <- [t \in Thread |-> IF pc[t] = "pop_notify" THEN item[t] ELSE NoValue]

ImplementsChannel == Channel!Spec
=============================================================================
