-------------------------- MODULE ThreadPoolProofs --------------------------
(***************************************************************************)
(* Proofs about ThreadPool, for every number of workers and of tasks.      *)
(* The invariants are layered: each layer is inductive relative to the     *)
(* ones proved before it.                                                  *)
(***************************************************************************)
EXTENDS ThreadPool, TLAPS, SequenceTheorems, FiniteSetTheorems

Elems(q) == {q[i] : i \in 1 .. Len(q)}

Distinct(q) == \A i, j \in 1 .. Len(q) : q[i] = q[j] => i = j

\* A thread that holds a task is in its body; one that is about to push a
\* task was given it; stop was given a mode.
LocalsOK ==
  /\ \A w \in Worker : task[w] /= NoTask <=> pc[w] \in {"run"} \cup Adding
  /\ \A t \in Thread : pc[t] \in Adding => arg[t] \in Task
  /\ pc[Main] \in {"stop", "set"} => mode /= "none"

TypeInv == TypeOK /\ LocalsOK

-----------------------------------------------------------------------------
\* What wait_loop finds when the predicate holds and it must not return.
LEMMA QueueNotEmpty ==
  ASSUME TypeOK, WaitPredicate, ~MustReturn
  PROVE  m_task_queue /= << >>
BY DEF TypeOK, Termination, WaitPredicate, MustReturn

\* The types of the variables are right in every reachable state.
THEOREM TypeCorrect == Spec => []TypeInv
<1>1. Init => TypeInv
  BY PoolAssumption, SMT
  DEF Init, TypeInv, TypeOK, LocalsOK, Thread, Termination, Adding, WorkerPC, MainPC
<1>2. TypeInv /\ [Next]_vars => TypeInv'
  <2> SUFFICES ASSUME TypeInv, [Next]_vars PROVE TypeInv'
    OBVIOUS
  <2> USE PoolAssumption
      DEF TypeInv, TypeOK, LocalsOK, Thread, Termination, Adding, WorkerPC, MainPC,
          members, history, Goto, Acquire, Release
  <2>1. ASSUME NEW w \in Worker, StartWorker(w) PROVE TypeInv'
    BY <2>1 DEF StartWorker
  <2>2. ASSUME NEW w \in Worker, WorkerLock(w) PROVE TypeInv'
    BY <2>2 DEF WorkerLock
  <2>3. ASSUME NEW w \in Worker, WorkerSleep(w) PROVE TypeInv'
    BY <2>3 DEF WorkerSleep
  <2>4. ASSUME NEW w \in Worker, WorkerReturn(w) PROVE TypeInv'
    BY <2>4 DEF WorkerReturn
  <2>5. ASSUME NEW w \in Worker, WorkerTake(w) PROVE TypeInv'
    <3>1. Head(m_task_queue) \in Task /\ Tail(m_task_queue) \in Seq(Task)
      BY <2>5, QueueNotEmpty, HeadTailProperties DEF WorkerTake
    <3>2. QED BY <2>5, <3>1 DEF WorkerTake
  <2>6. ASSUME NEW w \in Worker, WorkerFinish(w) PROVE TypeInv'
    BY <2>6 DEF WorkerFinish
  <2>7. ASSUME NEW w \in Worker, SpuriousWake(w) PROVE TypeInv'
    BY <2>7 DEF SpuriousWake
  <2>8. ASSUME NEW t \in Thread, CallAdd(t) PROVE TypeInv'
    BY <2>8 DEF CallAdd, MayCallAdd
  <2>9. ASSUME NEW t \in Thread, AddLock(t) PROVE TypeInv'
    BY <2>9 DEF AddLock
  <2>10. ASSUME NEW t \in Thread, AddPush(t) PROVE TypeInv'
    <3>1. arg[t] \in Task /\ Append(m_task_queue, arg[t]) \in Seq(Task)
      BY <2>10, AppendProperties DEF AddPush
    <3>2. QED BY <2>10, <3>1 DEF AddPush
  <2>11. ASSUME NEW t \in Thread, AddNotify(t) PROVE TypeInv'
    BY <2>11 DEF AddNotify, ReturnPoint, Waiting
  <2>12. CASE Constructed BY <2>12 DEF Constructed
  <2>13. CASE CallStop BY <2>13 DEF CallStop
  <2>14. CASE Destroy BY <2>14 DEF Destroy
  <2>15. CASE StopLock BY <2>15 DEF StopLock
  <2>16. CASE StopSet BY <2>16 DEF StopSet
  <2>17. CASE StopNotifyAll BY <2>17 DEF StopNotifyAll
  <2>18. CASE StopJoin BY <2>18 DEF StopJoin
  <2>19. CASE UNCHANGED vars BY <2>19 DEF vars
  <2>20. QED
    BY <2>1, <2>2, <2>3, <2>4, <2>5, <2>6, <2>7, <2>8, <2>9, <2>10, <2>11, <2>12,
       <2>13, <2>14, <2>15, <2>16, <2>17, <2>18, <2>19
    DEF Next, WaitLoop, AddTask, Stop, Terminated
<1>3. QED BY <1>1, <1>2, PTL DEF Spec

-----------------------------------------------------------------------------
\* One thread at a time is in a critical section of m_queue_mutex, and a task
\* body never runs with the mutex held.
THEOREM MutualExclusion == Spec => []OneCriticalSection
<1>1. Init => OneCriticalSection
  BY PoolAssumption, SMT DEF Init, OneCriticalSection, Thread, Critical
<1>2. TypeInv /\ OneCriticalSection /\ [Next]_vars => OneCriticalSection'
  <2> SUFFICES ASSUME TypeInv, OneCriticalSection, [Next]_vars PROVE OneCriticalSection'
    OBVIOUS
  <2> USE PoolAssumption
      DEF TypeInv, TypeOK, OneCriticalSection, Thread, Critical, Adding, WorkerPC, MainPC,
          members, history, Goto, Acquire, Release
  <2>1. ASSUME NEW w \in Worker, StartWorker(w) PROVE OneCriticalSection'
    BY <2>1 DEF StartWorker
  <2>2. ASSUME NEW w \in Worker, WorkerLock(w) PROVE OneCriticalSection'
    BY <2>2 DEF WorkerLock
  <2>3. ASSUME NEW w \in Worker, WorkerSleep(w) PROVE OneCriticalSection'
    BY <2>3 DEF WorkerSleep
  <2>4. ASSUME NEW w \in Worker, WorkerReturn(w) PROVE OneCriticalSection'
    BY <2>4 DEF WorkerReturn
  <2>5. ASSUME NEW w \in Worker, WorkerTake(w) PROVE OneCriticalSection'
    BY <2>5 DEF WorkerTake
  <2>6. ASSUME NEW w \in Worker, WorkerFinish(w) PROVE OneCriticalSection'
    BY <2>6 DEF WorkerFinish
  <2>7. ASSUME NEW w \in Worker, SpuriousWake(w) PROVE OneCriticalSection'
    BY <2>7 DEF SpuriousWake
  <2>8. ASSUME NEW t \in Thread, CallAdd(t) PROVE OneCriticalSection'
    BY <2>8 DEF CallAdd, MayCallAdd
  <2>9. ASSUME NEW t \in Thread, AddLock(t) PROVE OneCriticalSection'
    BY <2>9 DEF AddLock
  <2>10. ASSUME NEW t \in Thread, AddPush(t) PROVE OneCriticalSection'
    BY <2>10 DEF AddPush
  <2>11. ASSUME NEW t \in Thread, AddNotify(t) PROVE OneCriticalSection'
    BY <2>11 DEF AddNotify, ReturnPoint, Waiting
  <2>12. CASE Constructed BY <2>12 DEF Constructed
  <2>13. CASE CallStop BY <2>13 DEF CallStop
  <2>14. CASE Destroy BY <2>14 DEF Destroy
  <2>15. CASE StopLock BY <2>15 DEF StopLock
  <2>16. CASE StopSet BY <2>16 DEF StopSet
  <2>17. CASE StopNotifyAll BY <2>17 DEF StopNotifyAll
  <2>18. CASE StopJoin BY <2>18 DEF StopJoin
  <2>19. CASE UNCHANGED vars BY <2>19 DEF vars
  <2>20. QED
    BY <2>1, <2>2, <2>3, <2>4, <2>5, <2>6, <2>7, <2>8, <2>9, <2>10, <2>11, <2>12,
       <2>13, <2>14, <2>15, <2>16, <2>17, <2>18, <2>19
    DEF Next, WaitLoop, AddTask, Stop, Terminated
<1>3. QED BY <1>1, <1>2, TypeCorrect, PTL DEF Spec

-----------------------------------------------------------------------------
\* The life of the threads and of the pool, which ties the point the owner is
\* at to m_pool, m_termination and the points of the workers.
Lifecycle ==
  /\ pc[Main] = "ctor" =>
       \A w \in Worker : pc[w] /= "unborn" <=> w \in m_pool
  /\ \A w \in Worker : pc[w] = "unborn" => pc[Main] = "ctor"
  /\ \A w \in Worker : pc[w] \notin {"unborn", "exited"} => w \in m_pool
  /\ \A w \in Worker : pc[w] = "exited" => m_termination /= "Continue"

\* How far the calls of stop have come.
StopProgress ==
  /\ pc[Main] \in {"ctor"} \cup Adding => mode = "none"
  /\ pc[Main] \in {"stop", "set", "notify_all", "join", "dead"} => mode /= "none"
  /\ pc[Main] = "ready" => mode /= "Immediate"
  /\ pc[Main] = "dead" => mode = "Immediate"
  /\ mode = "none" => m_termination = "Continue"
  /\ pc[Main] \in {"stop", "set"} /\ mode = "EmptyQueue" => m_termination = "Continue"
  /\ pc[Main] \notin {"stop", "set"} /\ mode /= "none" => m_termination = mode
  /\ pc[Main] = "dead" \/ (pc[Main] = "ready" /\ mode /= "none") =>
       \A w \in Worker : pc[w] = "exited"

LifeInv == Lifecycle /\ StopProgress

\* The lifecycle of the pool is as the constructor, stop and the destructor
\* make it.
THEOREM LifeCorrect == Spec => []LifeInv
<1>1. Init => LifeInv
  BY PoolAssumption, SMT DEF Init, LifeInv, Lifecycle, StopProgress, Thread, Adding
<1>2. TypeInv /\ LifeInv /\ [Next]_vars => LifeInv'
  <2> SUFFICES ASSUME TypeInv, LifeInv, [Next]_vars PROVE LifeInv'
    OBVIOUS
  <2> USE PoolAssumption
      DEF TypeInv, TypeOK, LifeInv, Lifecycle, StopProgress, Thread, Adding,
          WorkerPC, MainPC, Termination, members, history, Goto, Acquire, Release
  <2>1. ASSUME NEW w \in Worker, StartWorker(w) PROVE LifeInv'
    BY <2>1 DEF StartWorker
  <2>2. ASSUME NEW w \in Worker, WorkerLock(w) PROVE LifeInv'
    BY <2>2 DEF WorkerLock
  <2>3. ASSUME NEW w \in Worker, WorkerSleep(w) PROVE LifeInv'
    BY <2>3 DEF WorkerSleep
  <2>4. ASSUME NEW w \in Worker, WorkerReturn(w) PROVE LifeInv'
    BY <2>4 DEF WorkerReturn, WaitPredicate, MustReturn
  <2>5. ASSUME NEW w \in Worker, WorkerTake(w) PROVE LifeInv'
    BY <2>5 DEF WorkerTake
  <2>6. ASSUME NEW w \in Worker, WorkerFinish(w) PROVE LifeInv'
    BY <2>6 DEF WorkerFinish
  <2>7. ASSUME NEW w \in Worker, SpuriousWake(w) PROVE LifeInv'
    BY <2>7 DEF SpuriousWake
  <2>8. ASSUME NEW t \in Thread, CallAdd(t) PROVE LifeInv'
    BY <2>8 DEF CallAdd, MayCallAdd
  <2>9. ASSUME NEW t \in Thread, AddLock(t) PROVE LifeInv'
    BY <2>9 DEF AddLock
  <2>10. ASSUME NEW t \in Thread, AddPush(t) PROVE LifeInv'
    BY <2>10 DEF AddPush
  <2>11. ASSUME NEW t \in Thread, AddNotify(t) PROVE LifeInv'
    BY <2>11 DEF AddNotify, ReturnPoint, Waiting
  <2>12. CASE Constructed BY <2>12 DEF Constructed
  <2>13. CASE CallStop BY <2>13 DEF CallStop
  <2>14. CASE Destroy BY <2>14 DEF Destroy
  <2>15. CASE StopLock BY <2>15 DEF StopLock
  <2>16. CASE StopSet BY <2>16 DEF StopSet
  <2>17. CASE StopNotifyAll BY <2>17 DEF StopNotifyAll
  <2>18. CASE StopJoin BY <2>18 DEF StopJoin
  <2>19. CASE UNCHANGED vars BY <2>19 DEF vars
  <2>20. QED
    BY <2>1, <2>2, <2>3, <2>4, <2>5, <2>6, <2>7, <2>8, <2>9, <2>10, <2>11, <2>12,
       <2>13, <2>14, <2>15, <2>16, <2>17, <2>18, <2>19
    DEF Next, WaitLoop, AddTask, Stop, Terminated
<1>3. QED BY <1>1, <1>2, TypeCorrect, PTL DEF Spec

\* isActive() holds as long as a worker can run a task, and when the
\* destructor ends no thread of the pool is left.
THEOREM ActiveCorrect == Spec => []ActiveWhileRunning
<1>1. LifeInv => ActiveWhileRunning
  BY DEF LifeInv, Lifecycle, StopProgress, ActiveWhileRunning
<1>2. QED BY <1>1, LifeCorrect, PTL

-----------------------------------------------------------------------------
\* After the notify_all of stop no worker is asleep or falls asleep again.
THEOREM StopWakes == Spec => []StopWakesAll
<1>1. Init => StopWakesAll
  BY PoolAssumption, SMT DEF Init, StopWakesAll, Waiting
<1>2. TypeInv /\ LifeInv /\ StopWakesAll /\ [Next]_vars => StopWakesAll'
  <2> SUFFICES ASSUME TypeInv /\ LifeInv, StopWakesAll, [Next]_vars PROVE StopWakesAll'
    OBVIOUS
  <2> USE PoolAssumption
      DEF TypeInv, TypeOK, LifeInv, StopProgress, StopWakesAll, Waiting, Thread, Adding,
          WorkerPC, MainPC, members, history, Goto, Acquire, Release
  <2>1. ASSUME NEW w \in Worker, StartWorker(w) PROVE StopWakesAll'
    BY <2>1 DEF StartWorker
  <2>2. ASSUME NEW w \in Worker, WorkerLock(w) PROVE StopWakesAll'
    BY <2>2 DEF WorkerLock
  <2>3. ASSUME NEW w \in Worker, WorkerSleep(w) PROVE StopWakesAll'
    BY <2>3 DEF WorkerSleep, WaitPredicate
  <2>4. ASSUME NEW w \in Worker, WorkerReturn(w) PROVE StopWakesAll'
    BY <2>4 DEF WorkerReturn
  <2>5. ASSUME NEW w \in Worker, WorkerTake(w) PROVE StopWakesAll'
    BY <2>5 DEF WorkerTake
  <2>6. ASSUME NEW w \in Worker, WorkerFinish(w) PROVE StopWakesAll'
    BY <2>6 DEF WorkerFinish
  <2>7. ASSUME NEW w \in Worker, SpuriousWake(w) PROVE StopWakesAll'
    BY <2>7 DEF SpuriousWake
  <2>8. ASSUME NEW t \in Thread, CallAdd(t) PROVE StopWakesAll'
    BY <2>8 DEF CallAdd, MayCallAdd
  <2>9. ASSUME NEW t \in Thread, AddLock(t) PROVE StopWakesAll'
    BY <2>9 DEF AddLock
  <2>10. ASSUME NEW t \in Thread, AddPush(t) PROVE StopWakesAll'
    BY <2>10 DEF AddPush
  <2>11. ASSUME NEW t \in Thread, AddNotify(t) PROVE StopWakesAll'
    BY <2>11 DEF AddNotify, ReturnPoint, Waiting
  <2>12. CASE Constructed BY <2>12 DEF Constructed
  <2>13. CASE CallStop BY <2>13 DEF CallStop
  <2>14. CASE Destroy BY <2>14 DEF Destroy
  <2>15. CASE StopLock BY <2>15 DEF StopLock
  <2>16. CASE StopSet BY <2>16 DEF StopSet
  <2>17. CASE StopNotifyAll BY <2>17 DEF StopNotifyAll
  <2>18. CASE StopJoin BY <2>18 DEF StopJoin
  <2>19. CASE UNCHANGED vars BY <2>19 DEF vars
  <2>20. QED
    BY <2>1, <2>2, <2>3, <2>4, <2>5, <2>6, <2>7, <2>8, <2>9, <2>10, <2>11, <2>12,
       <2>13, <2>14, <2>15, <2>16, <2>17, <2>18, <2>19
    DEF Next, WaitLoop, AddTask, Stop, Terminated
<1>3. QED BY <1>1, <1>2, TypeCorrect, LifeCorrect, PTL DEF Spec

-----------------------------------------------------------------------------
\* notify_one after the unlock loses no wakeup.
THEOREM WakeupsKept == Spec => []NoLostWakeup
<1>1. Init => NoLostWakeup
  BY PoolAssumption, SMT DEF Init, NoLostWakeup
<1>2. TypeInv /\ NoLostWakeup /\ [Next]_vars => NoLostWakeup'
  <2> SUFFICES ASSUME TypeInv, NoLostWakeup, [Next]_vars PROVE NoLostWakeup'
    OBVIOUS
  <2> USE PoolAssumption
      DEF TypeInv, TypeOK, NoLostWakeup, Waiting, Thread, Adding,
          WorkerPC, MainPC, members, history, Goto, Acquire, Release
  <2>1. ASSUME NEW w \in Worker, StartWorker(w) PROVE NoLostWakeup'
    BY <2>1 DEF StartWorker
  <2>2. ASSUME NEW w \in Worker, WorkerLock(w) PROVE NoLostWakeup'
    BY <2>2 DEF WorkerLock
  <2>3. ASSUME NEW w \in Worker, WorkerSleep(w) PROVE NoLostWakeup'
    BY <2>3 DEF WorkerSleep, WaitPredicate
  <2>4. ASSUME NEW w \in Worker, WorkerReturn(w) PROVE NoLostWakeup'
    BY <2>4 DEF WorkerReturn
  <2>5. ASSUME NEW w \in Worker, WorkerTake(w) PROVE NoLostWakeup'
    BY <2>5 DEF WorkerTake
  <2>6. ASSUME NEW w \in Worker, WorkerFinish(w) PROVE NoLostWakeup'
    BY <2>6 DEF WorkerFinish
  <2>7. ASSUME NEW w \in Worker, SpuriousWake(w) PROVE NoLostWakeup'
    BY <2>7 DEF SpuriousWake
  <2>8. ASSUME NEW t \in Thread, CallAdd(t) PROVE NoLostWakeup'
    BY <2>8 DEF CallAdd, MayCallAdd
  <2>9. ASSUME NEW t \in Thread, AddLock(t) PROVE NoLostWakeup'
    BY <2>9 DEF AddLock
  <2>10. ASSUME NEW t \in Thread, AddPush(t) PROVE NoLostWakeup'
    BY <2>10 DEF AddPush
  <2>11. ASSUME NEW t \in Thread, AddNotify(t) PROVE NoLostWakeup'
    BY <2>11 DEF AddNotify, ReturnPoint, Waiting
  <2>12. CASE Constructed BY <2>12 DEF Constructed
  <2>13. CASE CallStop BY <2>13 DEF CallStop
  <2>14. CASE Destroy BY <2>14 DEF Destroy
  <2>15. CASE StopLock BY <2>15 DEF StopLock
  <2>16. CASE StopSet BY <2>16 DEF StopSet
  <2>17. CASE StopNotifyAll BY <2>17 DEF StopNotifyAll
  <2>18. CASE StopJoin BY <2>18 DEF StopJoin
  <2>19. CASE UNCHANGED vars BY <2>19 DEF vars
  <2>20. QED
    BY <2>1, <2>2, <2>3, <2>4, <2>5, <2>6, <2>7, <2>8, <2>9, <2>10, <2>11, <2>12,
       <2>13, <2>14, <2>15, <2>16, <2>17, <2>18, <2>19
    DEF Next, WaitLoop, AddTask, Stop, Terminated
<1>3. QED BY <1>1, <1>2, TypeCorrect, PTL DEF Spec

-----------------------------------------------------------------------------
\* What push and front/pop do to the elements of the queue.
LEMMA ElemsAppend ==
  ASSUME NEW S, NEW q \in Seq(S), NEW k \in S, Distinct(q), k \notin Elems(q)
  PROVE  Elems(Append(q, k)) = Elems(q) \cup {k} /\ Distinct(Append(q, k))
<1>1. /\ Len(q) \in Nat /\ Len(Append(q, k)) = Len(q) + 1
      /\ \A i \in 1 .. Len(q) : Append(q, k)[i] = q[i]
      /\ Append(q, k)[Len(q) + 1] = k
  BY AppendProperties, LenProperties
<1>2. QED BY <1>1 DEF Elems, Distinct

LEMMA ElemsTail ==
  ASSUME NEW S, NEW q \in Seq(S), q /= << >>, Distinct(q)
  PROVE  /\ Elems(q) = {Head(q)} \cup Elems(Tail(q))
         /\ Head(q) \notin Elems(Tail(q)) /\ Distinct(Tail(q))
<1>1. /\ Len(q) \in Nat \ {0} /\ Len(Tail(q)) = Len(q) - 1
      /\ Head(q) = q[1]
      /\ \A i \in 1 .. Len(q) - 1 : Tail(q)[i] = q[i + 1]
  BY HeadTailProperties, LenProperties, EmptySeq
<1>2. \A i \in 1 .. Len(q) : i = 1 \/ i - 1 \in 1 .. Len(Tail(q))
  BY <1>1
<1>3. Elems(q) = {Head(q)} \cup Elems(Tail(q))
  <2>1. ASSUME NEW i \in 1 .. Len(q) PROVE q[i] \in {Head(q)} \cup Elems(Tail(q))
    <3>1. CASE i = 1 BY <3>1, <1>1
    <3>2. CASE i - 1 \in 1 .. Len(Tail(q))
      <4>1. Tail(q)[i - 1] = q[i] BY <3>2, <1>1
      <4>2. QED BY <3>2, <4>1 DEF Elems
    <3>3. QED BY <1>2, <3>1, <3>2
  <2>2. Head(q) \in Elems(q) BY <1>1 DEF Elems
  <2>3. ASSUME NEW i \in 1 .. Len(Tail(q)) PROVE Tail(q)[i] \in Elems(q)
    BY <1>1 DEF Elems
  <2>4. QED BY <2>1, <2>2, <2>3 DEF Elems
<1>4. QED BY <1>1, <1>3 DEF Elems, Distinct

-----------------------------------------------------------------------------
\* Between its submission and its push a task is the argument of one call.
Submission ==
  /\ pushed \subseteq submitted
  /\ \A t \in Thread : pc[t] \in {"add", "push"} => arg[t] \in submitted \ pushed
  /\ \A t, u \in Thread :
       pc[t] \in {"add", "push"} /\ pc[u] \in {"add", "push"} /\ arg[t] = arg[u] => t = u
  /\ \A k \in submitted \ pushed :
       \E t \in Thread : pc[t] \in {"add", "push"} /\ arg[t] = k

\* addTask pushes each task once.
THEOREM SubmissionCorrect == Spec => []Submission
<1>1. Init => Submission
  BY PoolAssumption, SMT DEF Init, Submission
<1>2. TypeInv /\ Submission /\ [Next]_vars => Submission'
  <2> SUFFICES ASSUME TypeInv, Submission, [Next]_vars PROVE Submission'
    OBVIOUS
  <2> USE PoolAssumption
      DEF TypeInv, TypeOK, LocalsOK, Submission, Thread, Adding,
          WorkerPC, MainPC, members, history, Goto, Acquire, Release
  <2>1. ASSUME NEW w \in Worker, StartWorker(w) PROVE Submission'
    BY <2>1 DEF StartWorker
  <2>2. ASSUME NEW w \in Worker, WorkerLock(w) PROVE Submission'
    BY <2>2 DEF WorkerLock
  <2>3. ASSUME NEW w \in Worker, WorkerSleep(w) PROVE Submission'
    BY <2>3 DEF WorkerSleep
  <2>4. ASSUME NEW w \in Worker, WorkerReturn(w) PROVE Submission'
    BY <2>4 DEF WorkerReturn
  <2>5. ASSUME NEW w \in Worker, WorkerTake(w) PROVE Submission'
    BY <2>5 DEF WorkerTake
  <2>6. ASSUME NEW w \in Worker, WorkerFinish(w) PROVE Submission'
    BY <2>6 DEF WorkerFinish
  <2>7. ASSUME NEW w \in Worker, SpuriousWake(w) PROVE Submission'
    BY <2>7 DEF SpuriousWake
  <2>8. ASSUME NEW t \in Thread, CallAdd(t) PROVE Submission'
    BY <2>8 DEF CallAdd, MayCallAdd
  <2>9. ASSUME NEW t \in Thread, AddLock(t) PROVE Submission'
    BY <2>9 DEF AddLock
  <2>10. ASSUME NEW t \in Thread, AddPush(t) PROVE Submission'
    BY <2>10 DEF AddPush
  <2>11. ASSUME NEW t \in Thread, AddNotify(t) PROVE Submission'
    <3>1. /\ \A u \in Thread : pc'[u] \in {"add", "push"} <=> pc[u] \in {"add", "push"}
          /\ \A u \in Thread : pc[u] \in {"add", "push"} => arg'[u] = arg[u]
          /\ UNCHANGED <<submitted, pushed>>
      BY <2>11 DEF AddNotify, ReturnPoint, Waiting
    <3> QED BY ONLY Submission, <3>1 DEF Submission
  <2>12. CASE Constructed BY <2>12 DEF Constructed
  <2>13. CASE CallStop BY <2>13 DEF CallStop
  <2>14. CASE Destroy BY <2>14 DEF Destroy
  <2>15. CASE StopLock BY <2>15 DEF StopLock
  <2>16. CASE StopSet BY <2>16 DEF StopSet
  <2>17. CASE StopNotifyAll BY <2>17 DEF StopNotifyAll
  <2>18. CASE StopJoin BY <2>18 DEF StopJoin
  <2>19. CASE UNCHANGED vars BY <2>19 DEF vars
  <2>20. QED
    BY <2>1, <2>2, <2>3, <2>4, <2>5, <2>6, <2>7, <2>8, <2>9, <2>10, <2>11, <2>12,
       <2>13, <2>14, <2>15, <2>16, <2>17, <2>18, <2>19
    DEF Next, WaitLoop, AddTask, Stop, Terminated
<1>3. QED BY <1>1, <1>2, TypeCorrect, PTL DEF Spec

\* Every pushed task is in one place: the queue, one worker, or done.
THEOREM TasksOnce == Spec => []EachTaskOnce
<1>1. Init => EachTaskOnce
  BY PoolAssumption, SMT DEF Init, EachTaskOnce, Queued, Running
<1>2. TypeInv /\ Submission /\ EachTaskOnce /\ [Next]_vars => EachTaskOnce'
  <2> SUFFICES ASSUME TypeInv, Submission, EachTaskOnce, [Next]_vars PROVE EachTaskOnce'
    OBVIOUS
  <2> USE PoolAssumption
      DEF TypeInv, TypeOK, members, history
  <2>0. ASSUME UNCHANGED <<m_task_queue, task, pushed, done>> PROVE EachTaskOnce'
    BY <2>0 DEF EachTaskOnce, Queued, Running
  <2>5. ASSUME NEW w \in Worker, WorkerTake(w) PROVE EachTaskOnce'
    <3> DEFINE h == Head(m_task_queue)
    <3>1. m_task_queue /= << >> BY <2>5, QueueNotEmpty DEF WorkerTake
    <3>2. Distinct(m_task_queue) /\ Queued = Elems(m_task_queue)
      BY DEF EachTaskOnce, Distinct, Elems, Queued
    <3>3. /\ Queued = {h} \cup Queued' /\ h \notin Queued' /\ Distinct(m_task_queue')
          /\ h \in Task
      BY <2>5, <3>1, <3>2, ElemsTail, HeadTailProperties DEF WorkerTake, Elems, Queued
    <3>4. task[w] = NoTask BY <2>5 DEF WorkerTake, LocalsOK, Adding
    <3>5. Running' = Running \cup {h}
      BY <2>5, <3>3, <3>4 DEF WorkerTake, Running
    <3>6. h \notin Running /\ h \notin done BY <3>3 DEF EachTaskOnce
    <3>7. \A v, x \in Worker : task'[v] = task'[x] /\ task'[v] /= NoTask => v = x
      BY <2>5, <3>3, <3>6 DEF WorkerTake, EachTaskOnce, Running
    <3>8. pushed' = pushed /\ done' = done BY <2>5 DEF WorkerTake
    <3>9. pushed' = Queued' \cup Running' \cup done'
      BY <3>3, <3>5, <3>8 DEF EachTaskOnce
    <3>10. Queued' \cap (Running' \cup done') = {} /\ Running' \cap done' = {}
      BY <3>3, <3>5, <3>6, <3>8 DEF EachTaskOnce
    <3>11. QED BY <3>3, <3>7, <3>9, <3>10 DEF EachTaskOnce, Distinct
  <2>6. ASSUME NEW w \in Worker, WorkerFinish(w) PROVE EachTaskOnce'
    <3>1. task[w] \in Running BY <2>6 DEF WorkerFinish, LocalsOK, Running
    <3>2. Running' = Running \ {task[w]}
      BY <2>6, <3>1 DEF WorkerFinish, Running, EachTaskOnce
    <3>3. QED BY <2>6, <3>1, <3>2 DEF WorkerFinish, EachTaskOnce, Queued
  <2>10. ASSUME NEW t \in Thread, AddPush(t) PROVE EachTaskOnce'
    <3>1. Distinct(m_task_queue) /\ Queued = Elems(m_task_queue)
      BY DEF EachTaskOnce, Distinct, Elems, Queued
    <3>2. arg[t] \in Task /\ arg[t] \notin pushed
      BY <2>10 DEF AddPush, Submission, LocalsOK, Adding
    <3>3. arg[t] \notin Queued BY <3>2 DEF EachTaskOnce
    <3>4. Queued' = Queued \cup {arg[t]} /\ Distinct(m_task_queue')
      BY <2>10, <3>1, <3>2, <3>3, ElemsAppend DEF AddPush, Elems, Queued
    <3>5. UNCHANGED <<task, done>> /\ Running' = Running
      BY <2>10 DEF AddPush, Running
    <3>6. QED
      BY <2>10, <3>2, <3>4, <3>5 DEF AddPush, EachTaskOnce, Distinct
  <2>20. QED
    BY <2>0, <2>5, <2>6, <2>10
    DEF Next, WaitLoop, AddTask, Stop, Terminated, StartWorker, WorkerLock, WorkerSleep,
        WorkerReturn, SpuriousWake, CallAdd, AddLock, AddNotify, Constructed, CallStop,
        Destroy, StopLock, StopSet, StopNotifyAll, StopJoin, vars
<1>3. QED BY <1>1, <1>2, TypeCorrect, SubmissionCorrect, PTL DEF Spec

-----------------------------------------------------------------------------
\* With stop(EmptyQueue) in force, not every worker leaves a queue with tasks.
SomeoneLeft ==
  m_termination = "EmptyQueue" /\ m_task_queue /= << >> /\ Worker /= {}
    => \E w \in Worker : pc[w] /= "exited"

\* The last worker to leave after stop(EmptyQueue) leaves an empty queue.
THEOREM SomeoneStays == Spec => []SomeoneLeft
<1>1. Init => SomeoneLeft
  BY PoolAssumption, SMT DEF Init, SomeoneLeft
<1>2. TypeInv /\ LifeInv /\ SomeoneLeft /\ [Next]_vars => SomeoneLeft'
  <2> SUFFICES ASSUME TypeInv /\ LifeInv, SomeoneLeft, [Next]_vars PROVE SomeoneLeft'
    OBVIOUS
  <2> USE PoolAssumption
      DEF TypeInv, TypeOK, LifeInv, Lifecycle, StopProgress, SomeoneLeft, Thread, Adding,
          WorkerPC, MainPC, members, history, Goto, Acquire, Release
  <2>1. ASSUME NEW w \in Worker, StartWorker(w) PROVE SomeoneLeft'
    BY <2>1 DEF StartWorker
  <2>2. ASSUME NEW w \in Worker, WorkerLock(w) PROVE SomeoneLeft'
    BY <2>2 DEF WorkerLock
  <2>3. ASSUME NEW w \in Worker, WorkerSleep(w) PROVE SomeoneLeft'
    BY <2>3 DEF WorkerSleep
  <2>4. ASSUME NEW w \in Worker, WorkerReturn(w) PROVE SomeoneLeft'
    BY <2>4 DEF WorkerReturn, MustReturn
  <2>5. ASSUME NEW w \in Worker, WorkerTake(w) PROVE SomeoneLeft'
    BY <2>5 DEF WorkerTake
  <2>6. ASSUME NEW w \in Worker, WorkerFinish(w) PROVE SomeoneLeft'
    BY <2>6 DEF WorkerFinish
  <2>7. ASSUME NEW w \in Worker, SpuriousWake(w) PROVE SomeoneLeft'
    BY <2>7 DEF SpuriousWake
  <2>8. ASSUME NEW t \in Thread, CallAdd(t) PROVE SomeoneLeft'
    BY <2>8 DEF CallAdd, MayCallAdd
  <2>9. ASSUME NEW t \in Thread, AddLock(t) PROVE SomeoneLeft'
    BY <2>9 DEF AddLock
  <2>10. ASSUME NEW t \in Thread, AddPush(t) PROVE SomeoneLeft'
    BY <2>10 DEF AddPush
  <2>11. ASSUME NEW t \in Thread, AddNotify(t) PROVE SomeoneLeft'
    BY <2>11 DEF AddNotify, ReturnPoint, Waiting
  <2>12. CASE Constructed BY <2>12 DEF Constructed
  <2>13. CASE CallStop BY <2>13 DEF CallStop
  <2>14. CASE Destroy BY <2>14 DEF Destroy
  <2>15. CASE StopLock BY <2>15 DEF StopLock
  <2>16. CASE StopSet BY <2>16 DEF StopSet
  <2>17. CASE StopNotifyAll BY <2>17 DEF StopNotifyAll
  <2>18. CASE StopJoin BY <2>18 DEF StopJoin
  <2>19. CASE UNCHANGED vars BY <2>19 DEF vars
  <2>20. QED
    BY <2>1, <2>2, <2>3, <2>4, <2>5, <2>6, <2>7, <2>8, <2>9, <2>10, <2>11, <2>12,
       <2>13, <2>14, <2>15, <2>16, <2>17, <2>18, <2>19
    DEF Next, WaitLoop, AddTask, Stop, Terminated
<1>3. QED BY <1>1, <1>2, TypeCorrect, LifeCorrect, PTL DEF Spec

\* When stop(EmptyQueue) has returned, every task ever submitted has run.
THEOREM Drained == Spec => []DrainedOnReturn
<1>1. TypeInv /\ LifeInv /\ Submission /\ EachTaskOnce /\ SomeoneLeft => DrainedOnReturn
  <2> SUFFICES ASSUME TypeInv, LifeInv, Submission, EachTaskOnce, SomeoneLeft,
                      mode = "EmptyQueue", pc[Main] = "ready", Worker /= {}
               PROVE  m_task_queue = << >> /\ done = submitted
    BY DEF DrainedOnReturn
  <2>1. m_termination = "EmptyQueue" /\ \A w \in Worker : pc[w] = "exited"
    BY DEF LifeInv, StopProgress
  <2>2. m_task_queue = << >> BY <2>1 DEF SomeoneLeft
  <2>3. Queued = {} BY <2>2 DEF Queued
  <2>4. Running = {} BY <2>1 DEF Running, TypeInv, LocalsOK, Adding
  <2>5. submitted = pushed BY <2>1 DEF Submission, Thread
  <2>6. QED BY <2>2, <2>3, <2>4, <2>5 DEF EachTaskOnce
<1>2. QED
  BY <1>1, TypeCorrect, LifeCorrect, SubmissionCorrect, TasksOnce, SomeoneStays, PTL

-----------------------------------------------------------------------------
\* The vector m_pool is full from the constructor to the end of the first stop.
VectorInv ==
  /\ mode = "none" /\ pc[Main] /= "ctor" => m_pool = Worker
  /\ mode = "EmptyQueue" => m_pool = IF pc[Main] = "ready" THEN {} ELSE Worker
  /\ mode = "Immediate" => m_pool \in {Worker, {}}
  /\ (m_pool = {} /\ pc[Main] /= "ctor") => \A w \in Worker : pc[w] = "exited"

\* m_pool is filled by the constructor and cleared by a stop that has joined
\* every thread.
THEOREM VectorCorrect == Spec => []VectorInv
<1>1. Init => VectorInv
  BY PoolAssumption, SMT DEF Init, VectorInv, Thread
<1>2. TypeInv /\ LifeInv /\ VectorInv /\ [Next]_vars => VectorInv'
  <2> SUFFICES ASSUME TypeInv /\ LifeInv, VectorInv, [Next]_vars PROVE VectorInv'
    OBVIOUS
  <2> USE PoolAssumption
      DEF TypeInv, TypeOK, LifeInv, Lifecycle, StopProgress, VectorInv, Thread, Adding,
          WorkerPC, MainPC, members, history, Goto, Acquire, Release
  <2>1. ASSUME NEW w \in Worker, StartWorker(w) PROVE VectorInv'
    BY <2>1 DEF StartWorker
  <2>2. ASSUME NEW w \in Worker, WorkerLock(w) PROVE VectorInv'
    BY <2>2 DEF WorkerLock
  <2>3. ASSUME NEW w \in Worker, WorkerSleep(w) PROVE VectorInv'
    BY <2>3 DEF WorkerSleep
  <2>4. ASSUME NEW w \in Worker, WorkerReturn(w) PROVE VectorInv'
    BY <2>4 DEF WorkerReturn
  <2>5. ASSUME NEW w \in Worker, WorkerTake(w) PROVE VectorInv'
    BY <2>5 DEF WorkerTake
  <2>6. ASSUME NEW w \in Worker, WorkerFinish(w) PROVE VectorInv'
    BY <2>6 DEF WorkerFinish
  <2>7. ASSUME NEW w \in Worker, SpuriousWake(w) PROVE VectorInv'
    BY <2>7 DEF SpuriousWake
  <2>8. ASSUME NEW t \in Thread, CallAdd(t) PROVE VectorInv'
    BY <2>8 DEF CallAdd, MayCallAdd
  <2>9. ASSUME NEW t \in Thread, AddLock(t) PROVE VectorInv'
    BY <2>9 DEF AddLock
  <2>10. ASSUME NEW t \in Thread, AddPush(t) PROVE VectorInv'
    BY <2>10 DEF AddPush
  <2>11. ASSUME NEW t \in Thread, AddNotify(t) PROVE VectorInv'
    BY <2>11 DEF AddNotify, ReturnPoint, Waiting
  <2>12. CASE Constructed BY <2>12 DEF Constructed
  <2>13. CASE CallStop BY <2>13 DEF CallStop
  <2>14. CASE Destroy BY <2>14 DEF Destroy
  <2>15. CASE StopLock BY <2>15 DEF StopLock
  <2>16. CASE StopSet BY <2>16 DEF StopSet
  <2>17. CASE StopNotifyAll BY <2>17 DEF StopNotifyAll
  <2>18. CASE StopJoin BY <2>18 DEF StopJoin
  <2>19. CASE UNCHANGED vars BY <2>19 DEF vars
  <2>20. QED
    BY <2>1, <2>2, <2>3, <2>4, <2>5, <2>6, <2>7, <2>8, <2>9, <2>10, <2>11, <2>12,
       <2>13, <2>14, <2>15, <2>16, <2>17, <2>18, <2>19
    DEF Next, WaitLoop, AddTask, Stop, Terminated
<1>3. QED BY <1>1, <1>2, TypeCorrect, LifeCorrect, PTL DEF Spec

\* A worker that holds no task leaves room for one more.
LEMMA RoomToRun ==
  ASSUME IsFiniteSet(Worker), TypeOK, EachTaskOnce, NEW w \in Worker, task[w] = NoTask
  PROVE  Cardinality(Running) < Cardinality(Worker)
<1> DEFINE busy == {v \in Worker : task[v] /= NoTask}
           f == [v \in busy |-> task[v]]
<1>1. busy \subseteq Worker \ {w} OBVIOUS
<1>2. IsFiniteSet(Worker \ {w}) /\ Cardinality(Worker \ {w}) = Cardinality(Worker) - 1
  BY FS_RemoveElement
<1>3. IsFiniteSet(busy) /\ Cardinality(busy) <= Cardinality(Worker \ {w})
  BY <1>1, <1>2, FS_Subset
<1>4. f \in Surjection(busy, Running) BY DEF Surjection, Running
<1>5. IsFiniteSet(Running) /\ Cardinality(Running) <= Cardinality(busy)
  BY <1>3, <1>4, FS_Surjection
<1>6. Cardinality(Running) \in Nat /\ Cardinality(busy) \in Nat /\ Cardinality(Worker) \in Nat
  BY <1>3, <1>5, FS_CardinalityType
<1>7. QED BY <1>2, <1>3, <1>5, <1>6

\* With no worker alive nothing runs, and nobody can add a task.
LEMMA Quiet ==
  ASSUME TypeInv, \A w \in Worker : pc[w] = "exited"
  PROVE  Running = {}
BY DEF Running, TypeInv, LocalsOK, Adding

PoolInv ==
  TypeInv /\ LifeInv /\ Submission /\ EachTaskOnce /\ SomeoneLeft /\ VectorInv

\* The pool implements the task service: each of its steps is a step of the
\* service or leaves the service as it is.
THEOREM Implements ==
  ASSUME IsFiniteSet(Worker), Worker /= {}
  PROVE  Spec => ImplementsService
<1>1. Init => Service!Init
  BY PoolAssumption, SMT DEF Init, Service!Init, Running, ServiceState, Thread
<1>2. PoolInv /\ [Next]_vars => [Service!Next]_Service!vars
  <2> SUFFICES ASSUME PoolInv, [Next]_vars PROVE [Service!Next]_Service!vars
    OBVIOUS
  <2> USE PoolAssumption DEF PoolInv, TypeInv, TypeOK
  <2>0. ASSUME UNCHANGED <<m_task_queue, task, done>>, ServiceState' = ServiceState
        PROVE  UNCHANGED Service!vars
    BY <2>0 DEF Service!vars, Running
  <2>1. ASSUME NEW w \in Worker, pc[w] /= "exited", UNCHANGED <<pc[Main], mode, m_pool>>
        PROVE  ServiceState = "open" /\ ServiceState' = "open"
    BY <2>1 DEF ServiceState, LifeInv, StopProgress, VectorInv
  <2>2. ASSUME NEW w \in Worker, WorkerTake(w) PROVE Service!Start
    <3>1. m_task_queue /= << >> BY <2>2, QueueNotEmpty DEF WorkerTake
    <3>2. task[w] = NoTask BY <2>2 DEF WorkerTake, LocalsOK, Adding
    <3>3. pc[w] /= "exited" /\ UNCHANGED <<pc[Main], mode, m_pool, done>>
      BY <2>2 DEF WorkerTake, Goto, Thread, history
    <3>4. Head(m_task_queue) \in Task BY <3>1, HeadTailProperties
    <3>5. Running' = Running \cup {Head(m_task_queue)}
      BY <2>2, <3>2, <3>4 DEF WorkerTake, Running
    <3>6. ServiceState = "open" /\ ServiceState' = "open" BY <2>1, <3>3
    <3>7. Cardinality(Running) < Cardinality(Worker) BY <3>2, RoomToRun
    <3>8. m_task_queue' = Tail(m_task_queue) BY <2>2 DEF WorkerTake
    <3>9. Service!Cardinality(Running) = Cardinality(Running)
      BY DEF Service!Cardinality, Cardinality
    <3>10. QED BY <3>1, <3>3, <3>5, <3>6, <3>7, <3>8, <3>9 DEF Service!Start
  <2>3. ASSUME NEW w \in Worker, WorkerFinish(w) PROVE Service!Finish(task[w])
    <3>1. task[w] \in Running BY <2>3 DEF WorkerFinish, LocalsOK, Running
    <3>2. Running' = Running \ {task[w]}
      BY <2>3, <3>1 DEF WorkerFinish, Running, EachTaskOnce
    <3>3. pc[w] /= "exited" /\ UNCHANGED <<pc[Main], mode, m_pool, m_task_queue>>
      BY <2>3 DEF WorkerFinish, Goto, Thread, members
    <3>4. QED BY <2>3, <2>1, <3>1, <3>2, <3>3 DEF Service!Finish, WorkerFinish
  <2>4. ASSUME NEW t \in Thread, AddPush(t) PROVE Service!Accept(arg[t])
    <3>1. arg[t] \notin pushed BY <2>4 DEF AddPush, Submission
    <3>2. ServiceState = "open" /\ ServiceState' = "open"
      <4>1. CASE t = Main
        BY <2>4, <4>1 DEF AddPush, Goto, Thread, ServiceState, LifeInv, StopProgress, Adding
      <4>2. CASE t \in Worker
        BY <2>4, <4>2, <2>1 DEF AddPush, Goto, Thread
      <4>3. QED BY <4>1, <4>2 DEF Thread
    <3>3. UNCHANGED <<task, done>> /\ Running' = Running BY <2>4 DEF AddPush, Running
    <3>4. \A i \in 1 .. Len(m_task_queue) : m_task_queue[i] /= arg[t]
      BY <3>1 DEF EachTaskOnce, Queued
    <3>5. QED BY <2>4, <3>1, <3>2, <3>3, <3>4 DEF Service!Accept, AddPush, EachTaskOnce
  <2>5. CASE StopJoin
    <3>1. UNCHANGED <<m_task_queue, task, done, mode>> /\ Running' = Running
      BY <2>5 DEF StopJoin, Running, history
    <3>2. m_pool \in {Worker, {}} /\ \A w \in Worker : pc[w] = "exited"
      BY <2>5 DEF StopJoin, VectorInv, LifeInv, StopProgress
    <3>3. Running = {} BY <3>2, Quiet
    <3>4. CASE mode = "EmptyQueue"
      <4>1. m_termination = "EmptyQueue" BY <2>5, <3>4 DEF StopJoin, LifeInv, StopProgress
      <4>2. m_task_queue = << >> BY <4>1, <3>2 DEF SomeoneLeft
      <4>3. ServiceState = "open" /\ ServiceState' = "drained"
        BY <2>5, <3>1, <3>4 DEF StopJoin, Goto, Thread, ServiceState
      <4>4. Service!Drain BY <3>1, <3>3, <4>2, <4>3 DEF Service!Drain
      <4>5. QED BY <4>4 DEF Service!Next
    <3>5. CASE mode = "Immediate"
      <4>1. ServiceState /= "closed" /\ ServiceState' = "closed"
        BY <2>5, <3>5 DEF StopJoin, Goto, Thread, ServiceState
      <4>2. Service!Close BY <3>1, <3>3, <4>1 DEF Service!Close
      <4>3. QED BY <4>2 DEF Service!Next
    <3>6. QED BY <2>5, <3>4, <3>5 DEF StopJoin, LifeInv, StopProgress
  <2>6. ASSUME NEW w \in Worker, StartWorker(w) PROVE UNCHANGED Service!vars
    <3>1. pc'[Main] = "ctor" /\ mode' = "none" /\ pc[Main] = "ctor" /\ mode = "none"
      BY <2>6 DEF StartWorker, Goto, Thread, LifeInv, StopProgress
    <3>2. ServiceState' = ServiceState BY <3>1 DEF ServiceState
    <3>3. QED BY <2>6, <2>0, <3>2 DEF StartWorker, history
  <2>7. ASSUME NEW w \in Worker,
               WorkerLock(w) \/ WorkerSleep(w) \/ WorkerReturn(w) \/ SpuriousWake(w)
        PROVE  UNCHANGED Service!vars
    <3>1. pc'[Main] = pc[Main] /\ UNCHANGED <<mode, m_pool, m_task_queue, task, done>>
      BY <2>7 DEF WorkerLock, WorkerSleep, WorkerReturn, SpuriousWake, Goto, Thread,
                  members, history
    <3>2. QED BY <2>0, <3>1 DEF ServiceState
  <2>8. ASSUME NEW t \in Thread, CallAdd(t) \/ AddLock(t) \/ AddNotify(t)
        PROVE  UNCHANGED Service!vars
    <3>1. UNCHANGED <<mode, m_pool, m_task_queue, task, done>>
      BY <2>8 DEF CallAdd, AddLock, AddNotify, members, history
    <3>2. CASE t = Main
      <4>1. mode = "none" /\ pc[Main] /= "dead"
        BY <2>8, <3>2 DEF CallAdd, MayCallAdd, AddLock, AddNotify, LifeInv, StopProgress, Adding
      <4>2. pc'[Main] /= "dead"
        BY <2>8, <3>2 DEF CallAdd, AddLock, AddNotify, ReturnPoint, Goto, Thread, Waiting
      <4>3. QED BY <2>0, <3>1, <4>1, <4>2 DEF ServiceState
    <3>3. CASE t \in Worker
      <4>1. pc'[Main] = pc[Main]
        BY <2>8, <3>3 DEF CallAdd, AddLock, AddNotify, ReturnPoint, Goto, Thread, Waiting
      <4>2. QED BY <2>0, <3>1, <4>1 DEF ServiceState
    <3>4. QED BY <3>2, <3>3 DEF Thread
  <2>9. CASE Constructed \/ CallStop \/ Destroy
    <3>1. UNCHANGED <<m_pool, m_task_queue, task, done>>
      BY <2>9 DEF Constructed, CallStop, Destroy, members, history
    <3>2. ServiceState' = ServiceState
      BY <2>9, <3>1 DEF Constructed, CallStop, Destroy, Goto, Thread, ServiceState,
         LifeInv, StopProgress, VectorInv
    <3>3. QED BY <2>0, <3>1, <3>2
  <2>10. CASE StopLock \/ StopSet \/ StopNotifyAll
    <3>1. UNCHANGED <<m_pool, m_task_queue, task, done, mode>>
      BY <2>10 DEF StopLock, StopSet, StopNotifyAll, members, history
    <3>2. ServiceState' = ServiceState
      BY <2>10, <3>1 DEF StopLock, StopSet, StopNotifyAll, Goto, Thread, ServiceState
    <3>3. QED BY <2>0, <3>1, <3>2
  <2>11. CASE UNCHANGED vars
    BY <2>11, <2>0 DEF vars, members, history, ServiceState
  <2>12. ASSUME NEW k \in Task, Service!Accept(k) \/ Service!Finish(k) PROVE Service!Next
    BY <2>12 DEF Service!Next
  <2>13. ASSUME NEW t \in Thread, AddPush(t) PROVE Service!Next
    BY <2>4, <2>12, <2>13 DEF AddPush, LocalsOK, Adding
  <2>14. ASSUME NEW w \in Worker, WorkerFinish(w) PROVE Service!Next
    BY <2>3, <2>12, <2>14 DEF WorkerFinish, LocalsOK
  <2>15. ASSUME NEW w \in Worker, WorkerTake(w) PROVE Service!Next
    BY <2>2, <2>15 DEF Service!Next
  <2>20. QED
    BY <2>5, <2>6, <2>7, <2>8, <2>9, <2>10, <2>11, <2>13, <2>14, <2>15
    DEF Next, WaitLoop, AddTask, Stop, Terminated
<1>3. QED
  BY <1>1, <1>2, TypeCorrect, LifeCorrect, SubmissionCorrect, TasksOnce, SomeoneStays,
     VectorCorrect, PTL
  DEF Spec, PoolInv, ImplementsService, Service!Spec
=============================================================================
