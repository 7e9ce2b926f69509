----------------------------- MODULE ThreadPool -----------------------------
(***************************************************************************)
(* The thread pool of src/coroutines/async--thread_pool.{hpp,cpp} (and its *)
(* global-variable ancestor Solutions/thread_pool_quick_and_dirty.cpp):    *)
(* worker threads that wait on one condition variable for tasks in a       *)
(* queue, callers of addTask, and an owner that stops and destroys the     *)
(* pool.  One action per lock acquisition, critical section and            *)
(* notification, so that every interleaving around the mutex, the          *)
(* condition variable and the running tasks is a behaviour.                *)
(*                                                                         *)
(* A task is a std::function that may itself call addTask any number of    *)
(* times, as the jobs of async--server.cpp do when they resume a           *)
(* coroutine.  Task is the set of task identities; a call of addTask takes *)
(* one that no call took before.                                           *)
(***************************************************************************)
EXTENDS Naturals, Sequences, FiniteSets

CONSTANTS
  Worker,    \* the threads the constructor starts (max_concurrency of them)
  Main,      \* the thread that owns the pool
  Task,      \* identities for the tasks given to addTask
  NoThread,  \* the mutex is free
  NoTask     \* a thread holds no task

Thread == Worker \cup {Main}

ASSUME PoolAssumption ==
  /\ Main \notin Worker
  /\ NoThread \notin Thread
  /\ NoTask \notin Task

VARIABLES
  m_termination,  \* "Continue", "Immediate" or "EmptyQueue"
  m_queue_mutex,  \* the thread that holds the mutex, or NoThread
  m_task_queue,   \* the queue of tasks
  m_pool,         \* the threads in the vector m_pool
  pc,             \* where each thread is
  task,           \* the local `task` of wait_loop while it runs
  arg,            \* the argument of the addTask call a thread is in
  mode,           \* the mode of the last call of stop; "none" before any
  submitted,      \* history: tasks given to addTask
  pushed,         \* history: tasks that were put in the queue
  done            \* history: tasks whose body has returned

members == <<m_termination, m_queue_mutex, m_task_queue, m_pool>>
history == <<submitted, pushed, done>>
vars == <<members, pc, task, arg, mode, history>>

Termination == {"Continue", "Immediate", "EmptyQueue"}

\* Program points of one call of addTask, for the owner and for a worker
\* whose task calls it.
Adding == {"add", "push", "notify"}
WorkerPC == {"unborn", "lock", "pred", "wait", "run", "exited"} \cup Adding
MainPC == {"ctor", "ready", "stop", "set", "notify_all", "join", "dead"} \cup Adding

\* A thread is inside a critical section of m_queue_mutex.
Critical == {"pred", "push", "set"}

Waiting == {w \in Worker : pc[w] = "wait"}
Queued == {m_task_queue[i] : i \in 1 .. Len(m_task_queue)}
Running == {task[w] : w \in Worker} \ {NoTask}

Goto(t, l) == pc' = [pc EXCEPT ![t] = l]

\* Another thread must not hold the mutex; then t holds it.
Acquire(t) == m_queue_mutex = NoThread /\ m_queue_mutex' = t
Release == m_queue_mutex' = NoThread

Init ==
  /\ m_termination = "Continue"
  /\ m_queue_mutex = NoThread
  /\ m_task_queue = << >>
  /\ m_pool = {}
  /\ pc = [t \in Thread |-> IF t = Main THEN "ctor" ELSE "unborn"]
  /\ task = [w \in Worker |-> NoTask]
  /\ arg = [t \in Thread |-> NoTask]
  /\ mode = "none"
  /\ submitted = {}
  /\ pushed = {}
  /\ done = {}

-----------------------------------------------------------------------------
\* The constructor: emplace_back starts a thread in wait_loop.
StartWorker(w) ==
  /\ pc[Main] = "ctor" /\ pc[w] = "unborn"
  /\ m_pool' = m_pool \cup {w}
  /\ Goto(w, "lock")
  /\ UNCHANGED <<m_termination, m_queue_mutex, m_task_queue, task, arg, mode, history>>

\* The loop of the constructor ends: the owner has the pool.
Constructed ==
  /\ pc[Main] = "ctor" /\ m_pool = Worker
  /\ Goto(Main, "ready")
  /\ UNCHANGED <<members, task, arg, mode, history>>

-----------------------------------------------------------------------------
\* wait_loop: std::unique_lock lock(m_queue_mutex), first time and each time
\* the condition variable has let go of the thread.
WorkerLock(w) ==
  /\ pc[w] = "lock"
  /\ Acquire(w)
  /\ Goto(w, "pred")
  /\ UNCHANGED <<m_termination, m_task_queue, m_pool, task, arg, mode, history>>

\* The predicate given to m_queue_condition.wait.
WaitPredicate == m_task_queue /= << >> \/ m_termination /= "Continue"

\* Faulty: any stop makes a worker leave, tasks in the queue or not.
MustReturnEarly == m_termination /= "Continue"

\* wait_loop leaves the loop when this holds after the wait.
MustReturn ==
  \/ m_termination = "Immediate"
  \/ m_termination = "EmptyQueue" /\ m_task_queue = << >>

\* The predicate is false: release the mutex and sleep, in one step.
WorkerSleep(w) ==
  /\ pc[w] = "pred" /\ ~WaitPredicate
  /\ Release
  /\ Goto(w, "wait")
  /\ UNCHANGED <<m_termination, m_task_queue, m_pool, task, arg, mode, history>>

\* The thread returns, and its unique_lock with it.
WorkerReturn(w) ==
  /\ pc[w] = "pred" /\ WaitPredicate /\ MustReturn
  /\ Release
  /\ Goto(w, "exited")
  /\ UNCHANGED <<m_termination, m_task_queue, m_pool, task, arg, mode, history>>

\* Faulty: front() without pop().
WorkerTakeNoPop(w) ==
  /\ pc[w] = "pred" /\ WaitPredicate /\ ~MustReturn
  /\ task' = [task EXCEPT ![w] = Head(m_task_queue)]
  /\ Release
  /\ Goto(w, "run")
  /\ UNCHANGED <<m_termination, m_task_queue, m_pool, arg, mode, history>>

\* Faulty: the newest task first.
WorkerTakeBack(w) ==
  /\ pc[w] = "pred" /\ WaitPredicate /\ ~MustReturn
  /\ LET last == Len(m_task_queue) IN
       /\ task' = [task EXCEPT ![w] = m_task_queue[last]]
       /\ m_task_queue' = SubSeq(m_task_queue, 1, last - 1)
  /\ Release
  /\ Goto(w, "run")
  /\ UNCHANGED <<m_termination, m_pool, arg, mode, history>>

\* task = front(); pop(); lock.unlock(); then the body of the task starts.
WorkerTake(w) ==
  /\ pc[w] = "pred" /\ WaitPredicate /\ ~MustReturn
  /\ task' = [task EXCEPT ![w] = Head(m_task_queue)]
  /\ m_task_queue' = Tail(m_task_queue)
  /\ Release
  /\ Goto(w, "run")
  /\ UNCHANGED <<m_termination, m_pool, arg, mode, history>>

\* task() returns and the loop starts again.
WorkerFinish(w) ==
  /\ pc[w] = "run"
  /\ done' = done \cup {task[w]}
  /\ task' = [task EXCEPT ![w] = NoTask]
  /\ Goto(w, "lock")
  /\ UNCHANGED <<members, arg, mode, submitted, pushed>>

\* A condition variable may wake a thread that nobody notified.
SpuriousWake(w) ==
  /\ pc[w] = "wait"
  /\ Goto(w, "lock")
  /\ UNCHANGED <<members, task, arg, mode, history>>

-----------------------------------------------------------------------------
\* addTask is called by the owner before it stops the pool, or by the body of
\* a task.
MayCallAdd(t) == IF t = Main THEN pc[t] = "ready" /\ mode = "none" ELSE pc[t] = "run"

CallAdd(t) ==
  /\ MayCallAdd(t)
  /\ \E k \in Task \ submitted :
       /\ arg' = [arg EXCEPT ![t] = k]
       /\ submitted' = submitted \cup {k}
  /\ Goto(t, "add")
  /\ UNCHANGED <<members, task, mode, pushed, done>>

AddLock(t) ==
  /\ pc[t] = "add"
  /\ Acquire(t)
  /\ Goto(t, "push")
  /\ UNCHANGED <<m_termination, m_task_queue, m_pool, task, arg, mode, history>>

\* m_task_queue.push(task); lock.unlock()
AddPush(t) ==
  /\ pc[t] = "push"
  /\ m_task_queue' = Append(m_task_queue, arg[t])
  /\ pushed' = pushed \cup {arg[t]}
  /\ Release
  /\ Goto(t, "notify")
  /\ UNCHANGED <<m_termination, m_pool, task, arg, mode, submitted, done>>

\* Faulty: every call returns into the loop of a worker.
ReturnPointWorker(t) == "run"

\* The point a call of addTask returns to.
ReturnPoint(t) == IF t = Main THEN "ready" ELSE "run"

\* Faulty: the notification is forgotten.
AddNotifyNobody(t) ==
  /\ pc[t] = "notify"
  /\ Goto(t, ReturnPoint(t))
  /\ arg' = [arg EXCEPT ![t] = NoTask]
  /\ UNCHANGED <<members, task, mode, history>>

\* m_queue_condition.notify_one(): one sleeping thread, if there is one, goes
\* back for the mutex.
AddNotify(t) ==
  /\ pc[t] = "notify"
  /\ \/ /\ Waiting = {}
        /\ Goto(t, ReturnPoint(t))
     \/ \E w \in Waiting :
          pc' = [pc EXCEPT ![t] = ReturnPoint(t), ![w] = "lock"]
  /\ arg' = [arg EXCEPT ![t] = NoTask]
  /\ UNCHANGED <<members, task, mode, history>>

-----------------------------------------------------------------------------
\* stop(EmptyQueue), which the owner may call once it has submitted its tasks.
CallStop ==
  /\ pc[Main] = "ready" /\ mode = "none"
  /\ mode' = "EmptyQueue"
  /\ Goto(Main, "stop")
  /\ UNCHANGED <<members, task, arg, history>>

\* The destructor: stop(Immediate), after an explicit stop or without one.
Destroy ==
  /\ pc[Main] = "ready"
  /\ mode' = "Immediate"
  /\ Goto(Main, "stop")
  /\ UNCHANGED <<members, task, arg, history>>

StopLock ==
  /\ pc[Main] = "stop"
  /\ Acquire(Main)
  /\ Goto(Main, "set")
  /\ UNCHANGED <<m_termination, m_task_queue, m_pool, task, arg, mode, history>>

\* m_termination = mode; lock.unlock()
StopSet ==
  /\ pc[Main] = "set"
  /\ m_termination' = mode
  /\ Release
  /\ Goto(Main, "notify_all")
  /\ UNCHANGED <<m_task_queue, m_pool, task, arg, mode, history>>

\* Faulty: notify_one in place of notify_all.
StopNotifyOne ==
  /\ pc[Main] = "notify_all"
  /\ \/ Waiting = {} /\ Goto(Main, "join")
     \/ \E w \in Waiting : pc' = [pc EXCEPT ![Main] = "join", ![w] = "lock"]
  /\ UNCHANGED <<members, task, arg, mode, history>>

\* m_queue_condition.notify_all().
StopNotifyAll ==
  /\ pc[Main] = "notify_all"
  /\ pc' = [t \in Thread |->
              IF t = Main THEN "join"
              ELSE IF pc[t] = "wait" THEN "lock" ELSE pc[t]]
  /\ UNCHANGED <<members, task, arg, mode, history>>

\* Faulty: the threads are forgotten without a join.
StopNoJoin ==
  /\ pc[Main] = "join"
  /\ m_pool' = {}
  /\ Goto(Main, IF mode = "Immediate" THEN "dead" ELSE "ready")
  /\ UNCHANGED <<m_termination, m_queue_mutex, m_task_queue, task, arg, mode, history>>

\* Every t.join() has returned; then m_pool.clear().
StopJoin ==
  /\ pc[Main] = "join"
  /\ \A w \in m_pool : pc[w] = "exited"
  /\ m_pool' = {}
  /\ Goto(Main, IF mode = "Immediate" THEN "dead" ELSE "ready")
  /\ UNCHANGED <<m_termination, m_queue_mutex, m_task_queue, task, arg, mode, history>>

\* The pool is destroyed: nothing is left to do.
Terminated == pc[Main] = "dead" /\ UNCHANGED vars

-----------------------------------------------------------------------------
WaitLoop(w) ==
  \/ WorkerLock(w) \/ WorkerSleep(w) \/ WorkerReturn(w)
  \/ WorkerTake(w) \/ WorkerFinish(w)

AddTask(t) == CallAdd(t) \/ AddLock(t) \/ AddPush(t) \/ AddNotify(t)

Stop == CallStop \/ Destroy \/ StopLock \/ StopSet \/ StopNotifyAll \/ StopJoin

Next ==
  \/ \E w \in Worker : StartWorker(w) \/ WaitLoop(w) \/ SpuriousWake(w)
  \/ \E t \in Thread : AddTask(t)
  \/ Constructed \/ Stop \/ Terminated

Spec == Init /\ [][Next]_vars

\* Each thread is scheduled, and a thread that asks for the mutex gets it in
\* the end although others keep taking it. The owner need not call anything,
\* but the calls it has made go on.
Fairness ==
  /\ WF_vars(Constructed \/ \E w \in Worker : StartWorker(w))
  /\ WF_vars(StopSet \/ StopNotifyAll \/ StopJoin)
  /\ SF_vars(StopLock)
  /\ \A w \in Worker : WF_vars(WaitLoop(w)) /\ SF_vars(WorkerLock(w))
  /\ \A t \in Thread : WF_vars(AddPush(t) \/ AddNotify(t)) /\ SF_vars(AddLock(t))

FairSpec == Spec /\ Fairness

-----------------------------------------------------------------------------
(***************************************************************************)
(* Properties.                                                             *)
(***************************************************************************)

\* The types of the variables.
TypeOK ==
  /\ m_termination \in Termination
  /\ m_queue_mutex \in Thread \cup {NoThread}
  /\ m_task_queue \in Seq(Task)
  /\ m_pool \in SUBSET Worker
  /\ pc \in [Thread -> WorkerPC \cup MainPC]
  /\ pc[Main] \in MainPC /\ \A w \in Worker : pc[w] \in WorkerPC
  /\ task \in [Worker -> Task \cup {NoTask}]
  /\ arg \in [Thread -> Task \cup {NoTask}]
  /\ mode \in {"none", "Immediate", "EmptyQueue"}
  /\ submitted \in SUBSET Task /\ pushed \in SUBSET Task /\ done \in SUBSET Task

\* A task that addTask has put in the queue is never lost and never run
\* twice: it is in the queue once, or one worker runs it, or it is done, and
\* only one of these.  (push, front/pop and task() of wait_loop.)
EachTaskOnce ==
  /\ pushed = Queued \cup Running \cup done
  /\ Queued \cap (Running \cup done) = {} /\ Running \cap done = {}
  /\ \A i, j \in 1 .. Len(m_task_queue) : m_task_queue[i] = m_task_queue[j] => i = j
  /\ \A v, w \in Worker : task[v] = task[w] /\ task[v] /= NoTask => v = w

\* No wakeup is lost: with a task in the queue and every worker asleep, some
\* caller of addTask has yet to notify.  (notify_one comes after the unlock.)
NoLostWakeup ==
  (Worker /= {} /\ m_task_queue /= << >> /\ Waiting = Worker)
    => \E t \in Thread : pc[t] = "notify"

\* Once stop has notified, no worker is asleep or can fall asleep again, so
\* that the joins of stop can end.
StopWakesAll ==
  (m_termination /= "Continue" /\ Waiting /= {}) => pc[Main] = "notify_all"

\* When stop(EmptyQueue) has returned, every task ever submitted has run: also
\* those that running tasks added while stop was waiting.
DrainedOnReturn ==
  (mode = "EmptyQueue" /\ pc[Main] = "ready" /\ Worker /= {})
    => m_task_queue = << >> /\ done = submitted

\* m_pool is not empty (isActive() is true) as long as a worker can run a
\* task, and when the destructor ends no thread of the pool is left.
ActiveWhileRunning ==
  /\ (\E w \in Worker : pc[w] \notin {"unborn", "exited"}) => m_pool /= {}
  /\ pc[Main] = "dead" => \A w \in Worker : pc[w] = "exited"

\* The body of a task never starts while its worker holds m_queue_mutex, so
\* that a task may call addTask; and one thread holds it at a time.
OneCriticalSection ==
  \A t \in Thread : pc[t] \in Critical <=> m_queue_mutex = t

\* The owner's stop and destructor return, whatever tasks run or are queued.
StopReturns == pc[Main] = "stop" ~> pc[Main] \in {"ready", "dead"}

\* A submitted task is run, even if the owner calls nothing more, unless the
\* destructor stops the pool before.
TasksRun == \A k \in Task : k \in submitted ~> (k \in done \/ mode = "Immediate")

-----------------------------------------------------------------------------
\* The pool implements a task service that is as wide as it has workers.
ServiceState ==
  IF pc[Main] = "dead" THEN "closed"
  ELSE IF \/ mode = "EmptyQueue" /\ pc[Main] = "ready"
          \/ mode = "Immediate" /\ m_pool = {}
       THEN "drained"
       ELSE "open"

Service ==
  INSTANCE TaskService WITH
    Width <- Cardinality(Worker), accepted <- m_task_queue,
    running <- Running, finished <- done, state <- ServiceState

\* Tasks start in the order addTask queued them, each once, and stop returns
\* only when nothing runs.  (push, front/pop, task() and stop.)
ImplementsService == Service!Spec
=============================================================================
