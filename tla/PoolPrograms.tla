---------------------------- MODULE PoolPrograms ----------------------------
(***************************************************************************)
(* The two programs that are a small thread pool of their own:             *)
(*   quick  src/Solutions/thread_pool_quick_and_dirty.cpp: a global queue, *)
(*          some workers, 17 tasks, then stop_pool(EmptyQueue) and joins   *)
(*   hot    run_hot_thread of src/coroutines/concurrency--benchmark.cpp:   *)
(*          one thread, a task for each turn of the loop, then stop        *)
(* Everything between two operations on the mutex or the condition         *)
(* variable is one step.                                                   *)
(***************************************************************************)
EXTENDS Naturals, Sequences, FiniteSets

CONSTANTS
  Worker,     \* the threads of the quick pool
  Hot,        \* the one of run_hot_thread
  TaskCount,  \* 17, or the turns of the benchmark's loop
  Nobody      \* the mutex is free

VARIABLES
  program,
  termination,  \* "Continue" or "EmptyQueue"; of the hot thread, stop
  task_queue,
  queue_mutex,
  asleep,       \* the workers that are blocked in wait()
  pc, task,     \* of each worker: where it is, the task it runs
  main,         \* where main is
  added,        \* the tasks that main has added
  ran           \* how often each task has run

vars == <<program, termination, task_queue, queue_mutex, asleep, pc, task, main, added, ran>>

Pool == IF program = "hot" THEN {Hot} ELSE Worker

Init ==
  /\ program \in {"quick", "hot"}
  /\ termination = "Continue"
  /\ task_queue = << >>
  /\ queue_mutex = Nobody
  /\ asleep = {}
  /\ pc = [w \in Worker |-> "lock"]
  /\ task = [w \in Worker |-> 0]
  /\ main = "add"
  /\ added = 0
  /\ ran = [k \in 1 .. TaskCount |-> 0]

Goto(w, l) == pc' = [pc EXCEPT ![w] = l]

\* Faulty: the tasks that are still in the queue are not looked at.
ReturnsAtOnce == termination = "EmptyQueue"

\* termination == EmptyQueue && task_queue.empty(); Immediate is never asked.
Returns == termination = "EmptyQueue" /\ task_queue = << >>

Wakes == task_queue /= << >> \/ termination /= "Continue"

\* std::unique_lock lock(queue_mutex), also that of a wait that wakes.
TakeLock(w) ==
  /\ pc[w] = "lock" /\ w \notin asleep /\ queue_mutex = Nobody
  /\ queue_mutex' = w
  /\ Goto(w, "test")
  /\ UNCHANGED <<program, termination, task_queue, asleep, task, main, added, ran>>

\* wait(): the predicate does not hold, the mutex is given up.
Sleep(w) ==
  /\ pc[w] = "test" /\ ~Wakes
  /\ queue_mutex' = Nobody
  /\ asleep' = asleep \cup {w}
  /\ Goto(w, "lock")
  /\ UNCHANGED <<program, termination, task_queue, task, main, added, ran>>

\* return, or the front of the queue and unlock().
Take(w) ==
  /\ pc[w] = "test" /\ Wakes
  /\ IF Returns THEN Goto(w, "returned") /\ UNCHANGED <<task_queue, task>>
     ELSE /\ task' = [task EXCEPT ![w] = Head(task_queue)]
          /\ task_queue' = Tail(task_queue)
          /\ Goto(w, "task")
  /\ queue_mutex' = Nobody
  /\ UNCHANGED <<program, termination, asleep, main, added, ran>>

\* task()
RunTask(w) ==
  /\ pc[w] = "task"
  /\ ran' = [ran EXCEPT ![task[w]] = @ + 1]
  /\ Goto(w, "lock")
  /\ UNCHANGED <<program, termination, task_queue, queue_mutex, asleep, task, main, added>>

Work(w) == TakeLock(w) \/ Sleep(w) \/ Take(w) \/ RunTask(w)

Spurious(w) ==
  /\ w \in asleep /\ asleep' = asleep \ {w}
  /\ UNCHANGED <<program, termination, task_queue, queue_mutex, pc, task, main, added, ran>>

\* add_task: the task is pushed under the lock, then one worker is notified.
Add ==
  /\ main = "add" /\ added < TaskCount /\ queue_mutex = Nobody
  /\ added' = added + 1
  /\ task_queue' = Append(task_queue, added')
  /\ main' = "notify_one"
  /\ UNCHANGED <<program, termination, queue_mutex, asleep, pc, task, ran>>

NotifyOne ==
  /\ main = "notify_one"
  /\ IF asleep = {} THEN UNCHANGED asleep ELSE \E w \in asleep : asleep' = asleep \ {w}
  /\ main' = "add"
  /\ UNCHANGED <<program, termination, task_queue, queue_mutex, pc, task, added, ran>>

\* stop_pool(EmptyQueue); the hot thread's `stop`.
Stop ==
  /\ main = "add" /\ added = TaskCount /\ queue_mutex = Nobody
  /\ termination' = "EmptyQueue"
  /\ main' = "notify_all"
  /\ UNCHANGED <<program, task_queue, queue_mutex, asleep, pc, task, added, ran>>

\* Faulty: one worker is told.
NotifyAllOne ==
  /\ main = "notify_all"
  /\ IF asleep = {} THEN UNCHANGED asleep ELSE \E w \in asleep : asleep' = asleep \ {w}
  /\ main' = "join"
  /\ UNCHANGED <<program, termination, task_queue, queue_mutex, pc, task, added, ran>>

NotifyAll ==
  /\ main = "notify_all"
  /\ asleep' = {}
  /\ main' = "join"
  /\ UNCHANGED <<program, termination, task_queue, queue_mutex, pc, task, added, ran>>

Join ==
  /\ main = "join" /\ \A w \in Pool : pc[w] = "returned"
  /\ main' = "joined"
  /\ UNCHANGED <<program, termination, task_queue, queue_mutex, asleep, pc, task, added, ran>>

RunMain == Add \/ NotifyOne \/ Stop \/ NotifyAll \/ Join

Next ==
  \/ RunMain
  \/ \E w \in Pool : Work(w) \/ Spurious(w)
  \/ main = "joined" /\ UNCHANGED vars

\* Every thread is scheduled, and a mutex that is free again and again is
\* taken by each of those that wait for it.
Spec == Init /\ [][Next]_vars /\ SF_vars(RunMain) /\ \A w \in Worker : SF_vars(w \in Pool /\ Work(w))

-----------------------------------------------------------------------------
\* What was added is in the queue, or run by one worker, or has run: once.
\* When main has joined, all tasks have run, whatever was still in the queue
\* when it asked for the stop.
RanOnce ==
  /\ \A k \in 1 .. TaskCount :
       LET queued == {i \in 1 .. Len(task_queue) : task_queue[i] = k}
           runs == {w \in Pool : pc[w] = "task" /\ task[w] = k} IN
       /\ ran[k] <= 1
       /\ \A i, j \in queued : i = j
       /\ (queued /= {} \/ runs /= {}) => ran[k] = 0
       /\ main = "joined" => ran[k] = 1

Joins == <>(main = "joined")

-----------------------------------------------------------------------------
\* Both pools are task services that main drains: ready to take tasks until it
\* has joined.
Running == {task[w] : w \in {v \in Pool : pc[v] = "task"}}
Finished == {k \in 1 .. TaskCount : ran[k] > 0}

Service ==
  INSTANCE TaskService WITH
    Task <- 1 .. TaskCount, Width <- Cardinality(Worker),
    accepted <- task_queue, running <- Running, finished <- Finished,
    state <- IF main = "joined" THEN "drained" ELSE "open"

\* Tasks start in the order in which main added them, each once, and the joins
\* return when nothing is left to run.
ImplementsService == Service!Spec
=============================================================================
