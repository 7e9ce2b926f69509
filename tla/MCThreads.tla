------------------------------ MODULE MCThreads -----------------------------
(* The small thread programs, one at a time: `demo` is the one that runs,    *)
(* the variables of the others stay as they are. semaphore.cpp is SlotQueue, *)
(* which this module extends.                                                *)
EXTENDS SlotQueue

CONSTANTS
  Runner,      \* the threads of FindRun.cpp, barrier.cpp and the quick pool
  Hot,         \* the one of run_hot_thread
  Worker,      \* the threads of the stack and of the transform
  Main, NoRunner, NoThread,
  RoundLimit,  \* bound: barrier.cpp has 3
  count, counter, Calls, TaskCount, Elements, Limit

VARIABLES
  demo,
  fr_pc, latch, promise, stop, alive, winner,
  ba_pc, do_run, round, arrived, laps,
  program, rest, reg, mem, ru_mutex,
  sg_program, sg_pc, life, sg_mem, held, asleep, left, stopped, dead, said,
  m_head, next, cs_pc, p, called, pushed, relinked,
  po_program, termination, task_queue, queue_mutex, po_asleep, po_pc, task, main, added, ran,
  begin, inspector, id_map, chunks

findVars   == <<fr_pc, latch, promise, stop, alive, winner>>
roundVars  == <<ba_pc, do_run, round, arrived, laps>>
raceVars   == <<program, rest, reg, mem, ru_mutex>>
signalVars == <<sg_program, sg_pc, life, sg_mem, held, asleep, left, stopped, dead, said>>
stackVars  == <<m_head, next, cs_pc, p, called, pushed, relinked>>
poolVars   == <<po_program, termination, task_queue, queue_mutex, po_asleep, po_pc, task, main,
                added, ran>>
insightVars == <<begin, inspector, id_map, chunks>>
oldVars  == <<vars, findVars, roundVars, raceVars>>
newVars  == <<signalVars, stackVars, poolVars, insightVars>>
demoVars == <<demo, oldVars, newVars>>

Find  == INSTANCE FindRun WITH pc <- fr_pc
Meet  == INSTANCE Rounds WITH Limit <- RoundLimit, pc <- ba_pc
Races == INSTANCE RacingUpdates WITH mutex <- ru_mutex
Signal == INSTANCE Signals WITH program <- sg_program, pc <- sg_pc, mem <- sg_mem
Stack == INSTANCE ConcurrentStack WITH Null <- NoThread, pc <- cs_pc
Pools == INSTANCE PoolPrograms WITH
  Worker <- Runner, Nobody <- NoThread, program <- po_program, asleep <- po_asleep, pc <- po_pc
Insight == INSTANCE Inspection WITH Size <- Elements

ASSUME ThreadsAssumption ==
  /\ IsFiniteSet(Queuer) /\ Size \in Nat
  /\ IsFiniteSet(Runner) /\ Main \notin Runner /\ NoRunner \notin Runner \cup {Main}
  /\ Hot \in Runner /\ NoThread \notin Runner \cup Races!Thread
  /\ IsFiniteSet(Worker) /\ Worker /= {} /\ NoThread \notin Worker \X (1 .. Calls)
  /\ {RoundLimit, count, counter, Calls, TaskCount, Elements, Limit} \subseteq Nat /\ Elements < Limit

MCInit ==
  /\ demo \in {"semaphore", "find", "barrier", "races", "signals", "stack", "pools", "insight"}
  /\ Init /\ Find!Init /\ Meet!Init /\ Races!Init /\ Signal!Init /\ Stack!Init /\ Pools!Init /\ Insight!Init
  /\ demo /= "races" => program = "naive"
  /\ demo /= "signals" => sg_program = "latch"
  /\ demo /= "pools" => po_program = "quick"

InSemaphore(A) == demo = "semaphore" /\ A /\ UNCHANGED <<demo, findVars, roundVars, raceVars, newVars>>
InFind(A)      == demo = "find" /\ A /\ UNCHANGED <<demo, vars, roundVars, raceVars, newVars>>
InBarrier(A)   == demo = "barrier" /\ A /\ UNCHANGED <<demo, vars, findVars, raceVars, newVars>>
InRaces(A)     == demo = "races" /\ A /\ UNCHANGED <<demo, vars, findVars, roundVars, newVars>>
InSignals(A)   == demo = "signals" /\ A /\ UNCHANGED <<demo, oldVars, stackVars, poolVars, insightVars>>
InStack(A)     == demo = "stack" /\ A /\ UNCHANGED <<demo, oldVars, signalVars, poolVars, insightVars>>
InPools(A)     == demo = "pools" /\ A /\ UNCHANGED <<demo, oldVars, signalVars, stackVars, insightVars>>
InInsight(A)   == demo = "insight" /\ A /\ UNCHANGED <<demo, oldVars, signalVars, stackVars, poolVars>>

MCNext ==
  \/ InSemaphore(Next)
  \/ InFind(Find!Next)
  \/ InBarrier(Meet!Next)
  \/ InRaces(Races!Next)
  \/ InSignals(Signal!Next)
  \/ InStack(Stack!Next)
  \/ InPools(Pools!Next)
  \/ InInsight(Insight!Next)

\* Every thread is scheduled; nothing makes the engine of a runner draw the
\* number that is searched.
Fairness ==
  /\ \A n \in Queuer : WF_demoVars(InSemaphore(Queue(n)))
  /\ \A r \in Runner : WF_demoVars(InFind(Find!Leave(r)))
  /\ \A r \in Runner : WF_demoVars(InFind(fr_pc[r] /= "search" /\ Find!Run(r)))
  /\ WF_demoVars(InFind(Find!MainRun))
  /\ \A r \in Runner : WF_demoVars(InBarrier(Meet!Test(r) \/ Meet!Arrive(r)))
  /\ WF_demoVars(InBarrier(Meet!Complete))
  /\ \A t \in Signal!Thread : SF_demoVars(InSignals(Signal!Run(t)))
  /\ SF_demoVars(InPools(Pools!RunMain))
  /\ \A w \in Runner : SF_demoVars(InPools(w \in Pools!Pool /\ Pools!Work(w)))

MCSpec == MCInit /\ [][MCNext]_demoVars /\ Fairness

-----------------------------------------------------------------------------
\* FindRun.cpp: nobody searches before all have arrived at the latch, and
\* main's winner is the thread that set the promise first. barrier.cpp: the
\* runners agree on every round although do_run is not protected.
Meetings == Find!StartTogether /\ Find!OneWinner /\ Meet!SameRounds

\* incrementation--benchmark.cpp, atomic_ref.cpp, combinatory_result.cpp,
\* hazardous_atomic_operation.cpp, concurrent_safe_mutex_access_*.cpp and
\* thread_local.cpp: what the racing updates may leave.
Results ==
  /\ Races!NothingLost
  /\ Races!OwnRage
  /\ Races!NaiveLoses
  /\ Races!HazardousResults
  /\ Races!CombinatoryResults

\* latch.cpp, promise.cpp, future.cpp and the other one-shot signals: what is
\* handed over arrives, after what it stands for, and nothing is used dead.
HandedOver == demo = "signals" => Signal!HandedOver

\* atomic_shared_ptr_list-WIP.cpp: pushes make a list, pops tie it.
StackKept == demo = "stack" => Stack!StackKept

\* thread_pool_quick_and_dirty.cpp and run_hot_thread: tasks run once, all of
\* them before the join returns.
RanOnce == demo = "pools" => Pools!RanOnce

\* And they run in the order in which main added them, no more at a time than
\* there are workers: each of the two is a task service.
PoolsServe == Pools!ImplementsService /\ [](demo = "pools" => Pools!RanOnce)

\* parallel_insight.cpp: what the statistics tell of the chunks.
Inspected == demo = "insight" => Insight!Inspected

\* Every queuer gets a slot in the end, a requested stop ends every runner of
\* FindRun.cpp, those of barrier.cpp leave after the last round, the signals
\* arrive, and the joins of the two pools return.
EveryoneEnds ==
  /\ demo = "semaphore" ~> AllServed
  /\ Find!StopsAll
  /\ demo = "barrier" => Meet!AllLeave
  /\ demo = "signals" => Signal!AllEnd
  /\ demo = "pools" => Pools!Joins
=============================================================================
