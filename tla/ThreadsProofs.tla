---------------------------- MODULE ThreadsProofs ---------------------------
(***************************************************************************)
(* Proofs about the small thread programs, for every number of threads,    *)
(* slots, rounds, tasks, calls and elements: SlotQueue, FindRun (whose     *)
(* lemmas are in its module), Rounds, PoolPrograms, ConcurrentStack,       *)
(* Inspection, RacingUpdates and Signals, each with its inductive          *)
(* invariant.                                                              *)
(***************************************************************************)
EXTENDS MCThreads, TLAPS, FiniteSetTheorems, SequenceTheorems, WellFoundedInduction, NaturalsInduction

\* One program runs, and the variables of the others stay.
LEMMA StepOfOne ==
  ASSUME [MCNext]_demoVars
  PROVE  /\ [Next]_vars /\ [Find!Next]_findVars /\ [Meet!Next]_roundVars /\ [Races!Next]_raceVars
         /\ [Signal!Next]_signalVars
         /\ [Stack!Next]_stackVars /\ [Pools!Next]_poolVars /\ [Insight!Next]_insightVars
         /\ UNCHANGED demo
BY DEF MCNext, InSemaphore, InFind, InBarrier, InRaces, InSignals, InStack, InPools, InInsight,
       demoVars, oldVars, newVars

-----------------------------------------------------------------------------
\* The points between an acquire and a release of the binary semaphore.
Critical == {"look", "mark", "free"}

\* The binary semaphore is a mutex.
MutexInv ==
  /\ \A m, n \in Queuer : pc[m] \in Critical /\ pc[n] \in Critical => m = n
  /\ mutex = 0 <=> \E n \in Queuer : pc[n] \in Critical

Holders == {n \in Queuer : pc[n] \in Holding}

\* A permit for each slot is in the semaphore or with a queuer.
PermitsInv == semaphore + Cardinality(Holders) = Size

\* A slot that was found is in the array, and still free when it is marked.
PosInv ==
  /\ \A n \in Queuer : pc[n] \in {"mark"} \cup Marked => pos[n] \in Slot
  /\ \A n \in Queuer : pc[n] = "mark" => ~slots[pos[n]]

SlotInv == TypeOK /\ MutexInv /\ PermitsInv /\ PosInv /\ SlotsExclusive

-----------------------------------------------------------------------------
\* Who looks for a slot holds a permit and has marked none: the others have
\* marked less than Size.
LEMMA FreeSlot ==
  ASSUME ThreadsAssumption, SlotInv
  PROVE  SlotFound
<1> USE DEF ThreadsAssumption, SlotInv, TypeOK
<1> SUFFICES ASSUME NEW n \in Queuer, pc[n] = "look", \A i \in Slot : slots[i]
             PROVE  FALSE
  BY DEF SlotFound
<1> DEFINE Others == Holders \ {n}
           taker == [i \in Slot |-> CHOOSE m \in Others : pos[m] = i]
<1>1. IsFiniteSet(Holders) /\ n \in Holders
  BY FS_Subset DEF Holders, Holding
<1>2. IsFiniteSet(Others) /\ Cardinality(Others) = Cardinality(Holders) - 1
  BY <1>1, FS_RemoveElement
<1>3. \A i \in Slot : taker[i] \in Others /\ pos[taker[i]] = i
  <2> SUFFICES ASSUME NEW i \in Slot PROVE \E m \in Others : pos[m] = i
    OBVIOUS
  <2>1. PICK m \in Queuer : pc[m] \in Marked /\ pos[m] = i
    BY DEF SlotsExclusive
  <2>2. m \in Others
    BY <2>1 DEF Holders, Holding, Marked
  <2>3. QED BY <2>1, <2>2
<1>4. taker \in Injection(Slot, Others)
  BY <1>3 DEF Injection, IsInjective
<1>5. Cardinality(Slot) = Size
  BY FS_Interval DEF Slot
<1>6. Size <= Cardinality(Others)
  BY <1>2, <1>4, <1>5, FS_Injection
<1>7. Cardinality(Holders) \in Nat
  BY <1>1, FS_CardinalityType
<1>8. Cardinality(Holders) <= Size
  BY <1>7 DEF PermitsInv
<1>9. QED BY <1>2, <1>6, <1>7, <1>8

-----------------------------------------------------------------------------
LEMMA InitInv == ThreadsAssumption /\ Init => SlotInv
<1> SUFFICES ASSUME ThreadsAssumption, Init PROVE SlotInv
  OBVIOUS
<1> USE DEF ThreadsAssumption, Init, Holding, Marked, Critical
<1>1. TypeOK
  BY DEF TypeOK
<1>2. MutexInv
  BY DEF MutexInv
<1>3. PermitsInv
  <2>1. Holders = {}
    BY DEF Holders
  <2>2. QED BY <2>1, FS_EmptySet DEF PermitsInv
<1>4. PosInv
  BY DEF PosInv
<1>5. SlotsExclusive
  BY DEF SlotsExclusive
<1>6. QED BY <1>1, <1>2, <1>3, <1>4, <1>5 DEF SlotInv

\* A queuer that stays among the holders, or outside them, takes no permit
\* and gives none back.
LEMMA SamePermits ==
  ASSUME ThreadsAssumption, SlotInv, NEW n \in Queuer, NEW l,
         Goto(n, l), pc[n] \in Holding, l \in Holding, UNCHANGED semaphore
  PROVE  PermitsInv'
<1>1. Holders' = Holders
  BY DEF SlotInv, TypeOK, Goto, Holders
<1>2. QED BY <1>1 DEF SlotInv, PermitsInv

\* Each action, and why it keeps the invariant.
LEMMA StepInv == ThreadsAssumption /\ SlotInv /\ [Next]_vars => SlotInv'
<1> SUFFICES ASSUME ThreadsAssumption, SlotInv, [Next]_vars PROVE SlotInv'
  OBVIOUS
<1> USE DEF ThreadsAssumption, SlotInv, TypeOK, Goto
<1>1. IsFiniteSet(Holders) /\ Cardinality(Holders) \in Nat
  BY FS_Subset, FS_CardinalityType DEF Holders
<1>2. ASSUME NEW n \in Queuer, Acquire(n) PROVE SlotInv'
  <2> USE <1>2 DEF Acquire
  <2>1. Holders' = Holders \cup {n} /\ n \notin Holders
    BY DEF Holders, Holding, Marked
  <2>2. Cardinality(Holders') = Cardinality(Holders) + 1
    BY <1>1, <2>1, FS_AddElement
  <2>3. PermitsInv'
    BY <1>1, <2>2 DEF PermitsInv
  <2>4. TypeOK'
    BY DEF Holding, Marked
  <2>5. MutexInv'
    BY DEF MutexInv, Critical
  <2>6. PosInv'
    BY DEF PosInv, Marked
  <2>7. SlotsExclusive'
    BY DEF SlotsExclusive, Marked, Slot
  <2>8. QED BY <2>3, <2>4, <2>5, <2>6, <2>7
<1>3. ASSUME NEW n \in Queuer, LockFind(n) PROVE SlotInv'
  <2> USE <1>3 DEF LockFind
  <2>1. PermitsInv'
    BY SamePermits DEF Holding, Marked
  <2>2. TypeOK'
    BY DEF Holding, Marked
  <2>3. MutexInv'
    BY DEF MutexInv, Critical
  <2>4. PosInv'
    BY DEF PosInv, Marked
  <2>5. SlotsExclusive'
    BY DEF SlotsExclusive, Marked, Slot
  <2>6. QED BY <2>1, <2>2, <2>3, <2>4, <2>5
<1>4. ASSUME NEW n \in Queuer, Look(n) PROVE SlotInv'
  <2> USE <1>4 DEF Look
  <2>1. PermitsInv'
    BY SamePermits DEF Holding, Marked
  <2>2. TypeOK'
    BY DEF Holding, Marked, Slot
  <2>3. MutexInv'
    BY DEF MutexInv, Critical
  <2>4. PosInv'
    BY DEF PosInv, Marked, Slot
  <2>5. SlotsExclusive'
    BY DEF SlotsExclusive, Marked, Slot
  <2>6. QED BY <2>1, <2>2, <2>3, <2>4, <2>5
<1>5. ASSUME NEW n \in Queuer, Mark(n) PROVE SlotInv'
  <2> USE <1>5 DEF Mark
  <2>1. mutex = 0 /\ pos[n] \in Slot /\ ~slots[pos[n]]
    BY DEF MutexInv, Critical, PosInv
  <2>2. PermitsInv'
    BY SamePermits DEF Holding, Marked
  <2>3. TypeOK'
    BY <2>1 DEF Holding, Marked
  <2>4. MutexInv'
    BY <2>1 DEF MutexInv, Critical
  <2>5. PosInv'
    BY <2>1 DEF PosInv, Marked, MutexInv, Critical
  <2>6. SlotsExclusive'
    <3>1. \A m \in Queuer : m # n /\ pc[m] \in Marked => pos[m] # pos[n]
      BY <2>1 DEF SlotsExclusive
    <3>2. QED BY <2>1, <3>1 DEF SlotsExclusive, Marked
  <2>7. QED BY <2>2, <2>3, <2>4, <2>5, <2>6
<1>6. ASSUME NEW n \in Queuer, DoStuff(n) PROVE SlotInv'
  <2> USE <1>6 DEF DoStuff
  <2>1. PermitsInv'
    BY SamePermits DEF Holding, Marked
  <2>2. TypeOK'
    BY DEF Holding, Marked
  <2>3. MutexInv'
    BY DEF MutexInv, Critical
  <2>4. PosInv'
    BY DEF PosInv, Marked
  <2>5. SlotsExclusive'
    BY DEF SlotsExclusive, Marked, Slot
  <2>6. QED BY <2>1, <2>2, <2>3, <2>4, <2>5
<1>7. ASSUME NEW n \in Queuer, LockFree(n) PROVE SlotInv'
  <2> USE <1>7 DEF LockFree
  <2>1. PermitsInv'
    BY SamePermits DEF Holding, Marked
  <2>2. TypeOK'
    BY DEF Holding, Marked
  <2>3. MutexInv'
    BY DEF MutexInv, Critical
  <2>4. PosInv'
    BY DEF PosInv, Marked
  <2>5. SlotsExclusive'
    BY DEF SlotsExclusive, Marked, Slot
  <2>6. QED BY <2>1, <2>2, <2>3, <2>4, <2>5
<1>8. ASSUME NEW n \in Queuer, Free(n) PROVE SlotInv'
  <2> USE <1>8 DEF Free
  <2>1. mutex = 0 /\ pos[n] \in Slot
    BY DEF MutexInv, Critical, PosInv, Marked
  <2>2. PermitsInv'
    BY SamePermits DEF Holding, Marked
  <2>3. TypeOK'
    BY <2>1 DEF Holding, Marked
  <2>4. MutexInv'
    BY <2>1 DEF MutexInv, Critical
  <2>5. PosInv'
    BY <2>1 DEF PosInv, Marked, MutexInv, Critical
  <2>6. SlotsExclusive'
    <3>1. \A m \in Queuer : m # n /\ pc[m] \in Marked => pos[m] # pos[n]
      BY DEF SlotsExclusive, Marked
    <3>2. QED BY <2>1, <3>1 DEF SlotsExclusive, Marked
  <2>7. QED BY <2>2, <2>3, <2>4, <2>5, <2>6
<1>9. ASSUME NEW n \in Queuer, Release(n) PROVE SlotInv'
  <2> USE <1>9 DEF Release
  <2>1. Holders' = Holders \ {n} /\ n \in Holders
    BY DEF Holders, Holding, Marked
  <2>2. Cardinality(Holders') = Cardinality(Holders) - 1 /\ Cardinality(Holders') \in Nat
    BY <1>1, <2>1, FS_RemoveElement, FS_CardinalityType
  <2>3. PermitsInv' /\ semaphore' \in 0 .. Size
    BY <1>1, <2>2 DEF PermitsInv
  <2>4. TypeOK'
    BY <2>3 DEF Holding, Marked
  <2>5. MutexInv'
    BY DEF MutexInv, Critical
  <2>6. PosInv'
    BY DEF PosInv, Marked
  <2>7. SlotsExclusive'
    BY DEF SlotsExclusive, Marked, Slot
  <2>8. QED BY <2>3, <2>4, <2>5, <2>6, <2>7
<1>10. CASE UNCHANGED vars
  BY <1>10 DEF vars, MutexInv, PermitsInv, Holders, PosInv, SlotsExclusive
<1>11. QED
  BY <1>2, <1>3, <1>4, <1>5, <1>6, <1>7, <1>8, <1>9, <1>10 DEF Next, Queue, Joined

\* However many queuers and slots there are, two queuers never use the same
\* slot and the array says which are used; and the unbounded loop of
\* find_slot finds a free slot whenever it runs (semaphore.cpp:45-55).
THEOREM SlotsShared == Spec \/ MCSpec => [](TypeOK /\ SlotsKept)
<1>1. Init => SlotInv
  BY InitInv, ThreadsAssumption
<1>2. SlotInv /\ [Next]_vars => SlotInv'
  BY StepInv, ThreadsAssumption
<1>3. SlotInv => TypeOK /\ SlotsKept
  BY FreeSlot, ThreadsAssumption DEF SlotInv, SlotsKept
<1>4. MCInit => Init
  BY DEF MCInit
<1>5. [MCNext]_demoVars => [Next]_vars
  BY StepOfOne
<1>6. QED BY <1>1, <1>2, <1>3, <1>4, <1>5, PTL DEF Spec, MCSpec

-----------------------------------------------------------------------------
\* barrier.cpp: who waits has arrived; who is in a round is in the one that
\* the completion function has counted, who is not has ended the one before;
\* and do_run is what each of them has been told.
RoundsInv ==
  /\ ba_pc \in [Runner -> {"test", "run", "wait", "done"}]
  /\ round \in Nat
  /\ arrived = {r \in Runner : ba_pc[r] = "wait"}
  /\ \A r \in Runner : laps[r] = IF ba_pc[r] \in {"run", "wait"} THEN round ELSE round - 1
  /\ laps \in [Runner -> Int]
  /\ \A r \in Runner : ba_pc[r] \in {"run", "wait"} => do_run
  /\ \A r \in Runner : ba_pc[r] = "done" => ~do_run

LEMMA RoundsInit == Meet!Init => RoundsInv
BY DEF Meet!Init, RoundsInv

LEMMA RoundsKept == RoundsInv /\ [Meet!Next]_roundVars => RoundsInv'
<1> SUFFICES ASSUME RoundsInv, [Meet!Next]_roundVars PROVE RoundsInv'
  OBVIOUS
<1> USE DEF RoundsInv
<1>1. ASSUME NEW r \in Runner, Meet!Test(r) PROVE RoundsInv'
  <2> USE <1>1 DEF Meet!Test
  <2>1. CASE do_run
    BY <2>1
  <2>2. CASE ~do_run
    BY <2>2
  <2>3. QED BY <2>1, <2>2
<1>2. ASSUME NEW r \in Runner, Meet!Arrive(r) PROVE RoundsInv'
  BY <1>2 DEF Meet!Arrive
<1>3. ASSUME Meet!Complete PROVE RoundsInv'
  <2>1. /\ arrived = Runner /\ arrived' = {} /\ round' = round + 1 /\ UNCHANGED laps
        /\ \A r \in Runner : ba_pc[r] = "wait" /\ ba_pc'[r] = "test"
        /\ ba_pc' \in [Runner -> {"test", "run", "wait", "done"}]
    BY <1>3 DEF Meet!Complete, Meet!Everyone
  <2>2. QED BY <2>1
<1>4. CASE UNCHANGED roundVars
  BY <1>4 DEF roundVars
<1>5. QED BY <1>1, <1>2, <1>3, <1>4 DEF Meet!Next, Meet!Joined, Meet!vars, roundVars

LEMMA RoundsMean == RoundsInv => Meet!SameRounds
BY DEF RoundsInv, Meet!SameRounds

LEMMA FindConstants == Find!FindRunConstants
BY ThreadsAssumption DEF ThreadsAssumption, Find!FindRunConstants, IsFiniteSet, Find!IsFiniteSet

MeetingsInv == Find!LatchInv /\ Find!PromiseInv /\ RoundsInv

\* Whoever runs and in whatever order: no runner searches before all have
\* arrived at the latch and main's winner is the one that set the promise
\* (FindRun.cpp:30-55); with a do_run that nothing protects, all runners of
\* barrier.cpp leave after the same round.
THEOREM RunnersMeet == MCSpec => []Meetings
<1>1. MCInit => MeetingsInv
  BY Find!InitInv, RoundsInit, FindConstants DEF MCInit, MeetingsInv
<1>2. MeetingsInv /\ [MCNext]_demoVars => MeetingsInv'
  BY StepOfOne, Find!LatchKept, Find!PromiseKept, RoundsKept, FindConstants
     DEF MeetingsInv, findVars, Find!vars
<1>3. MeetingsInv => Meetings
  BY Find!LatchMeans, Find!PromiseMeans, RoundsMean, FindConstants DEF MeetingsInv, Meetings
<1>4. QED BY <1>1, <1>2, <1>3, PTL DEF MCSpec

-----------------------------------------------------------------------------
PoolTypes ==
  /\ po_program \in {"quick", "hot"} /\ termination \in {"Continue", "EmptyQueue"}
  /\ task_queue \in Seq(Nat) /\ \A i \in 1 .. Len(task_queue) : task_queue[i] \in 1 .. added
  /\ queue_mutex \in Runner \cup {NoThread}
  /\ po_pc \in [Runner -> {"lock", "test", "task", "returned"}] /\ task \in [Runner -> Nat]
  /\ main \in {"add", "notify_one", "notify_all", "join", "joined"}
  /\ added \in 0 .. TaskCount /\ ran \in [1 .. TaskCount -> {0, 1}]

\* Who tests the predicate has the mutex, and runs no task meanwhile.
PoolMutex == \A w \in Runner : po_pc[w] = "test" <=> queue_mutex = w

\* Each task that was added is in one place: in the queue once, with one worker
\* that runs it, or done.
TaskPlaces ==
  /\ \A i, j \in 1 .. Len(task_queue) : task_queue[i] = task_queue[j] => i = j
  /\ \A i \in 1 .. Len(task_queue) : ran[task_queue[i]] = 0
  /\ \A w \in Runner : po_pc[w] = "task" =>
       /\ w \in Pools!Pool /\ task[w] \in 1 .. added /\ ran[task[w]] = 0
       /\ \A i \in 1 .. Len(task_queue) : task_queue[i] /= task[w]
  /\ \A v, w \in Runner : po_pc[v] = "task" /\ po_pc[w] = "task" /\ task[v] = task[w] => v = w
  /\ \A k \in 1 .. TaskCount : k > added => ran[k] = 0

NoneLost ==
  \A k \in 1 .. added :
    \/ ran[k] = 1
    \/ \E i \in 1 .. Len(task_queue) : task_queue[i] = k
    \/ \E w \in Runner : po_pc[w] = "task" /\ task[w] = k

\* After the stop nothing is added, and a worker returns when nothing is left.
PoolEnds ==
  /\ termination = "EmptyQueue" <=> main \in {"notify_all", "join", "joined"}
  /\ termination = "EmptyQueue" => added = TaskCount
  /\ \A w \in Runner : po_pc[w] = "returned" => termination = "EmptyQueue" /\ task_queue = << >>
  /\ main = "joined" => \A w \in Pools!Pool : po_pc[w] = "returned"

PoolInv == PoolTypes /\ PoolMutex /\ TaskPlaces /\ NoneLost /\ PoolEnds

LEMMA PoolInit == Pools!Init => PoolInv
<1> USE ThreadsAssumption DEF ThreadsAssumption, Pools!Init
<1> SUFFICES ASSUME Pools!Init PROVE PoolInv
  OBVIOUS
<1>1. PoolTypes
  BY DEF PoolTypes
<1>2. PoolMutex /\ TaskPlaces /\ NoneLost /\ PoolEnds
  BY DEF PoolMutex, TaskPlaces, NoneLost, PoolEnds
<1>3. QED BY <1>1, <1>2 DEF PoolInv

\* A worker goes to the mutex, away from it, or is told to.
LEMMA PoolWaits ==
  ASSUME PoolInv, UNCHANGED <<po_program, termination, task_queue, task, main, added, ran>>,
         PoolTypes', PoolMutex',
         \A w \in Runner : po_pc'[w] = po_pc[w] \/ {po_pc[w], po_pc'[w]} \subseteq {"lock", "test"}
  PROVE  PoolInv'
<1> USE DEF PoolInv
<1>0. Pools!Pool' = Pools!Pool
  BY DEF Pools!Pool
<1>1. \A w \in Runner : (po_pc'[w] = "task" <=> po_pc[w] = "task") /\ (po_pc'[w] = "returned" <=> po_pc[w] = "returned")
  OBVIOUS
<1>2. TaskPlaces'
  BY <1>0, <1>1 DEF TaskPlaces
<1>3. NoneLost'
  BY <1>1 DEF NoneLost
<1>4. PoolEnds'
  <2>1. \A w \in Runner : po_pc'[w] = "returned" => termination' = "EmptyQueue" /\ task_queue' = << >>
    BY <1>1 DEF PoolEnds
  <2>2. main' = "joined" => \A w \in Pools!Pool' : po_pc'[w] = "returned"
    BY <1>0, <1>1, ThreadsAssumption DEF PoolEnds, Pools!Pool, PoolTypes, ThreadsAssumption
  <2>3. QED BY <2>1, <2>2 DEF PoolEnds
<1>5. QED BY <1>2, <1>3, <1>4

LEMMA PoolKept == PoolInv /\ [Pools!Next]_poolVars => PoolInv'
<1> SUFFICES ASSUME PoolInv, [Pools!Next]_poolVars PROVE PoolInv'
  OBVIOUS
<1> USE ThreadsAssumption DEF ThreadsAssumption, PoolInv, Pools!Goto
<1>0. /\ added \in Nat /\ TaskCount \in Nat /\ Len(task_queue) \in Nat
      /\ \A i \in 1 .. Len(task_queue) : task_queue[i] \in 1 .. added
      /\ Pools!Pool \subseteq Runner
  BY LenProperties, ElementOfSeq DEF PoolTypes, Pools!Pool
<1>1. ASSUME NEW w \in Runner, Pools!TakeLock(w) \/ Pools!Sleep(w) PROVE PoolInv'
  <2> USE <1>1 DEF Pools!TakeLock, Pools!Sleep
  <2>1. PoolTypes' /\ UNCHANGED <<po_program, termination, task_queue, task, main, added, ran>>
    BY DEF PoolTypes
  <2>2. PoolMutex'
    BY DEF PoolTypes, PoolMutex
  <2>3. \A v \in Runner : po_pc'[v] = po_pc[v] \/ {po_pc[v], po_pc'[v]} \subseteq {"lock", "test"}
    BY DEF PoolTypes
  <2>4. QED BY <2>1, <2>2, <2>3, PoolWaits
<1>2. ASSUME UNCHANGED <<po_program, termination, task_queue, queue_mutex, po_pc, task, added, ran>>,
             \/ main' = main
             \/ main = "notify_one" /\ main' = "add"
             \/ main = "notify_all" /\ main' = "join"
             \/ main = "join" /\ main' = "joined" /\ \A w \in Pools!Pool : po_pc[w] = "returned"
      PROVE  PoolInv'
  <2> USE <1>2
  <2>1. Pools!Pool' = Pools!Pool
    BY DEF Pools!Pool
  <2>2. PoolTypes' /\ PoolMutex'
    BY DEF PoolTypes, PoolMutex
  <2>3. TaskPlaces' /\ NoneLost'
    BY <2>1 DEF TaskPlaces, NoneLost
  <2>4. PoolEnds'
    BY <2>1 DEF PoolEnds
  <2>5. QED BY <2>2, <2>3, <2>4
<1>3. ASSUME NEW w \in Pools!Pool, Pools!Take(w) PROVE PoolInv'
  <2> USE DEF Pools!Take
  <2>0. /\ po_pc[w] = "test" /\ w \in Runner /\ queue_mutex' = NoThread /\ Pools!Pool' = Pools!Pool
        /\ UNCHANGED <<po_program, termination, main, added, ran>>
    BY <1>0, <1>3 DEF Pools!Pool
  <2>1. CASE Pools!Returns
    <3> USE <2>0, <2>1
    <3>1. /\ po_pc' = [po_pc EXCEPT ![w] = "returned"] /\ UNCHANGED <<task_queue, task>>
          /\ termination = "EmptyQueue" /\ task_queue = << >>
      BY <1>3 DEF Pools!Returns
    <3>2. PoolTypes'
      BY <3>1 DEF PoolTypes
    <3>3. PoolMutex'
      BY <3>1 DEF PoolMutex, PoolTypes
    <3>4. \A v \in Runner : po_pc'[v] = "task" <=> po_pc[v] = "task"
      BY <3>1 DEF PoolTypes
    <3>5. TaskPlaces' /\ NoneLost'
      BY <3>1, <3>4 DEF TaskPlaces, NoneLost
    <3>6. PoolEnds'
      BY <3>1 DEF PoolEnds, PoolTypes
    <3>7. QED BY <3>2, <3>3, <3>5, <3>6
  <2>2. CASE ~Pools!Returns
    <3> USE <2>0
    <3>1. /\ task' = [task EXCEPT ![w] = Head(task_queue)] /\ task_queue' = Tail(task_queue)
          /\ po_pc' = [po_pc EXCEPT ![w] = "task"] /\ task_queue /= << >>
      BY <1>3, <2>2 DEF Pools!Wakes, Pools!Returns, PoolTypes
    <3>2. /\ Len(task_queue) > 0 /\ Head(task_queue) = task_queue[1]
          /\ task_queue' \in Seq(Nat)
          /\ Len(task_queue') = Len(task_queue) - 1
          /\ \A i \in 1 .. Len(task_queue') : task_queue'[i] = task_queue[i + 1]
      BY <3>1, EmptySeq, HeadTailProperties DEF PoolTypes
    <3>3. task'[w] = task_queue[1] /\ task_queue[1] \in 1 .. added
      BY <1>0, <3>1, <3>2 DEF PoolTypes
    <3>4. PoolTypes'
      <4>1. \A i \in 1 .. Len(task_queue') : task_queue'[i] \in 1 .. added'
        <5>1. \A i \in 1 .. Len(task_queue') : i + 1 \in 1 .. Len(task_queue)
          BY <1>0, <3>2
        <5>2. QED BY <1>0, <3>2, <5>1
      <4>2. QED BY <3>1, <3>2, <3>3, <4>1 DEF PoolTypes
    <3>5. PoolMutex'
      BY <3>1 DEF PoolMutex, PoolTypes
    <3>6. \A v \in Runner \ {w} : po_pc'[v] = po_pc[v] /\ task'[v] = task[v]
      BY <3>1 DEF PoolTypes
    <3>7. po_pc'[w] = "task"
      BY <3>1 DEF PoolTypes
    <3>8. TaskPlaces'
      <4>1. \A i \in 1 .. Len(task_queue') : i + 1 \in 1 .. Len(task_queue) /\ i + 1 /= 1
        BY <1>0, <3>2
      <4>2. 1 \in 1 .. Len(task_queue)
        BY <1>0, <3>2
      <4>3. \A i \in 1 .. Len(task_queue') :
              /\ task_queue'[i] /= task_queue[1] /\ ran'[task_queue'[i]] = 0
              /\ \A j \in 1 .. Len(task_queue') : task_queue'[i] = task_queue'[j] => i = j
        <5> SUFFICES ASSUME NEW i \in 1 .. Len(task_queue')
                     PROVE  /\ task_queue'[i] /= task_queue[1] /\ ran'[task_queue'[i]] = 0
                            /\ \A j \in 1 .. Len(task_queue') : task_queue'[i] = task_queue'[j] => i = j
          OBVIOUS
        <5>1. task_queue'[i] = task_queue[i + 1] /\ i + 1 \in 1 .. Len(task_queue) /\ i + 1 /= 1
          BY <3>2, <4>1
        <5>2. task_queue'[i] /= task_queue[1] /\ ran'[task_queue'[i]] = 0
          BY <4>2, <5>1 DEF TaskPlaces
        <5>3. ASSUME NEW j \in 1 .. Len(task_queue'), task_queue'[i] = task_queue'[j] PROVE i = j
          <6>1. task_queue'[j] = task_queue[j + 1] /\ j + 1 \in 1 .. Len(task_queue)
            BY <3>2, <4>1
          <6>2. i + 1 = j + 1
            BY <5>1, <5>3, <6>1 DEF TaskPlaces
          <6>3. QED BY <6>2
        <5>4. QED BY <5>2, <5>3
      <4>4. \A v \in Runner \ {w} : po_pc[v] = "task" =>
              /\ v \in Pools!Pool' /\ task'[v] \in 1 .. added' /\ ran'[task'[v]] = 0
              /\ task'[v] /= task_queue[1]
              /\ \A i \in 1 .. Len(task_queue') : task_queue'[i] /= task'[v]
        BY <3>2, <3>6, <4>1, <4>2 DEF TaskPlaces
      <4>5. ran'[task'[w]] = 0
        BY <3>3, <4>2 DEF TaskPlaces
      <4>6. \A k \in 1 .. TaskCount : k > added' => ran'[k] = 0
        BY DEF TaskPlaces
      <4>7. \A u, v \in Runner : po_pc'[u] = "task" /\ po_pc'[v] = "task" /\ task'[u] = task'[v] => u = v
        BY <3>3, <3>6, <4>4 DEF TaskPlaces
      <4>8. \A v \in Runner : po_pc'[v] = "task" =>
              /\ v \in Pools!Pool' /\ task'[v] \in 1 .. added' /\ ran'[task'[v]] = 0
              /\ \A i \in 1 .. Len(task_queue') : task_queue'[i] /= task'[v]
        BY <3>3, <3>6, <4>3, <4>4, <4>5
      <4>9. QED BY <4>3, <4>6, <4>7, <4>8 DEF TaskPlaces
    <3>9. NoneLost'
      <4> SUFFICES ASSUME NEW k \in 1 .. added, ran[k] /= 1
                   PROVE  \/ \E i \in 1 .. Len(task_queue') : task_queue'[i] = k
                          \/ \E v \in Runner : po_pc'[v] = "task" /\ task'[v] = k
        BY DEF NoneLost
      <4>1. CASE \E v \in Runner : po_pc[v] = "task" /\ task[v] = k
        BY <3>6, <4>1
      <4>2. ASSUME NEW i \in 1 .. Len(task_queue), task_queue[i] = k
            PROVE  \/ \E j \in 1 .. Len(task_queue') : task_queue'[j] = k
                   \/ \E v \in Runner : po_pc'[v] = "task" /\ task'[v] = k
        <5>1. CASE i = 1
          BY <3>3, <3>7, <4>2, <5>1
        <5>2. CASE i /= 1
          <6>1. i - 1 \in 1 .. Len(task_queue') /\ (i - 1) + 1 = i
            BY <1>0, <3>2, <5>2
          <6>2. task_queue'[i - 1] = k
            BY <3>2, <4>2, <6>1
          <6>3. QED BY <6>1, <6>2
        <5>3. QED BY <5>1, <5>2
      <4>3. QED BY <4>1, <4>2 DEF NoneLost
    <3>10. PoolEnds'
      <4>1. \A v \in Runner : po_pc'[v] /= "returned"
        BY <3>1, <3>6, <3>7 DEF PoolEnds
      <4>2. main /= "joined"
        BY <1>3 DEF PoolEnds
      <4>3. QED BY <4>1, <4>2 DEF PoolEnds
    <3>11. QED BY <3>4, <3>5, <3>8, <3>9, <3>10
  <2>3. QED BY <2>1, <2>2
<1>4. ASSUME NEW w \in Pools!Pool, Pools!RunTask(w) PROVE PoolInv'
  <2>1. /\ po_pc[w] = "task" /\ w \in Runner /\ Pools!Pool' = Pools!Pool
        /\ ran' = [ran EXCEPT ![task[w]] = @ + 1] /\ po_pc' = [po_pc EXCEPT ![w] = "lock"]
        /\ UNCHANGED <<po_program, termination, task_queue, queue_mutex, po_asleep, task, main, added>>
    BY <1>0, <1>4 DEF Pools!RunTask, Pools!Pool
  <2>2. task[w] \in 1 .. added /\ ran[task[w]] = 0 /\ task[w] \in 1 .. TaskCount
    BY <1>0, <2>1 DEF TaskPlaces, PoolTypes
  <2>3. ran'[task[w]] = 1 /\ \A k \in 1 .. TaskCount : k /= task[w] => ran'[k] = ran[k]
    BY <2>1, <2>2 DEF PoolTypes
  <2>4. po_pc'[w] = "lock" /\ \A v \in Runner \ {w} : po_pc'[v] = po_pc[v]
    BY <2>1 DEF PoolTypes
  <2>5. PoolTypes'
    BY <2>1, <2>2 DEF PoolTypes
  <2>6. PoolMutex'
    BY <2>1, <2>4 DEF PoolMutex
  <2>7. TaskPlaces'
    <3>1. \A i \in 1 .. Len(task_queue) : task_queue[i] \in 1 .. TaskCount /\ task_queue[i] /= task[w]
      BY <1>0, <2>1 DEF TaskPlaces, PoolTypes
    <3>2. \A v \in Runner \ {w} : po_pc[v] = "task" => task[v] \in 1 .. TaskCount /\ task[v] /= task[w]
      BY <1>0, <2>1 DEF TaskPlaces, PoolTypes
    <3>3. \A k \in 1 .. TaskCount : k > added => k /= task[w]
      BY <1>0, <2>2
    <3>4. QED BY <2>1, <2>3, <2>4, <3>1, <3>2, <3>3 DEF TaskPlaces
  <2>8. NoneLost'
    <3>1. \A k \in 1 .. added : k \in 1 .. TaskCount
      BY <1>0 DEF PoolTypes
    <3>2. QED BY <2>1, <2>3, <2>4, <3>1 DEF NoneLost
  <2>9. PoolEnds'
    BY <2>1, <2>4 DEF PoolEnds
  <2>10. QED BY <2>5, <2>6, <2>7, <2>8, <2>9
<1>5. ASSUME Pools!Add PROVE PoolInv'
  <2>1. /\ main = "add" /\ added < TaskCount /\ added' = added + 1 /\ main' = "notify_one"
        /\ task_queue' = Append(task_queue, added + 1)
        /\ UNCHANGED <<po_program, termination, queue_mutex, po_asleep, po_pc, task, ran>>
        /\ Pools!Pool' = Pools!Pool
    BY <1>5 DEF Pools!Add, Pools!Pool
  <2>2. added + 1 \in 1 .. TaskCount
    BY <1>0, <2>1
  <2>3. /\ task_queue' \in Seq(Nat) /\ Len(task_queue') = Len(task_queue) + 1
        /\ task_queue'[Len(task_queue) + 1] = added + 1
        /\ \A i \in 1 .. Len(task_queue) : task_queue'[i] = task_queue[i]
    BY <1>0, <2>1 DEF PoolTypes
  <2>4. ran[added + 1] = 0
    <3>1. added + 1 > added
      BY <1>0
    <3>2. QED BY <2>2, <3>1 DEF TaskPlaces
  <2>5. PoolMutex'
    BY <2>1 DEF PoolMutex
  <2>6. \A i \in 1 .. Len(task_queue') :
          \/ (i \in 1 .. Len(task_queue) /\ task_queue'[i] = task_queue[i] /\ task_queue'[i] /= added + 1)
          \/ (i = Len(task_queue) + 1 /\ task_queue'[i] = added + 1)
    <3>1. \A i \in 1 .. Len(task_queue') : i \in 1 .. Len(task_queue) \/ i = Len(task_queue) + 1
      BY <1>0, <2>3
    <3>2. \A i \in 1 .. Len(task_queue) : task_queue'[i] = task_queue[i] /\ task_queue[i] /= added + 1
      BY <1>0, <2>3
    <3>3. QED BY <2>3, <3>1, <3>2
  <2>7. PoolTypes'
    <3>1. \A i \in 1 .. Len(task_queue') : task_queue'[i] \in 1 .. added'
      <4>1. \A k \in 1 .. added : k \in 1 .. added'
        BY <1>0, <2>1
      <4>2. added + 1 \in 1 .. added'
        BY <1>0, <2>1
      <4>3. QED BY <1>0, <2>6, <4>1, <4>2
    <3>2. QED BY <2>1, <2>2, <2>3, <3>1 DEF PoolTypes
  <2>8. TaskPlaces'
    <3>1. \A w \in Runner : po_pc[w] = "task" => task[w] /= added + 1 /\ task[w] \in 1 .. added'
      BY <1>0, <2>1 DEF TaskPlaces
    <3>2. \A i, j \in 1 .. Len(task_queue') : task_queue'[i] = task_queue'[j] => i = j
      BY <2>6 DEF TaskPlaces
    <3>3. \A i \in 1 .. Len(task_queue') : ran'[task_queue'[i]] = 0
      BY <2>1, <2>4, <2>6 DEF TaskPlaces
    <3>4. \A w \in Runner : po_pc[w] = "task" =>
            \A i \in 1 .. Len(task_queue') : task_queue'[i] /= task[w]
      BY <2>6, <3>1 DEF TaskPlaces
    <3>5. \A k \in 1 .. TaskCount : k > added' => ran'[k] = 0
      <4>1. \A k \in 1 .. TaskCount : k > added' => k > added
        BY <1>0, <2>1
      <4>2. QED BY <2>1, <4>1 DEF TaskPlaces
    <3>6. QED BY <2>1, <3>1, <3>2, <3>3, <3>4, <3>5 DEF TaskPlaces
  <2>9. NoneLost'
    <3> SUFFICES ASSUME NEW k \in 1 .. added'
                 PROVE  \/ ran[k] = 1
                        \/ \E i \in 1 .. Len(task_queue') : task_queue'[i] = k
                        \/ \E w \in Runner : po_pc[w] = "task" /\ task[w] = k
      BY <2>1 DEF NoneLost
    <3>1. k \in 1 .. added \/ k = added + 1
      <4>1. k \in 1 .. added + 1
        BY <2>1
      <4>2. QED BY <1>0, <4>1
    <3>2. CASE k = added + 1
      <4>1. Len(task_queue) + 1 \in 1 .. Len(task_queue')
        BY <1>0, <2>3
      <4>2. QED BY <2>3, <3>2, <4>1
    <3>3. CASE k \in 1 .. added
      <4>1. 1 .. Len(task_queue) \subseteq 1 .. Len(task_queue')
        BY <1>0, <2>3
      <4>2. QED BY <2>3, <3>3, <4>1 DEF NoneLost
    <3>4. QED BY <3>1, <3>2, <3>3
  <2>10. PoolEnds'
    BY <2>1 DEF PoolEnds
  <2>11. QED BY <2>7, <2>5, <2>8, <2>9, <2>10
<1>6. ASSUME Pools!Stop PROVE PoolInv'
  <2>1. /\ main = "add" /\ added = TaskCount /\ termination' = "EmptyQueue" /\ main' = "notify_all"
        /\ UNCHANGED <<po_program, task_queue, queue_mutex, po_asleep, po_pc, task, added, ran>>
        /\ Pools!Pool' = Pools!Pool
    BY <1>6 DEF Pools!Stop, Pools!Pool
  <2>2. PoolTypes' /\ PoolMutex'
    BY <2>1 DEF PoolTypes, PoolMutex
  <2>3. TaskPlaces' /\ NoneLost'
    BY <2>1 DEF TaskPlaces, NoneLost
  <2>4. PoolEnds'
    BY <2>1 DEF PoolEnds
  <2>5. QED BY <2>2, <2>3, <2>4
<1>7. ASSUME Pools!NotifyOne \/ Pools!NotifyAll \/ Pools!Join PROVE PoolInv'
  BY <1>2, <1>7 DEF Pools!NotifyOne, Pools!NotifyAll, Pools!Join
<1>8. ASSUME NEW w \in Pools!Pool, Pools!Spurious(w) PROVE PoolInv'
  BY <1>2, <1>8 DEF Pools!Spurious
<1>9. CASE UNCHANGED poolVars
  BY <1>2, <1>9 DEF poolVars
<1>10. QED
  BY <1>0, <1>1, <1>3, <1>4, <1>5, <1>6, <1>7, <1>8, <1>9
     DEF Pools!Next, Pools!RunMain, Pools!Work, poolVars, Pools!vars

LEMMA PoolMeans == PoolInv => Pools!RanOnce
<1> SUFFICES ASSUME PoolInv, NEW k \in 1 .. TaskCount
             PROVE  LET queued == {i \in 1 .. Len(task_queue) : task_queue[i] = k}
                        runs == {w \in Pools!Pool : po_pc[w] = "task" /\ task[w] = k} IN
                    /\ ran[k] <= 1
                    /\ \A i, j \in queued : i = j
                    /\ (queued /= {} \/ runs /= {}) => ran[k] = 0
                    /\ main = "joined" => ran[k] = 1
  BY DEF Pools!RanOnce
<1> USE ThreadsAssumption DEF ThreadsAssumption, PoolInv
<1>1. ran[k] <= 1
  <2>1. ran[k] \in {0, 1}
    BY DEF PoolTypes
  <2>2. QED BY <2>1
<1>2. \A i, j \in 1 .. Len(task_queue) : task_queue[i] = k /\ task_queue[j] = k => i = j
  BY DEF TaskPlaces
<1>3. Pools!Pool \subseteq Runner /\ Pools!Pool /= {}
  BY DEF Pools!Pool
<1>4. ASSUME \/ \E i \in 1 .. Len(task_queue) : task_queue[i] = k
             \/ \E w \in Pools!Pool : po_pc[w] = "task" /\ task[w] = k
      PROVE  ran[k] = 0
  BY <1>3, <1>4 DEF TaskPlaces
<1>5. ASSUME main = "joined" PROVE ran[k] = 1
  <2>1. \A w \in Pools!Pool : po_pc[w] = "returned"
    BY <1>5 DEF PoolEnds
  <2>2. task_queue = << >> /\ added = TaskCount
    BY <1>3, <2>1 DEF PoolEnds
  <2>3. \A w \in Runner : po_pc[w] /= "task"
    BY <2>1 DEF TaskPlaces
  <2>4. Len(task_queue) = 0
    BY <2>2
  <2>5. QED BY <2>2, <2>3, <2>4 DEF NoneLost
<1>6. QED BY <1>1, <1>2, <1>4, <1>5

\* However many workers and tasks there are: the tasks that were added run once
\* each, and when a join returns all have run and every worker has ended
\* (thread_pool_quick_and_dirty.cpp:49-92, run_hot_thread).
THEOREM TasksRunOnce == MCSpec => []RanOnce
<1>1. MCInit => PoolInv
  BY PoolInit DEF MCInit
<1>2. PoolInv /\ [MCNext]_demoVars => PoolInv'
  BY StepOfOne, PoolKept
<1>3. PoolInv => RanOnce
  BY PoolMeans DEF RanOnce
<1>4. QED BY <1>1, <1>2, <1>3, PTL DEF MCSpec

\* A worker that is looking for a task leaves room for one more.
LEMMA PoolRoom ==
  ASSUME PoolInv, NEW w \in Runner, po_pc[w] /= "task"
  PROVE  Pools!Service!Cardinality(Pools!Running) < Pools!Cardinality(Runner)
<1> DEFINE busy == {v \in Pools!Pool : po_pc[v] = "task"}
           f == [v \in busy |-> task[v]]
<1> USE ThreadsAssumption DEF ThreadsAssumption
<1>1. busy \subseteq Runner \ {w} BY DEF Pools!Pool
<1>2. IsFiniteSet(Runner \ {w}) /\ Cardinality(Runner \ {w}) = Cardinality(Runner) - 1
  BY FS_RemoveElement
<1>3. IsFiniteSet(busy) /\ Cardinality(busy) <= Cardinality(Runner \ {w})
  BY <1>1, <1>2, FS_Subset
<1>4. f \in Surjection(busy, Pools!Running) BY DEF Surjection, Pools!Running
<1>5. IsFiniteSet(Pools!Running) /\ Cardinality(Pools!Running) <= Cardinality(busy)
  BY <1>3, <1>4, FS_Surjection
<1>6. Cardinality(Pools!Running) \in Nat /\ Cardinality(busy) \in Nat /\ Cardinality(Runner) \in Nat
  BY <1>3, <1>5, FS_CardinalityType
<1>7. Cardinality(Pools!Running) < Cardinality(Runner)
  BY <1>2, <1>3, <1>5, <1>6
<1>8. Pools!Service!Cardinality(Pools!Running) = Cardinality(Pools!Running)
  BY DEF Pools!Service!Cardinality, Cardinality
<1>9. Pools!Cardinality(Runner) = Cardinality(Runner)
  BY DEF Pools!Cardinality, Cardinality
<1>10. QED BY <1>7, <1>8, <1>9

\* What runs changes only with where the workers are and what they run.
LEMMA SameRunning ==
  ASSUME UNCHANGED <<po_program, task>>,
         \A w \in Pools!Pool : po_pc'[w] = "task" <=> po_pc[w] = "task"
  PROVE  Pools!Running' = Pools!Running
<1>1. Pools!Pool' = Pools!Pool BY DEF Pools!Pool
<1>2. QED BY <1>1 DEF Pools!Running

\* Each step of a pool is a step of the task service, or leaves it as it is: a
\* worker takes a task off the queue (Start), runs it (Finish), main adds one
\* (Accept) and joins (Drain).
LEMMA PoolServes ==
  ASSUME PoolInv, PoolInv', [Pools!Next]_poolVars
  PROVE  [Pools!Service!Next]_(Pools!Service!vars)
<1> USE ThreadsAssumption DEF ThreadsAssumption, PoolInv, Pools!Goto
<1>0. /\ added \in Nat /\ TaskCount \in Nat /\ Len(task_queue) \in Nat
      /\ task_queue \in Seq(Nat)
      /\ \A i \in 1 .. Len(task_queue) : task_queue[i] \in 1 .. added
      /\ Pools!Pool \subseteq Runner
  BY LenProperties DEF PoolTypes, Pools!Pool
<1>1. ASSUME UNCHANGED <<po_program, task, task_queue, ran>>, main = "joined" <=> main' = "joined",
             \A w \in Pools!Pool : po_pc'[w] = "task" <=> po_pc[w] = "task"
      PROVE  UNCHANGED Pools!Service!vars
  <2>1. Pools!Running' = Pools!Running BY <1>1, SameRunning
  <2>2. Pools!Finished' = Pools!Finished BY <1>1 DEF Pools!Finished
  <2>3. QED BY <1>1, <2>1, <2>2 DEF Pools!Service!vars
<1>2. ASSUME NEW w \in Pools!Pool, Pools!TakeLock(w) \/ Pools!Sleep(w) \/ Pools!Spurious(w)
      PROVE  UNCHANGED Pools!Service!vars
  <2> USE <1>2 DEF Pools!TakeLock, Pools!Sleep, Pools!Spurious
  <2>1. UNCHANGED <<po_program, task, task_queue, ran, main>>
    OBVIOUS
  <2>2. \A v \in Pools!Pool : po_pc'[v] = "task" <=> po_pc[v] = "task"
    BY <1>0 DEF PoolTypes
  <2>3. QED BY <1>1, <2>1, <2>2
<1>3. ASSUME NEW w \in Pools!Pool, Pools!Take(w), Pools!Returns
      PROVE  UNCHANGED Pools!Service!vars
  <2> USE <1>3 DEF Pools!Take
  <2>1. UNCHANGED <<po_program, task, task_queue, ran, main>>
    OBVIOUS
  <2>2. \A v \in Pools!Pool : po_pc'[v] = "task" <=> po_pc[v] = "task"
    BY <1>0 DEF PoolTypes
  <2>3. QED BY <1>1, <2>1, <2>2
<1>4. ASSUME NEW w \in Pools!Pool, Pools!Take(w), ~Pools!Returns
      PROVE  Pools!Service!Start
  <2> USE <1>4 DEF Pools!Take
  <2>1. task_queue /= << >>
    BY DEF Pools!Wakes, Pools!Returns, PoolTypes
  <2>2. main = main' /\ main /= "joined"
    <3>1. po_pc[w] = "test"
      OBVIOUS
    <3>2. QED BY <3>1 DEF PoolEnds
  <2>3. po_pc' = [po_pc EXCEPT ![w] = "task"] /\ task' = [task EXCEPT ![w] = Head(task_queue)]
    OBVIOUS
  <2>4. Pools!Pool' = Pools!Pool BY DEF Pools!Pool
  <2>5. \A v \in Pools!Pool : v /= w => task'[v] = task[v] /\ (po_pc'[v] = "task" <=> po_pc[v] = "task")
    BY <1>0, <2>3 DEF PoolTypes
  <2>6. po_pc'[w] = "task" /\ task'[w] = Head(task_queue) /\ po_pc[w] /= "task"
    BY <1>0, <2>3 DEF PoolTypes
  <2>7. Pools!Running' = Pools!Running \cup {Head(task_queue)}
    BY <2>4, <2>5, <2>6 DEF Pools!Running
  <2>8. Pools!Service!Cardinality(Pools!Running) < Pools!Cardinality(Runner)
    BY <1>0, <2>6, PoolRoom
  <2>9. task_queue' = Tail(task_queue) /\ ran' = ran
    OBVIOUS
  <2>10. Pools!Finished' = Pools!Finished
    BY <2>9 DEF Pools!Finished
  <2>11. QED BY <2>1, <2>2, <2>7, <2>8, <2>9, <2>10 DEF Pools!Service!Start
<1>5. ASSUME NEW w \in Pools!Pool, Pools!RunTask(w)
      PROVE  Pools!Service!Finish(task[w]) /\ task[w] \in 1 .. TaskCount
  <2> USE <1>5 DEF Pools!RunTask
  <2>1. po_pc[w] = "task" /\ w \in Runner
    BY <1>0
  <2>2. task[w] \in 1 .. TaskCount
    BY <1>0, <2>1 DEF TaskPlaces, PoolTypes
  <2>3. task[w] \in Pools!Running
    BY <2>1 DEF Pools!Running
  <2>4. Pools!Pool' = Pools!Pool BY DEF Pools!Pool
  <2>5. \A v \in Pools!Pool : po_pc'[v] = "task" <=> po_pc[v] = "task" /\ v /= w
    BY <1>0 DEF PoolTypes
  <2>6. \A v \in Pools!Pool : po_pc[v] = "task" /\ task[v] = task[w] => v = w
    BY <1>0, <2>1 DEF TaskPlaces
  <2>7. Pools!Running' = Pools!Running \ {task[w]}
    BY <2>4, <2>5, <2>6 DEF Pools!Running
  <2>8. ran' = [ran EXCEPT ![task[w]] = @ + 1] /\ ran[task[w]] = 0
    BY <2>1 DEF TaskPlaces
  <2>9. Pools!Finished' = Pools!Finished \cup {task[w]}
    BY <2>2, <2>8 DEF Pools!Finished, PoolTypes
  <2>10. UNCHANGED <<task_queue, main>>
    OBVIOUS
  <2>11. QED BY <2>2, <2>3, <2>7, <2>9, <2>10 DEF Pools!Service!Finish
<1>6. ASSUME Pools!Add PROVE Pools!Service!Accept(added + 1) /\ added + 1 \in 1 .. TaskCount
  <2> USE <1>6 DEF Pools!Add
  <2>1. added + 1 \in 1 .. TaskCount
    BY <1>0
  <2>2. \A i \in 1 .. Len(task_queue) : task_queue[i] /= added + 1
    BY <1>0
  <2>3. added + 1 \notin Pools!Running
    BY <1>0 DEF Pools!Running, TaskPlaces
  <2>4. added + 1 \notin Pools!Finished
    BY <1>0, <2>1 DEF Pools!Finished, TaskPlaces
  <2>5. UNCHANGED <<po_program, task, po_pc, ran>>
    OBVIOUS
  <2>6. Pools!Running' = Pools!Running
    BY <2>5, SameRunning
  <2>7. Pools!Finished' = Pools!Finished BY <2>5 DEF Pools!Finished
  <2>8. task_queue' = Append(task_queue, added + 1) /\ main /= "joined" /\ main' /= "joined"
    OBVIOUS
  <2>9. QED BY <2>1, <2>2, <2>3, <2>4, <2>6, <2>7, <2>8 DEF Pools!Service!Accept
<1>7. ASSUME Pools!NotifyOne \/ Pools!Stop \/ Pools!NotifyAll PROVE UNCHANGED Pools!Service!vars
  <2>1. UNCHANGED <<po_program, task, task_queue, ran, po_pc>> /\ main /= "joined" /\ main' /= "joined"
    BY <1>7 DEF Pools!NotifyOne, Pools!Stop, Pools!NotifyAll
  <2>2. QED BY <1>1, <2>1
<1>8. ASSUME Pools!Join PROVE Pools!Service!Drain
  <2> USE <1>8 DEF Pools!Join
  <2>1. \A w \in Pools!Pool : po_pc[w] = "returned"
    OBVIOUS
  <2>2. Pools!Running = {}
    BY <2>1 DEF Pools!Running
  <2>3. task_queue = << >>
    BY <1>0, <2>1 DEF PoolEnds, Pools!Pool
  <2>4. UNCHANGED <<po_program, task, po_pc, ran, task_queue>> /\ main /= "joined" /\ main' = "joined"
    OBVIOUS
  <2>5. Pools!Running' = Pools!Running
    BY <2>4, SameRunning
  <2>6. Pools!Finished' = Pools!Finished BY <2>4 DEF Pools!Finished
  <2>7. QED BY <2>2, <2>3, <2>4, <2>5, <2>6 DEF Pools!Service!Drain
<1>9. CASE UNCHANGED poolVars
  <2>1. UNCHANGED <<po_program, task, task_queue, ran, po_pc, main>>
    BY <1>9 DEF poolVars
  <2>2. QED BY <1>1, <2>1
<1>10. CASE Pools!Next
  <2>1. ASSUME NEW w \in Pools!Pool, Pools!Work(w) \/ Pools!Spurious(w)
        PROVE  [Pools!Service!Next]_(Pools!Service!vars)
    BY <1>2, <1>3, <1>4, <1>5, <2>1 DEF Pools!Work, Pools!Service!Next
  <2>2. ASSUME Pools!RunMain
        PROVE  [Pools!Service!Next]_(Pools!Service!vars)
    BY <1>6, <1>7, <1>8, <2>2 DEF Pools!RunMain, Pools!Service!Next
  <2>3. CASE main = "joined" /\ UNCHANGED Pools!vars
    BY <1>9, <2>3 DEF Pools!vars, poolVars
  <2>4. QED BY <1>10, <2>1, <2>2, <2>3 DEF Pools!Next
<1>11. QED BY <1>9, <1>10

\* The two pools are task services, however many workers and tasks there are:
\* tasks start in the order in which main added them, each one once and no more
\* at a time than there are workers, and a join returns when none is left
\* (thread_pool_quick_and_dirty.cpp:49-92, run_hot_thread).
THEOREM PoolsServed == MCSpec => PoolsServe
<1>1. MCInit => PoolInv
  BY PoolInit DEF MCInit
<1>2. PoolInv /\ [MCNext]_demoVars => PoolInv'
  BY StepOfOne, PoolKept
<1>3. MCSpec => []RanOnce
  BY TasksRunOnce
<1>4. MCInit => Pools!Service!Init
  <2> SUFFICES ASSUME Pools!Init PROVE Pools!Service!Init
    BY DEF MCInit
  <2> USE ThreadsAssumption DEF ThreadsAssumption, Pools!Init
  <2>1. Pools!Running = {}
    BY DEF Pools!Running, Pools!Pool
  <2>2. Pools!Finished = {}
    BY DEF Pools!Finished
  <2>3. QED BY <2>1, <2>2 DEF Pools!Service!Init
<1>5. PoolInv /\ PoolInv' /\ [MCNext]_demoVars => [Pools!Service!Next]_(Pools!Service!vars)
  BY StepOfOne, PoolServes
<1>6. QED BY <1>1, <1>2, <1>3, <1>4, <1>5, PTL
       DEF MCSpec, PoolsServe, RanOnce, Pools!ImplementsService, Pools!Service!Spec

-----------------------------------------------------------------------------
\* n has been pushed.
InList(n) == \E k \in 1 .. Len(pushed) : pushed[k] = n

StackTypes ==
  /\ m_head \in Stack!Node \cup {NoThread} /\ next \in [Stack!Node -> Stack!Node \cup {NoThread}]
  /\ cs_pc \in [Worker -> {"idle", "push", "pop"}] /\ p \in [Worker -> Stack!Node \cup {NoThread}]
  /\ called \in [Worker -> 0 .. Calls] /\ pushed \in Seq(Stack!Node)
  /\ relinked \in BOOLEAN

\* A task that pushes has a node of its own which is not in the list yet, one
\* that pops has one of the list; a node is pushed once, and not before the
\* call that makes it.
OwnNodes ==
  /\ \A w \in Worker : cs_pc[w] = "idle" <=> p[w] = NoThread
  /\ \A w \in Worker : cs_pc[w] = "push" => p[w] = <<w, called[w]>> /\ ~InList(p[w])
  /\ \A w \in Worker : cs_pc[w] = "pop" => InList(p[w])
  /\ \A j, k \in 1 .. Len(pushed) : pushed[j] = pushed[k] => j = k
  /\ \A k \in 1 .. Len(pushed) : pushed[k][2] <= called[pushed[k][1]]

HeadPushed == IF pushed = << >> THEN m_head = NoThread ELSE InList(m_head)

StackInv ==
  /\ StackTypes /\ OwnNodes /\ HeadPushed
  /\ Stack!LastInFirstOut
  /\ relinked => Stack!FindLoops

LEMMA StackInit == Stack!Init => StackInv
<1> SUFFICES ASSUME Stack!Init PROVE StackInv
  OBVIOUS
<1> USE ThreadsAssumption DEF ThreadsAssumption, Stack!Init
<1>1. StackTypes
  <2>1. 0 \in 0 .. Calls
    OBVIOUS
  <2>2. called \in [Worker -> 0 .. Calls]
    BY <2>1
  <2>3. m_head \in Stack!Node \cup {NoThread} /\ next \in [Stack!Node -> Stack!Node \cup {NoThread}]
    OBVIOUS
  <2>4. cs_pc \in [Worker -> {"idle", "push", "pop"}] /\ p \in [Worker -> Stack!Node \cup {NoThread}]
    OBVIOUS
  <2>5. pushed \in Seq(Stack!Node)
    OBVIOUS
  <2>6. relinked \in BOOLEAN
    OBVIOUS
  <2>7. QED BY <2>2, <2>3, <2>4, <2>5, <2>6 DEF StackTypes
<1>2. Len(pushed) = 0 /\ ~relinked
  OBVIOUS
<1>3. 1 .. Len(pushed) = {}
  BY <1>2
<1>4. OwnNodes
  BY <1>3 DEF OwnNodes, InList
<1>5. HeadPushed
  BY DEF HeadPushed
<1>6. Stack!LastInFirstOut
  BY <1>3 DEF Stack!LastInFirstOut
<1>7. QED BY <1>1, <1>2, <1>4, <1>5, <1>6 DEF StackInv

\* Every write of a member next makes it point to the head, so that nothing
\* leads out of the nodes that the head leads to; a new head that leads there
\* joins them.
LEMMA LoopStays ==
  ASSUME Stack!FindLoops, NEW n \in Stack!Node, next \in [Stack!Node -> Stack!Node \cup {NoThread}],
         next' = next \/ next' = [next EXCEPT ![n] = m_head],
         m_head' = m_head \/ (m_head' = n /\ next'[n] = m_head)
  PROVE  Stack!FindLoops'
<1>1. PICK C \in SUBSET Stack!Node : m_head \in C /\ \A m \in C : next[m] \in C
  BY DEF Stack!FindLoops
<1>2. \A m \in C : next'[m] \in C
  BY <1>1
<1>3. CASE m_head' = m_head
  BY <1>1, <1>2, <1>3 DEF Stack!FindLoops, Stack!Node
<1>4. CASE m_head' = n /\ next'[n] = m_head
  <2> DEFINE D == C \cup {n}
  <2>1. D \in SUBSET Stack!Node /\ m_head' \in D /\ \A m \in D : next'[m] \in D
    BY <1>1, <1>2, <1>4
  <2>2. QED BY <2>1 DEF Stack!FindLoops, Stack!Node
<1>5. QED BY <1>3, <1>4

\* Nothing is in front of the head of a list, and nothing is there twice: the
\* head is no node's next.
LEMMA HeadFirst ==
  ASSUME StackInv, ~relinked, NEW n, InList(n)
  PROVE  m_head /= next[n]
<1> USE DEF StackInv
<1>1. PICK k \in 1 .. Len(pushed) : pushed[k] = n
  BY DEF InList
<1>2. Len(pushed) \in Nat /\ Len(pushed) \in 1 .. Len(pushed) /\ pushed /= << >>
  BY <1>1, LenProperties DEF StackTypes
<1>3. m_head = pushed[Len(pushed)] /\ next[n] = IF k = 1 THEN NoThread ELSE pushed[k - 1]
  BY <1>1, <1>2 DEF Stack!LastInFirstOut
<1>4. pushed[Len(pushed)] \in Stack!Node
  BY <1>2, ElementOfSeq DEF StackTypes
<1>5. NoThread \notin Stack!Node
  BY ThreadsAssumption DEF ThreadsAssumption, Stack!Node
<1>6. CASE k = 1
  BY <1>3, <1>4, <1>5, <1>6
<1>7. CASE k /= 1
  <2>1. k - 1 \in 1 .. Len(pushed) /\ k - 1 /= Len(pushed)
    BY <1>2, <1>7
  <2>2. pushed[k - 1] /= pushed[Len(pushed)]
    BY <1>2, <2>1 DEF OwnNodes
  <2>3. QED BY <1>3, <1>7, <2>2
<1>8. QED BY <1>6, <1>7

\* A pop that writes a node of the list ties it to the head: the nodes from
\* there to the head lead only to each other.
LEMMA PopTiesList ==
  ASSUME StackInv, ~relinked, NEW n, InList(n), next' = [next EXCEPT ![n] = m_head], UNCHANGED m_head
  PROVE  Stack!FindLoops'
<1> USE DEF StackInv
<1>1. PICK i \in 1 .. Len(pushed) : pushed[i] = n
  BY DEF InList
<1>2. Len(pushed) \in Nat /\ Len(pushed) \in i .. Len(pushed) /\ pushed /= << >>
  BY <1>1, LenProperties DEF StackTypes
<1>3. \A k \in 1 .. Len(pushed) : pushed[k] \in Stack!Node
  BY ElementOfSeq DEF StackTypes
<1> DEFINE C == {pushed[k] : k \in i .. Len(pushed)}
<1>4. m_head \in C
  BY <1>2 DEF Stack!LastInFirstOut
<1>5. ASSUME NEW k \in i .. Len(pushed) PROVE next'[pushed[k]] \in C
  <2>1. k \in 1 .. Len(pushed)
    BY <1>1, <1>2
  <2>2. CASE k = i
    BY <1>1, <1>3, <1>4, <2>2 DEF StackTypes
  <2>3. CASE k /= i
    <3>1. pushed[k] /= n /\ k - 1 \in i .. Len(pushed) /\ k /= 1
      BY <1>1, <1>2, <2>1, <2>3 DEF OwnNodes
    <3>2. next'[pushed[k]] = pushed[k - 1]
      BY <1>3, <2>1, <3>1 DEF StackTypes, Stack!LastInFirstOut
    <3>3. QED BY <3>1, <3>2
  <2>4. QED BY <2>2, <2>3
<1>6. C \in SUBSET Stack!Node
  <2>1. i .. Len(pushed) \subseteq 1 .. Len(pushed)
    BY <1>1, <1>2
  <2>2. QED BY <1>3, <2>1
<1> HIDE DEF C
<1>7. (\A m \in C : next'[m] \in C)
  BY <1>5 DEF C
<1>8. QED BY <1>4, <1>6, <1>7 DEF Stack!FindLoops, Stack!Node

\* A list that no pop has written comes to its end.
LEMMA ListEnds ==
  ASSUME StackInv, ~relinked
  PROVE  ~Stack!FindLoops
<1> SUFFICES ASSUME NEW C \in SUBSET Stack!Node, m_head \in C, \A n \in C : next[n] \in C
             PROVE  FALSE
  BY DEF Stack!FindLoops
<1> USE DEF StackInv
<1>1. NoThread \notin Stack!Node
  BY ThreadsAssumption DEF ThreadsAssumption, Stack!Node
<1>2. Len(pushed) \in Nat
  BY LenProperties DEF StackTypes
<1> DEFINE K == {k \in 1 .. Len(pushed) : pushed[k] \in C}
<1>3. Len(pushed) \in K
  <2>1. pushed /= << >> /\ Len(pushed) /= 0
    BY <1>1, EmptySeq DEF HeadPushed, StackTypes
  <2>2. QED BY <1>2, <2>1 DEF Stack!LastInFirstOut
<1>4. K \in SUBSET Nat
  BY <1>2
<1>5. PICK k \in K : \A j \in K : <<j, k>> \notin OpToRel(<, Nat)
  BY <1>3, <1>4, NatLessThanWellFounded, WFMin
<1>6. \A j \in K : ~(j < k)
  BY <1>4, <1>5 DEF OpToRel
<1>7. next[pushed[k]] \in C
  OBVIOUS
<1>8. CASE k = 1
  BY <1>1, <1>7, <1>8 DEF Stack!LastInFirstOut
<1>9. CASE k /= 1
  <2>1. k - 1 \in 1 .. Len(pushed) /\ k - 1 < k
    BY <1>2, <1>9
  <2>2. next[pushed[k]] = pushed[k - 1]
    BY <1>9 DEF Stack!LastInFirstOut
  <2>3. QED BY <1>6, <1>7, <2>1, <2>2
<1>10. QED BY <1>8, <1>9

LEMMA StackSteps == StackInv /\ [Stack!Next]_stackVars => StackInv'
<1> SUFFICES ASSUME StackInv, [Stack!Next]_stackVars PROVE StackInv'
  OBVIOUS
<1> USE ThreadsAssumption DEF ThreadsAssumption, StackInv, Stack!Return, Stack!Call
<1>0. /\ Len(pushed) \in Nat /\ Calls \in Nat /\ NoThread \notin Stack!Node
      /\ \A k \in 1 .. Len(pushed) : pushed[k] \in Stack!Node
  BY LenProperties, ElementOfSeq DEF StackTypes, Stack!Node
<1>1. ASSUME NEW w \in Worker, Stack!Push(w) PROVE StackInv'
  <2> DEFINE n == <<w, called[w] + 1>>
  <2>1. /\ cs_pc[w] = "idle" /\ called[w] < Calls /\ called' = [called EXCEPT ![w] = @ + 1]
        /\ p' = [p EXCEPT ![w] = n] /\ next' = [next EXCEPT ![n] = m_head]
        /\ cs_pc' = [cs_pc EXCEPT ![w] = "push"] /\ UNCHANGED <<m_head, pushed, relinked>>
        /\ called'[w] = called[w] + 1
    BY <1>1 DEF Stack!Push, StackTypes
  <2>2. n \in Stack!Node /\ called[w] \in Nat
    BY <1>0, <2>1 DEF StackTypes, Stack!Node
  <2>3. ~InList(n)
    <3> SUFFICES ASSUME NEW k \in 1 .. Len(pushed), pushed[k] = n PROVE FALSE
      BY DEF InList
    <3>1. called[w] + 1 <= called[w]
      BY DEF OwnNodes
    <3>2. QED BY <2>2, <3>1
  <2>4. StackTypes'
    BY <1>0, <2>1, <2>2 DEF StackTypes
  <2>5. OwnNodes'
    <3>1. \A v \in Worker : cs_pc'[v] = "idle" <=> p'[v] = NoThread
      BY <1>0, <2>1, <2>2 DEF OwnNodes, StackTypes
    <3>2. \A v \in Worker : cs_pc'[v] = "push" => p'[v] = <<v, called'[v]>> /\ ~InList(p'[v])
      BY <2>1, <2>3 DEF OwnNodes, StackTypes
    <3>3. \A v \in Worker : cs_pc'[v] = "pop" => InList(p'[v])
      BY <2>1 DEF OwnNodes, StackTypes
    <3>4. \A k \in 1 .. Len(pushed) : pushed[k][2] <= called'[pushed[k][1]]
      <4> SUFFICES ASSUME NEW k \in 1 .. Len(pushed) PROVE pushed[k][2] <= called'[pushed[k][1]]
        OBVIOUS
      <4>1. pushed[k][1] \in Worker /\ pushed[k][2] \in Nat /\ pushed[k][2] <= called[pushed[k][1]]
        BY <1>0 DEF OwnNodes, Stack!Node
      <4>2. called[pushed[k][1]] \in Nat /\ called'[pushed[k][1]] \in {called[pushed[k][1]], called[pushed[k][1]] + 1}
        BY <1>0, <2>1, <4>1 DEF StackTypes
      <4>3. QED BY <4>1, <4>2
    <3>5. QED BY <2>1, <3>1, <3>2, <3>3, <3>4 DEF OwnNodes, InList
  <2>6. HeadPushed'
    BY <2>1 DEF HeadPushed, InList
  <2>7. Stack!LastInFirstOut'
    <3>1. \A k \in 1 .. Len(pushed) : next'[pushed[k]] = next[pushed[k]]
      BY <1>0, <2>1, <2>3 DEF StackTypes, InList
    <3>2. QED BY <2>1, <3>1 DEF Stack!LastInFirstOut
  <2>8. relinked' => Stack!FindLoops'
    BY <2>1, <2>2, LoopStays DEF StackTypes
  <2>9. QED BY <2>4, <2>5, <2>6, <2>7, <2>8
<1>2. ASSUME NEW w \in Worker, Stack!PushExchange(w), m_head = next[p[w]] PROVE StackInv'
  <2>1. /\ cs_pc[w] = "push" /\ m_head' = p[w] /\ pushed' = Append(pushed, p[w])
        /\ cs_pc' = [cs_pc EXCEPT ![w] = "idle"] /\ p' = [p EXCEPT ![w] = NoThread]
        /\ UNCHANGED <<next, called, relinked>>
    BY <1>2 DEF Stack!PushExchange
  <2>2. /\ p[w] \in Stack!Node /\ ~InList(p[w]) /\ p[w] = <<w, called[w]>>
    BY <2>1 DEF OwnNodes, StackTypes
  <2>3. /\ pushed' \in Seq(Stack!Node) /\ Len(pushed') = Len(pushed) + 1
        /\ pushed'[Len(pushed) + 1] = p[w] /\ pushed' /= << >>
        /\ \A k \in 1 .. Len(pushed) : pushed'[k] = pushed[k] /\ pushed[k] /= p[w]
    <3>1. pushed \in Seq(Stack!Node)
      BY DEF StackTypes
    <3>2. /\ pushed' \in Seq(Stack!Node) /\ Len(pushed') = Len(pushed) + 1
          /\ pushed'[Len(pushed) + 1] = p[w] /\ pushed' /= << >>
          /\ \A k \in 1 .. Len(pushed) : pushed'[k] = pushed[k]
      BY <2>1, <2>2, <3>1, AppendProperties
    <3>3. QED BY <2>2, <3>2 DEF InList
  <2>4. \A k \in 1 .. Len(pushed') : k \in 1 .. Len(pushed) \/ k = Len(pushed) + 1
    BY <1>0, <2>3
  <2>5. Len(pushed) + 1 \in 1 .. Len(pushed') /\ \A k \in 1 .. Len(pushed) : k \in 1 .. Len(pushed')
    BY <1>0, <2>3
  <2>6. \A n : InList(n)' <=> InList(n) \/ n = p[w]
    BY <2>3, <2>4, <2>5 DEF InList
  <2>7. StackTypes'
    BY <2>1, <2>2, <2>3 DEF StackTypes
  <2>8. OwnNodes'
    <3>0. /\ cs_pc'[w] = "idle" /\ p'[w] = NoThread
          /\ \A v \in Worker \ {w} : cs_pc'[v] = cs_pc[v] /\ p'[v] = p[v]
      BY <2>1 DEF StackTypes
    <3>1. \A v \in Worker : cs_pc'[v] = "idle" <=> p'[v] = NoThread
      BY <3>0 DEF OwnNodes
    <3>2. ASSUME NEW v \in Worker, cs_pc'[v] = "push"
          PROVE  p'[v] = <<v, called'[v]>> /\ ~InList(p[v])'
      <4>1. v /= w /\ p'[v] = p[v] /\ p[v] = <<v, called[v]>> /\ ~InList(p[v])
        BY <3>0, <3>2 DEF OwnNodes
      <4>2. p[v] /= p[w]
        BY <2>2, <4>1
      <4>3. QED BY <2>1, <2>6, <4>1, <4>2
    <3>3. \A v \in Worker : cs_pc'[v] = "pop" => InList(p[v])'
      BY <2>6, <3>0 DEF OwnNodes
    <3>4. \A j, k \in 1 .. Len(pushed') : pushed'[j] = pushed'[k] => j = k
      BY <2>3, <2>4 DEF OwnNodes
    <3>5. \A k \in 1 .. Len(pushed') : pushed'[k][2] <= called'[pushed'[k][1]]
      <4>1. called[w] \in Nat /\ p[w][1] = w /\ p[w][2] = called[w]
        BY <2>2 DEF StackTypes
      <4>2. pushed'[Len(pushed) + 1][2] <= called'[pushed'[Len(pushed) + 1][1]]
        BY <2>1, <2>3, <4>1
      <4>3. \A k \in 1 .. Len(pushed) : pushed'[k][2] <= called'[pushed'[k][1]]
        BY <2>1, <2>3 DEF OwnNodes
      <4>4. QED BY <2>4, <4>2, <4>3
    <3>6. QED BY <3>1, <3>2, <3>3, <3>4, <3>5 DEF OwnNodes, InList
  <2>9. HeadPushed'
    BY <2>1, <2>3, <2>6 DEF HeadPushed, InList
  <2>10. Stack!LastInFirstOut'
    <3> SUFFICES ASSUME ~relinked PROVE Stack!LastInFirstOut'
      BY <2>1 DEF Stack!LastInFirstOut
    <3>1. m_head' = pushed'[Len(pushed')]
      BY <2>1, <2>3
    <3>2. \A k \in 1 .. Len(pushed) : next'[pushed'[k]] = IF k = 1 THEN NoThread ELSE pushed'[k - 1]
      <4>1. \A k \in 1 .. Len(pushed) : k /= 1 => k - 1 \in 1 .. Len(pushed)
        BY <1>0
      <4>2. QED BY <2>1, <2>3, <4>1 DEF Stack!LastInFirstOut
    <3>3. next'[p[w]] = IF Len(pushed) + 1 = 1 THEN NoThread ELSE pushed'[(Len(pushed) + 1) - 1]
      <4>1. CASE pushed = << >>
        BY <1>2, <2>1, <4>1 DEF HeadPushed
      <4>2. CASE pushed /= << >>
        <5>1. Len(pushed) /= 0
          BY <4>2, EmptySeq DEF StackTypes
        <5>2. (Len(pushed) + 1) - 1 = Len(pushed) /\ Len(pushed) \in 1 .. Len(pushed) /\ Len(pushed) + 1 /= 1
          BY <1>0, <5>1
        <5>3. QED BY <1>2, <2>1, <2>3, <4>2, <5>2 DEF Stack!LastInFirstOut
      <4>3. QED BY <4>1, <4>2
    <3>4. QED BY <2>3, <2>4, <3>1, <3>2, <3>3 DEF Stack!LastInFirstOut
  <2>11. relinked' => Stack!FindLoops'
    BY <1>2, <2>1, <2>2, LoopStays DEF StackTypes
  <2>12. QED BY <2>7, <2>8, <2>9, <2>10, <2>11
<1>3. ASSUME NEW w \in Worker, Stack!PushExchange(w), m_head /= next[p[w]] PROVE StackInv'
  <2>1. /\ cs_pc[w] = "push" /\ next' = [next EXCEPT ![p[w]] = m_head]
        /\ UNCHANGED <<m_head, pushed, cs_pc, p, called, relinked>>
    BY <1>3 DEF Stack!PushExchange
  <2>2. /\ p[w] \in Stack!Node /\ ~InList(p[w])
    BY <2>1 DEF OwnNodes, StackTypes
  <2>3. StackTypes'
    BY <2>1, <2>2 DEF StackTypes
  <2>4. OwnNodes' /\ HeadPushed'
    BY <2>1 DEF OwnNodes, HeadPushed, InList
  <2>5. Stack!LastInFirstOut'
    <3>1. \A k \in 1 .. Len(pushed) : next'[pushed[k]] = next[pushed[k]]
      BY <1>0, <2>1, <2>2 DEF StackTypes, InList
    <3>2. QED BY <2>1, <3>1 DEF Stack!LastInFirstOut
  <2>6. relinked' => Stack!FindLoops'
    BY <2>1, <2>2, LoopStays DEF StackTypes
  <2>7. QED BY <2>3, <2>4, <2>5, <2>6
<1>4. ASSUME NEW w \in Worker, Stack!Pop(w) PROVE StackInv'
  <2>1. /\ cs_pc[w] = "idle" /\ called[w] < Calls /\ called' = [called EXCEPT ![w] = @ + 1]
        /\ UNCHANGED <<m_head, next, pushed, relinked>>
        /\ \/ m_head = NoThread /\ UNCHANGED <<cs_pc, p>>
           \/ m_head /= NoThread /\ cs_pc' = [cs_pc EXCEPT ![w] = "pop"] /\ p' = [p EXCEPT ![w] = m_head]
    BY <1>4 DEF Stack!Pop
  <2>2. called[w] \in Nat /\ called'[w] = called[w] + 1
    BY <2>1 DEF StackTypes
  <2>3. StackTypes'
    <3>1. called' \in [Worker -> 0 .. Calls]
      <4>1. called[w] + 1 \in 0 .. Calls
        BY <1>0, <2>1, <2>2
      <4>2. QED BY <2>1, <4>1 DEF StackTypes
    <3>2. cs_pc' \in [Worker -> {"idle", "push", "pop"}] /\ p' \in [Worker -> Stack!Node \cup {NoThread}]
      BY <2>1 DEF StackTypes
    <3>3. QED BY <2>1, <3>1, <3>2 DEF StackTypes
  <2>4. m_head /= NoThread => InList(m_head)
    BY DEF HeadPushed
  <2>5. OwnNodes'
    <3>1. \A v \in Worker : cs_pc'[v] = "idle" <=> p'[v] = NoThread
      BY <2>1 DEF OwnNodes, StackTypes
    <3>2. \A v \in Worker : cs_pc'[v] = "push" => p'[v] = <<v, called'[v]>> /\ ~InList(p'[v])
      BY <2>1 DEF OwnNodes, StackTypes
    <3>3. \A v \in Worker : cs_pc'[v] = "pop" => InList(p'[v])
      BY <2>1, <2>4 DEF OwnNodes, StackTypes
    <3>4. \A k \in 1 .. Len(pushed) : pushed[k][2] <= called'[pushed[k][1]]
      <4> SUFFICES ASSUME NEW k \in 1 .. Len(pushed) PROVE pushed[k][2] <= called'[pushed[k][1]]
        OBVIOUS
      <4>1. pushed[k][1] \in Worker /\ pushed[k][2] \in Nat /\ pushed[k][2] <= called[pushed[k][1]]
        BY <1>0 DEF OwnNodes, Stack!Node
      <4>2. called[pushed[k][1]] \in Nat /\ called'[pushed[k][1]] \in {called[pushed[k][1]], called[pushed[k][1]] + 1}
        BY <1>0, <2>1, <4>1 DEF StackTypes
      <4>3. QED BY <4>1, <4>2
    <3>5. QED BY <2>1, <3>1, <3>2, <3>3, <3>4 DEF OwnNodes, InList
  <2>6. HeadPushed' /\ Stack!LastInFirstOut'
    BY <2>1 DEF HeadPushed, InList, Stack!LastInFirstOut
  <2>7. relinked' => Stack!FindLoops'
    BY <2>1 DEF Stack!FindLoops, Stack!Node
  <2>8. QED BY <2>3, <2>5, <2>6, <2>7
<1>5. ASSUME NEW w \in Worker, Stack!PopExchange(w), m_head = next[p[w]] PROVE StackInv'
  <2>1. /\ cs_pc[w] = "pop" /\ m_head' = p[w]
        /\ cs_pc' = [cs_pc EXCEPT ![w] = "idle"] /\ p' = [p EXCEPT ![w] = NoThread]
        /\ UNCHANGED <<next, called, pushed, relinked>>
    BY <1>5 DEF Stack!PopExchange
  <2>2. p[w] \in Stack!Node /\ InList(p[w])
    BY <2>1 DEF OwnNodes, StackTypes
  <2>3. relinked
    BY <1>5, <2>2, HeadFirst
  <2>4. StackTypes'
    BY <2>1, <2>2 DEF StackTypes
  <2>5. OwnNodes'
    BY <2>1 DEF OwnNodes, StackTypes, InList
  <2>6. HeadPushed'
    <3>1. pushed /= << >>
      BY <2>2 DEF InList
    <3>2. QED BY <2>1, <2>2, <3>1 DEF HeadPushed, InList
  <2>7. Stack!LastInFirstOut'
    BY <2>1, <2>3 DEF Stack!LastInFirstOut
  <2>8. Stack!FindLoops'
    BY <1>5, <2>1, <2>2, <2>3, LoopStays DEF StackTypes
  <2>9. QED BY <2>4, <2>5, <2>6, <2>7, <2>8
<1>6. ASSUME NEW w \in Worker, Stack!PopExchange(w), m_head /= next[p[w]] PROVE StackInv'
  <2>1. /\ cs_pc[w] = "pop" /\ next' = [next EXCEPT ![p[w]] = m_head] /\ relinked' = TRUE
        /\ UNCHANGED <<m_head, cs_pc, p, called, pushed>>
    BY <1>6 DEF Stack!PopExchange
  <2>2. p[w] \in Stack!Node /\ InList(p[w])
    BY <2>1 DEF OwnNodes, StackTypes
  <2>3. StackTypes'
    BY <2>1, <2>2 DEF StackTypes
  <2>4. OwnNodes' /\ HeadPushed' /\ Stack!LastInFirstOut'
    BY <2>1 DEF OwnNodes, HeadPushed, InList, Stack!LastInFirstOut
  <2>5. Stack!FindLoops'
    <3>1. CASE relinked
      BY <2>1, <2>2, <3>1, LoopStays DEF StackTypes
    <3>2. CASE ~relinked
      BY <2>1, <2>2, <3>2, PopTiesList
    <3>3. QED BY <3>1, <3>2
  <2>6. QED BY <2>3, <2>4, <2>5
<1>7. CASE UNCHANGED stackVars
  <2>1. StackTypes' /\ OwnNodes' /\ HeadPushed' /\ Stack!LastInFirstOut'
    BY <1>7 DEF stackVars, StackTypes, OwnNodes, HeadPushed, InList, Stack!LastInFirstOut
  <2>2. relinked' => Stack!FindLoops'
    BY <1>7 DEF stackVars, Stack!FindLoops, Stack!Node
  <2>3. QED BY <2>1, <2>2
<1>8. QED
  BY <1>1, <1>2, <1>3, <1>4, <1>5, <1>6, <1>7 DEF Stack!Next, Stack!Run, stackVars, Stack!vars

LEMMA StackMeans == StackInv => Stack!StackKept
<1> SUFFICES ASSUME StackInv PROVE Stack!StackKept
  OBVIOUS
<1> USE DEF StackInv
<1>1. Stack!PopTies
  <2>1. relinked <=> Stack!FindLoops
    BY ListEnds DEF StackTypes
  <2>2. NoThread \notin Stack!Node
    BY ThreadsAssumption DEF ThreadsAssumption, Stack!Node
  <2>3. \A k \in 1 .. Len(pushed) : pushed[k] \in Stack!Node
    BY ElementOfSeq DEF StackTypes
  <2>4. QED BY <2>1, <2>2, <2>3 DEF Stack!PopTies, HeadPushed, InList
<1>2. Stack!PushAlone
  <2> SUFFICES ASSUME NEW v \in Worker, NEW w \in Worker, v /= w, p[v] /= NoThread, p[v] = p[w]
               PROVE  cs_pc[v] = "pop" /\ cs_pc[w] = "pop"
    BY DEF Stack!PushAlone
  <2>1. cs_pc[v] \in {"push", "pop"} /\ cs_pc[w] \in {"push", "pop"}
    BY DEF OwnNodes, StackTypes
  <2>2. ~(cs_pc[v] = "push" /\ cs_pc[w] = "push")
    BY DEF OwnNodes
  <2>3. QED BY <2>1, <2>2 DEF OwnNodes
<1>3. QED BY <1>1, <1>2 DEF Stack!StackKept

\* However many tasks and calls there are: while no pop has written a next,
\* the list is what was pushed, the last one first; the first pop that does
\* makes find() of a missing value loop and nothing repairs that; two tasks
\* are at the next of one node only in two pops
\* (atomic_shared_ptr_list-WIP.cpp:23-73).
THEOREM PopsTie == MCSpec => []StackKept
<1>1. MCInit => StackInv
  BY StackInit DEF MCInit
<1>2. StackInv /\ [MCNext]_demoVars => StackInv'
  BY StepOfOne, StackSteps
<1>3. StackInv => StackKept
  BY StackMeans DEF StackKept
<1>4. QED BY <1>1, <1>2, <1>3, PTL DEF MCSpec

-----------------------------------------------------------------------------
\* The finite sets of the module of the statistics are those of this one.
LEMMA SameSizes ==
  /\ \A S : Insight!Cardinality(S) = Cardinality(S)
  /\ \A S : Insight!IsFiniteSet(S) <=> IsFiniteSet(S)
BY DEF Insight!Cardinality, Cardinality, Insight!IsFiniteSet, IsFiniteSet

ChunkData == [call_count : Nat, min_size : Nat, max_size : Nat, cumul_size : Nat]

Note == [pos : Nat, end : Nat, first : Nat, last : Nat, live : BOOLEAN]

InsightTypes ==
  /\ begin \in 0 .. Elements
  /\ inspector \in [Worker -> Note]
  /\ chunks \in [Worker -> SUBSET (Nat \X Nat)]
  /\ DOMAIN id_map \subseteq Worker
  /\ \A w \in DOMAIN id_map : id_map[w] \in ChunkData

\* What a copy has noted is where it began and where it is.
NotesRight ==
  \A w \in Worker :
    /\ inspector[w].pos <= inspector[w].end /\ inspector[w].end <= begin
    /\ ~inspector[w].live => inspector[w] = Insight!None
    /\ inspector[w].first = Limit => inspector[w].last = Limit
    /\ inspector[w].first /= Limit =>
         inspector[w].first < inspector[w].pos /\ inspector[w].last = inspector[w].pos - 1

\* The chunk of the copy that w calls: it begins where w is, until its first
\* element is noted.
Mine(w) ==
  <<IF inspector[w].first = Limit THEN inspector[w].pos ELSE inspector[w].first, inspector[w].end>>

Apart(c, d) == c[2] <= d[1] \/ d[2] <= c[1]

\* The chunks of a thread are apart, and the one of its copy is one of them.
ChunksApart ==
  \A w \in Worker :
    /\ IsFiniteSet(chunks[w])
    /\ \A c \in chunks[w] : c[1] < c[2] /\ c[2] <= begin
    /\ \A c, d \in chunks[w] : c = d \/ Apart(c, d)
    /\ Mine(w)[1] < Mine(w)[2] => Mine(w) \in chunks[w]

Long(w) == {chunk \in chunks[w] : Insight!Length(chunk) >= 2}

\* The entry of a thread tells of its chunks so far, but of the one at which
\* it is.
AllTold == \A w \in Worker : Insight!Tells(id_map, w, Long(w) \ {Mine(w)})

InsightInv == InsightTypes /\ NotesRight /\ ChunksApart /\ AllTold

-----------------------------------------------------------------------------
LEMMA ElementsFinite ==
  ASSUME NEW C \in SUBSET (Nat \X Nat), IsFiniteSet(C)
  PROVE  IsFiniteSet(Insight!ElementsOf(C))
<1>1. \A chunk \in C : IsFiniteSet(chunk[1] .. chunk[2] - 1)
  BY FS_Interval
<1> DEFINE E == {chunk[1] .. chunk[2] - 1 : chunk \in C}
       part == [chunk \in C |-> chunk[1] .. chunk[2] - 1]
<1>2. part \in Surjection(C, E)
  BY DEF Surjection
<1>3. IsFiniteSet(E)
  BY <1>2, FS_Surjection
<1>4. QED BY <1>1, <1>3, FS_UNION DEF Insight!ElementsOf

\* A chunk that is apart from the others adds its elements.
LEMMA ElementsAdded ==
  ASSUME NEW C \in SUBSET (Nat \X Nat), IsFiniteSet(C), NEW c \in Nat \X Nat, c[1] < c[2],
         \A d \in C : Apart(c, d)
  PROVE  Cardinality(Insight!ElementsOf(C \cup {c})) =
         Cardinality(Insight!ElementsOf(C)) + Insight!Length(c)
<1> DEFINE new == c[1] .. c[2] - 1
<1>1. Insight!ElementsOf(C \cup {c}) = Insight!ElementsOf(C) \cup new
  BY DEF Insight!ElementsOf
<1>2. Insight!ElementsOf(C) \cap new = {}
  BY DEF Insight!ElementsOf, Apart
<1>3. c[1] \in Int /\ c[2] - 1 \in Int /\ c[1] <= c[2] - 1
  OBVIOUS
<1> HIDE DEF new
<1>4. IsFiniteSet(new) /\ Cardinality(new) = (c[2] - 1) - c[1] + 1
  BY <1>3, FS_Interval DEF new
<1>5. Cardinality(new) = Insight!Length(c) /\ Insight!Length(c) \in Nat
  BY <1>4 DEF Insight!Length
<1>6. IsFiniteSet(Insight!ElementsOf(C))
  BY ElementsFinite
<1>7. Cardinality(Insight!ElementsOf(C)) \in Nat
  BY <1>6, FS_CardinalityType
<1>8. Cardinality(Insight!ElementsOf(C) \cup new) =
         Cardinality(Insight!ElementsOf(C)) + Cardinality(new) - Cardinality({})
  BY <1>2, <1>6, <1>4, FS_Union
<1>9. Cardinality(Insight!ElementsOf(C) \cup new) = Cardinality(Insight!ElementsOf(C)) + Insight!Length(c)
  BY <1>7, <1>8, <1>5, FS_EmptySet
<1>10. QED BY <1>1, <1>9

\* The chunk that ~Inspector adds to the entry of its thread is told with the
\* others.
LEMMA OneMoreTold ==
  ASSUME NEW map, NEW w, NEW C \in SUBSET (Nat \X Nat), IsFiniteSet(C),
         NEW c \in Nat \X Nat, c[1] < c[2], Insight!Length(c) <= Limit, c \notin C,
         \A d \in C : Apart(c, d), Insight!Tells(map, w, C),
         w \in DOMAIN map => map[w] \in ChunkData
  PROVE  Insight!Tells(Insight!Add(map, w, Insight!Length(c)), w, C \cup {c})
<1> DEFINE size == Insight!Length(c)
           old == IF w \in DOMAIN map THEN map[w]
                  ELSE [call_count |-> 0, min_size |-> Limit, max_size |-> 0, cumul_size |-> 0]
           entry == [call_count |-> old.call_count + 1,
                     min_size |-> Insight!MinOf(old.min_size, size),
                     max_size |-> Insight!MaxOf(old.max_size, size),
                     cumul_size |-> old.cumul_size + size]
           new == Insight!Add(map, w, size)
<1>1. w \in DOMAIN new /\ new[w] = entry
  BY DEF Insight!Add
<1>2. size \in Nat /\ Limit \in Nat
  BY ThreadsAssumption DEF ThreadsAssumption, Insight!Length
<1>3. old \in ChunkData
  BY <1>2 DEF ChunkData
<1>4. Cardinality(C) \in Nat /\ Cardinality(C \cup {c}) = Cardinality(C) + 1
  BY FS_CardinalityType, FS_AddElement
<1>5. Cardinality(Insight!ElementsOf(C \cup {c})) = Cardinality(Insight!ElementsOf(C)) + size
  BY ElementsAdded
<1>6. old.call_count = Cardinality(C) /\ old.cumul_size = Cardinality(Insight!ElementsOf(C))
  <2>1. CASE C = {}
    BY <2>1, FS_EmptySet DEF Insight!Tells, Insight!ElementsOf
  <2>2. CASE C /= {}
    BY <2>2, SameSizes DEF Insight!Tells
  <2>3. QED BY <2>1, <2>2
<1>7. \A d \in C : Insight!Length(d) \in old.min_size .. old.max_size
  BY DEF Insight!Tells
<1>8. C /= {} => (\E d \in C : Insight!Length(d) = old.min_size) /\ \E d \in C : Insight!Length(d) = old.max_size
  BY DEF Insight!Tells
<1>9. C = {} => old.min_size = Limit /\ old.max_size = 0
  BY DEF Insight!Tells
<1>10. \A d \in C : Insight!Length(d) \in Int
  BY DEF Insight!Length
<1>11. /\ entry.min_size <= old.min_size /\ entry.min_size <= size
       /\ entry.max_size >= old.max_size /\ entry.max_size >= size
       /\ entry.min_size \in {old.min_size, size} /\ entry.max_size \in {old.max_size, size}
       /\ entry.min_size \in Nat /\ entry.max_size \in Nat
  BY <1>2, <1>3 DEF ChunkData, Insight!MinOf, Insight!MaxOf
<1>12. \A d \in C \cup {c} : Insight!Length(d) \in entry.min_size .. entry.max_size
  BY <1>2, <1>3, <1>7, <1>10, <1>11 DEF ChunkData
<1>13. \E d \in C \cup {c} : Insight!Length(d) = entry.min_size
  BY <1>2, <1>8, <1>9, <1>11
<1>14. \E d \in C \cup {c} : Insight!Length(d) = entry.max_size
  BY <1>2, <1>8, <1>9, <1>11
<1>15. entry.call_count = Cardinality(C \cup {c}) /\ entry.cumul_size = Cardinality(Insight!ElementsOf(C \cup {c}))
  BY <1>4, <1>5, <1>6
<1>16. QED BY <1>1, <1>12, <1>13, <1>14, <1>15, SameSizes DEF Insight!Tells

LEMMA InsightInit == Insight!Init => InsightInv
<1> SUFFICES ASSUME Insight!Init PROVE InsightInv
  OBVIOUS
<1> USE ThreadsAssumption DEF ThreadsAssumption, Insight!Init, Insight!None
<1>1. DOMAIN id_map = {}
  OBVIOUS
<1>2. InsightTypes
  BY <1>1 DEF InsightTypes, Note
<1>3. NotesRight
  BY DEF NotesRight
<1>4. ChunksApart
  BY FS_EmptySet DEF ChunksApart, Mine
<1>5. AllTold
  BY <1>1 DEF AllTold, Long, Insight!Tells
<1>6. QED BY <1>2, <1>3, <1>4, <1>5 DEF InsightInv

\* The entry of another thread stays.
LEMMA OthersTold ==
  ASSUME NEW map, NEW w, NEW x, x /= w, NEW C, NEW size, Insight!Tells(map, x, C)
  PROVE  Insight!Tells(Insight!Add(map, w, size), x, C)
<1>1. x \in DOMAIN Insight!Add(map, w, size) <=> x \in DOMAIN map
  BY DEF Insight!Add
<1>2. x \in DOMAIN map => Insight!Add(map, w, size)[x] = map[x]
  BY DEF Insight!Add
<1>3. QED BY <1>1, <1>2 DEF Insight!Tells

LEMMA Added ==
  ASSUME NEW map, NEW w \in Worker, NEW size \in Nat, DOMAIN map \subseteq Worker,
         \A x \in DOMAIN map : map[x] \in ChunkData
  PROVE  /\ DOMAIN Insight!Add(map, w, size) \subseteq Worker
         /\ \A x \in DOMAIN Insight!Add(map, w, size) : Insight!Add(map, w, size)[x] \in ChunkData
<1> DEFINE new == Insight!Add(map, w, size)
           old == IF w \in DOMAIN map THEN map[w]
                  ELSE [call_count |-> 0, min_size |-> Limit, max_size |-> 0, cumul_size |-> 0]
<1>1. old \in ChunkData
  BY ThreadsAssumption DEF ThreadsAssumption, ChunkData
<1>2. DOMAIN new = DOMAIN map \cup {w}
  BY DEF Insight!Add
<1>3. \A x \in DOMAIN map : x /= w => new[x] = map[x]
  BY DEF Insight!Add
<1>4. new[w] = [call_count |-> old.call_count + 1,
                min_size |-> Insight!MinOf(old.min_size, size),
                max_size |-> Insight!MaxOf(old.max_size, size),
                cumul_size |-> old.cumul_size + size]
  BY DEF Insight!Add
<1>5. new[w] \in ChunkData
  BY <1>1, <1>4 DEF ChunkData, Insight!MinOf, Insight!MaxOf
<1>6. QED BY <1>2, <1>3, <1>5

\* A thread takes a chunk that begins where all the others have ended.
LEMMA CopyKeeps ==
  ASSUME InsightInv, NEW w \in Worker, NEW n \in 0 .. Elements, Insight!CopyFor(w, n)
  PROVE  InsightInv'
<1> USE DEF InsightInv, InsightTypes
<1> DEFINE c == <<begin, begin + n>>
<1>1. /\ inspector[w] = Insight!None /\ begin + n <= Elements /\ begin' = begin + n /\ id_map' = id_map
      /\ inspector'[w] = [pos |-> begin, end |-> begin + n, first |-> Limit, last |-> Limit, live |-> TRUE]
      /\ \A x \in Worker : x /= w => inspector'[x] = inspector[x]
      /\ DOMAIN inspector' = Worker /\ inspector' = [x \in Worker |-> inspector'[x]]
      /\ chunks'[w] = IF n = 0 THEN chunks[w] ELSE chunks[w] \cup {c}
      /\ \A x \in Worker : x /= w => chunks'[x] = chunks[x]
      /\ chunks' = [x \in Worker |-> chunks'[x]]
  BY DEF Insight!CopyFor, NotesRight, Insight!None
<1>2. begin \in Nat /\ n \in Nat /\ Limit \in Nat /\ Elements \in Nat /\ Elements < Limit
  BY ThreadsAssumption DEF ThreadsAssumption
<1>3. InsightTypes'
  <2>1. inspector' \in [Worker -> Note]
    <3>1. inspector'[w] \in Note
      BY <1>1, <1>2 DEF Note
    <3>2. QED BY <1>1, <3>1
  <2>2. chunks' \in [Worker -> SUBSET (Nat \X Nat)]
    BY <1>1, <1>2
  <2>3. begin' \in 0 .. Elements
    BY <1>1, <1>2
  <2>4. QED BY <1>1, <2>1, <2>2, <2>3
<1>4. NotesRight'
  <2> SUFFICES ASSUME NEW x \in Worker
               PROVE  /\ inspector'[x].pos <= inspector'[x].end /\ inspector'[x].end <= begin'
                      /\ ~inspector'[x].live => inspector'[x] = Insight!None
                      /\ inspector'[x].first = Limit => inspector'[x].last = Limit
                      /\ inspector'[x].first /= Limit =>
                           inspector'[x].first < inspector'[x].pos /\ inspector'[x].last = inspector'[x].pos - 1
    BY DEF NotesRight, Insight!None
  <2>1. CASE x = w
    BY <1>1, <1>2, <2>1
  <2>2. CASE x /= w
    BY <1>1, <1>2, <2>2 DEF NotesRight, Note
  <2>3. QED BY <2>1, <2>2
<1>5. Mine(w)' = c /\ Mine(w) = <<0, 0>> /\ \A x \in Worker : x /= w => Mine(x)' = Mine(x)
  BY <1>1, <1>2 DEF Mine, Insight!None
<1>6. \A d \in chunks[w] : d \in Nat \X Nat /\ d[1] < d[2] /\ d[2] <= begin
  BY DEF ChunksApart
<1>7. ChunksApart'
  <2> SUFFICES ASSUME NEW x \in Worker
               PROVE  /\ IsFiniteSet(chunks'[x])
                      /\ \A d \in chunks'[x] : d[1] < d[2] /\ d[2] <= begin'
                      /\ \A d, e \in chunks'[x] : d = e \/ Apart(d, e)
                      /\ Mine(x)'[1] < Mine(x)'[2] => Mine(x)' \in chunks'[x]
    BY DEF ChunksApart, Apart
  <2>1. CASE x = w /\ n = 0
    BY <1>1, <1>2, <1>5, <1>6, <2>1 DEF ChunksApart
  <2>2. CASE x = w /\ n /= 0
    <3>1. IsFiniteSet(chunks'[w])
      <4>1. IsFiniteSet(chunks[w])
        BY DEF ChunksApart
      <4>2. IsFiniteSet(chunks[w] \cup {c})
        BY <4>1, FS_AddElement
      <4>3. QED BY <1>1, <2>2, <4>2
    <3>2. c[1] < c[2] /\ c[2] <= begin'
      BY <1>1, <1>2, <2>2
    <3>3. \A d \in chunks[w] : Apart(d, c) /\ Apart(c, d)
      BY <1>6 DEF Apart
    <3>4. \A d \in chunks'[w] : d[1] < d[2] /\ d[2] <= begin'
      BY <1>1, <1>2, <1>6, <2>2, <3>2
    <3>5. \A d, e \in chunks'[w] : d = e \/ Apart(d, e)
      BY <1>1, <2>2, <3>3 DEF ChunksApart
    <3>6. QED BY <1>1, <1>5, <2>2, <3>1, <3>4, <3>5
  <2>3. CASE x /= w
    <3>1. \A d \in chunks[x] : d \in Nat \X Nat /\ d[1] < d[2] /\ d[2] <= begin
      BY DEF ChunksApart
    <3>2. chunks'[x] = chunks[x] /\ Mine(x)' = Mine(x)
      BY <1>1, <1>5, <2>3
    <3>3. \A d \in chunks[x] : d[1] < d[2] /\ d[2] <= begin'
      BY <1>1, <1>2, <3>1
    <3>4. QED BY <3>2, <3>3 DEF ChunksApart
  <2>4. QED BY <2>1, <2>2, <2>3
<1>8. AllTold'
  <2> SUFFICES ASSUME NEW x \in Worker PROVE Insight!Tells(id_map', x, Long(x)' \ {Mine(x)'})
    BY DEF AllTold, Insight!Tells
  <2>1. CASE x /= w
    BY <1>1, <1>5, <2>1 DEF AllTold, Long
  <2>2. CASE x = w
    <3>1. c \notin chunks[w]
      BY <1>2, <1>6
    <3>2. <<0, 0>> \notin chunks[w]
      BY <1>6
    <3>3. Long(w)' \ {c} = Long(w)
      <4>1. Long(w)' = {d \in chunks'[w] : Insight!Length(d) >= 2}
        BY DEF Long, Insight!Length
      <4>2. QED BY <1>1, <3>1, <4>1 DEF Long
    <3>4. Long(w) \ {<<0, 0>>} = Long(w)
      BY <3>2 DEF Long
    <3>5. QED BY <1>1, <1>5, <2>2, <3>3, <3>4 DEF AllTold
  <2>3. QED BY <2>1, <2>2
<1>9. QED BY <1>3, <1>4, <1>7, <1>8

\* The first element that a copy notes is where its chunk begins.
LEMMA InspectKeeps ==
  ASSUME InsightInv, NEW w \in Worker, Insight!Inspect(w)
  PROVE  InsightInv'
<1> USE DEF InsightInv, InsightTypes
<1> DEFINE i == inspector[w]
<1>1. /\ i.live /\ i.pos < i.end /\ UNCHANGED <<begin, id_map, chunks>>
      /\ inspector'[w] = [pos |-> i.pos + 1, end |-> i.end, live |-> TRUE, last |-> i.pos,
                          first |-> IF i.first = Limit THEN i.pos ELSE i.first]
      /\ \A x \in Worker : x /= w => inspector'[x] = inspector[x]
      /\ inspector' = [x \in Worker |-> inspector'[x]]
  BY DEF Insight!Inspect, Note
<1>2. /\ i \in Note /\ i.end <= begin /\ begin <= Elements /\ Elements < Limit
      /\ Limit \in Nat /\ Elements \in Nat /\ begin \in Nat
      /\ i.first /= Limit => i.first < i.pos
  BY ThreadsAssumption DEF ThreadsAssumption, NotesRight
<1>3. i.pos \in Nat /\ i.end \in Nat /\ i.first \in Nat
  BY <1>2 DEF Note
<1>4. InsightTypes'
  <2>1. inspector'[w] \in Note
    BY <1>1, <1>3 DEF Note
  <2>2. inspector' \in [Worker -> Note]
    BY <1>1, <2>1
  <2>3. QED BY <1>1, <2>2
<1>5. NotesRight'
  <2> SUFFICES ASSUME NEW x \in Worker
               PROVE  /\ inspector'[x].pos <= inspector'[x].end /\ inspector'[x].end <= begin'
                      /\ ~inspector'[x].live => inspector'[x] = Insight!None
                      /\ inspector'[x].first = Limit => inspector'[x].last = Limit
                      /\ inspector'[x].first /= Limit =>
                           inspector'[x].first < inspector'[x].pos /\ inspector'[x].last = inspector'[x].pos - 1
    BY DEF NotesRight, Insight!None
  <2>1. CASE x = w
    BY <1>1, <1>2, <1>3, <2>1
  <2>2. CASE x /= w
    BY <1>1, <2>2 DEF NotesRight
  <2>3. QED BY <2>1, <2>2
<1>6. \A x \in Worker : Mine(x)' = Mine(x)
  <2>1. Mine(w)' = Mine(w)
    BY <1>1, <1>2, <1>3 DEF Mine
  <2>2. QED BY <1>1, <2>1 DEF Mine
<1>7. ChunksApart'
  BY <1>1, <1>6 DEF ChunksApart, Apart
<1>8. AllTold'
  <2>1. \A x \in Worker : Long(x)' = Long(x)
    BY <1>1 DEF Long, Insight!Length
  <2>2. QED BY <1>1, <1>6, <2>1 DEF AllTold
<1>9. QED BY <1>4, <1>5, <1>7, <1>8

\* Its destructor tells of a chunk of two elements and more, and of no other.
LEMMA DestroyKeeps ==
  ASSUME InsightInv, NEW w \in Worker, Insight!Destroy(w)
  PROVE  InsightInv'
<1> USE DEF InsightInv, InsightTypes
<1> DEFINE i == inspector[w]
           c == Mine(w)
           size == i.last - i.first + 1
<1>1. /\ i.live /\ i.pos = i.end /\ UNCHANGED <<begin, chunks>>
      /\ inspector'[w] = Insight!None
      /\ \A x \in Worker : x /= w => inspector'[x] = inspector[x]
      /\ inspector' = [x \in Worker |-> inspector'[x]]
      /\ id_map' = IF i.first /= i.last THEN Insight!Add(id_map, w, size) ELSE id_map
  BY DEF Insight!Destroy
<1>2. /\ i \in Note /\ i.end <= begin /\ begin <= Elements /\ Elements < Limit
      /\ Limit \in Nat /\ Elements \in Nat /\ begin \in Nat
      /\ i.first = Limit => i.last = Limit
      /\ i.first /= Limit => i.first < i.pos /\ i.last = i.pos - 1
  BY ThreadsAssumption DEF ThreadsAssumption, NotesRight
<1>3. i.pos \in Nat /\ i.end \in Nat /\ i.first \in Nat /\ i.last \in Nat
  BY <1>2 DEF Note
<1>4. c \in Nat \X Nat
  BY <1>3 DEF Mine
<1>5. /\ i.first /= i.last => c = <<i.first, i.end>> /\ size = Insight!Length(c) /\ size >= 2 /\ size <= Limit
      /\ i.first = i.last => Insight!Length(c) < 2
  <2>1. CASE i.first = Limit
    BY <1>1, <1>2, <1>3, <2>1 DEF Mine, Insight!Length
  <2>2. CASE i.first /= Limit
    <3>1. c = <<i.first, i.end>> /\ size = i.end - i.first /\ i.last = i.end - 1
      BY <1>1, <1>2, <1>3, <2>2 DEF Mine
    <3>2. Insight!Length(c) = i.end - i.first
      BY <3>1 DEF Insight!Length
    <3>3. QED BY <1>1, <1>2, <1>3, <2>2, <3>1, <3>2
  <2>3. QED BY <2>1, <2>2
<1>6. InsightTypes'
  <2>1. inspector' \in [Worker -> Note]
    <3>1. Insight!None \in Note
      BY <1>2 DEF Insight!None, Note
    <3>2. QED BY <1>1, <3>1
  <2>2. DOMAIN id_map' \subseteq Worker /\ \A x \in DOMAIN id_map' : id_map'[x] \in ChunkData
    <3>1. CASE i.first = i.last
      BY <1>1, <3>1
    <3>2. CASE i.first /= i.last
      <4>1. size \in Nat
        BY <1>3, <1>5, <3>2
      <4>2. QED BY <1>1, <3>2, <4>1, Added
    <3>3. QED BY <3>1, <3>2
  <2>3. QED BY <1>1, <2>1, <2>2
<1>7. NotesRight'
  <2> SUFFICES ASSUME NEW x \in Worker
               PROVE  /\ inspector'[x].pos <= inspector'[x].end /\ inspector'[x].end <= begin'
                      /\ ~inspector'[x].live => inspector'[x] = Insight!None
                      /\ inspector'[x].first = Limit => inspector'[x].last = Limit
                      /\ inspector'[x].first /= Limit =>
                           inspector'[x].first < inspector'[x].pos /\ inspector'[x].last = inspector'[x].pos - 1
    BY DEF NotesRight, Insight!None
  <2>1. CASE x = w
    BY <1>1, <1>2, <2>1 DEF Insight!None
  <2>2. CASE x /= w
    BY <1>1, <2>2 DEF NotesRight
  <2>3. QED BY <2>1, <2>2
<1>8. Mine(w)' = <<0, 0>> /\ \A x \in Worker : x /= w => Mine(x)' = Mine(x)
  BY <1>1, <1>2 DEF Mine, Insight!None
<1>9. ChunksApart'
  <2> SUFFICES ASSUME NEW x \in Worker
               PROVE  Mine(x)'[1] < Mine(x)'[2] => Mine(x)' \in chunks'[x]
    BY <1>1 DEF ChunksApart, Apart
  <2>1. CASE x = w
    BY <1>8, <2>1
  <2>2. CASE x /= w
    BY <1>1, <1>8, <2>2 DEF ChunksApart
  <2>3. QED BY <2>1, <2>2
<1>10. \A x \in Worker : Long(x)' = Long(x)
  BY <1>1 DEF Long, Insight!Length
<1>11. AllTold'
  <2> SUFFICES ASSUME NEW x \in Worker PROVE Insight!Tells(id_map', x, Long(x)' \ {Mine(x)'})
    BY DEF AllTold, Insight!Tells
  <2>1. CASE x /= w
    <3>1. Insight!Tells(id_map, x, Long(x) \ {Mine(x)})
      BY DEF AllTold
    <3>2. Insight!Tells(Insight!Add(id_map, w, size), x, Long(x) \ {Mine(x)})
      BY <2>1, <3>1, OthersTold
    <3>3. QED BY <1>1, <1>8, <1>10, <2>1, <3>1, <3>2
  <2>2. CASE x = w
    <3>1. <<0, 0>> \notin Long(w)
      BY DEF ChunksApart, Long
    <3>2. Long(w)' \ {Mine(w)'} = Long(w)
      BY <1>8, <1>10, <3>1
    <3>3. Insight!Tells(id_map, w, Long(w) \ {c})
      BY DEF AllTold
    <3>4. CASE i.first = i.last
      <4>1. c \notin Long(w)
        BY <1>4, <1>5, <3>4 DEF Long, Insight!Length
      <4>2. Long(w) \ {c} = Long(w)
        BY <4>1
      <4>3. QED BY <1>1, <2>2, <3>2, <3>3, <3>4, <4>2
    <3>5. CASE i.first /= i.last
      <4>1. c[1] < c[2] /\ Insight!Length(c) >= 2 /\ Insight!Length(c) <= Limit
        BY <1>3, <1>4, <1>5, <3>5 DEF Insight!Length
      <4>2. c \in Long(w)
        BY <4>1 DEF ChunksApart, Long
      <4>3. (Long(w) \ {c}) \cup {c} = Long(w) /\ c \notin Long(w) \ {c}
        BY <4>2
      <4>4. Long(w) \ {c} \in SUBSET (Nat \X Nat)
        BY DEF Long
      <4>5. IsFiniteSet(Long(w) \ {c})
        BY FS_Subset DEF ChunksApart, Long
      <4>6. \A d \in Long(w) \ {c} : Apart(c, d)
        BY <4>2 DEF ChunksApart, Long
      <4>7. Insight!Tells(Insight!Add(id_map, w, Insight!Length(c)), w, (Long(w) \ {c}) \cup {c})
        BY <1>4, <3>3, <4>1, <4>3, <4>4, <4>5, <4>6, OneMoreTold
      <4>8. QED BY <1>1, <1>5, <2>2, <3>2, <3>5, <4>3, <4>7
    <3>6. QED BY <3>4, <3>5
  <2>3. QED BY <2>1, <2>2
<1>12. QED BY <1>6, <1>7, <1>9, <1>11

LEMMA InsightKept == InsightInv /\ [Insight!Next]_insightVars => InsightInv'
<1> SUFFICES ASSUME InsightInv, [Insight!Next]_insightVars PROVE InsightInv'
  OBVIOUS
<1>1. CASE UNCHANGED insightVars
  BY <1>1 DEF insightVars, InsightInv, InsightTypes, NotesRight, ChunksApart, AllTold, Long, Mine,
              Insight!Length, Insight!Tells
<1>2. QED BY <1>1, CopyKeeps, InspectKeeps, DestroyKeeps DEF Insight!Next, Insight!vars, insightVars

\* A set of numbers that is not empty has a least one.
LEMMA LeastIs ==
  ASSUME NEW S \in SUBSET Nat, S /= {}
  PROVE  Insight!Min(S) \in S /\ \A y \in S : Insight!Min(S) <= y
<1>1. PICK x \in S : \A y \in S : ~(<<y, x>> \in OpToRel(<, Nat))
  BY NatLessThanWellFounded, WFMin
<1>2. \A y \in S : ~(y < x)
  BY <1>1 DEF OpToRel
<1>3. \A y \in S : x <= y
  BY <1>2
<1>4. \E m \in S : \A y \in S : m <= y
  BY <1>3
<1>5. Insight!Min(S) = CHOOSE m \in S : \A y \in S : m <= y
  BY DEF Insight!Min
<1>6. QED BY <1>4, <1>5, Zenon

LEMMA InsightMeans == InsightInv => Insight!Inspected
<1> SUFFICES ASSUME InsightInv, Insight!Ended PROVE Insight!Inspected
  BY DEF Insight!Inspected
<1> USE DEF InsightInv, InsightTypes
<1>1. ASSUME NEW w \in Worker PROVE Insight!Tells(id_map, w, Long(w))
  <2>1. Mine(w) = <<0, 0>>
    BY ThreadsAssumption DEF ThreadsAssumption, Insight!Ended, NotesRight, Insight!None, Mine
  <2>2. <<0, 0>> \notin Long(w)
    BY DEF ChunksApart, Long
  <2>3. Long(w) \ {Mine(w)} = Long(w)
    BY <2>1, <2>2
  <2>4. QED BY <2>3 DEF AllTold
<1>2. ASSUME NEW w \in DOMAIN id_map
      PROVE  /\ w \in Worker /\ id_map[w].call_count = Cardinality(Long(w)) /\ Long(w) /= {}
             /\ \E c \in Long(w) : Insight!Length(c) = id_map[w].min_size
             /\ \E c \in Long(w) : Insight!Length(c) = id_map[w].max_size
  BY <1>1, SameSizes DEF Insight!Tells
<1>3. ASSUME NEW w \in DOMAIN id_map
      PROVE  /\ id_map[w].call_count \in Nat /\ id_map[w].call_count > 0
             /\ id_map[w].min_size \in Nat /\ id_map[w].min_size >= 2
             /\ id_map[w].max_size \in Nat
             /\ \E c \in chunks[w] : Insight!Length(c) = id_map[w].max_size
  <2>1. id_map[w] \in ChunkData
    OBVIOUS
  <2>2. IsFiniteSet(Long(w))
    BY <1>2, FS_Subset DEF ChunksApart, Long
  <2>3. id_map[w].call_count /= 0
    BY <1>2, <2>2, FS_EmptySet
  <2>4. \A c \in Long(w) : c \in chunks[w] /\ Insight!Length(c) >= 2
    BY DEF Long
  <2>5. QED BY <1>2, <2>1, <2>3, <2>4 DEF ChunkData
<1>4. ASSUME Insight!Entries /= {} PROVE Insight!chunk_count > 0
  <2> DEFINE calls == [w \in DOMAIN id_map |-> {w} \X (1 .. id_map[w].call_count)]
             T == {calls[w] : w \in DOMAIN id_map}
  <2>1. PICK w \in DOMAIN id_map : TRUE
    BY <1>4 DEF Insight!Entries
  <2>2. <<w, 1>> \in UNION T
    BY <1>3
  <2>3. IsFiniteSet(DOMAIN id_map)
    BY ThreadsAssumption, FS_Subset DEF ThreadsAssumption
  <2>4. calls \in Surjection(DOMAIN id_map, T)
    BY DEF Surjection
  <2>5. IsFiniteSet(T)
    BY <2>3, <2>4, FS_Surjection
  <2>6. ASSUME NEW v \in DOMAIN id_map PROVE IsFiniteSet(calls[v])
    <3>1. id_map[v].call_count \in Int /\ 1 \in Int
      BY <1>3
    <3>2. IsFiniteSet({v}) /\ IsFiniteSet(1 .. id_map[v].call_count)
      BY <3>1, FS_Singleton, FS_Interval
    <3>3. IsFiniteSet({v} \X (1 .. id_map[v].call_count))
      BY <3>2, FS_Product
    <3>4. QED BY <3>3
  <2>7. IsFiniteSet(UNION T)
    BY <2>5, <2>6, FS_UNION
  <2>8. Cardinality(UNION T) \in Nat /\ Cardinality(UNION T) /= 0
    BY <2>2, <2>7, FS_CardinalityType, FS_EmptySet
  <2>9. Insight!chunk_count = Cardinality(UNION T)
    BY SameSizes DEF Insight!chunk_count
  <2>10. QED BY <2>8, <2>9, SMT
<1>5. ASSUME Insight!Entries /= {} PROVE Insight!min_chunk_size >= 2
  <2> DEFINE S == {d.min_size : d \in Insight!Entries}
  <2>1. S \in SUBSET Nat /\ S /= {} /\ \A n \in S : n >= 2
    BY <1>3, <1>5 DEF Insight!Entries
  <2>2. Insight!Min(S) \in S
    BY <2>1, LeastIs
  <2>3. QED BY <2>1, <2>2 DEF Insight!min_chunk_size
<1>6. ASSUME NEW w \in DOMAIN id_map
      PROVE  \E chunk \in chunks[w] : Insight!Length(chunk) >= Insight!max_chunk_size
  <2> DEFINE S == {d.max_size : d \in Insight!Entries}
  <2>1. S \in SUBSET Nat /\ id_map[w].max_size \in S
    BY <1>3 DEF Insight!Entries
  <2>2. Insight!Min(S) \in Nat /\ Insight!Min(S) <= id_map[w].max_size
    BY <2>1, LeastIs
  <2>3. PICK c \in chunks[w] : Insight!Length(c) = id_map[w].max_size
    BY <1>3
  <2>4. QED BY <1>3, <2>2, <2>3 DEF Insight!max_chunk_size
<1>7. QED BY <1>1, <1>4, <1>5, <1>6 DEF Insight!Inspected, Long

\* However the range is cut and whoever takes the chunks: when the transform
\* has returned, the entry of each thread tells of all its chunks of two
\* elements and more and of no other, and main's statistics of the entries are
\* defined (parallel_insight.cpp:74-96, 165-204).
THEOREM ChunksTold == MCSpec => []Inspected
<1>1. MCInit => InsightInv
  BY InsightInit DEF MCInit
<1>2. InsightInv /\ [MCNext]_demoVars => InsightInv'
  BY StepOfOne, InsightKept
<1>3. InsightInv => Inspected
  BY InsightMeans DEF Inspected
<1>4. QED BY <1>1, <1>2, <1>3, PTL DEF MCSpec

-----------------------------------------------------------------------------
Operation == [op : {"load", "store", "add", "lock", "unlock"}, var : Races!Var, mul : Nat, plus : Nat]

Todo(t) == Len(rest[t])

\* The operation of t with m left to do, that one included.
OpAt(prog, t, m) == Races!Code(prog)[t][Len(Races!Code(prog)[t]) - m + 1]

\* What a thread has to do is the end of its code.
Progress ==
  /\ program \in Races!Programs
  /\ Races!Code(program) \in [Races!Thread -> Seq(Operation)]
  /\ rest \in [Races!Thread -> Seq(Operation)]
  /\ \A t \in Races!Thread : Todo(t) <= Len(Races!Code(program)[t])
  /\ \A t \in Races!Thread : \A j \in 1 .. Todo(t) : rest[t][j] = OpAt(program, t, Todo(t) - j + 1)

\* What an operation does.
Does(t, o) ==
  \/ o.op = "load" /\ reg' = [reg EXCEPT ![t] = mem[o.var]] /\ UNCHANGED <<mem, ru_mutex>>
  \/ o.op = "store" /\ mem' = [mem EXCEPT ![o.var] = o.mul * reg[t] + o.plus] /\ UNCHANGED <<reg, ru_mutex>>
  \/ o.op = "add" /\ mem' = [mem EXCEPT ![o.var] = o.mul * reg[t] + o.plus + @] /\ UNCHANGED <<reg, ru_mutex>>
  \/ o.op = "lock" /\ ru_mutex = NoThread /\ ru_mutex' = t /\ UNCHANGED <<reg, mem>>
  \/ o.op = "unlock" /\ ru_mutex' = NoThread /\ UNCHANGED <<reg, mem>>

NumbersOf == reg \in [Races!Thread -> Nat] /\ mem \in [Races!Var -> Nat]

LEMMA RepeatIs ==
  ASSUME NEW n \in Nat, NEW code \in Seq(Operation), code /= << >>
  PROVE  /\ Races!Repeat(n, code) \in Seq(Operation)
         /\ Len(Races!Repeat(n, code)) = n * Len(code)
         /\ \A i \in 1 .. n * Len(code) : Races!Repeat(n, code)[i] = code[((i - 1) % Len(code)) + 1]
<1> DEFINE l == Len(code)
<1>1. l \in Nat /\ l > 0 /\ n * l \in Nat
  BY LenProperties, EmptySeq
<1>2. \A i \in 1 .. n * l : ((i - 1) % l) + 1 \in 1 .. l
  BY <1>1
<1>3. \A i \in 1 .. n * l : code[((i - 1) % l) + 1] \in Operation
  BY <1>2, ElementOfSeq
<1>4. Races!Repeat(n, code) = [i \in 1 .. n * l |-> code[((i - 1) % l) + 1]]
  BY DEF Races!Repeat
<1>5. QED BY <1>1, <1>3, <1>4

LEMMA NumbersKept ==
  ASSUME NumbersOf, NEW t \in Races!Thread, NEW o \in Operation, Does(t, o)
  PROVE  NumbersOf'
<1>1. reg[t] \in Nat /\ mem[o.var] \in Nat /\ o.mul \in Nat /\ o.plus \in Nat
  BY DEF NumbersOf, Operation
<1>2. \A x, y \in Nat : x * y \in Nat /\ x + y \in Nat
  OBVIOUS
<1>3. o.mul * reg[t] + o.plus \in Nat
  BY <1>1, <1>2
<1>4. o.mul * reg[t] + o.plus + mem[o.var] \in Nat
  BY <1>1, <1>2, <1>3
<1> DEFINE value == o.mul * reg[t] + o.plus
<1> HIDE DEF value
<1>5. value \in Nat /\ value + mem[o.var] \in Nat
  BY <1>3, <1>4 DEF value
<1>6. \/ reg' = [reg EXCEPT ![t] = mem[o.var]] /\ UNCHANGED mem
      \/ mem' = [mem EXCEPT ![o.var] = value] /\ UNCHANGED reg
      \/ mem' = [mem EXCEPT ![o.var] = value + mem[o.var]] /\ UNCHANGED reg
      \/ UNCHANGED <<reg, mem>>
  BY DEF Does, value, NumbersOf
<1>7. QED BY <1>1, <1>5, <1>6 DEF NumbersOf

LEMMA StepDoes ==
  ASSUME Progress, NumbersOf, NEW t \in Races!Thread, Races!Step(t)
  PROVE  /\ Todo(t) \in Nat /\ Todo(t) > 0 /\ Todo(t)' = Todo(t) - 1
         /\ \A u \in Races!Thread : u /= t => Todo(u)' = Todo(u)
         /\ UNCHANGED program /\ Progress' /\ NumbersOf'
         /\ Does(t, OpAt(program, t, Todo(t)))
<1> USE DEF Progress, Todo
<1>1. /\ rest[t] /= << >> /\ rest' = [rest EXCEPT ![t] = Tail(@)] /\ UNCHANGED program
      /\ rest[t] \in Seq(Operation)
  BY DEF Races!Step
<1>2. /\ Tail(rest[t]) \in Seq(Operation) /\ Len(Tail(rest[t])) = Len(rest[t]) - 1
      /\ \A i \in 1 .. Len(Tail(rest[t])) : Tail(rest[t])[i] = rest[t][i + 1]
      /\ Len(rest[t]) \in Nat /\ Len(rest[t]) > 0 /\ Head(rest[t]) = rest[t][1]
  BY <1>1, HeadTailProperties, LenProperties, EmptySeq
<1>3. rest'[t] = Tail(rest[t]) /\ \A u \in Races!Thread : u /= t => rest'[u] = rest[u]
  BY <1>1
<1>4. Head(rest[t]) = OpAt(program, t, Todo(t))
  BY <1>2
<1>5. Does(t, Head(rest[t]))
  <2> DEFINE o == Head(rest[t])
             value == o.mul * reg[t] + o.plus
  <2>1. o \in Operation
    BY <1>1, <1>2, HeadTailProperties
  <2>2. reg[t] \in Nat /\ o.mul \in Nat /\ o.plus \in Nat
    BY <2>1 DEF NumbersOf, Operation
  <2>3. value \in Nat /\ value + 0 = value
    <3>1. \A x, y \in Nat : x * y \in Nat
      OBVIOUS
    <3>2. o.mul * reg[t] \in Nat
      BY <2>2, <3>1
    <3> HIDE DEF o
    <3>3. \A x \in Nat : x + o.plus \in Nat /\ (x + o.plus) + 0 = x + o.plus
      BY <2>2
    <3>4. QED BY <3>2, <3>3
  <2>4. \/ o.op = "load" /\ reg' = [reg EXCEPT ![t] = mem[o.var]] /\ UNCHANGED <<mem, ru_mutex>>
        \/ /\ o.op \in {"store", "add"} /\ UNCHANGED <<reg, ru_mutex>>
           /\ mem' = [mem EXCEPT ![o.var] = value + IF o.op = "add" THEN @ ELSE 0]
        \/ o.op = "lock" /\ ru_mutex = NoThread /\ ru_mutex' = t /\ UNCHANGED <<reg, mem>>
        \/ o.op = "unlock" /\ ru_mutex' = NoThread /\ UNCHANGED <<reg, mem>>
    BY DEF Races!Step, Races!Value
  <2> HIDE DEF o, value
  <2>5. o.op = "store" => (value + IF o.op = "add" THEN mem[o.var] ELSE 0) = value
    BY <2>3
  <2>6. o.op = "add" => (value + IF o.op = "add" THEN mem[o.var] ELSE 0) = value + mem[o.var]
    OBVIOUS
  <2>7. Does(t, o)
    BY <2>4, <2>5, <2>6 DEF Does, value
  <2>8. QED BY <2>7 DEF o
<1>6. \A i \in 1 .. Todo(t)' : rest'[t][i] = OpAt(program, t, Todo(t)' - i + 1)
  <2> SUFFICES ASSUME NEW i \in 1 .. Todo(t) - 1 PROVE rest[t][i + 1] = OpAt(program, t, (Todo(t) - 1) - i + 1)
    BY <1>2, <1>3
  <2>1. i + 1 \in 1 .. Todo(t) /\ Todo(t) - (i + 1) + 1 = (Todo(t) - 1) - i + 1
    BY <1>2
  <2>2. QED BY <2>1
<1>7. Progress'
  <2>1. rest' \in [Races!Thread -> Seq(Operation)]
    BY <1>1, <1>2
  <2>2. \A u \in Races!Thread : \A j \in 1 .. Todo(u)' : rest'[u][j] = OpAt(program, u, Todo(u)' - j + 1)
    BY <1>3, <1>6
  <2>3. \A u \in Races!Thread : Todo(u)' <= Len(Races!Code(program)[u])
    <3>1. Len(Races!Code(program)[t]) \in Nat
      BY LenProperties
    <3>2. QED BY <1>2, <1>3
  <2>4. QED BY <1>1, <2>1, <2>2, <2>3 DEF OpAt
<1>8. NumbersOf'
  <2>1. Head(rest[t]) \in Operation
    BY <1>1, <1>2, HeadTailProperties
  <2>2. QED BY <1>5, <2>1, NumbersKept
<1>9. QED BY <1>1, <1>2, <1>3, <1>4, <1>5, <1>7, <1>8

-----------------------------------------------------------------------------
\* The code of the threads, an operation at each place.
LEMMA ThreadsAre ==
  ASSUME NEW S, NEW c1 \in S, NEW c2 \in S, NEW c3 \in S
  PROVE  Races!Threads(c1, c2, c3) \in [Races!Thread -> S]
BY DEF Races!Threads, Races!Thread

LEMMA OperationsAre ==
  /\ \A v \in Races!Var : Races!Load(v) \in Operation
  /\ \A v \in Races!Var, m, n \in Nat : Races!Store(v, m, n) \in Operation /\ Races!Add(v, m, n) \in Operation
  /\ Races!Lock \in Operation /\ Races!Unlock \in Operation
BY DEF Races!Load, Races!Store, Races!Add, Races!Lock, Races!Unlock, Operation, Races!Var

\* t1 and t2 do this over and over, with the mutex.
LEMMA LockedCode ==
  ASSUME NEW prog \in {"mutex", "good_way", "bad_way"}
  PROVE  /\ Races!Code(prog) \in [Races!Thread -> Seq(Operation)] /\ Races!Code(prog)["t3"] = << >>
         /\ \A t \in {"t1", "t2"} :
              /\ Len(Races!Code(prog)[t]) = 4 * count
              /\ \A m \in 1 .. 4 * count :
                   OpAt(prog, t, m) = CASE m % 4 = 0 -> Races!Lock
                                        [] m % 4 = 3 -> Races!Load("a")
                                        [] m % 4 = 2 -> Races!Store("a", 1, 1)
                                        [] m % 4 = 1 -> Races!Unlock
<1> DEFINE four == <<Races!Lock, Races!Load("a"), Races!Store("a", 1, 1), Races!Unlock>>
           push == <<Races!Lock>> \o Races!PushBack \o <<Races!Unlock>>
           body == IF prog = "mutex" THEN four ELSE push
           code == Races!Repeat(count, body)
<1>0. Races!Load("a") \in Operation /\ Races!Store("a", 1, 1) \in Operation
  BY OperationsAre DEF Races!Var
<1>1. four \in Seq(Operation) /\ Len(four) = 4
  BY <1>0, OperationsAre
<1>2. /\ push \in Seq(Operation) /\ Len(push) = 4
      /\ push[1] = four[1] /\ push[2] = four[2] /\ push[3] = four[3] /\ push[4] = four[4]
  <2> DEFINE s1 == <<Races!Lock>>
             s2 == <<Races!Load("a"), Races!Store("a", 1, 1)>>
             s3 == <<Races!Unlock>>
  <2>1. /\ s1 \in Seq(Operation) /\ s2 \in Seq(Operation) /\ s3 \in Seq(Operation)
        /\ Len(s1) = 1 /\ Len(s2) = 2 /\ Len(s3) = 1
        /\ s1[1] = four[1] /\ s2[1] = four[2] /\ s2[2] = four[3] /\ s3[1] = four[4]
    BY <1>0, OperationsAre
  <2>2. push = (s1 \o s2) \o s3
    BY DEF Races!PushBack
  <2> HIDE DEF s1, s2, s3, push, four
  <2>3. /\ s1 \o s2 \in Seq(Operation) /\ Len(s1 \o s2) = 3
        /\ (s1 \o s2)[1] = s1[1] /\ (s1 \o s2)[2] = s2[1] /\ (s1 \o s2)[3] = s2[2]
    <3>1. /\ s1 \o s2 \in Seq(Operation) /\ Len(s1 \o s2) = Len(s1) + Len(s2)
          /\ \A i \in 1 .. Len(s1) + Len(s2) : (s1 \o s2)[i] =
               IF i <= Len(s1) THEN s1[i] ELSE s2[i - Len(s1)]
      BY ONLY <2>1, ConcatProperties
    <3> QED BY ONLY <2>1, <3>1
  <2>4. /\ (s1 \o s2) \o s3 \in Seq(Operation) /\ Len((s1 \o s2) \o s3) = 4
        /\ ((s1 \o s2) \o s3)[1] = (s1 \o s2)[1] /\ ((s1 \o s2) \o s3)[2] = (s1 \o s2)[2]
        /\ ((s1 \o s2) \o s3)[3] = (s1 \o s2)[3] /\ ((s1 \o s2) \o s3)[4] = s3[1]
    BY <2>1, <2>3, ConcatProperties
  <2>5. QED BY <2>1, <2>2, <2>3, <2>4
<1>3. Races!Code(prog) = Races!Threads(code, code, << >>)
  BY DEF Races!Code, Races!Mutex, Races!GoodWay, Races!BadWay
<1>4. count \in Nat /\ count * 4 = 4 * count
  BY ThreadsAssumption DEF ThreadsAssumption
<1> HIDE DEF push
<1>9. /\ body \in Seq(Operation) /\ Len(body) = 4 /\ body /= << >>
      /\ \A i \in 1 .. 4 : body[i] = four[i]
  <2>1. \A i \in 1 .. 4 : i = 1 \/ i = 2 \/ i = 3 \/ i = 4
    OBVIOUS
  <2> HIDE DEF four
  <2>2. \A i \in 1 .. 4 : push[i] = four[i]
    BY <1>2, <2>1
  <2>3. body \in Seq(Operation) /\ Len(body) = 4
    BY <1>1, <1>2
  <2>4. QED BY <2>2, <2>3, EmptySeq
<1> HIDE DEF body
<1>5. /\ code \in Seq(Operation) /\ Len(code) = 4 * count
      /\ \A i \in 1 .. 4 * count : code[i] = body[((i - 1) % 4) + 1]
  <2>1. /\ code \in Seq(Operation) /\ Len(code) = count * Len(body)
        /\ \A i \in 1 .. count * Len(body) : code[i] = body[((i - 1) % Len(body)) + 1]
    BY <1>4, <1>9, RepeatIs
  <2>2. count * Len(body) = 4 * count
    BY <1>4, <1>9
  <2>3. QED BY <1>9, <2>1, <2>2
<1> HIDE DEF code
<1>6. ASSUME NEW m \in 1 .. 4 * count
      PROVE  code[4 * count - m + 1] = CASE m % 4 = 0 -> Races!Lock
                                         [] m % 4 = 3 -> Races!Load("a")
                                         [] m % 4 = 2 -> Races!Store("a", 1, 1)
                                         [] m % 4 = 1 -> Races!Unlock
  <2>1. 4 * count - m + 1 \in 1 .. 4 * count /\ (4 * count - m + 1) - 1 = 4 * count - m
    BY <1>4
  <2>2. (4 * count - m) % 4 = IF m % 4 = 0 THEN 0 ELSE 4 - (m % 4)
    BY <1>4
  <2>3. m % 4 \in 0 .. 3 /\ (4 * count - m) % 4 \in 0 .. 3
    BY <1>4
  <2>4. code[4 * count - m + 1] = four[((4 * count - m) % 4) + 1]
    BY <1>5, <1>9, <2>1, <2>3
  <2>5. CASE m % 4 = 0
    BY <2>2, <2>4, <2>5
  <2>6. CASE m % 4 = 3
    BY <2>2, <2>4, <2>6
  <2>7. CASE m % 4 = 2
    BY <2>2, <2>4, <2>7
  <2>8. CASE m % 4 = 1
    BY <2>2, <2>4, <2>8
  <2>9. QED BY <2>3, <2>5, <2>6, <2>7, <2>8
<1>7. Races!Code(prog) \in [Races!Thread -> Seq(Operation)]
  <2>1. << >> \in Seq(Operation)
    BY EmptySeq
  <2>2. code \in Seq(Operation)
    BY <1>5
  <2>3. Races!Threads(code, code, << >>) \in [Races!Thread -> Seq(Operation)]
    BY ONLY <2>1, <2>2, ThreadsAre
  <2>4. QED BY <1>3, <2>3
<1>8. QED
  <2>1. \A t \in {"t1", "t2"} : Races!Code(prog)[t] = code
    BY <1>3 DEF Races!Threads
  <2>2. Races!Code(prog)["t3"] = << >>
    BY <1>3 DEF Races!Threads
  <2>3. QED BY <1>5, <1>6, <1>7, <2>1, <2>2 DEF OpAt

\* t1 and t2 read and write over and over.
LEMMA NaiveCode ==
  /\ Races!Code("naive") \in [Races!Thread -> Seq(Operation)] /\ Races!Code("naive")["t3"] = << >>
  /\ \A t \in {"t1", "t2"} :
       /\ Len(Races!Code("naive")[t]) = 2 * count
       /\ \A m \in 1 .. 2 * count :
            OpAt("naive", t, m) = IF m % 2 = 0 THEN Races!Load("a") ELSE Races!Store("a", 1, 1)
<1> DEFINE body == <<Races!Load("a"), Races!Store("a", 1, 1)>>
           code == Races!Repeat(count, body)
<1>1. Races!Load("a") \in Operation /\ Races!Store("a", 1, 1) \in Operation
  BY OperationsAre DEF Races!Var
<1>2. body \in Seq(Operation) /\ Len(body) = 2 /\ body /= << >>
  BY <1>1
<1>3. Races!Code("naive") = Races!Threads(code, code, << >>)
  BY DEF Races!Code, Races!Naive
<1>4. count \in Nat /\ count * 2 = 2 * count
  BY ThreadsAssumption DEF ThreadsAssumption
<1> HIDE DEF body
<1>5. /\ code \in Seq(Operation) /\ Len(code) = count * Len(body)
      /\ \A i \in 1 .. count * Len(body) : code[i] = body[((i - 1) % Len(body)) + 1]
  BY <1>2, <1>4, RepeatIs
<1>6. /\ Len(code) = 2 * count
      /\ \A i \in 1 .. 2 * count : code[i] = body[((i - 1) % 2) + 1]
  BY <1>2, <1>4, <1>5
<1> HIDE DEF code
<1>7. ASSUME NEW m \in 1 .. 2 * count
      PROVE  code[2 * count - m + 1] = IF m % 2 = 0 THEN Races!Load("a") ELSE Races!Store("a", 1, 1)
  <2>1. 2 * count - m + 1 \in 1 .. 2 * count /\ (2 * count - m + 1) - 1 = 2 * count - m
    BY <1>4
  <2>2. (2 * count - m) % 2 = m % 2 /\ m % 2 \in {0, 1}
    BY <1>4
  <2>3. code[2 * count - m + 1] = body[((2 * count - m) % 2) + 1]
    BY <1>6, <2>1
  <2>4. QED BY <2>2, <2>3 DEF body
<1>8. Races!Code("naive") \in [Races!Thread -> Seq(Operation)]
  <2>1. << >> \in Seq(Operation) /\ code \in Seq(Operation)
    BY <1>5, EmptySeq DEF code
  <2>2. Races!Threads(code, code, << >>) \in [Races!Thread -> Seq(Operation)]
    BY ONLY <2>1, ThreadsAre
  <2>3. QED BY <1>3, <2>2
<1>9. /\ \A t \in {"t1", "t2"} : Races!Code("naive")[t] = code
      /\ Races!Code("naive")["t3"] = << >>
  BY <1>3 DEF Races!Threads
<1>10. QED BY <1>6, <1>7, <1>8, <1>9 DEF OpAt

LEMMA OnesAre ==
  ASSUME NEW n \in Nat
  PROVE  LET code == Races!Repeat(n, <<Races!Add("a", 0, 1)>>) IN
         /\ code \in Seq(Operation) /\ Len(code) = n
         /\ \A i \in 1 .. n : code[i] = Races!Add("a", 0, 1)
<1> DEFINE body == <<Races!Add("a", 0, 1)>>
           code == Races!Repeat(n, body)
<1>1. Races!Add("a", 0, 1) \in Operation
  BY OperationsAre DEF Races!Var
<1>2. body \in Seq(Operation) /\ Len(body) = 1 /\ body /= << >> /\ body[1] = Races!Add("a", 0, 1)
  BY <1>1
<1> HIDE DEF body
<1>3. /\ code \in Seq(Operation) /\ Len(code) = n * Len(body)
      /\ \A i \in 1 .. n * Len(body) : code[i] = body[((i - 1) % Len(body)) + 1]
  BY <1>2, RepeatIs
<1>4. n * Len(body) = n
  BY <1>2
<1>5. \A i \in 1 .. n : (i - 1) % 1 = 0
  OBVIOUS
<1>6. QED BY <1>2, <1>3, <1>4, <1>5 DEF body

\* The even elements of data and the odd ones are all of them.
LEMMA Parities ==
  LET of(b) == Races!Cardinality({i \in DOMAIN Races!data : Races!data[i] % 2 = b}) IN
  of(0) \in Nat /\ of(1) \in Nat /\ of(0) + of(1) = Len(Races!data)
<1> DEFINE E(b) == {i \in DOMAIN Races!data : Races!data[i] % 2 = b}
<1>1. \A S : Races!Cardinality(S) = Cardinality(S)
  BY DEF Races!Cardinality, Cardinality
<1>2. DOMAIN Races!data = 1 .. 7 /\ Len(Races!data) = 7 /\ \A i \in 1 .. 7 : Races!data[i] \in Nat
  BY DEF Races!data
<1>3. E(0) \cup E(1) = 1 .. 7 /\ E(0) \cap E(1) = {}
  BY <1>2
<1>4. IsFiniteSet(1 .. 7) /\ Cardinality(1 .. 7) = 7
  <2>1. 1 \in Int /\ 7 \in Int /\ ~(1 > 7) /\ 7 - 1 + 1 = 7
    OBVIOUS
  <2>2. Cardinality(1 .. 7) = IF 1 > 7 THEN 0 ELSE 7 - 1 + 1
    BY ONLY <2>1, FS_Interval
  <2>3. IsFiniteSet(1 .. 7)
    BY ONLY <2>1, FS_Interval
  <2>4. QED BY <2>1, <2>2, <2>3
<1>5. IsFiniteSet(E(0)) /\ IsFiniteSet(E(1))
  BY <1>3, <1>4, FS_Subset
<1> HIDE DEF E
<1>6. Cardinality(E(0)) \in Nat /\ Cardinality(E(1)) \in Nat
  BY <1>5, FS_CardinalityType
<1>7. Cardinality(E(0) \cup E(1)) = Cardinality(E(0)) + Cardinality(E(1)) - Cardinality({})
  BY <1>3, <1>5, FS_Union
<1>8. Cardinality(E(0)) + Cardinality(E(1)) = 7
  <2>1. Cardinality(E(0) \cup E(1)) = 7 /\ Cardinality({}) = 0
    BY <1>3, <1>4, FS_EmptySet
  <2>2. QED BY <1>6, <1>7, <2>1
<1>9. QED BY <1>1, <1>2, <1>6, <1>8 DEF E

\* t1 and t2 add one over and over, so often that all is counted.
LEMMA AtomicCode ==
  ASSUME NEW prog \in {"atomic", "atomic_ref"}
  PROVE  /\ Races!Code(prog) \in [Races!Thread -> Seq(Operation)] /\ Races!Code(prog)["t3"] = << >>
         /\ \A t \in {"t1", "t2"} : \A m \in 1 .. Len(Races!Code(prog)[t]) :
              OpAt(prog, t, m) = Races!Add("a", 0, 1)
         /\ Len(Races!Code(prog)["t1"]) + Len(Races!Code(prog)["t2"]) =
              IF prog = "atomic" THEN 2 * count ELSE Len(Races!data)
<1> DEFINE of(b) == Races!Cardinality({i \in DOMAIN Races!data : Races!data[i] % 2 = b})
           n1 == IF prog = "atomic" THEN count ELSE of(0)
           n2 == IF prog = "atomic" THEN count ELSE of(1)
           c1 == Races!Repeat(n1, <<Races!Add("a", 0, 1)>>)
           c2 == Races!Repeat(n2, <<Races!Add("a", 0, 1)>>)
<1>1. Races!Code(prog) = Races!Threads(c1, c2, << >>)
  BY DEF Races!Code, Races!Atomic, Races!AtomicRef
<1>2. count \in Nat /\ count + count = 2 * count
  BY ThreadsAssumption DEF ThreadsAssumption
<1>3. of(0) \in Nat /\ of(1) \in Nat /\ of(0) + of(1) = Len(Races!data)
  BY Parities
<1> HIDE DEF of
<1>4. n1 \in Nat /\ n2 \in Nat /\ n1 + n2 = IF prog = "atomic" THEN 2 * count ELSE Len(Races!data)
  BY <1>2, <1>3
<1> HIDE DEF n1, n2
<1>5. /\ c1 \in Seq(Operation) /\ Len(c1) = n1 /\ \A i \in 1 .. n1 : c1[i] = Races!Add("a", 0, 1)
      /\ c2 \in Seq(Operation) /\ Len(c2) = n2 /\ \A i \in 1 .. n2 : c2[i] = Races!Add("a", 0, 1)
  BY <1>4, OnesAre
<1> HIDE DEF c1, c2
<1>6. Races!Code(prog)["t1"] = c1 /\ Races!Code(prog)["t2"] = c2 /\ Races!Code(prog)["t3"] = << >>
  BY <1>1 DEF Races!Threads
<1>7. Races!Code(prog) \in [Races!Thread -> Seq(Operation)]
  <2>1. << >> \in Seq(Operation)
    BY EmptySeq
  <2>2. Races!Threads(c1, c2, << >>) \in [Races!Thread -> Seq(Operation)]
    BY ONLY <1>5, <2>1, ThreadsAre
  <2>3. QED BY <1>1, <2>2
<1>8. /\ \A m \in 1 .. n1 : n1 - m + 1 \in 1 .. n1
      /\ \A m \in 1 .. n2 : n2 - m + 1 \in 1 .. n2
  BY <1>4
<1>9. QED BY <1>4, <1>5, <1>6, <1>7, <1>8 DEF OpAt

Locked == {"mutex", "good_way", "bad_way"}

\* The stores in the last m operations of a locked loop, and of a naive one.
Stores(m) == (m + 2) \div 4
Writes(m) == (m + 1) \div 2

\* The mutex is with the thread that is not between two rounds; what it has
\* read is what is there; nothing is lost of what was stored.
LockedInv ==
  /\ \A t \in Races!Thread : ru_mutex = t <=> Todo(t) % 4 /= 0
  /\ \A t \in {"t1", "t2"} : Todo(t) % 4 = 2 => reg[t] = mem["a"]
  /\ mem["a"] + Stores(Todo("t1")) + Stores(Todo("t2")) = 2 * count
  /\ Todo("t3") = 0

\* What is not added yet is still to be done.
AtomicInv ==
  /\ mem["a"] + Todo("t1") + Todo("t2") = IF program = "atomic" THEN 2 * count ELSE Len(Races!data)
  /\ Todo("t3") = 0

\* No number is more than the writes that were made. A number that was written
\* is 1 at least; so is what a thread reads after its first write; and so the
\* last write of all, if it is not the first of its thread, leaves 2 at least.
NaiveInv ==
  /\ mem["a"] + Writes(Todo("t1")) + Writes(Todo("t2")) <= 2 * count
  /\ Writes(Todo("t1")) + Writes(Todo("t2")) < 2 * count => mem["a"] >= 1
  /\ \A t \in {"t1", "t2"} : Todo(t) % 2 = 1 =>
       /\ reg[t] + Writes(Todo("t1")) + Writes(Todo("t2")) <= 2 * count
       /\ Writes(Todo(t)) < count => reg[t] >= 1
  /\ Todo("t1") = 0 /\ Todo("t2") = 0 /\ count >= 2 => mem["a"] >= 2
  /\ Todo("t3") = 0

-----------------------------------------------------------------------------
LEMMA StoresLeft ==
  /\ \A m \in Nat : Stores(m) \in Nat /\ m % 4 \in 0 .. 3
  /\ \A m \in Nat : m > 0 =>
       /\ Stores(m - 1) = IF m % 4 = 2 THEN Stores(m) - 1 ELSE Stores(m)
       /\ (m - 1) % 4 = IF m % 4 = 0 THEN 3 ELSE (m % 4) - 1
  /\ Stores(0) = 0 /\ 0 % 4 = 0
  /\ \A n \in Nat : Stores(4 * n) = n /\ (4 * n) % 4 = 0
BY DEF Stores

LEMMA WritesLeft ==
  /\ \A m \in Nat : Writes(m) \in Nat /\ m % 2 \in 0 .. 1
  /\ \A m \in Nat : m > 0 =>
       /\ Writes(m - 1) = IF m % 2 = 1 THEN Writes(m) - 1 ELSE Writes(m)
       /\ (m - 1) % 2 = 1 - (m % 2)
  /\ Writes(0) = 0 /\ 0 % 2 = 0 /\ Writes(1) = 1
  /\ \A n \in Nat : Writes(2 * n) = n /\ (2 * n) % 2 = 0
BY DEF Writes

LEMMA LockedKept ==
  ASSUME Progress, NumbersOf, program \in Locked, LockedInv, NEW t \in Races!Thread, Races!Step(t)
  PROVE  LockedInv'
<1> DEFINE m == Todo(t)
           o == OpAt(program, t, m)
<1>1. /\ m \in Nat /\ m > 0 /\ Todo(t)' = m - 1 /\ UNCHANGED program
      /\ \A u \in Races!Thread : u /= t => Todo(u)' = Todo(u)
      /\ Does(t, o)
  BY StepDoes
<1>2. t \in {"t1", "t2"} /\ Races!Thread = {"t1", "t2", "t3"}
  BY <1>1 DEF LockedInv, Races!Thread
<1>3. \A u \in Races!Thread : Todo(u) \in Nat
  BY LenProperties DEF Progress, Todo
<1>4. o = CASE m % 4 = 0 -> Races!Lock
            [] m % 4 = 3 -> Races!Load("a")
            [] m % 4 = 2 -> Races!Store("a", 1, 1)
            [] m % 4 = 1 -> Races!Unlock
  <2>1. m <= Len(Races!Code(program)[t])
    BY DEF Progress
  <2>2. Len(Races!Code(program)[t]) = 4 * count
    BY <1>2, LockedCode DEF Locked
  <2>3. m \in 1 .. 4 * count
    BY <1>1, <2>1, <2>2, ThreadsAssumption DEF ThreadsAssumption
  <2>4. QED BY <1>2, <2>3, LockedCode DEF Locked
<1>5. /\ m % 4 \in 0 .. 3 /\ (m - 1) % 4 = IF m % 4 = 0 THEN 3 ELSE (m % 4) - 1
      /\ Stores(m) \in Nat /\ Stores(m - 1) = IF m % 4 = 2 THEN Stores(m) - 1 ELSE Stores(m)
      /\ \A u \in Races!Thread : Stores(Todo(u)) \in Nat
  BY <1>1, <1>3, StoresLeft
<1>6. reg[t] \in Nat /\ mem["a"] \in Nat /\ count \in Nat /\ NoThread \notin Races!Thread
  BY ThreadsAssumption DEF NumbersOf, ThreadsAssumption, Races!Var
<1>7. /\ m % 4 = 0 => ru_mutex = NoThread /\ ru_mutex' = t /\ UNCHANGED <<reg, mem>>
      /\ m % 4 = 3 => reg' = [reg EXCEPT ![t] = mem["a"]] /\ UNCHANGED <<mem, ru_mutex>>
      /\ m % 4 = 2 => mem' = [mem EXCEPT !["a"] = 1 * reg[t] + 1] /\ UNCHANGED <<reg, ru_mutex>>
      /\ m % 4 = 1 => ru_mutex' = NoThread /\ UNCHANGED <<reg, mem>>
  BY <1>1, <1>4 DEF Does, Races!Lock, Races!Unlock, Races!Load, Races!Store
<1> HIDE DEF o
<1>8. mem'["a"] = mem["a"] + IF m % 4 = 2 THEN 1 ELSE 0
  <2>1. CASE m % 4 = 2
    <3>1. mem'["a"] = 1 * reg[t] + 1
      BY <1>7, <2>1 DEF NumbersOf, Races!Var
    <3>2. reg[t] = mem["a"]
      BY <1>2, <2>1 DEF LockedInv
    <3>3. QED BY <1>6, <2>1, <3>1, <3>2
  <2>2. CASE m % 4 /= 2
    <3>1. mem' = mem
      BY <1>5, <1>7, <2>2
    <3>2. QED BY <1>6, <2>2, <3>1
  <2>3. QED BY <2>1, <2>2
<1>9. \A u \in Races!Thread : ru_mutex' = u <=> Todo(u)' % 4 /= 0
  <2>1. \A u \in Races!Thread : u /= t => (ru_mutex' = u <=> Todo(u)' % 4 /= 0)
    <3>1. CASE m % 4 = 0
      BY <1>1, <1>6, <1>7, <3>1 DEF LockedInv
    <3>2. CASE m % 4 = 1
      BY <1>1, <1>6, <1>7, <3>2 DEF LockedInv
    <3>3. CASE m % 4 \in {2, 3}
      BY <1>1, <1>7, <3>3 DEF LockedInv
    <3>4. QED BY <1>5, <3>1, <3>2, <3>3
  <2>2. ru_mutex' = t <=> (m - 1) % 4 /= 0
    <3>1. CASE m % 4 = 0
      BY <1>5, <1>7, <3>1
    <3>2. CASE m % 4 = 1
      BY <1>5, <1>6, <1>7, <3>2
    <3>3. CASE m % 4 \in {2, 3}
      BY <1>5, <1>7, <3>3 DEF LockedInv
    <3>4. QED BY <1>5, <3>1, <3>2, <3>3
  <2>3. QED BY <1>1, <2>1, <2>2
<1>10. ASSUME NEW u \in {"t1", "t2"}, Todo(u)' % 4 = 2 PROVE reg'[u] = mem'["a"]
  <2>1. CASE u = t
    <3>1. m % 4 = 3
      BY <1>1, <1>5, <1>10, <2>1
    <3>2. QED BY <1>7, <2>1, <3>1 DEF NumbersOf
  <2>2. CASE u /= t
    <3>1. Todo(u) % 4 = 2 /\ ru_mutex = u
      BY <1>1, <1>2, <1>10, <2>2 DEF LockedInv
    <3>2. m % 4 = 0
      BY <2>2, <3>1 DEF LockedInv
    <3>3. FALSE
      BY <1>2, <1>6, <1>7, <3>1, <3>2
    <3>4. QED BY <3>3
  <2>3. QED BY <2>1, <2>2
<1>11. mem'["a"] + Stores(Todo("t1")') + Stores(Todo("t2")') = 2 * count
  <2>1. CASE t = "t1"
    BY <1>1, <1>2, <1>5, <1>6, <1>8, <2>1 DEF LockedInv
  <2>2. CASE t = "t2"
    BY <1>1, <1>2, <1>5, <1>6, <1>8, <2>2 DEF LockedInv
  <2>3. QED BY <1>2, <2>1, <2>2
<1>12. Todo("t3")' = 0
  BY <1>1, <1>2 DEF LockedInv
<1>13. QED BY <1>9, <1>10, <1>11, <1>12 DEF LockedInv, Stores

LEMMA AtomicKept ==
  ASSUME Progress, NumbersOf, program \in {"atomic", "atomic_ref"}, AtomicInv,
         NEW t \in Races!Thread, Races!Step(t)
  PROVE  AtomicInv'
<1> DEFINE m == Todo(t)
           o == OpAt(program, t, m)
<1>1. /\ m \in Nat /\ m > 0 /\ Todo(t)' = m - 1 /\ UNCHANGED program
      /\ \A u \in Races!Thread : u /= t => Todo(u)' = Todo(u)
      /\ Does(t, o)
  BY StepDoes
<1>2. t \in {"t1", "t2"} /\ Races!Thread = {"t1", "t2", "t3"}
  BY <1>1 DEF AtomicInv, Races!Thread
<1>3. \A u \in Races!Thread : Todo(u) \in Nat
  BY LenProperties DEF Progress, Todo
<1>4. o = Races!Add("a", 0, 1)
  <2>1. m <= Len(Races!Code(program)[t]) /\ Len(Races!Code(program)[t]) \in Nat
    BY LenProperties DEF Progress
  <2>2. m \in 1 .. Len(Races!Code(program)[t])
    BY <1>1, <2>1
  <2>3. QED BY <1>2, <2>2, AtomicCode
<1>5. mem'["a"] = 0 * reg[t] + 1 + mem["a"] /\ reg[t] \in Nat /\ mem["a"] \in Nat
  BY <1>1, <1>4 DEF Does, Races!Add, NumbersOf, Races!Var
<1>6. mem'["a"] = mem["a"] + 1
  BY <1>5
<1>7. mem'["a"] + Todo("t1")' + Todo("t2")' = mem["a"] + Todo("t1") + Todo("t2")
  <2>1. CASE t = "t1"
    BY <1>1, <1>2, <1>3, <1>5, <1>6, <2>1
  <2>2. CASE t = "t2"
    BY <1>1, <1>2, <1>3, <1>5, <1>6, <2>2
  <2>3. QED BY <1>2, <2>1, <2>2
<1>8. Todo("t3")' = 0
  BY <1>1, <1>2 DEF AtomicInv
<1>9. QED BY <1>1, <1>7, <1>8 DEF AtomicInv

LEMMA NaiveKept ==
  ASSUME Progress, NumbersOf, program = "naive", NaiveInv, NEW t \in Races!Thread, Races!Step(t)
  PROVE  NaiveInv'
<1> DEFINE m == Todo(t)
           o == OpAt(program, t, m)
           w1 == Writes(Todo("t1"))
           w2 == Writes(Todo("t2"))
<1>1. /\ m \in Nat /\ m > 0 /\ Todo(t)' = m - 1 /\ UNCHANGED program
      /\ \A u \in Races!Thread : u /= t => Todo(u)' = Todo(u)
      /\ Does(t, o)
  BY StepDoes
<1>2. t \in {"t1", "t2"} /\ Races!Thread = {"t1", "t2", "t3"}
  BY <1>1 DEF NaiveInv, Races!Thread
<1>3. \A u \in Races!Thread : Todo(u) \in Nat
  BY LenProperties DEF Progress, Todo
<1>4. count \in Nat /\ m <= 2 * count /\ o = IF m % 2 = 0 THEN Races!Load("a") ELSE Races!Store("a", 1, 1)
  <2>1. m <= Len(Races!Code(program)[t])
    BY DEF Progress
  <2>2. Len(Races!Code(program)[t]) = 2 * count /\ count \in Nat
    BY <1>2, NaiveCode, ThreadsAssumption DEF ThreadsAssumption
  <2>3. m \in 1 .. 2 * count
    BY <1>1, <2>1, <2>2
  <2>4. QED BY <1>2, <2>1, <2>2, <2>3, NaiveCode
<1>5. /\ m % 2 \in 0 .. 1 /\ (m - 1) % 2 = 1 - (m % 2)
      /\ Writes(m - 1) = IF m % 2 = 1 THEN Writes(m) - 1 ELSE Writes(m)
      /\ \A u \in Races!Thread : Writes(Todo(u)) \in Nat /\ Todo(u) % 2 \in 0 .. 1
  BY <1>1, <1>3, WritesLeft
<1>6. reg[t] \in Nat /\ mem["a"] \in Nat /\ \A u \in Races!Thread : reg[u] \in Nat
  BY DEF NumbersOf, Races!Var
<1>7. Todo("t3")' = 0
  BY <1>1, <1>2 DEF NaiveInv
<1>8. CASE m % 2 = 0
  <2>1. reg' = [reg EXCEPT ![t] = mem["a"]] /\ UNCHANGED mem
    BY <1>1, <1>4, <1>8 DEF Does, Races!Load
  <2>2. reg'[t] = mem["a"] /\ \A u \in Races!Thread : u /= t => reg'[u] = reg[u]
    BY <2>1 DEF NumbersOf
  <2>3. \A u \in Races!Thread : Writes(Todo(u)') = Writes(Todo(u))
    BY <1>1, <1>5, <1>8
  <2>4. Writes(m) < count => w1 + w2 < 2 * count
    <3>1. w1 <= count /\ w2 <= count
      <4>1. Todo("t1") <= 2 * count /\ Todo("t2") <= 2 * count
        BY <1>2, NaiveCode DEF Progress
      <4>2. QED BY <1>2, <1>3, <1>4, <4>1 DEF Writes
    <3>2. QED BY <1>2, <1>4, <1>5, <3>1
  <2>5. ASSUME NEW u \in {"t1", "t2"}, Todo(u)' % 2 = 1
        PROVE  /\ reg'[u] + w1 + w2 <= 2 * count
               /\ Writes(Todo(u)) < count => reg'[u] >= 1
    <3>1. CASE u = t
      BY <1>4, <2>2, <2>4, <3>1 DEF NaiveInv
    <3>2. CASE u /= t
      BY <1>1, <1>2, <2>2, <2>5, <3>2 DEF NaiveInv
    <3>3. QED BY <3>1, <3>2
  <2>6. m - 1 /= 0
    BY <1>1, <1>8
  <2>7. ~(Todo("t1")' = 0 /\ Todo("t2")' = 0)
    BY <1>1, <1>2, <2>6
  <2>8. Writes(Todo("t1")') = w1 /\ Writes(Todo("t2")') = w2 /\ mem' = mem
    BY <1>2, <2>1, <2>3
  <2>9. \A u \in {"t1", "t2"} : Writes(Todo(u)') = Writes(Todo(u))
    BY <1>2, <2>3
  <2>10. QED BY <1>7, <2>5, <2>7, <2>8, <2>9 DEF NaiveInv, Writes
<1>9. CASE m % 2 = 1
  <2>1. mem' = [mem EXCEPT !["a"] = 1 * reg[t] + 1] /\ UNCHANGED reg
    BY <1>1, <1>4, <1>9 DEF Does, Races!Store
  <2>2. mem'["a"] = reg[t] + 1
    BY <1>6, <2>1 DEF NumbersOf, Races!Var
  <2>3. /\ Writes(Todo("t1")') + Writes(Todo("t2")') = w1 + w2 - 1
        /\ Writes(m - 1) = Writes(m) - 1
        /\ \A u \in Races!Thread : u /= t => Writes(Todo(u)') = Writes(Todo(u))
    <3>1. CASE t = "t1"
      BY <1>1, <1>2, <1>5, <1>9, <3>1
    <3>2. CASE t = "t2"
      BY <1>1, <1>2, <1>5, <1>9, <3>2
    <3>3. QED BY <1>2, <3>1, <3>2
  <2>4. reg[t] + w1 + w2 <= 2 * count /\ (Writes(m) < count => reg[t] >= 1)
    BY <1>2, <1>9 DEF NaiveInv
  <2>5. mem'["a"] + (w1 + w2 - 1) <= 2 * count /\ mem'["a"] >= 1
    BY <1>2, <1>4, <1>5, <1>6, <2>2, <2>4
  <2>6. ASSUME NEW u \in {"t1", "t2"}, Todo(u)' % 2 = 1
        PROVE  /\ reg'[u] + (w1 + w2 - 1) <= 2 * count
               /\ Writes(Todo(u)') < count => reg'[u] >= 1
    <3>1. u /= t
      BY <1>1, <1>5, <1>9, <2>6
    <3>2. Todo(u)' = Todo(u) /\ Writes(Todo(u)') = Writes(Todo(u)) /\ reg'[u] = reg[u]
      BY <1>1, <1>2, <2>1, <2>3, <3>1
    <3>3. reg[u] + w1 + w2 <= 2 * count /\ (Writes(Todo(u)) < count => reg[u] >= 1)
      BY <2>6, <3>2 DEF NaiveInv
    <3>4. QED BY <1>2, <1>4, <1>5, <1>6, <3>2, <3>3
  <2>7. Todo("t1")' = 0 /\ Todo("t2")' = 0 /\ count >= 2 => mem'["a"] >= 2
    <3>1. SUFFICES ASSUME m - 1 = 0, count >= 2 PROVE mem'["a"] >= 2
      BY <1>1, <1>2
    <3>2. m = 1
      BY <1>1, <3>1
    <3>3. Writes(m) = 1
      BY <3>2, WritesLeft
    <3>4. reg[t] >= 1
      BY <1>4, <2>4, <3>1, <3>3
    <3>5. QED BY <1>6, <2>2, <3>4
  <2>8. mem'["a"] + Writes(Todo("t1")') + Writes(Todo("t2")') <= 2 * count
    BY <1>1, <1>2, <1>4, <1>5, <1>6, <2>2, <2>3, <2>5
  <2>9. ASSUME NEW u \in {"t1", "t2"}, Todo(u)' % 2 = 1
        PROVE  reg'[u] + Writes(Todo("t1")') + Writes(Todo("t2")') <= 2 * count
    BY <1>1, <1>2, <1>4, <1>5, <1>6, <2>1, <2>3, <2>6, <2>9
  <2>10. QED BY <1>7, <2>5, <2>6, <2>7, <2>8, <2>9 DEF NaiveInv, Writes
<1>10. QED BY <1>5, <1>8, <1>9

\* a is 1; t1 makes it a * 3, t2 a + 1, both in two operations, t3 ++a in one:
\* what each has read, and what is there, by who has ended.
HazardousInv ==
  LET x == Todo("t1")
      y == Todo("t2")
      z == Todo("t3")
      a == mem["a"]
  IN
  /\ x \in 0 .. 2 /\ y \in 0 .. 2 /\ z \in 0 .. 1
  /\ x >= 1 => a >= 1 /\ a <= 1 + (IF y = 0 THEN 1 ELSE 0) + (IF z = 0 THEN 1 ELSE 0)
  /\ x = 1 => reg["t1"] >= 1 /\ reg["t1"] <= 1 + (IF y = 0 THEN 1 ELSE 0) + (IF z = 0 THEN 1 ELSE 0)
  /\ x >= 1 /\ y = 1 => reg["t2"] \in IF z = 1 THEN {1} ELSE {1, 2}
  /\ x = 0 /\ y = 1 => reg["t2"] \in IF z = 1 THEN {1, 3} ELSE {1, 2, 3, 4, 6}
  /\ x = 0 /\ y >= 1 => a \in IF z = 1 THEN {3} ELSE {3, 4, 6}
  /\ x = 0 /\ y = 0 => a \in IF z = 1 THEN {2, 3, 4, 6} ELSE {2, 3, 4, 5, 6, 7, 9}

\* Each thread has its own number, and what it shows is that one.
LocalInv ==
  /\ Todo("t1") \in 0 .. 4 /\ Todo("t2") \in 0 .. 4 /\ Todo("t3") \in 0 .. 3
  /\ mem["a"] = IF Todo("t1") = 4 THEN 1 ELSE 2
  /\ mem["b"] = IF Todo("t2") = 4 THEN 1 ELSE 2
  /\ mem["c"] = 1
  /\ Todo("t1") <= 1 => reg["t1"] = 2
  /\ Todo("t2") <= 1 => reg["t2"] = 2
  /\ Todo("t3") <= 1 => reg["t3"] = 1

\* t1 writes 2, 4 and 3 to a, b and c, t2 adds a to b, 4 to c and then c to a:
\* by how far both are, what a number can be and which of them exclude each
\* other.
CombinatoryInv ==
  LET i == Todo("t1")
      j == Todo("t2")
      r == reg["t2"]
  IN
  /\ i \in 0 .. 3 /\ j \in 0 .. 5 /\ Todo("t3") = 0
  /\ j >= 1 => mem["a"] = IF i <= 2 THEN 2 ELSE 1
  /\ j >= 4 => mem["b"] = IF i <= 1 THEN 4 ELSE 0
  /\ j = 4 => r \in IF i = 3 THEN {1} ELSE {1, 2}
  /\ j <= 3 => mem["b"] \in IF i <= 1 THEN {4, 5, 6} ELSE {1, 2}
  /\ j >= 3 => mem["c"] = IF i = 0 THEN 3 ELSE 1
  /\ j <= 2 => mem["c"] \in IF i = 0 THEN {3, 7} ELSE {5}
  /\ j = 1 => IF i = 0 THEN r \in {3, 5, 7} /\ (r = 7 <=> mem["c"] = 7) ELSE r = 5
  /\ j = 0 /\ i = 3 => mem["a"] = 6
  /\ j = 0 /\ i \in {1, 2} => mem["a"] \in {2, 7}
  /\ j = 0 /\ i = 0 => mem["a"] \in {2, 5, 7, 9} /\ (mem["a"] = 9 <=> mem["c"] = 7)
  /\ j = 0 /\ i <= 1 /\ mem["a"] = 2 => mem["b"] = 4

-----------------------------------------------------------------------------
LEMMA PlacesOf ==
  ASSUME NEW prog, NEW t, NEW c, Races!Code(prog)[t] = c
  PROVE  /\ Len(c) = 1 => OpAt(prog, t, 1) = c[1]
         /\ Len(c) = 2 => OpAt(prog, t, 2) = c[1] /\ OpAt(prog, t, 1) = c[2]
         /\ Len(c) = 3 => OpAt(prog, t, 3) = c[1] /\ OpAt(prog, t, 2) = c[2] /\ OpAt(prog, t, 1) = c[3]
         /\ Len(c) = 4 => OpAt(prog, t, 4) = c[1] /\ OpAt(prog, t, 3) = c[2] /\ OpAt(prog, t, 2) = c[3]
                          /\ OpAt(prog, t, 1) = c[4]
         /\ Len(c) = 5 => OpAt(prog, t, 5) = c[1] /\ OpAt(prog, t, 4) = c[2] /\ OpAt(prog, t, 3) = c[3]
                          /\ OpAt(prog, t, 2) = c[4] /\ OpAt(prog, t, 1) = c[5]
<1> DEFINE l == Len(Races!Code(prog)[t])
<1>1. ASSUME NEW n \in 1 .. 5, Len(c) = n, NEW m \in 1 .. n PROVE OpAt(prog, t, m) = c[n - m + 1]
  BY <1>1 DEF OpAt
<1>2. ASSUME NEW n \in 1 .. 5, Len(c) = n, NEW k \in 1 .. n PROVE OpAt(prog, t, n + 1 - k) = c[k]
  <2>1. n + 1 - k \in 1 .. n /\ n - (n + 1 - k) + 1 = k
    OBVIOUS
  <2>2. QED BY <1>1, <1>2, <2>1
<1>3. ASSUME NEW n \in 1 .. 5, Len(c) = n, NEW m, NEW k \in 1 .. n, m = n + 1 - k PROVE OpAt(prog, t, m) = c[k]
  BY <1>2, <1>3
<1>4. /\ 1 = 1 + 1 - 1
      /\ 1 = 2 + 1 - 2 /\ 2 = 2 + 1 - 1
      /\ 1 = 3 + 1 - 3 /\ 2 = 3 + 1 - 2 /\ 3 = 3 + 1 - 1
      /\ 1 = 4 + 1 - 4 /\ 2 = 4 + 1 - 3 /\ 3 = 4 + 1 - 2 /\ 4 = 4 + 1 - 1
      /\ 1 = 5 + 1 - 5 /\ 2 = 5 + 1 - 4 /\ 3 = 5 + 1 - 3 /\ 4 = 5 + 1 - 2 /\ 5 = 5 + 1 - 1
  OBVIOUS
<1>5. CASE Len(c) = 1
  BY <1>3, <1>4, <1>5
<1>6. CASE Len(c) = 2
  BY <1>3, <1>4, <1>6
<1>7. CASE Len(c) = 3
  BY <1>3, <1>4, <1>7
<1>8. CASE Len(c) = 4
  BY <1>3, <1>4, <1>8
<1>9. CASE Len(c) = 5
  BY <1>3, <1>4, <1>9
<1>10. QED BY <1>5, <1>6, <1>7, <1>8, <1>9

LEMMA HazardousCode ==
  /\ Races!Code("hazardous") \in [Races!Thread -> Seq(Operation)]
  /\ Len(Races!Code("hazardous")["t1"]) = 2 /\ Len(Races!Code("hazardous")["t2"]) = 2
  /\ Len(Races!Code("hazardous")["t3"]) = 1
  /\ OpAt("hazardous", "t1", 2) = Races!Load("a") /\ OpAt("hazardous", "t1", 1) = Races!Store("a", 3, 0)
  /\ OpAt("hazardous", "t2", 2) = Races!Load("a") /\ OpAt("hazardous", "t2", 1) = Races!Store("a", 1, 1)
  /\ OpAt("hazardous", "t3", 1) = Races!Add("a", 0, 1)
<1> DEFINE c1 == <<Races!Load("a"), Races!Store("a", 3, 0)>>
           c2 == <<Races!Load("a"), Races!Store("a", 1, 1)>>
           c3 == <<Races!Add("a", 0, 1)>>
<1>1. Races!Code("hazardous") = Races!Threads(c1, c2, c3)
  BY DEF Races!Code, Races!Hazardous
<1>2. /\ Races!Load("a") \in Operation /\ Races!Store("a", 3, 0) \in Operation
      /\ Races!Store("a", 1, 1) \in Operation /\ Races!Add("a", 0, 1) \in Operation
  BY OperationsAre DEF Races!Var
<1>3. c1 \in Seq(Operation) /\ c2 \in Seq(Operation) /\ c3 \in Seq(Operation)
  BY <1>2
<1>4. Races!Threads(c1, c2, c3) \in [Races!Thread -> Seq(Operation)]
  BY ONLY <1>3, ThreadsAre
<1>5. Races!Code("hazardous")["t1"] = c1 /\ Races!Code("hazardous")["t2"] = c2 /\ Races!Code("hazardous")["t3"] = c3
  BY <1>1 DEF Races!Threads
<1>6. /\ Len(c1) = 2 /\ c1[1] = Races!Load("a") /\ c1[2] = Races!Store("a", 3, 0)
      /\ Len(c2) = 2 /\ c2[1] = Races!Load("a") /\ c2[2] = Races!Store("a", 1, 1)
      /\ Len(c3) = 1 /\ c3[1] = Races!Add("a", 0, 1)
  OBVIOUS
<1> HIDE DEF c1, c2, c3
<1>7. /\ OpAt("hazardous", "t1", 2) = c1[1]
      /\ OpAt("hazardous", "t1", 1) = c1[2]
  BY <1>5, <1>6, PlacesOf
<1>8. /\ OpAt("hazardous", "t2", 2) = c2[1]
      /\ OpAt("hazardous", "t2", 1) = c2[2]
  BY <1>5, <1>6, PlacesOf
<1>9. /\ OpAt("hazardous", "t3", 1) = c3[1]
  BY <1>5, <1>6, PlacesOf
<1>10. QED BY <1>1, <1>4, <1>5, <1>6, <1>7, <1>8, <1>9

LEMMA LocalCode ==
  /\ Races!Code("thread_local") \in [Races!Thread -> Seq(Operation)]
  /\ Len(Races!Code("thread_local")["t1"]) = 4 /\ Len(Races!Code("thread_local")["t2"]) = 4
  /\ Len(Races!Code("thread_local")["t3"]) = 3
  /\ OpAt("thread_local", "t1", 4) = Races!Add("a", 0, 1) /\ OpAt("thread_local", "t1", 3) = Races!Lock
  /\ OpAt("thread_local", "t1", 2) = Races!Load("a") /\ OpAt("thread_local", "t1", 1) = Races!Unlock
  /\ OpAt("thread_local", "t2", 4) = Races!Add("b", 0, 1) /\ OpAt("thread_local", "t2", 3) = Races!Lock
  /\ OpAt("thread_local", "t2", 2) = Races!Load("b") /\ OpAt("thread_local", "t2", 1) = Races!Unlock
  /\ OpAt("thread_local", "t3", 3) = Races!Lock
  /\ OpAt("thread_local", "t3", 2) = Races!Load("c") /\ OpAt("thread_local", "t3", 1) = Races!Unlock
<1> DEFINE c1 == <<Races!Add("a", 0, 1), Races!Lock, Races!Load("a"), Races!Unlock>>
           c2 == <<Races!Add("b", 0, 1), Races!Lock, Races!Load("b"), Races!Unlock>>
           c3 == <<Races!Lock, Races!Load("c"), Races!Unlock>>
<1>1. Races!Code("thread_local") = Races!Threads(c1, c2, c3)
  BY DEF Races!Code, Races!ThreadLocal
<1>2. /\ Races!Load("a") \in Operation /\ Races!Load("b") \in Operation /\ Races!Load("c") \in Operation
      /\ Races!Add("a", 0, 1) \in Operation /\ Races!Add("b", 0, 1) \in Operation
      /\ Races!Lock \in Operation /\ Races!Unlock \in Operation
  BY OperationsAre DEF Races!Var
<1>3. c1 \in Seq(Operation) /\ c2 \in Seq(Operation) /\ c3 \in Seq(Operation)
  BY <1>2
<1>4. Races!Threads(c1, c2, c3) \in [Races!Thread -> Seq(Operation)]
  BY ONLY <1>3, ThreadsAre
<1>5. /\ Races!Code("thread_local")["t1"] = c1 /\ Races!Code("thread_local")["t2"] = c2
      /\ Races!Code("thread_local")["t3"] = c3
  BY <1>1 DEF Races!Threads
<1>6. /\ Len(c1) = 4 /\ c1[1] = Races!Add("a", 0, 1) /\ c1[2] = Races!Lock /\ c1[3] = Races!Load("a") /\ c1[4] = Races!Unlock
      /\ Len(c2) = 4 /\ c2[1] = Races!Add("b", 0, 1) /\ c2[2] = Races!Lock /\ c2[3] = Races!Load("b") /\ c2[4] = Races!Unlock
      /\ Len(c3) = 3 /\ c3[1] = Races!Lock /\ c3[2] = Races!Load("c") /\ c3[3] = Races!Unlock
  OBVIOUS
<1> HIDE DEF c1, c2, c3
<1>7. /\ OpAt("thread_local", "t1", 4) = c1[1]
      /\ OpAt("thread_local", "t1", 3) = c1[2]
      /\ OpAt("thread_local", "t1", 2) = c1[3]
      /\ OpAt("thread_local", "t1", 1) = c1[4]
  BY <1>5, <1>6, PlacesOf
<1>8. /\ OpAt("thread_local", "t2", 4) = c2[1]
      /\ OpAt("thread_local", "t2", 3) = c2[2]
      /\ OpAt("thread_local", "t2", 2) = c2[3]
      /\ OpAt("thread_local", "t2", 1) = c2[4]
  BY <1>5, <1>6, PlacesOf
<1>9. /\ OpAt("thread_local", "t3", 3) = c3[1]
      /\ OpAt("thread_local", "t3", 2) = c3[2]
      /\ OpAt("thread_local", "t3", 1) = c3[3]
  BY <1>5, <1>6, PlacesOf
<1>10. QED BY <1>1, <1>4, <1>5, <1>6, <1>7, <1>8, <1>9

LEMMA CombinatoryCode ==
  /\ Races!Code("combinatory") \in [Races!Thread -> Seq(Operation)]
  /\ Len(Races!Code("combinatory")["t1"]) = 3 /\ Len(Races!Code("combinatory")["t2"]) = 5
  /\ Len(Races!Code("combinatory")["t3"]) = 0
  /\ OpAt("combinatory", "t1", 3) = Races!Store("a", 0, 2) /\ OpAt("combinatory", "t1", 2) = Races!Store("b", 0, 4)
  /\ OpAt("combinatory", "t1", 1) = Races!Store("c", 0, 3)
  /\ OpAt("combinatory", "t2", 5) = Races!Load("a") /\ OpAt("combinatory", "t2", 4) = Races!Add("b", 1, 0)
  /\ OpAt("combinatory", "t2", 3) = Races!Add("c", 0, 4) /\ OpAt("combinatory", "t2", 2) = Races!Load("c")
  /\ OpAt("combinatory", "t2", 1) = Races!Add("a", 1, 0)
<1> DEFINE c1 == <<Races!Store("a", 0, 2), Races!Store("b", 0, 4), Races!Store("c", 0, 3)>>
           c2 == <<Races!Load("a"), Races!Add("b", 1, 0), Races!Add("c", 0, 4), Races!Load("c"), Races!Add("a", 1, 0)>>
<1>1. Races!Code("combinatory") = Races!Threads(c1, c2, << >>)
  BY DEF Races!Code, Races!Combinatory
<1>2. /\ Races!Store("a", 0, 2) \in Operation /\ Races!Store("b", 0, 4) \in Operation
      /\ Races!Store("c", 0, 3) \in Operation /\ Races!Load("a") \in Operation
      /\ Races!Add("b", 1, 0) \in Operation /\ Races!Add("c", 0, 4) \in Operation
      /\ Races!Load("c") \in Operation /\ Races!Add("a", 1, 0) \in Operation
  BY OperationsAre DEF Races!Var
<1>3. c1 \in Seq(Operation) /\ c2 \in Seq(Operation) /\ << >> \in Seq(Operation)
  BY <1>2, EmptySeq
<1>4. Races!Threads(c1, c2, << >>) \in [Races!Thread -> Seq(Operation)]
  BY ONLY <1>3, ThreadsAre
<1>5. /\ Races!Code("combinatory")["t1"] = c1 /\ Races!Code("combinatory")["t2"] = c2
      /\ Races!Code("combinatory")["t3"] = << >>
  BY <1>1 DEF Races!Threads
<1>6. /\ Len(c1) = 3 /\ c1[1] = Races!Store("a", 0, 2) /\ c1[2] = Races!Store("b", 0, 4) /\ c1[3] = Races!Store("c", 0, 3)
      /\ Len(c2) = 5 /\ c2[1] = Races!Load("a") /\ c2[2] = Races!Add("b", 1, 0) /\ c2[3] = Races!Add("c", 0, 4) /\ c2[4] = Races!Load("c") /\ c2[5] = Races!Add("a", 1, 0)
  OBVIOUS
<1> HIDE DEF c1, c2
<1>7. /\ OpAt("combinatory", "t1", 3) = c1[1]
      /\ OpAt("combinatory", "t1", 2) = c1[2]
      /\ OpAt("combinatory", "t1", 1) = c1[3]
  BY <1>5, <1>6, PlacesOf
<1>8. /\ OpAt("combinatory", "t2", 5) = c2[1]
      /\ OpAt("combinatory", "t2", 4) = c2[2]
      /\ OpAt("combinatory", "t2", 3) = c2[3]
      /\ OpAt("combinatory", "t2", 2) = c2[4]
      /\ OpAt("combinatory", "t2", 1) = c2[5]
  BY <1>5, <1>6, PlacesOf
<1>9. QED BY <1>1, <1>4, <1>5, <1>6, <1>7, <1>8

\* The operations one by one: what the registers and the numbers are then.
LEMMA Effects ==
  ASSUME NumbersOf, NEW t \in Races!Thread, NEW v \in Races!Var, NEW m \in Nat, NEW n \in Nat
  PROVE  /\ Does(t, Races!Load(v)) =>
              /\ mem' = mem /\ reg'[t] = mem[v]
              /\ \A u \in Races!Thread : u /= t => reg'[u] = reg[u]
         /\ Does(t, Races!Store(v, m, n)) =>
              /\ reg' = reg /\ mem'[v] = m * reg[t] + n
              /\ \A w \in Races!Var : w /= v => mem'[w] = mem[w]
         /\ Does(t, Races!Add(v, m, n)) =>
              /\ reg' = reg /\ mem'[v] = m * reg[t] + n + mem[v]
              /\ \A w \in Races!Var : w /= v => mem'[w] = mem[w]
         /\ Does(t, Races!Lock) => reg' = reg /\ mem' = mem
         /\ Does(t, Races!Unlock) => reg' = reg /\ mem' = mem
<1>1. Does(t, Races!Store(v, m, n)) =>
        /\ reg' = reg /\ mem'[v] = m * reg[t] + n
        /\ \A w \in Races!Var : w /= v => mem'[w] = mem[w]
  BY DEF Does, Races!Store, NumbersOf
<1>2. Does(t, Races!Add(v, m, n)) =>
        /\ reg' = reg /\ mem'[v] = m * reg[t] + n + mem[v]
        /\ \A w \in Races!Var : w /= v => mem'[w] = mem[w]
  BY DEF Does, Races!Add, NumbersOf
<1>3. Does(t, Races!Load(v)) =>
        /\ mem' = mem /\ reg'[t] = mem[v]
        /\ \A u \in Races!Thread : u /= t => reg'[u] = reg[u]
  BY DEF Does, Races!Load, NumbersOf
<1>4. Does(t, Races!Lock) => reg' = reg /\ mem' = mem
  BY DEF Does, Races!Lock
<1>5. Does(t, Races!Unlock) => reg' = reg /\ mem' = mem
  BY DEF Does, Races!Unlock
<1>6. QED BY <1>1, <1>2, <1>3, <1>4, <1>5

LEMMA HazardousKept ==
  ASSUME Progress, NumbersOf, program = "hazardous", HazardousInv, NEW t \in Races!Thread, Races!Step(t)
  PROVE  HazardousInv'
<1> DEFINE m == Todo(t)
           o == OpAt(program, t, m)
           x == Todo("t1")
           y == Todo("t2")
           z == Todo("t3")
<1>1. /\ m \in Nat /\ m > 0 /\ Todo(t)' = m - 1 /\ UNCHANGED program
      /\ \A u \in Races!Thread : u /= t => Todo(u)' = Todo(u)
      /\ Does(t, o)
  BY StepDoes
<1>2. Races!Thread = {"t1", "t2", "t3"} /\ Races!Var = {"a", "b", "c"}
  BY DEF Races!Thread, Races!Var
<1>3. mem["a"] \in Nat /\ reg["t1"] \in Nat /\ reg["t2"] \in Nat /\ reg["t3"] \in Nat
  BY <1>2 DEF NumbersOf
<1>4. x \in 0 .. 2 /\ y \in 0 .. 2 /\ z \in 0 .. 1
  BY DEF HazardousInv
<1>5. CASE t = "t1"
  <2>1. x \in {1, 2} /\ Todo("t1")' = x - 1 /\ Todo("t2")' = y /\ Todo("t3")' = z
    BY <1>1, <1>2, <1>4, <1>5
  <2>2. CASE x = 2
    <3>1. o = Races!Load("a")
      BY <1>5, <2>2, HazardousCode
    <3>2. mem' = mem /\ reg'["t1"] = mem["a"] /\ reg'["t2"] = reg["t2"]
      BY <1>1, <1>2, <1>5, <3>1, Effects
    <3>3. QED BY <1>3, <1>4, <2>1, <2>2, <3>2 DEF HazardousInv
  <2>3. CASE x = 1
    <3>1. o = Races!Store("a", 3, 0)
      BY <1>5, <2>3, HazardousCode
    <3>2. reg' = reg /\ mem'["a"] = 3 * reg["t1"] + 0
      BY <1>1, <1>2, <1>5, <3>1, Effects
    <3>3. QED BY <1>3, <1>4, <2>1, <2>3, <3>2 DEF HazardousInv
  <2>4. QED BY <2>1, <2>2, <2>3
<1>6. CASE t = "t2"
  <2>1. y \in {1, 2} /\ Todo("t2")' = y - 1 /\ Todo("t1")' = x /\ Todo("t3")' = z
    BY <1>1, <1>2, <1>4, <1>6
  <2>2. CASE y = 2
    <3>1. o = Races!Load("a")
      BY <1>6, <2>2, HazardousCode
    <3>2. mem' = mem /\ reg'["t2"] = mem["a"] /\ reg'["t1"] = reg["t1"]
      BY <1>1, <1>2, <1>6, <3>1, Effects
    <3>3. QED BY <1>3, <1>4, <2>1, <2>2, <3>2 DEF HazardousInv
  <2>3. CASE y = 1
    <3>1. o = Races!Store("a", 1, 1)
      BY <1>6, <2>3, HazardousCode
    <3>2. reg' = reg /\ mem'["a"] = 1 * reg["t2"] + 1
      BY <1>1, <1>2, <1>6, <3>1, Effects
    <3>3. QED BY <1>3, <1>4, <2>1, <2>3, <3>2 DEF HazardousInv
  <2>4. QED BY <2>1, <2>2, <2>3
<1>7. CASE t = "t3"
  <2>1. z = 1 /\ Todo("t3")' = 0 /\ Todo("t1")' = x /\ Todo("t2")' = y
    BY <1>1, <1>2, <1>4, <1>7
  <2>2. o = Races!Add("a", 0, 1)
    BY <1>7, <2>1, HazardousCode
  <2>3. reg' = reg /\ mem'["a"] = 0 * reg["t3"] + 1 + mem["a"]
    BY <1>1, <1>2, <1>7, <2>2, Effects
  <2>4. mem'["a"] = mem["a"] + 1
    BY <1>3, <2>3
  <2>5. QED BY <1>3, <1>4, <2>1, <2>3, <2>4 DEF HazardousInv
<1>8. QED BY <1>2, <1>5, <1>6, <1>7

LEMMA LocalKept ==
  ASSUME Progress, NumbersOf, program = "thread_local", LocalInv, NEW t \in Races!Thread, Races!Step(t)
  PROVE  LocalInv'
<1> DEFINE m == Todo(t)
           o == OpAt(program, t, m)
<1>1. /\ m \in Nat /\ m > 0 /\ Todo(t)' = m - 1 /\ UNCHANGED program
      /\ \A u \in Races!Thread : u /= t => Todo(u)' = Todo(u)
      /\ Does(t, o)
  BY StepDoes
<1>2. Races!Thread = {"t1", "t2", "t3"} /\ Races!Var = {"a", "b", "c"}
  BY DEF Races!Thread, Races!Var
<1>3. /\ mem["a"] \in Nat /\ mem["b"] \in Nat /\ mem["c"] \in Nat
      /\ reg["t1"] \in Nat /\ reg["t2"] \in Nat /\ reg["t3"] \in Nat
  BY <1>2 DEF NumbersOf
<1>4. Todo("t1") \in 0 .. 4 /\ Todo("t2") \in 0 .. 4 /\ Todo("t3") \in 0 .. 3
  BY DEF LocalInv
<1>5. CASE t \in {"t1", "t2"}
  <2> DEFINE v == IF t = "t1" THEN "a" ELSE "b"
  <2>1. m \in 1 .. 4 /\ v \in Races!Var
    BY <1>1, <1>2, <1>4, <1>5
  <2>2. CASE m = 4
    <3>1. o = Races!Add(v, 0, 1)
      BY <1>5, <2>2, LocalCode
    <3>2. /\ reg' = reg /\ mem'[v] = 0 * reg[t] + 1 + mem[v]
          /\ \A w \in Races!Var : w /= v => mem'[w] = mem[w]
      BY <1>1, <2>1, <3>1, Effects
    <3>3. mem[v] = 1 /\ reg[t] \in Nat
      BY <1>3, <1>5, <2>2 DEF LocalInv
    <3>4. mem'[v] = 2
      BY <3>2, <3>3
    <3>5. QED BY <1>1, <1>2, <1>4, <1>5, <2>2, <3>2, <3>4 DEF LocalInv
  <2>3. CASE m = 3 \/ m = 1
    <3>1. o = Races!Lock \/ o = Races!Unlock
      BY <1>5, <2>3, LocalCode
    <3>2. reg' = reg /\ mem' = mem
      BY <1>1, <1>2, <3>1, Effects
    <3>3. QED BY <1>1, <1>2, <1>4, <1>5, <2>3, <3>2 DEF LocalInv
  <2>4. CASE m = 2
    <3>1. o = Races!Load(v)
      BY <1>5, <2>4, LocalCode
    <3>2. mem' = mem /\ reg'[t] = mem[v] /\ \A u \in Races!Thread : u /= t => reg'[u] = reg[u]
      BY <1>1, <2>1, <3>1, Effects
    <3>3. mem[v] = 2
      BY <1>5, <2>4 DEF LocalInv
    <3>4. QED BY <1>1, <1>2, <1>4, <1>5, <2>4, <3>2, <3>3 DEF LocalInv
  <2>5. QED BY <2>1, <2>2, <2>3, <2>4
<1>6. CASE t = "t3"
  <2>1. m \in 1 .. 3
    BY <1>1, <1>4, <1>6
  <2>2. CASE m = 3 \/ m = 1
    <3>1. o = Races!Lock \/ o = Races!Unlock
      BY <1>6, <2>2, LocalCode
    <3>2. reg' = reg /\ mem' = mem
      BY <1>1, <1>2, <3>1, Effects
    <3>3. QED BY <1>1, <1>2, <1>4, <1>6, <2>2, <3>2 DEF LocalInv
  <2>3. CASE m = 2
    <3>1. o = Races!Load("c")
      BY <1>6, <2>3, LocalCode
    <3>2. mem' = mem /\ reg'[t] = mem["c"] /\ \A u \in Races!Thread : u /= t => reg'[u] = reg[u]
      BY <1>1, <1>2, <3>1, Effects
    <3>3. mem["c"] = 1
      BY DEF LocalInv
    <3>4. QED BY <1>1, <1>2, <1>4, <1>6, <2>3, <3>2, <3>3 DEF LocalInv
  <2>4. QED BY <2>1, <2>2, <2>3
<1>7. QED BY <1>2, <1>5, <1>6

LEMMA CombinatoryKept ==
  ASSUME Progress, NumbersOf, program = "combinatory", CombinatoryInv, NEW t \in Races!Thread, Races!Step(t)
  PROVE  CombinatoryInv'
<1> DEFINE m == Todo(t)
           o == OpAt(program, t, m)
           i == Todo("t1")
           j == Todo("t2")
           r == reg["t2"]
<1>1. /\ m \in Nat /\ m > 0 /\ Todo(t)' = m - 1 /\ UNCHANGED program
      /\ \A u \in Races!Thread : u /= t => Todo(u)' = Todo(u)
      /\ Does(t, o)
  BY StepDoes
<1>2. Races!Thread = {"t1", "t2", "t3"} /\ Races!Var = {"a", "b", "c"}
  BY DEF Races!Thread, Races!Var
<1>3. /\ mem["a"] \in Nat /\ mem["b"] \in Nat /\ mem["c"] \in Nat
      /\ reg["t1"] \in Nat /\ r \in Nat
  BY <1>2 DEF NumbersOf
<1>4. i \in 0 .. 3 /\ j \in 0 .. 5 /\ Todo("t3") = 0
  BY DEF CombinatoryInv
<1>5. CASE t = "t1"
  <2>1. i \in 1 .. 3 /\ Todo("t1")' = i - 1 /\ Todo("t2")' = j /\ Todo("t3")' = 0
    BY <1>1, <1>2, <1>4, <1>5
  <2>2. CASE i = 3
    <3>1. o = Races!Store("a", 0, 2)
      BY <1>5, <2>2, CombinatoryCode
    <3>2. reg' = reg /\ mem'["a"] = 0 * reg["t1"] + 2 /\ mem'["b"] = mem["b"] /\ mem'["c"] = mem["c"]
      BY <1>1, <1>2, <1>5, <3>1, Effects
    <3>3. mem'["a"] = 2
      BY <1>3, <3>2
    <3>4. QED BY <1>3, <1>4, <2>1, <2>2, <3>2, <3>3 DEF CombinatoryInv
  <2>3. CASE i = 2
    <3>1. o = Races!Store("b", 0, 4)
      BY <1>5, <2>3, CombinatoryCode
    <3>2. reg' = reg /\ mem'["b"] = 0 * reg["t1"] + 4 /\ mem'["a"] = mem["a"] /\ mem'["c"] = mem["c"]
      BY <1>1, <1>2, <1>5, <3>1, Effects
    <3>3. mem'["b"] = 4
      BY <1>3, <3>2
    <3>4. QED BY <1>3, <1>4, <2>1, <2>3, <3>2, <3>3 DEF CombinatoryInv
  <2>4. CASE i = 1
    <3>1. o = Races!Store("c", 0, 3)
      BY <1>5, <2>4, CombinatoryCode
    <3>2. reg' = reg /\ mem'["c"] = 0 * reg["t1"] + 3 /\ mem'["a"] = mem["a"] /\ mem'["b"] = mem["b"]
      BY <1>1, <1>2, <1>5, <3>1, Effects
    <3>3. mem'["c"] = 3
      BY <1>3, <3>2
    <3>4. QED BY <1>3, <1>4, <2>1, <2>4, <3>2, <3>3 DEF CombinatoryInv
  <2>5. QED BY <2>1, <2>2, <2>3, <2>4
<1>6. CASE t = "t2"
  <2>1. j \in 1 .. 5 /\ Todo("t2")' = j - 1 /\ Todo("t1")' = i /\ Todo("t3")' = 0
    BY <1>1, <1>2, <1>4, <1>6
  <2>2. CASE j = 5
    <3>1. o = Races!Load("a")
      BY <1>6, <2>2, CombinatoryCode
    <3>2. mem' = mem /\ reg'["t2"] = mem["a"]
      BY <1>1, <1>2, <1>6, <3>1, Effects
    <3>3. QED BY <1>3, <1>4, <2>1, <2>2, <3>2 DEF CombinatoryInv
  <2>3. CASE j = 4
    <3>1. o = Races!Add("b", 1, 0)
      BY <1>6, <2>3, CombinatoryCode
    <3>2. reg' = reg /\ mem'["b"] = 1 * r + 0 + mem["b"] /\ mem'["a"] = mem["a"] /\ mem'["c"] = mem["c"]
      BY <1>1, <1>2, <1>6, <3>1, Effects
    <3>3. QED BY <1>3, <1>4, <2>1, <2>3, <3>2 DEF CombinatoryInv
  <2>4. CASE j = 3
    <3>1. o = Races!Add("c", 0, 4)
      BY <1>6, <2>4, CombinatoryCode
    <3>2. reg' = reg /\ mem'["c"] = 0 * r + 4 + mem["c"] /\ mem'["a"] = mem["a"] /\ mem'["b"] = mem["b"]
      BY <1>1, <1>2, <1>6, <3>1, Effects
    <3>3. mem'["c"] = mem["c"] + 4
      BY <1>3, <3>2
    <3>4. QED BY <1>3, <1>4, <2>1, <2>4, <3>2, <3>3 DEF CombinatoryInv
  <2>5. CASE j = 2
    <3>1. o = Races!Load("c")
      BY <1>6, <2>5, CombinatoryCode
    <3>2. mem' = mem /\ reg'["t2"] = mem["c"]
      BY <1>1, <1>2, <1>6, <3>1, Effects
    <3>3. QED BY <1>3, <1>4, <2>1, <2>5, <3>2 DEF CombinatoryInv
  <2>6. CASE j = 1
    <3>1. o = Races!Add("a", 1, 0)
      BY <1>6, <2>6, CombinatoryCode
    <3>2. reg' = reg /\ mem'["a"] = 1 * r + 0 + mem["a"] /\ mem'["b"] = mem["b"] /\ mem'["c"] = mem["c"]
      BY <1>1, <1>2, <1>6, <3>1, Effects
    <3>3. QED BY <1>3, <1>4, <2>1, <2>6, <3>2 DEF CombinatoryInv
  <2>7. QED BY <2>1, <2>2, <2>3, <2>4, <2>5, <2>6
<1>7. CASE t = "t3"
  BY <1>1, <1>4, <1>7
<1>8. QED BY <1>2, <1>5, <1>6, <1>7

RaceInv ==
  /\ Progress /\ NumbersOf
  /\ program \in Locked => LockedInv
  /\ program \in {"atomic", "atomic_ref"} => AtomicInv
  /\ program = "naive" => NaiveInv
  /\ program = "hazardous" => HazardousInv
  /\ program = "combinatory" => CombinatoryInv
  /\ program = "thread_local" => LocalInv

LEMMA StartIs ==
  ASSUME Races!Init
  PROVE  /\ Races!Code(program) \in [Races!Thread -> Seq(Operation)]
         /\ \A t \in Races!Thread : Todo(t) = Len(Races!Code(program)[t]) /\ Todo(t) \in Nat
         /\ reg = [t \in Races!Thread |-> 0] /\ mem \in [Races!Var -> {0, 1}] /\ ru_mutex = NoThread
         /\ \A t \in Races!Thread : reg[t] = 0
         /\ program \notin {"hazardous", "combinatory", "thread_local"} => mem["a"] = 0
         /\ program \in {"hazardous", "combinatory", "thread_local"} => mem["a"] = 1
         /\ mem["b"] = IF program = "thread_local" THEN 1 ELSE 0
         /\ mem["c"] = IF program \in {"combinatory", "thread_local"} THEN 1 ELSE 0
<1>1. program \in Races!Programs /\ rest = Races!Code(program)
  BY DEF Races!Init
<1>2. Races!Code(program) \in [Races!Thread -> Seq(Operation)]
  <2>1. CASE program \in {"mutex", "good_way", "bad_way"}
    BY <2>1, LockedCode
  <2>2. CASE program \in {"atomic", "atomic_ref"}
    BY <2>2, AtomicCode
  <2>3. CASE program \in {"naive", "hazardous", "combinatory", "thread_local"}
    BY <2>3, NaiveCode, HazardousCode, CombinatoryCode, LocalCode
  <2>4. QED BY <1>1, <2>1, <2>2, <2>3 DEF Races!Programs
<1>3. \A t \in Races!Thread : Todo(t) = Len(Races!Code(program)[t]) /\ Todo(t) \in Nat
  BY <1>1, <1>2, LenProperties DEF Todo
<1>4. /\ reg = [t \in Races!Thread |-> 0] /\ ru_mutex = NoThread
      /\ mem = [a |-> IF program \in {"hazardous", "combinatory", "thread_local"} THEN 1 ELSE 0,
                b |-> IF program = "thread_local" THEN 1 ELSE 0,
                c |-> IF program \in {"combinatory", "thread_local"} THEN 1 ELSE 0]
  BY DEF Races!Init, Races!Start
<1>5. mem \in [Races!Var -> {0, 1}]
  BY <1>4 DEF Races!Var
<1>6. /\ \A t \in Races!Thread : reg[t] = 0
      /\ program \notin {"hazardous", "combinatory", "thread_local"} => mem["a"] = 0
      /\ program \in {"hazardous", "combinatory", "thread_local"} => mem["a"] = 1
      /\ mem["b"] = IF program = "thread_local" THEN 1 ELSE 0
      /\ mem["c"] = IF program \in {"combinatory", "thread_local"} THEN 1 ELSE 0
  BY <1>4
<1>7. QED BY <1>2, <1>3, <1>4, <1>5, <1>6

LEMMA RaceInit == Races!Init => RaceInv
<1> SUFFICES ASSUME Races!Init PROVE RaceInv
  OBVIOUS
<1>1. Races!Thread = {"t1", "t2", "t3"} /\ Races!Var = {"a", "b", "c"}
  BY DEF Races!Thread, Races!Var
<1>2. count \in Nat /\ NoThread \notin Races!Thread
  BY ThreadsAssumption DEF ThreadsAssumption
<1>3. Len(<< >>) = 0
  OBVIOUS
<1>4. Progress
  <2>1. program \in Races!Programs /\ rest = Races!Code(program)
    BY DEF Races!Init
  <2>2. rest \in [Races!Thread -> Seq(Operation)]
    BY <2>1, StartIs
  <2>3. ASSUME NEW t \in Races!Thread PROVE \A j \in 1 .. Todo(t) : rest[t][j] = OpAt(program, t, Todo(t) - j + 1)
    <3>1. \A n \in Nat : \A j \in 1 .. n : n - (n - j + 1) + 1 = j
      OBVIOUS
    <3>2. Todo(t) = Len(Races!Code(program)[t]) /\ Todo(t) \in Nat
      BY StartIs
    <3>3. \A j \in 1 .. Todo(t) : OpAt(program, t, Todo(t) - j + 1) = Races!Code(program)[t][j]
      BY <3>1, <3>2 DEF OpAt
    <3>4. QED BY <2>1, <3>3
  <2>4. \A t \in Races!Thread : Todo(t) <= Len(Races!Code(program)[t])
    BY StartIs
  <2>5. QED BY <2>1, <2>2, <2>3, <2>4, StartIs DEF Progress
<1>5. NumbersOf
  BY StartIs DEF NumbersOf
<1>6. CASE program \in Locked
  <2>1. Todo("t1") = 4 * count /\ Todo("t2") = 4 * count /\ Todo("t3") = 0
    BY <1>1, <1>3, <1>6, LockedCode, StartIs DEF Locked
  <2>2. Stores(4 * count) = count /\ (4 * count) % 4 = 0 /\ 0 % 4 = 0
    BY <1>2, StoresLeft
  <2>3. \A t \in Races!Thread : Todo(t) % 4 = 0
    BY <1>1, <2>1, <2>2
  <2>4. mem["a"] = 0 /\ ru_mutex = NoThread
    BY <1>6, StartIs DEF Locked
  <2>5. mem["a"] + Stores(Todo("t1")) + Stores(Todo("t2")) = 2 * count
    BY <1>2, <2>1, <2>2, <2>4
  <2>6. LockedInv
    BY <1>1, <1>2, <2>1, <2>3, <2>4, <2>5 DEF LockedInv
  <2>7. QED BY <1>4, <1>5, <1>6, <2>6 DEF RaceInv, Locked
<1>7. CASE program \in {"atomic", "atomic_ref"}
  <2>1. Todo("t3") = 0 /\ mem["a"] = 0
    BY <1>1, <1>3, <1>7, AtomicCode, StartIs
  <2>2. Todo("t1") + Todo("t2") = IF program = "atomic" THEN 2 * count ELSE Len(Races!data)
    BY <1>1, <1>7, AtomicCode, StartIs
  <2>3. 0 + Todo("t1") + Todo("t2") = Todo("t1") + Todo("t2")
    BY <1>1, StartIs
  <2>4. AtomicInv
    BY <2>1, <2>2, <2>3 DEF AtomicInv
  <2>5. QED BY <1>4, <1>5, <1>7, <2>4 DEF RaceInv, Locked
<1>8. CASE program = "naive"
  <2>1. Todo("t1") = 2 * count /\ Todo("t2") = 2 * count /\ Todo("t3") = 0 /\ mem["a"] = 0
    BY <1>1, <1>3, <1>8, NaiveCode, StartIs
  <2>2. Writes(2 * count) = count /\ (2 * count) % 2 = 0
    BY <1>2, WritesLeft
  <2>3. mem["a"] + count + count <= 2 * count /\ ~(count + count < 2 * count)
    BY <1>2, <2>1
  <2>4. ~(2 * count = 0 /\ count >= 2)
    BY <1>2
  <2>5. NaiveInv
    BY <2>1, <2>2, <2>3, <2>4 DEF NaiveInv
  <2>6. QED BY <1>4, <1>5, <1>8, <2>5 DEF RaceInv, Locked
<1>9. CASE program = "hazardous"
  <2>1. Todo("t1") = 2 /\ Todo("t2") = 2 /\ Todo("t3") = 1 /\ mem["a"] = 1
    BY <1>1, <1>9, HazardousCode, StartIs
  <2>2. HazardousInv
    BY <2>1 DEF HazardousInv
  <2>3. QED BY <1>4, <1>5, <1>9, <2>2 DEF RaceInv, Locked
<1>10. CASE program = "combinatory"
  <2>1. /\ Todo("t1") = 3 /\ Todo("t2") = 5 /\ Todo("t3") = 0
        /\ mem["a"] = 1 /\ mem["b"] = 0 /\ mem["c"] = 1
    BY <1>1, <1>10, CombinatoryCode, StartIs
  <2>2. CombinatoryInv
    BY <2>1 DEF CombinatoryInv
  <2>3. QED BY <1>4, <1>5, <1>10, <2>2 DEF RaceInv, Locked
<1>11. CASE program = "thread_local"
  <2>1. /\ Todo("t1") = 4 /\ Todo("t2") = 4 /\ Todo("t3") = 3
        /\ mem["a"] = 1 /\ mem["b"] = 1 /\ mem["c"] = 1
    BY <1>1, <1>11, LocalCode, StartIs
  <2>2. LocalInv
    BY <2>1 DEF LocalInv
  <2>3. QED BY <1>4, <1>5, <1>11, <2>2 DEF RaceInv, Locked
<1>12. program \in Races!Programs
  BY DEF Races!Init
<1>13. QED BY <1>6, <1>7, <1>8, <1>9, <1>10, <1>11, <1>12 DEF Races!Programs, Locked

LEMMA RaceKept == RaceInv /\ [Races!Next]_raceVars => RaceInv'
<1> SUFFICES ASSUME RaceInv, [Races!Next]_raceVars PROVE RaceInv'
  OBVIOUS
<1>1. CASE UNCHANGED raceVars
  <2>1. /\ program' = program /\ rest' = rest /\ reg' = reg /\ mem' = mem /\ ru_mutex' = ru_mutex
        /\ \A t : Todo(t)' = Todo(t)
    BY <1>1 DEF raceVars, Todo
  <2>2. Progress' /\ NumbersOf'
    BY <2>1 DEF RaceInv, Progress, NumbersOf, OpAt
  <2>3. /\ program \in Locked => LockedInv'
        /\ program \in {"atomic", "atomic_ref"} => AtomicInv'
        /\ program = "naive" => NaiveInv'
    BY <2>1 DEF RaceInv, LockedInv, AtomicInv, NaiveInv, Stores, Writes
  <2>4. /\ program = "hazardous" => HazardousInv'
        /\ program = "combinatory" => CombinatoryInv'
        /\ program = "thread_local" => LocalInv'
    BY <2>1 DEF RaceInv, HazardousInv, CombinatoryInv, LocalInv
  <2>5. QED BY <2>1, <2>2, <2>3, <2>4 DEF RaceInv
<1>2. ASSUME NEW t \in Races!Thread, Races!Step(t) PROVE RaceInv'
  <2>1. Progress /\ NumbersOf
    BY DEF RaceInv
  <2>2. Progress' /\ NumbersOf' /\ program' = program
    BY <1>2, <2>1, StepDoes
  <2>3. program \in Locked => LockedInv'
    BY <1>2, <2>1, LockedKept DEF RaceInv
  <2>4. program \in {"atomic", "atomic_ref"} => AtomicInv'
    BY <1>2, <2>1, AtomicKept DEF RaceInv
  <2>5. /\ program = "naive" => NaiveInv'
        /\ program = "hazardous" => HazardousInv'
        /\ program = "combinatory" => CombinatoryInv'
        /\ program = "thread_local" => LocalInv'
    BY <1>2, <2>1, NaiveKept, HazardousKept, CombinatoryKept, LocalKept DEF RaceInv
  <2>6. QED BY <2>2, <2>3, <2>4, <2>5 DEF RaceInv
<1>3. CASE Races!Next
  BY <1>1, <1>2, <1>3 DEF Races!Next, Races!vars, raceVars
<1>4. QED BY <1>1, <1>3

LEMMA RaceMeans == RaceInv => Results
<1> SUFFICES ASSUME RaceInv, Races!Joined PROVE Results
  BY DEF Results, Races!NothingLost, Races!OwnRage, Races!NaiveLoses, Races!HazardousResults,
         Races!CombinatoryResults, Races!Result
<1>1. Races!Thread = {"t1", "t2", "t3"} /\ Races!Var = {"a", "b", "c"} /\ count \in Nat
  BY ThreadsAssumption DEF Races!Thread, Races!Var, ThreadsAssumption
<1>2. Todo("t1") = 0 /\ Todo("t2") = 0 /\ Todo("t3") = 0
  <2>1. \A t \in Races!Thread : Todo(t) = 0
    BY EmptySeq DEF Races!Joined, Todo
  <2>2. QED BY <1>1, <2>1
<1>3. mem["a"] \in Nat /\ mem["b"] \in Nat /\ mem["c"] \in Nat /\ reg \in [Races!Thread -> Nat]
  BY <1>1 DEF RaceInv, NumbersOf
<1>4. Races!NothingLost
  <2>1. program \in Locked => mem["a"] = 2 * count
    <3>1. Stores(0) = 0
      BY StoresLeft
    <3>2. program \in Locked => mem["a"] + 0 + 0 = 2 * count
      BY <1>2, <3>1 DEF RaceInv, LockedInv
    <3>3. mem["a"] + 0 + 0 = mem["a"]
      BY <1>3
    <3>4. QED BY <3>2, <3>3
  <2>2. program \in {"atomic", "atomic_ref"} => mem["a"] = IF program = "atomic" THEN 2 * count ELSE Len(Races!data)
    BY <1>2, <1>3 DEF RaceInv, AtomicInv
  <2>3. QED BY <2>1, <2>2 DEF Races!NothingLost, Races!Result, Locked
<1>5. Races!OwnRage
  <2>1. ASSUME program = "thread_local" PROVE reg = [t1 |-> 2, t2 |-> 2, t3 |-> 1]
    <3>1. reg["t1"] = 2 /\ reg["t2"] = 2 /\ reg["t3"] = 1
      BY <1>2, <2>1 DEF RaceInv, LocalInv
    <3>2. QED BY <1>1, <1>3, <3>1
  <2>2. QED BY <2>1 DEF Races!OwnRage, Races!Result
<1>6. Races!NaiveLoses
  <2>1. ASSUME program = "naive", count >= 2 PROVE mem["a"] \in 2 .. 2 * count
    <3>1. mem["a"] + 0 + 0 <= 2 * count /\ mem["a"] >= 2
      BY <1>2, <2>1, WritesLeft DEF RaceInv, NaiveInv
    <3>2. QED BY <1>1, <1>3, <3>1
  <2>2. QED BY <2>1 DEF Races!NaiveLoses, Races!Result
<1>7. Races!HazardousResults
  BY <1>2 DEF RaceInv, HazardousInv, Races!HazardousResults, Races!Result
<1>8. Races!CombinatoryResults
  BY <1>2, <1>3 DEF RaceInv, CombinatoryInv, Races!CombinatoryResults, Races!Result
<1>9. QED BY <1>4, <1>5, <1>6, <1>7, <1>8 DEF Results

\* However the threads interleave, and for every number of increments: under
\* the mutex and with atomics nothing is lost, each thread of thread_local.cpp
\* shows its own number, the unprotected counter ends between 2 and the sum,
\* and the two programs with several results have no other than the listed
\* ones (incrementation--benchmark.cpp, atomic_ref.cpp,
\* hazardous_atomic_operation.cpp, combinatory_result.cpp,
\* concurrent_safe_mutex_access_*.cpp, thread_local.cpp).
THEOREM UpdatesEnd == MCSpec => []Results
<1>1. MCInit => RaceInv
  BY RaceInit DEF MCInit
<1>2. RaceInv /\ [MCNext]_demoVars => RaceInv'
  BY StepOfOne, RaceKept
<1>3. RaceInv => Results
  BY RaceMeans
<1>4. QED BY <1>1, <1>2, <1>3, PTL DEF MCSpec

-----------------------------------------------------------------------------
Cells == {"p", "p1", "p2", "go", "start", "ready", "callable"}

CodeOf(t) == Signal!Code(sg_program)[t]
Puts == {"write", "set"}

\* The operations with these indices are behind the thread.
Passed(t) == 1 .. sg_pc[t] - 1

\* An operation of one of the kinds on x comes before place i of code.
Before(code, i, kinds, x) == \E j \in 1 .. i - 1 : code[j].op \in kinds /\ code[j].on = x

\* What every code here sees to: a promise is set before its end; a variable is
\* written before it is read, by the reader or before a promise that the reader
\* got; an object ends when the others that use it are joined; a thread that
\* looks whether it is to stop only says things.
Careful(c, t, i) ==
  LET o == c[t][i] IN
  /\ o.op \in Puts \cup {"get", "read"} => o.on \in Cells
  /\ o.op = "join" => o.on \in Signal!Thread
  /\ o.op = "say" => o.on \notin {"", "broken"}
  /\ o.op \in Puts => o.val \notin {"", "broken"}
  /\ o.op = "drop" => Before(c[t], i, Puts, o.on)
  /\ o.op = "read" =>
       \/ Before(c[t], i, Puts, o.on)
       \/ \E x \in Cells :
            /\ Before(c[t], i, {"get"}, x)
            /\ \A u \in Signal!Thread : \A k \in 1 .. Len(c[u]) :
                 c[u][k].op \in Puts /\ c[u][k].on = x => Before(c[u], k, Puts, o.on)
  /\ o.op = "destroy" =>
       \A u \in Signal!Thread : \A k \in 1 .. Len(c[u]) :
         c[u][k].on = o.on => (u = t /\ k <= i) \/ Before(c[t], i, {"join"}, u)
  /\ o.op = "stop_requested" => \A k \in 1 .. Len(c[t]) : c[t][k].op \in {"stop_requested", "say"}

Well(c) ==
  /\ \A t \in Signal!Thread : Len(c[t]) \in Nat
  /\ \A t \in Signal!Thread : \A i \in 1 .. Len(c[t]) : Careful(c, t, i)

SignalType ==
  /\ sg_program \in Signal!Programs
  /\ Well(Signal!Code(sg_program))
  /\ sg_pc \in [Signal!Thread -> Nat]
  /\ \A t \in Signal!Thread : sg_pc[t] \in 1 .. Len(CodeOf(t)) + 1
  /\ sg_mem = [x \in Cells |-> sg_mem[x]]
  /\ life = [t \in Signal!Thread |-> life[t]]
  /\ \E S : said \in Seq(S)
  /\ left \in Int

\* What t says in this step.
Tells(t, x) == said' = Append(said, <<t, x>>)

LEMMA DeedsDone ==
  ASSUME SignalType, NEW t \in Signal!Thread, Signal!Run(t), NEW o, o = CodeOf(t)[sg_pc[t]]
  PROVE  /\ sg_pc[t] \in 1 .. Len(CodeOf(t)) /\ Len(CodeOf(t)) \in Nat
         /\ UNCHANGED sg_program /\ life[t] = "started"
         /\ \A u \in Signal!Thread : u /= t => sg_pc'[u] = sg_pc[u]
         /\ \/ sg_pc'[t] = sg_pc[t] + 1
            \/ sg_pc'[t] = sg_pc[t] /\ o.op \in {"join", "wait"}
            \/ sg_pc'[t] = Len(CodeOf(t)) + 1 /\ o.op = "stop_requested"
<1> DEFINE last == Len(CodeOf(t))
<1>1. /\ sg_pc \in [Signal!Thread -> Nat] /\ last \in Nat
      /\ sg_pc[t] \in 1 .. last + 1 /\ sg_pc[t] /= last + 1
  BY DEF SignalType, Well, CodeOf, Signal!Run, Signal!Active, Signal!End
<1>2. sg_pc[t] \in 1 .. last
  BY <1>1
<1>4. \/ Signal!Data(t, o) \/ Signal!Life(t, o) \/ Signal!Blocking(t, o) \/ Signal!Other(t, o)
  BY DEF Signal!Run, Signal!Place, CodeOf
<1>5. \/ sg_pc' = [sg_pc EXCEPT ![t] = @ + 1]
      \/ sg_pc' = sg_pc /\ o.op \in {"join", "wait"}
      \/ sg_pc' = [sg_pc EXCEPT ![t] = last + 1] /\ o.op = "stop_requested"
  BY <1>4 DEF Signal!Data, Signal!Life, Signal!Blocking, Signal!Other, Signal!Done, Signal!End, CodeOf
<1>6. UNCHANGED sg_program /\ life[t] = "started"
  BY DEF Signal!Run, Signal!Active
<1> HIDE DEF last
<1>7. QED BY <1>1, <1>2, <1>5, <1>6 DEF last

LEMMA DeedsMean ==
  ASSUME SignalType, NEW t \in Signal!Thread, Signal!Run(t), NEW o, o = CodeOf(t)[sg_pc[t]]
  PROVE  /\ o.op = "join" /\ sg_pc'[t] /= sg_pc[t] => sg_pc[o.on] = Len(CodeOf(o.on)) + 1
         /\ o.op = "stop_requested" /\ t \in stopped => sg_pc'[t] = Len(CodeOf(t)) + 1
         /\ dead' = IF o.op = "destroy" THEN dead \cup {o.on} ELSE dead
         /\ left' = IF o.op = "count_down" THEN left - 1 ELSE left
         /\ o.op = "await" => left = 0
         /\ stopped' = IF o.op = "request_stop" THEN stopped \cup {o.on} ELSE stopped
         /\ o.op \in Puts => sg_mem' = [sg_mem EXCEPT ![o.on] = o.val]
         /\ o.op = "drop" => sg_mem' = [sg_mem EXCEPT ![o.on] = IF @ = "" THEN "broken" ELSE @]
         /\ o.op \notin Puts \cup {"drop"} => sg_mem' = sg_mem
         /\ o.op = "say" => Tells(t, o.on)
         /\ o.op = "is_ready" => Tells(t, "ready") \/ Tells(t, "not ready")
         /\ o.op \in {"get", "read"} => Tells(t, sg_mem[o.on]) /\ o.on \in Cells
         /\ o.op = "get" => sg_mem[o.on] /= ""
         /\ o.op \notin {"say", "is_ready", "get", "read"} => said' = said
         /\ \A u \in Signal!Thread : life'[u] /= life[u] /\ life[u] = "unborn" => o.op \in {"start", "async"} /\ o.on = u
         /\ life' = [u \in Signal!Thread |-> life'[u]]
<1>1. sg_pc[t] \in 1 .. Len(CodeOf(t)) /\ Len(CodeOf(t)) \in Nat
  BY DeedsDone
<1>2. \/ Signal!Data(t, o) \/ Signal!Life(t, o) \/ Signal!Blocking(t, o) \/ Signal!Other(t, o)
  BY DEF Signal!Run, Signal!Place, CodeOf
<1>3. o.op \in {"get", "read"} => o.on \in Cells
  BY <1>1 DEF SignalType, Well, Careful, CodeOf
<1>5. CASE Signal!Data(t, o)
  <2>1. UNCHANGED <<life, left, stopped, dead>> /\ o.op \in {"say", "is_ready", "get", "read", "drop"} \cup Puts
    BY <1>5 DEF Signal!Data, Puts
  <2>2. /\ o.op \in Puts => sg_mem' = [sg_mem EXCEPT ![o.on] = o.val] /\ said' = said
        /\ o.op = "drop" => sg_mem' = [sg_mem EXCEPT ![o.on] = IF @ = "" THEN "broken" ELSE @] /\ said' = said
        /\ o.op \in {"say", "is_ready", "get", "read"} => sg_mem' = sg_mem
    BY <1>5 DEF Signal!Data, Puts
  <2>3. /\ o.op = "say" => Tells(t, o.on)
        /\ o.op = "is_ready" => Tells(t, "ready") \/ Tells(t, "not ready")
        /\ o.op \in {"get", "read"} => Tells(t, sg_mem[o.on])
        /\ o.op = "get" => sg_mem[o.on] /= ""
    BY <1>5 DEF Signal!Data, Signal!Tell, Tells
  <2>4. QED BY <1>3, <2>1, <2>2, <2>3 DEF Puts, SignalType
<1>6. CASE Signal!Life(t, o)
  <2>1. UNCHANGED <<sg_mem, left, stopped, dead, said>> /\ o.op \in {"start", "async", "join"}
    BY <1>6 DEF Signal!Life
  <2>2. o.op = "join" /\ sg_pc'[t] /= sg_pc[t] => sg_pc[o.on] = Len(CodeOf(o.on)) + 1
    BY <1>6 DEF Signal!Life, Signal!End, CodeOf
  <2>3. /\ \A u \in Signal!Thread : life'[u] /= life[u] /\ life[u] = "unborn" => o.op \in {"start", "async"} /\ o.on = u
        /\ life' = [u \in Signal!Thread |-> life'[u]]
    BY <1>6 DEF Signal!Life, SignalType
  <2>4. QED BY <2>1, <2>2, <2>3 DEF Puts
<1>7. CASE Signal!Blocking(t, o)
  <2>1. UNCHANGED <<life, sg_mem, left, stopped, dead, said>> /\ o.op \in {"lock", "unlock", "wait", "notify"}
    BY <1>7 DEF Signal!Blocking
  <2>2. QED BY <2>1 DEF Puts, SignalType
<1>8. CASE Signal!Other(t, o)
  <2>1. /\ UNCHANGED <<life, sg_mem, said>>
        /\ o.op \in {"count_down", "await", "request_stop", "stop_requested", "destroy"}
    BY <1>8 DEF Signal!Other
  <2>2. /\ dead' = IF o.op = "destroy" THEN dead \cup {o.on} ELSE dead
        /\ left' = IF o.op = "count_down" THEN left - 1 ELSE left
        /\ o.op = "await" => left = 0
        /\ stopped' = IF o.op = "request_stop" THEN stopped \cup {o.on} ELSE stopped
    BY <1>8 DEF Signal!Other
  <2>3. o.op = "stop_requested" /\ t \in stopped => sg_pc'[t] = Len(CodeOf(t)) + 1
    BY <1>8 DEF Signal!Other, Signal!End, CodeOf, SignalType
  <2>4. QED BY <2>1, <2>2, <2>3 DEF Puts, SignalType
<1>9. QED BY <1>2, <1>5, <1>6, <1>7, <1>8

-----------------------------------------------------------------------------
Over(t) == sg_pc[t] = Len(CodeOf(t)) + 1

\* What is behind a thread has had its effect: who was joined has ended, what
\* was set or got is there, no promise ended without it; and only that: what is
\* there was set, what is dead was destroyed.
JoinsOver ==
  \A t \in Signal!Thread : \A i \in Passed(t) : CodeOf(t)[i].op = "join" => Over(CodeOf(t)[i].on)
CellsFilled ==
  \A t \in Signal!Thread : \A i \in Passed(t) :
    CodeOf(t)[i].op \in Puts \cup {"get"} => sg_mem[CodeOf(t)[i].on] /= ""
NoneBroken == \A x \in Cells : sg_mem[x] /= "broken"
FromPuts ==
  \A x \in Cells : sg_mem[x] /= "" =>
    \E u \in Signal!Thread : \E k \in Passed(u) :
      CodeOf(u)[k].op \in Puts /\ CodeOf(u)[k].on = x /\ CodeOf(u)[k].val = sg_mem[x]
DeadEnded ==
  \A x \in dead :
    \E u \in Signal!Thread : \E k \in Passed(u) : CodeOf(u)[k].op = "destroy" /\ CodeOf(u)[k].on = x
Effective == JoinsOver /\ CellsFilled /\ NoneBroken /\ FromPuts /\ DeadEnded

\* What was to be said was said, unless the thread may have been stopped.
Heard ==
  \A t \in Signal!Thread : (\A i \in 1 .. Len(CodeOf(t)) : CodeOf(t)[i].op /= "stop_requested") =>
    \A i \in Passed(t) : CodeOf(t)[i].op = "say" => Signal!Said(CodeOf(t)[i].on) /= {}

NothingBad == Signal!Said("broken") = {} /\ Signal!Said("") = {}

\* What is behind the threads after a step.
LEMMA PassedIs ==
  ASSUME SignalType, NEW t \in Signal!Thread, Signal!Run(t)
  PROVE  /\ \A u \in Signal!Thread :
              CodeOf(u)' = CodeOf(u) /\ Passed(u) \subseteq Passed(u)' /\ Passed(u) \subseteq 1 .. Len(CodeOf(u))
         /\ \A u \in Signal!Thread : u /= t => Passed(u)' = Passed(u)
         /\ sg_pc'[t] = sg_pc[t] + 1 => Passed(t)' = Passed(t) \cup {sg_pc[t]}
         /\ sg_pc'[t] = sg_pc[t] => Passed(t)' = Passed(t)
         /\ Passed(t)' \subseteq 1 .. Len(CodeOf(t))
<1>1. /\ sg_pc[t] \in 1 .. Len(CodeOf(t)) /\ Len(CodeOf(t)) \in Nat
      /\ UNCHANGED sg_program
      /\ \A u \in Signal!Thread : u /= t => sg_pc'[u] = sg_pc[u]
      /\ \/ sg_pc'[t] = sg_pc[t] + 1
         \/ sg_pc'[t] = sg_pc[t]
         \/ sg_pc'[t] = Len(CodeOf(t)) + 1
  BY DeedsDone
<1>2. \A u \in Signal!Thread : CodeOf(u)' = CodeOf(u)
  BY <1>1 DEF CodeOf
<1>3. \A u \in Signal!Thread : sg_pc[u] \in 1 .. Len(CodeOf(u)) + 1 /\ Len(CodeOf(u)) \in Nat
  BY DEF SignalType, Well, CodeOf
<1>4. QED BY <1>1, <1>2, <1>3 DEF Passed

LEMMA TypeKept ==
  ASSUME SignalType, NEW t \in Signal!Thread, Signal!Run(t)
  PROVE  SignalType'
<1> DEFINE o == CodeOf(t)[sg_pc[t]]
<1>1. /\ sg_pc[t] \in 1 .. Len(CodeOf(t)) /\ Len(CodeOf(t)) \in Nat
      /\ UNCHANGED sg_program
      /\ \A u \in Signal!Thread : u /= t => sg_pc'[u] = sg_pc[u]
      /\ \/ sg_pc'[t] = sg_pc[t] + 1
         \/ sg_pc'[t] = sg_pc[t]
         \/ sg_pc'[t] = Len(CodeOf(t)) + 1
  BY DeedsDone
<1>2. /\ o.op \in Puts => sg_mem' = [sg_mem EXCEPT ![o.on] = o.val]
      /\ o.op = "drop" => sg_mem' = [sg_mem EXCEPT ![o.on] = IF @ = "" THEN "broken" ELSE @]
      /\ o.op \notin Puts \cup {"drop"} => sg_mem' = sg_mem
      /\ left' = IF o.op = "count_down" THEN left - 1 ELSE left
      /\ life' = [u \in Signal!Thread |-> life'[u]]
  BY DeedsMean
<1>3. said' = said \/ \E x : Tells(t, x)
  BY DeedsMean
<1> HIDE DEF o
<1>4. \E S : said' \in Seq(S)
  <2>1. PICK S : said \in Seq(S)
    BY DEF SignalType
  <2>2. CASE said' = said
    BY <2>1, <2>2
  <2>3. ASSUME NEW x, said' = Append(said, <<t, x>>) PROVE \E T : said' \in Seq(T)
    <3>1. said \in Seq(S \cup {<<t, x>>})
      BY <2>1
    <3>2. said' \in Seq(S \cup {<<t, x>>})
      BY <2>3, <3>1
    <3>3. QED BY <3>2
  <2>4. QED BY <1>3, <2>2, <2>3 DEF Tells
<1>5. sg_mem' = [x \in Cells |-> sg_mem'[x]]
  BY <1>2 DEF SignalType
<1>6. sg_pc' \in [Signal!Thread -> Nat] /\ \A u \in Signal!Thread : sg_pc'[u] \in 1 .. Len(CodeOf(u)) + 1
  <2>1. sg_pc' = [sg_pc EXCEPT ![t] = @ + 1] \/ sg_pc' = sg_pc \/ sg_pc' = [sg_pc EXCEPT ![t] = Len(CodeOf(t)) + 1]
    BY DEF Signal!Run, Signal!Data, Signal!Life, Signal!Blocking, Signal!Other, Signal!Done, Signal!End, CodeOf
  <2>2. sg_pc' \in [Signal!Thread -> Nat]
    BY <1>1, <2>1 DEF SignalType
  <2>3. \A u \in Signal!Thread : sg_pc[u] \in 1 .. Len(CodeOf(u)) + 1
    BY DEF SignalType
  <2>4. sg_pc'[t] \in 1 .. Len(CodeOf(t)) + 1
    BY <1>1
  <2>5. QED BY <1>1, <2>2, <2>3, <2>4
<1>7. left' \in Int
  <2>1. left \in Int
    BY DEF SignalType
  <2>2. left' = left - 1 \/ left' = left
    BY <1>2
  <2>3. QED BY <2>1, <2>2
<1>8. \A u \in Signal!Thread : CodeOf(u)' = CodeOf(u)
  BY <1>1 DEF CodeOf
<1>9. QED BY <1>1, <1>2, <1>4, <1>5, <1>6, <1>7, <1>8 DEF SignalType

LEMMA SaidIs ==
  ASSUME SignalType, NEW t, NEW x, NEW y
  PROVE  /\ Tells(t, x) =>
              Signal!Said(y)' = IF x = y THEN Signal!Said(y) \cup {Len(said) + 1} ELSE Signal!Said(y)
         /\ Signal!Said(y) \subseteq 1 .. Len(said) /\ Len(said) \in Nat
<1>1. PICK S : said \in Seq(S)
  BY DEF SignalType
<1>2. Len(said) \in Nat
  BY <1>1, LenProperties
<1>3. ASSUME Tells(t, x)
      PROVE  /\ Len(said') = Len(said) + 1 /\ said'[Len(said) + 1] = <<t, x>>
             /\ \A k \in 1 .. Len(said) : said'[k] = said[k]
  <2>1. said \in Seq(S \cup {<<t, x>>})
    BY <1>1
  <2>2. QED BY <1>3, <2>1, AppendProperties DEF Tells
<1>4. QED BY <1>2, <1>3 DEF Signal!Said

\* Whoever says y has heard every x of X.
LEMMA AfterKept ==
  ASSUME SignalType, NEW t \in Signal!Thread, Signal!Run(t), NEW X, NEW y,
         Signal!After(X, y), Tells(t, y) => \A x \in X : Signal!Said(x) /= {}
  PROVE  Signal!After(X, y)'
<1>1. \/ said' = said
      \/ \E z : z /= y /\ Tells(t, z)
      \/ Tells(t, y)
  <2> DEFINE o == CodeOf(t)[sg_pc[t]]
  <2>1. /\ o.op = "say" => Tells(t, o.on)
        /\ o.op = "is_ready" => Tells(t, "ready") \/ Tells(t, "not ready")
        /\ o.op \in {"get", "read"} => Tells(t, sg_mem[o.on])
        /\ o.op \notin {"say", "is_ready", "get", "read"} => said' = said
    BY DeedsMean
  <2> HIDE DEF o
  <2>2. said' = said \/ \E x : Tells(t, x)
    BY <2>1
  <2>3. QED BY <2>2
<1>2. CASE said' = said
  BY <1>2 DEF Signal!After, Signal!Said
<1>3. ASSUME NEW z, Tells(t, z), z /= y \/ \A x \in X : Signal!Said(x) /= {} PROVE Signal!After(X, y)'
  <2>1. \A x : Signal!Said(x) \subseteq Signal!Said(x)' /\ Signal!Said(x) \subseteq 1 .. Len(said) /\ Len(said) \in Nat
    BY <1>3, SaidIs
  <2>2. Signal!Said(y)' = IF z = y THEN Signal!Said(y) \cup {Len(said) + 1} ELSE Signal!Said(y)
    BY <1>3, SaidIs
  <2> SUFFICES ASSUME NEW k \in Signal!Said(y)', NEW x \in X PROVE \E j \in Signal!Said(x)' : j < k
    BY DEF Signal!After
  <2>3. CASE k \in Signal!Said(y)
    <3>1. PICK j \in Signal!Said(x) : j < k
      BY <2>3 DEF Signal!After
    <3>2. QED BY <2>1, <3>1
  <2>4. CASE k = Len(said) + 1 /\ z = y
    <3>1. PICK j \in Signal!Said(x) : TRUE
      BY <1>3, <2>4
    <3>2. j \in Signal!Said(x)' /\ j \in 1 .. Len(said) /\ Len(said) \in Nat
      BY <2>1, <3>1
    <3>3. QED BY <2>4, <3>2
  <2>5. QED BY <2>2, <2>3, <2>4
<1>4. QED BY <1>1, <1>2, <1>3

-----------------------------------------------------------------------------
LEMMA DeedCareful ==
  ASSUME SignalType, NEW t \in Signal!Thread, NEW i \in 1 .. Len(CodeOf(t))
  PROVE  Careful(Signal!Code(sg_program), t, i)
BY DEF SignalType, Well, CodeOf

\* A cell that has a value keeps one.
LEMMA CellsKept ==
  ASSUME SignalType, Effective, NEW t \in Signal!Thread, Signal!Run(t)
  PROVE  /\ \A x \in Cells : sg_mem[x] /= "" => sg_mem'[x] /= ""
         /\ \A x \in Cells : sg_mem'[x] /= "broken"
         /\ \A x \in Cells : sg_mem'[x] /= sg_mem[x] =>
              LET o == CodeOf(t)[sg_pc[t]] IN o.op \in Puts /\ o.on = x /\ o.val = sg_mem'[x]
         /\ LET o == CodeOf(t)[sg_pc[t]] IN o.op \in Puts \cup {"get"} => sg_mem'[o.on] /= "" 
<1> DEFINE o == CodeOf(t)[sg_pc[t]]
           c == Signal!Code(sg_program)
<1>1. sg_pc[t] \in 1 .. Len(CodeOf(t))
  BY DeedsDone
<1>2. /\ o.op \in Puts => sg_mem' = [sg_mem EXCEPT ![o.on] = o.val]
      /\ o.op = "drop" => sg_mem' = [sg_mem EXCEPT ![o.on] = IF @ = "" THEN "broken" ELSE @]
      /\ o.op \notin Puts \cup {"drop"} => sg_mem' = sg_mem
      /\ o.op = "get" => sg_mem[o.on] /= ""
  BY DeedsMean
<1>3. Careful(c, t, sg_pc[t])
  BY <1>1, DeedCareful
<1>4. /\ o.op \in Puts => o.val \notin {"", "broken"} /\ o.on \in Cells
      /\ o.op = "drop" => Before(CodeOf(t), sg_pc[t], Puts, o.on)
  BY <1>3 DEF Careful, CodeOf
<1>5. o.op = "drop" => sg_mem[o.on] /= ""
  <2>1. sg_pc[t] \in Nat /\ \A j \in 1 .. sg_pc[t] - 1 : j \in Passed(t)
    BY DEF Passed, SignalType
  <2>2. CellsFilled
    BY DEF Effective
  <2> HIDE DEF o
  <2>3. QED BY <1>4, <2>1, <2>2 DEF Before, CellsFilled
<1>6. /\ \A x \in Cells : sg_mem[x] /= "broken"
      /\ sg_mem = [x \in Cells |-> sg_mem[x]]
  BY DEF Effective, NoneBroken, SignalType
<1> HIDE DEF o
<1>7. \A x \in Cells : sg_mem'[x] = IF o.op \in Puts /\ o.on = x THEN o.val ELSE sg_mem[x]
  <2>1. CASE o.op \in Puts
    BY <1>2, <1>4, <1>6, <2>1
  <2>2. CASE o.op = "drop"
    BY <1>2, <1>5, <1>6, <2>2 DEF Puts
  <2>3. QED BY <1>2, <2>1, <2>2
<1>8. QED BY <1>2, <1>4, <1>6, <1>7 DEF o, Puts

LEMMA EffectiveKept ==
  ASSUME SignalType, Effective, NEW t \in Signal!Thread, Signal!Run(t)
  PROVE  Effective'
<1> DEFINE o == CodeOf(t)[sg_pc[t]]
           c == Signal!Code(sg_program)
<1>1. /\ sg_pc[t] \in 1 .. Len(CodeOf(t)) /\ Len(CodeOf(t)) \in Nat
      /\ \A u \in Signal!Thread : u /= t => sg_pc'[u] = sg_pc[u]
      /\ \/ sg_pc'[t] = sg_pc[t] + 1
         \/ sg_pc'[t] = sg_pc[t] /\ o.op \in {"join", "wait"}
         \/ sg_pc'[t] = Len(CodeOf(t)) + 1 /\ o.op = "stop_requested"
  BY DeedsDone
<1>2. /\ o.op = "join" /\ sg_pc'[t] /= sg_pc[t] => sg_pc[o.on] = Len(CodeOf(o.on)) + 1
      /\ dead' = IF o.op = "destroy" THEN dead \cup {o.on} ELSE dead
  BY DeedsMean
<1>3. Careful(c, t, sg_pc[t])
  BY <1>1, DeedCareful
<1>4. o.op = "stop_requested" => \A k \in 1 .. Len(CodeOf(t)) : CodeOf(t)[k].op \in {"stop_requested", "say"}
  BY <1>3 DEF Careful, CodeOf
<1>5. /\ \A u \in Signal!Thread :
           CodeOf(u)' = CodeOf(u) /\ Passed(u) \subseteq Passed(u)' /\ Passed(u) \subseteq 1 .. Len(CodeOf(u))
      /\ \A u \in Signal!Thread : u /= t => Passed(u)' = Passed(u)
      /\ sg_pc'[t] = sg_pc[t] + 1 => Passed(t)' = Passed(t) \cup {sg_pc[t]}
      /\ sg_pc'[t] = sg_pc[t] => Passed(t)' = Passed(t)
      /\ Passed(t)' \subseteq 1 .. Len(CodeOf(t))
  BY PassedIs
<1>6. /\ \A x \in Cells : sg_mem[x] /= "" => sg_mem'[x] /= ""
      /\ \A x \in Cells : sg_mem'[x] /= "broken"
      /\ \A x \in Cells : sg_mem'[x] /= sg_mem[x] => o.op \in Puts /\ o.on = x /\ o.val = sg_mem'[x]
      /\ o.op \in Puts \cup {"get"} => sg_mem'[o.on] /= ""
  BY CellsKept
<1> HIDE DEF o
\* Only a look at the stop token takes a thread further than one place.
<1>7. \A u \in Signal!Thread : \A i \in Passed(u)' :
        \/ i \in Passed(u)
        \/ u = t /\ i = sg_pc[t] /\ sg_pc'[t] = sg_pc[t] + 1
        \/ CodeOf(u)[i].op \in {"stop_requested", "say"}
  BY <1>1, <1>4, <1>5
<1>8. o.op \in Puts \cup {"destroy"} => sg_pc[t] \in Passed(t)'
  BY <1>1, <1>5 DEF Puts
<1>9. ASSUME NEW u \in Signal!Thread, NEW i \in Passed(u)', CodeOf(u)[i].op = "join"
      PROVE  sg_pc'[CodeOf(u)[i].on] = Len(CodeOf(CodeOf(u)[i].on)) + 1
  <2> DEFINE v == CodeOf(u)[i].on
  <2>1. sg_pc[v] = Len(CodeOf(v)) + 1
    <3>1. CASE i \in Passed(u)
      BY <1>9, <3>1 DEF Effective, JoinsOver, Over
    <3>2. CASE u = t /\ i = sg_pc[t] /\ sg_pc'[t] = sg_pc[t] + 1
      BY <1>1, <1>2, <1>9, <3>2 DEF o
    <3>3. QED BY <1>7, <1>9, <3>1, <3>2
  <2>2. v /= t
    BY <1>1, <2>1
  <2>3. v \in Signal!Thread
    <3>1. i \in 1 .. Len(CodeOf(u))
      BY <1>5
    <3>2. Careful(c, u, i)
      BY <3>1, DeedCareful
    <3>3. QED BY <1>9, <3>2 DEF Careful, CodeOf
  <2>4. sg_pc'[v] = sg_pc[v]
    BY <1>1, <2>2, <2>3
  <2>5. QED BY <2>1, <2>4
<1>10. ASSUME NEW u \in Signal!Thread, NEW i \in Passed(u)', CodeOf(u)[i].op \in Puts \cup {"get"}
       PROVE  sg_mem'[CodeOf(u)[i].on] /= ""
  <2>1. i \in 1 .. Len(CodeOf(u))
    BY <1>5
  <2>2. CodeOf(u)[i].on \in Cells
    <3>1. Careful(c, u, i)
      BY <2>1, DeedCareful
    <3>2. QED BY <1>10, <3>1 DEF Careful, CodeOf
  <2>3. CASE i \in Passed(u)
    BY <1>6, <1>10, <2>2, <2>3 DEF Effective, CellsFilled
  <2>4. CASE u = t /\ i = sg_pc[t]
    BY <1>6, <1>10, <2>4 DEF o
  <2>5. QED BY <1>7, <1>10, <2>3, <2>4 DEF Puts
<1>11. ASSUME NEW x \in Cells, sg_mem'[x] /= ""
       PROVE  \E u \in Signal!Thread : \E k \in Passed(u)' :
                CodeOf(u)[k].op \in Puts /\ CodeOf(u)[k].on = x /\ CodeOf(u)[k].val = sg_mem'[x]
  <2>1. CASE sg_mem'[x] = sg_mem[x]
    <3>1. PICK u \in Signal!Thread : \E k \in Passed(u) :
            CodeOf(u)[k].op \in Puts /\ CodeOf(u)[k].on = x /\ CodeOf(u)[k].val = sg_mem[x]
      BY <1>11, <2>1 DEF Effective, FromPuts
    <3>2. QED BY <1>5, <2>1, <3>1
  <2>2. CASE sg_mem'[x] /= sg_mem[x]
    BY <1>6, <1>8, <2>2 DEF o
  <2>3. QED BY <2>1, <2>2
<1>12. ASSUME NEW x \in dead'
       PROVE  \E u \in Signal!Thread : \E k \in Passed(u)' : CodeOf(u)[k].op = "destroy" /\ CodeOf(u)[k].on = x
  <2>1. CASE x \in dead
    <3>1. PICK u \in Signal!Thread : \E k \in Passed(u) : CodeOf(u)[k].op = "destroy" /\ CodeOf(u)[k].on = x
      BY <2>1 DEF Effective, DeadEnded
    <3>2. QED BY <1>5, <3>1
  <2>2. CASE x = o.on /\ o.op = "destroy"
    BY <1>8, <2>2 DEF o
  <2>3. QED BY <1>2, <2>1, <2>2
<1>13. \A u : CodeOf(u)' = CodeOf(u)
  BY DeedsDone DEF CodeOf
<1> HIDE DEF c
<1>14. JoinsOver'
  BY <1>9, <1>13 DEF JoinsOver, Over
<1>15. CellsFilled'
  BY <1>10, <1>13 DEF CellsFilled
<1>16. NoneBroken'
  BY <1>6 DEF NoneBroken
<1>17. FromPuts'
  BY <1>11, <1>13 DEF FromPuts
<1>18. DeadEnded'
  BY <1>12, <1>13 DEF DeadEnded
<1>19. QED BY <1>14, <1>15, <1>16, <1>17, <1>18 DEF Effective

LEMMA HeardKept ==
  ASSUME SignalType, Heard, NEW t \in Signal!Thread, Signal!Run(t)
  PROVE  Heard'
<1> DEFINE o == CodeOf(t)[sg_pc[t]]
<1>1. /\ sg_pc[t] \in 1 .. Len(CodeOf(t))
      /\ \/ sg_pc'[t] = sg_pc[t] + 1
         \/ sg_pc'[t] = sg_pc[t]
         \/ o.op = "stop_requested"
  BY DeedsDone
<1>2. /\ \A u \in Signal!Thread : CodeOf(u)' = CodeOf(u)
      /\ \A u \in Signal!Thread : u /= t => Passed(u)' = Passed(u)
      /\ sg_pc'[t] = sg_pc[t] + 1 => Passed(t)' = Passed(t) \cup {sg_pc[t]}
      /\ sg_pc'[t] = sg_pc[t] => Passed(t)' = Passed(t)
  BY PassedIs
<1>3. \A x : Signal!Said(x) \subseteq Signal!Said(x)'
  <2>1. said' = said \/ \E z : Tells(t, z)
    BY DeedsMean
  <2>2. CASE said' = said
    BY <2>2 DEF Signal!Said
  <2>3. ASSUME NEW z, Tells(t, z) PROVE \A x : Signal!Said(x) \subseteq Signal!Said(x)'
    BY <2>3, SaidIs
  <2>4. QED BY <2>1, <2>2, <2>3
<1>4. \A x : o.op = "say" /\ o.on = x => Signal!Said(x)' /= {}
  <2>1. o.op = "say" => Tells(t, o.on)
    BY DeedsMean
  <2> HIDE DEF o
  <2>2. \A x : Tells(t, x) => Signal!Said(x)' /= {}
    BY SaidIs
  <2>3. QED BY <2>1, <2>2
<1>5. ASSUME NEW u \in Signal!Thread, \A i \in 1 .. Len(CodeOf(u)) : CodeOf(u)[i].op /= "stop_requested",
             NEW i \in Passed(u)', CodeOf(u)[i].op = "say", NEW x, x = CodeOf(u)[i].on
      PROVE  Signal!Said(x)' /= {}
  <2>1. u = t => \/ sg_pc'[t] = sg_pc[t] + 1
                 \/ sg_pc'[t] = sg_pc[t]
    BY <1>1, <1>5
  <2>2. i \in Passed(u) \/ (u = t /\ i = sg_pc[t])
    BY <1>2, <1>5, <2>1
  <2>3. CASE i \in Passed(u)
    <3>1. Signal!Said(x) /= {}
      BY <1>5, <2>3 DEF Heard
    <3>2. QED BY <1>3, <3>1
  <2>4. CASE u = t /\ i = sg_pc[t]
    BY <1>4, <1>5, <2>4
  <2>5. QED BY <2>2, <2>3, <2>4
<1>6. ASSUME NEW u \in Signal!Thread, \A i \in 1 .. Len(CodeOf(u)') : CodeOf(u)'[i].op /= "stop_requested",
             NEW i \in Passed(u)', CodeOf(u)'[i].op = "say"
      PROVE  Signal!Said(CodeOf(u)[i].on)' /= {}
  <2>1. CodeOf(u)' = CodeOf(u)
    BY <1>2
  <2>2. \A x : x = CodeOf(u)[i].on => Signal!Said(x)' /= {}
    BY <1>5, <1>6, <2>1
  <2>3. QED BY <2>1, <2>2
<1>7. QED BY <1>6 DEF Heard

LEMMA NothingBadKept ==
  ASSUME SignalType, Effective, NothingBad, NEW t \in Signal!Thread, Signal!Run(t)
  PROVE  NothingBad'
<1> DEFINE o == CodeOf(t)[sg_pc[t]]
           c == Signal!Code(sg_program)
<1>1. sg_pc[t] \in 1 .. Len(CodeOf(t))
  BY DeedsDone
<1>2. /\ o.op = "say" => Tells(t, o.on)
      /\ o.op = "is_ready" => Tells(t, "ready") \/ Tells(t, "not ready")
      /\ o.op \in {"get", "read"} => Tells(t, sg_mem[o.on]) /\ o.on \in Cells
      /\ o.op = "get" => sg_mem[o.on] /= ""
      /\ o.op \notin {"say", "is_ready", "get", "read"} => said' = said
  BY DeedsMean
<1>3. Careful(c, t, sg_pc[t])
  BY <1>1, DeedCareful
<1>4. o.op = "say" => o.on \notin {"", "broken"}
  BY <1>3 DEF Careful, CodeOf
<1>5. \A u \in Signal!Thread : \A i \in Passed(u) : CodeOf(u)[i].op \in Puts \cup {"get"} => sg_mem[CodeOf(u)[i].on] /= ""
  BY DEF Effective, CellsFilled
<1>6. o.op = "read" => sg_mem[o.on] /= ""
  <2> SUFFICES ASSUME o.op = "read" PROVE sg_mem[o.on] /= ""
    OBVIOUS
  <2>1. \/ Before(CodeOf(t), sg_pc[t], Puts, o.on)
        \/ \E x \in Cells :
             /\ Before(CodeOf(t), sg_pc[t], {"get"}, x)
             /\ \A u \in Signal!Thread : \A k \in 1 .. Len(CodeOf(u)) :
                  CodeOf(u)[k].op \in Puts /\ CodeOf(u)[k].on = x => Before(CodeOf(u), k, Puts, o.on)
    BY <1>3 DEF Careful, CodeOf
  <2>2. CASE Before(CodeOf(t), sg_pc[t], Puts, o.on)
    BY <1>5, <2>2 DEF Before, Passed
  <2>3. ASSUME NEW x \in Cells, Before(CodeOf(t), sg_pc[t], {"get"}, x),
               \A u \in Signal!Thread : \A k \in 1 .. Len(CodeOf(u)) :
                 CodeOf(u)[k].op \in Puts /\ CodeOf(u)[k].on = x => Before(CodeOf(u), k, Puts, o.on)
        PROVE  sg_mem[o.on] /= ""
    <3>1. sg_mem[x] /= ""
      BY <1>5, <2>3 DEF Before, Passed
    <3>2. PICK u \in Signal!Thread : \E k \in Passed(u) : CodeOf(u)[k].op \in Puts /\ CodeOf(u)[k].on = x
      BY <3>1 DEF Effective, FromPuts
    <3>3. PICK k \in Passed(u) : CodeOf(u)[k].op \in Puts /\ CodeOf(u)[k].on = x
      BY <3>2
    <3>4. k \in 1 .. Len(CodeOf(u)) /\ k \in Nat /\ sg_pc[u] \in Nat
      BY PassedIs DEF Passed, SignalType
    <3>5. Before(CodeOf(u), k, Puts, o.on)
      BY <2>3, <3>3, <3>4
    <3>6. \A j \in 1 .. k - 1 : j \in Passed(u)
      BY <3>4 DEF Passed
    <3>7. QED BY <1>5, <3>5, <3>6 DEF Before
  <2>4. QED BY <2>1, <2>2, <2>3
<1>7. \A x \in Cells : sg_mem[x] /= "broken"
  BY DEF Effective, NoneBroken
<1> HIDE DEF o
<1>8. said' = said \/ \E x : x \notin {"", "broken"} /\ Tells(t, x)
  BY <1>2, <1>4, <1>6, <1>7
<1>9. CASE said' = said
  BY <1>9 DEF NothingBad, Signal!Said
<1>10. ASSUME NEW x, x \notin {"", "broken"}, Tells(t, x) PROVE NothingBad'
  <2>1. Signal!Said("broken")' = Signal!Said("broken") /\ Signal!Said("")' = Signal!Said("")
    BY <1>10, SaidIs
  <2>2. QED BY <2>1 DEF NothingBad
<1>11. QED BY <1>8, <1>9, <1>10

LEMMA NoneDead == SignalType /\ Effective => Signal!NoneUsedDead
<1> SUFFICES ASSUME SignalType, Effective, NEW t \in Signal!Thread, Signal!Active(t),
                    Signal!Place(t).on \in dead
             PROVE  FALSE
  BY DEF Signal!NoneUsedDead
<1>1. \A u \in Signal!Thread : sg_pc[u] \in 1 .. Len(CodeOf(u)) + 1 /\ Len(CodeOf(u)) \in Nat
  BY DEF SignalType, Well, CodeOf
<1>2. sg_pc[t] \in 1 .. Len(CodeOf(t))
  BY <1>1 DEF Signal!Active, Signal!End, CodeOf
<1>3. PICK u \in Signal!Thread : \E k \in Passed(u) : CodeOf(u)[k].op = "destroy" /\ CodeOf(u)[k].on = CodeOf(t)[sg_pc[t]].on
  BY DEF Effective, DeadEnded, Signal!Place, CodeOf
<1>4. PICK k \in Passed(u) : CodeOf(u)[k].op = "destroy" /\ CodeOf(u)[k].on = CodeOf(t)[sg_pc[t]].on
  BY <1>3
<1>5. k \in 1 .. Len(CodeOf(u)) /\ k < sg_pc[u]
  BY <1>1 DEF Passed
<1>6. Careful(Signal!Code(sg_program), u, k)
  BY <1>5, DeedCareful
<1>7. (t = u /\ sg_pc[t] <= k) \/ Before(CodeOf(u), k, {"join"}, t)
  BY <1>2, <1>4, <1>6 DEF Careful, CodeOf
<1>8. ~Before(CodeOf(u), k, {"join"}, t)
  <2> SUFFICES ASSUME NEW j \in 1 .. k - 1, CodeOf(u)[j].op = "join", CodeOf(u)[j].on = t PROVE FALSE
    BY DEF Before
  <2>1. j \in Passed(u)
    BY <1>1, <1>5 DEF Passed
  <2>2. sg_pc[t] = Len(CodeOf(t)) + 1
    BY <2>1 DEF Effective, JoinsOver, Over
  <2>3. QED BY <1>1, <1>2, <2>2
<1>9. QED BY <1>1, <1>5, <1>7, <1>8

-----------------------------------------------------------------------------
\* Operations of which Careful asks nothing but names; no other than these
\* looks at what comes before it, and these say x, or set it, at most.
Simple(o) ==
  /\ o.op \notin {"drop", "read", "destroy", "stop_requested"}
  /\ o.op = "join" => o.on \in Signal!Thread
  /\ o.op = "say" => o.on \notin {"", "broken"}
  /\ o.op \in Puts \cup {"get"} => o.on \in Cells
  /\ o.op \in Puts => o.val \notin {"", "broken"}

Is(o, k, x) == o.op = k /\ o.on = x

LEMMA Places ==
  \A i \in 1 .. 10 : i = 1 \/ i = 2 \/ i = 3 \/ i = 4 \/ i = 5 \/ i = 6 \/ i = 7 \/ i = 8 \/ i = 9 \/ i = 10
OBVIOUS

LEMMA DeedIs ==
  /\ \A x : Is(Signal!Say(x), "say", x) /\ Is(Signal!Start(x), "start", x) /\ Is(Signal!Async(x), "async", x)
  /\ \A x : Is(Signal!Join(x), "join", x) /\ Is(Signal!Lock(x), "lock", x) /\ Is(Signal!Unlock(x), "unlock", x)
  /\ \A x : Is(Signal!Wait(x), "wait", x) /\ Is(Signal!Notify(x), "notify", x) /\ Is(Signal!Read(x), "read", x)
  /\ \A x : Is(Signal!Get(x), "get", x) /\ Is(Signal!IsReady(x), "is_ready", x) /\ Is(Signal!Drop(x), "drop", x)
  /\ \A x : Is(Signal!CountDown(x), "count_down", x) /\ Is(Signal!Await(x), "await", x)
  /\ \A x : Is(Signal!Stop(x), "request_stop", x) /\ Is(Signal!Destroy(x), "destroy", x)
  /\ Is(Signal!Check, "stop_requested", "")
  /\ \A x, v : Is(Signal!Set(x, v), "set", x) /\ Signal!Set(x, v).val = v
  /\ \A x, v : Is(Signal!Write(x, v), "write", x) /\ Signal!Write(x, v).val = v
<1> USE DEF Is, Signal!Op
<1>1. \A x : Is(Signal!Say(x), "say", x) /\ Is(Signal!Start(x), "start", x) /\ Is(Signal!Async(x), "async", x)
  BY DEF Signal!Say, Signal!Start, Signal!Async
<1>2. \A x : Is(Signal!Join(x), "join", x) /\ Is(Signal!Lock(x), "lock", x) /\ Is(Signal!Unlock(x), "unlock", x)
  BY DEF Signal!Join, Signal!Lock, Signal!Unlock
<1>3. \A x : Is(Signal!Wait(x), "wait", x) /\ Is(Signal!Notify(x), "notify", x) /\ Is(Signal!Read(x), "read", x)
  BY DEF Signal!Wait, Signal!Notify, Signal!Read
<1>4. \A x : Is(Signal!Get(x), "get", x) /\ Is(Signal!IsReady(x), "is_ready", x) /\ Is(Signal!Drop(x), "drop", x)
  BY DEF Signal!Get, Signal!IsReady, Signal!Drop
<1>5. /\ \A x : Is(Signal!CountDown(x), "count_down", x) /\ Is(Signal!Await(x), "await", x)
      /\ \A x : Is(Signal!Stop(x), "request_stop", x) /\ Is(Signal!Destroy(x), "destroy", x)
      /\ Is(Signal!Check, "stop_requested", "")
  BY DEF Signal!CountDown, Signal!Await, Signal!Stop, Signal!Destroy, Signal!Check
<1>6. /\ \A x, v : Is(Signal!Set(x, v), "set", x) /\ Signal!Set(x, v).val = v
      /\ \A x, v : Is(Signal!Write(x, v), "write", x) /\ Signal!Write(x, v).val = v
  BY DEF Signal!Set, Signal!Write
<1> HIDE DEF Is
<1>7. QED BY <1>1, <1>2, <1>3, <1>4, <1>5, <1>6

LEMMA SimpleIs ==
  /\ \A x : x \notin {"", "broken"} => Simple(Signal!Say(x))
  /\ \A t \in Signal!Thread : Simple(Signal!Join(t))
  /\ \A x : Simple(Signal!Start(x)) /\ Simple(Signal!Async(x)) /\ Simple(Signal!Lock(x)) /\ Simple(Signal!Unlock(x))
  /\ \A x : Simple(Signal!Wait(x)) /\ Simple(Signal!Notify(x)) /\ Simple(Signal!IsReady(x)) /\ Simple(Signal!Stop(x))
  /\ \A x : Simple(Signal!CountDown(x)) /\ Simple(Signal!Await(x))
  /\ \A x \in Cells : Simple(Signal!Get(x))
  /\ \A x \in Cells : \A v : v \notin {"", "broken"} => Simple(Signal!Set(x, v)) /\ Simple(Signal!Write(x, v))
<1> USE DEF Simple, Puts, Signal!Op
<1>1. \A x : x \notin {"", "broken"} => Simple(Signal!Say(x))
  BY DEF Signal!Say
<1>2. \A t \in Signal!Thread : Simple(Signal!Join(t))
  BY DEF Signal!Join
<1>3. \A x : Simple(Signal!Start(x)) /\ Simple(Signal!Async(x)) /\ Simple(Signal!Lock(x)) /\ Simple(Signal!Unlock(x))
  BY DEF Signal!Start, Signal!Async, Signal!Lock, Signal!Unlock
<1>4. \A x : Simple(Signal!Wait(x)) /\ Simple(Signal!Notify(x)) /\ Simple(Signal!IsReady(x)) /\ Simple(Signal!Stop(x))
  BY DEF Signal!Wait, Signal!Notify, Signal!IsReady, Signal!Stop
<1>5. \A x : Simple(Signal!CountDown(x)) /\ Simple(Signal!Await(x))
  BY DEF Signal!CountDown, Signal!Await
<1>6. \A x \in Cells : Simple(Signal!Get(x))
  BY DEF Signal!Get
<1>7. \A x \in Cells : \A v : v \notin {"", "broken"} => Simple(Signal!Set(x, v)) /\ Simple(Signal!Write(x, v))
  BY DEF Signal!Set, Signal!Write
<1> HIDE DEF Simple
<1>8. QED BY <1>1, <1>2, <1>3, <1>4, <1>5, <1>6, <1>7

LEMMA SimpleCareful ==
  ASSUME NEW c, NEW t, NEW i, Simple(c[t][i])
  PROVE  Careful(c, t, i)
BY DEF Simple, Careful, Puts

\* A code, thread by thread.
LEMMA ThreadsHave ==
  ASSUME NEW m, NEW c1, NEW c2, NEW c3
  PROVE  /\ Signal!Threads(m, c1, c2, c3)["main"] = m /\ Signal!Threads(m, c1, c2, c3)["t1"] = c1
         /\ Signal!Threads(m, c1, c2, c3)["t2"] = c2 /\ Signal!Threads(m, c1, c2, c3)["t3"] = c3
BY DEF Signal!Threads

LEMMA Nothing == Len(<< >>) = 0 /\ \A i : i \notin 1 .. Len(<< >>)
OBVIOUS

-----------------------------------------------------------------------------
LEMMA FirstThreadWell ==
  ASSUME NEW c, c = Signal!Code("first_thread")
  PROVE  Well(c)
<1> DEFINE m == <<Signal!Start("t1"), Signal!Say("hello main"), Signal!Join("t1"), Signal!Say("by")>>
           c1 == <<Signal!Say("hello")>>
           no == << >>
<1>1. c = Signal!Threads(m, c1, no, no)
  BY DEF Signal!Code, Signal!FirstThread
<1>2. Len(m) = 4 /\ \A i \in 1 .. 4 : Simple(m[i])
  <2>1. Len(m) = 4 /\ Simple(m[1]) /\ Simple(m[2]) /\ Simple(m[3]) /\ Simple(m[4])
    BY SimpleIs DEF Signal!Thread, Cells
  <2> HIDE DEF m
  <2>2. QED BY <2>1, Places
<1>3. Len(c1) = 1 /\ \A i \in 1 .. 1 : Simple(c1[i])
  <2>1. Len(c1) = 1 /\ Simple(c1[1])
    BY SimpleIs DEF Signal!Thread, Cells
  <2> HIDE DEF c1
  <2>2. QED BY <2>1, Places
<1> HIDE DEF m, c1, no
<1>4. \A t \in Signal!Thread : Len(c[t]) \in Nat /\ \A i \in 1 .. Len(c[t]) : Simple(c[t][i])
  BY <1>1, <1>2, <1>3, Nothing, ThreadsHave DEF Signal!Thread, no
<1>5. QED BY <1>4, SimpleCareful DEF Well

LEMMA FirstJThreadWell ==
  ASSUME NEW c, c = Signal!Code("first_jthread")
  PROVE  Well(c)
<1> DEFINE m == <<Signal!Say("starting"), Signal!Start("t1"), Signal!Say("see you"), Signal!Stop("t1"), Signal!Join("t1")>>
           c1 == <<Signal!Say("hello"), Signal!Say("goodbye")>>
           no == << >>
<1>1. c = Signal!Threads(m, c1, no, no)
  BY DEF Signal!Code, Signal!FirstJThread
<1>2. Len(m) = 5 /\ \A i \in 1 .. 5 : Simple(m[i])
  <2>1. Len(m) = 5 /\ Simple(m[1]) /\ Simple(m[2]) /\ Simple(m[3]) /\ Simple(m[4]) /\ Simple(m[5])
    BY SimpleIs DEF Signal!Thread, Cells
  <2> HIDE DEF m
  <2>2. QED BY <2>1, Places
<1>3. Len(c1) = 2 /\ \A i \in 1 .. 2 : Simple(c1[i])
  <2>1. Len(c1) = 2 /\ Simple(c1[1]) /\ Simple(c1[2])
    BY SimpleIs DEF Signal!Thread, Cells
  <2> HIDE DEF c1
  <2>2. QED BY <2>1, Places
<1> HIDE DEF m, c1, no
<1>4. \A t \in Signal!Thread : Len(c[t]) \in Nat /\ \A i \in 1 .. Len(c[t]) : Simple(c[t][i])
  BY <1>1, <1>2, <1>3, Nothing, ThreadsHave DEF Signal!Thread, no
<1>5. QED BY <1>4, SimpleCareful DEF Well

LEMMA FutureWell ==
  ASSUME NEW c, c = Signal!Code("future")
  PROVE  Well(c)
<1> DEFINE m == <<Signal!Async("t1"), Signal!Say("ready"), Signal!IsReady("p"), Signal!Join("t1"), Signal!Get("p")>>
           c1 == <<Signal!Say("thread"), Signal!Set("p", "Hello")>>
           no == << >>
<1>1. c = Signal!Threads(m, c1, no, no)
  BY DEF Signal!Code, Signal!Future
<1>2. Len(m) = 5 /\ \A i \in 1 .. 5 : Simple(m[i])
  <2>1. Len(m) = 5 /\ Simple(m[1]) /\ Simple(m[2]) /\ Simple(m[3]) /\ Simple(m[4]) /\ Simple(m[5])
    BY SimpleIs DEF Signal!Thread, Cells
  <2> HIDE DEF m
  <2>2. QED BY <2>1, Places
<1>3. Len(c1) = 2 /\ \A i \in 1 .. 2 : Simple(c1[i])
  <2>1. Len(c1) = 2 /\ Simple(c1[1]) /\ Simple(c1[2])
    BY SimpleIs DEF Signal!Thread, Cells
  <2> HIDE DEF c1
  <2>2. QED BY <2>1, Places
<1> HIDE DEF m, c1, no
<1>4. \A t \in Signal!Thread : Len(c[t]) \in Nat /\ \A i \in 1 .. Len(c[t]) : Simple(c[t][i])
  BY <1>1, <1>2, <1>3, Nothing, ThreadsHave DEF Signal!Thread, no
<1>5. QED BY <1>4, SimpleCareful DEF Well

LEMMA AsyncWell ==
  ASSUME NEW c, c = Signal!Code("async_too_slow")
  PROVE  Well(c)
<1> DEFINE m == <<Signal!Start("t1"), Signal!Join("t1"), Signal!Start("t2"), Signal!Join("t2")>>
           c1 == <<Signal!Say("f")>>
           c2 == <<Signal!Say("g")>>
           no == << >>
<1>1. c = Signal!Threads(m, c1, c2, no)
  BY DEF Signal!Code, Signal!AsyncTooSlow
<1>2. Len(m) = 4 /\ \A i \in 1 .. 4 : Simple(m[i])
  <2>1. Len(m) = 4 /\ Simple(m[1]) /\ Simple(m[2]) /\ Simple(m[3]) /\ Simple(m[4])
    BY SimpleIs DEF Signal!Thread, Cells
  <2> HIDE DEF m
  <2>2. QED BY <2>1, Places
<1>3. Len(c1) = 1 /\ \A i \in 1 .. 1 : Simple(c1[i])
  <2>1. Len(c1) = 1 /\ Simple(c1[1])
    BY SimpleIs DEF Signal!Thread, Cells
  <2> HIDE DEF c1
  <2>2. QED BY <2>1, Places
<1>4. Len(c2) = 1 /\ \A i \in 1 .. 1 : Simple(c2[i])
  <2>1. Len(c2) = 1 /\ Simple(c2[1])
    BY SimpleIs DEF Signal!Thread, Cells
  <2> HIDE DEF c2
  <2>2. QED BY <2>1, Places
<1> HIDE DEF m, c1, c2, no
<1>5. \A t \in Signal!Thread : Len(c[t]) \in Nat /\ \A i \in 1 .. Len(c[t]) : Simple(c[t][i])
  BY <1>1, <1>2, <1>3, <1>4, Nothing, ThreadsHave DEF Signal!Thread, no
<1>6. QED BY <1>5, SimpleCareful DEF Well

-----------------------------------------------------------------------------
LEMMA PromiseWell ==
  ASSUME NEW c, c = Signal!Code("promise")
  PROVE  Well(c)
<1> DEFINE m == <<Signal!Start("t1"), Signal!Say("ready"), Signal!IsReady("p"), Signal!Get("p"), Signal!Join("t1")>>
           c1 == <<Signal!Say("computing"), Signal!Set("p", "42"), Signal!Say("cleaning"), Signal!Drop("p")>>
           no == << >>
<1>1. c = Signal!Threads(m, c1, no, no)
  BY DEF Signal!Code, Signal!Promise
<1>2. Len(m) = 5 /\ \A i \in 1 .. 5 : Simple(m[i])
  <2>1. Len(m) = 5 /\ Simple(m[1]) /\ Simple(m[2]) /\ Simple(m[3]) /\ Simple(m[4]) /\ Simple(m[5])
    BY SimpleIs DEF Signal!Thread, Cells
  <2> HIDE DEF m
  <2>2. QED BY <2>1, Places
<1>3. /\ Len(c1) = 4 /\ \A i \in 1 .. 4 : Simple(c1[i]) \/ i = 4
      /\ Is(c1[2], "set", "p") /\ Is(c1[4], "drop", "p")
  <2>1. /\ Len(c1) = 4 /\ Simple(c1[1]) /\ Simple(c1[2]) /\ Simple(c1[3])
        /\ Is(c1[2], "set", "p") /\ Is(c1[4], "drop", "p")
    BY SimpleIs, DeedIs DEF Cells
  <2> HIDE DEF c1
  <2>2. QED BY <2>1, Places
<1> HIDE DEF m, c1, no
<1>4. c["main"] = m /\ c["t1"] = c1 /\ c["t2"] = no /\ c["t3"] = no
  BY <1>1, ThreadsHave
<1>5. Careful(c, "t1", 4)
  <2>1. Before(c1, 4, Puts, "p")
    BY <1>3 DEF Before, Is, Puts
  <2>2. QED BY <1>3, <1>4, <2>1 DEF Careful, Is, Puts
<1>6. \A t \in Signal!Thread : Len(c[t]) \in Nat /\ \A i \in 1 .. Len(c[t]) : Careful(c, t, i)
  BY <1>2, <1>3, <1>4, <1>5, Nothing, SimpleCareful DEF Signal!Thread, no
<1>7. QED BY <1>6 DEF Well

LEMMA NotifyWell ==
  ASSUME NEW c, c = Signal!Code("notify")
  PROVE  Well(c)
<1> DEFINE m == <<Signal!Start("t1"), Signal!Lock("mutex"), Signal!Write("ready", "true"), Signal!Unlock("mutex"),
                  Signal!Notify("cv"), Signal!Say("main"), Signal!Join("t1"), Signal!Destroy("cv"),
                  Signal!Destroy("mutex")>>
           c1 == <<Signal!Say("ok"), Signal!Lock("mutex"), Signal!Wait("cv"), Signal!Say("end"), Signal!Unlock("mutex")>>
           no == << >>
<1>1. c = Signal!Threads(m, c1, no, no)
  BY DEF Signal!Code, Signal!NotifyCV
<1>2. /\ Len(m) = 9 /\ \A i \in 1 .. 9 : Simple(m[i]) \/ i \in {8, 9}
      /\ Is(m[7], "join", "t1") /\ Is(m[8], "destroy", "cv") /\ Is(m[9], "destroy", "mutex")
  <2>1. /\ Len(m) = 9 /\ Simple(m[1]) /\ Simple(m[2]) /\ Simple(m[3]) /\ Simple(m[4]) /\ Simple(m[5])
        /\ Simple(m[6]) /\ Simple(m[7])
        /\ Is(m[7], "join", "t1") /\ Is(m[8], "destroy", "cv") /\ Is(m[9], "destroy", "mutex")
    BY SimpleIs, DeedIs DEF Signal!Thread, Cells
  <2> HIDE DEF m
  <2>2. QED BY <2>1, Places
<1>3. Len(c1) = 5 /\ \A i \in 1 .. 5 : Simple(c1[i])
  <2>1. Len(c1) = 5 /\ Simple(c1[1]) /\ Simple(c1[2]) /\ Simple(c1[3]) /\ Simple(c1[4]) /\ Simple(c1[5])
    BY SimpleIs
  <2> HIDE DEF c1
  <2>2. QED BY <2>1, Places
<1> HIDE DEF m, c1, no
<1>4. c["main"] = m /\ c["t1"] = c1 /\ c["t2"] = no /\ c["t3"] = no
  BY <1>1, ThreadsHave
\* t1 is joined before, and main itself does not use what it has destroyed.
<1>5. ASSUME NEW i \in {8, 9} PROVE Careful(c, "main", i)
  <2>1. Before(m, i, {"join"}, "t1")
    BY <1>2 DEF Before, Is
  <2>2. \A k \in 1 .. 9 : m[k].on = m[i].on => k <= i
    BY <1>2, Places DEF Is
  <2>3. \A u \in Signal!Thread : \A k \in 1 .. Len(c[u]) :
          c[u][k].on = m[i].on => (u = "main" /\ k <= i) \/ Before(m, i, {"join"}, u)
    BY <1>2, <1>4, <2>1, <2>2, Nothing DEF Signal!Thread, no
  <2>4. m[i].op = "destroy"
    BY <1>2 DEF Is
  <2>5. QED BY <1>4, <2>3, <2>4 DEF Careful, Puts
<1>6. \A t \in Signal!Thread : Len(c[t]) \in Nat /\ \A i \in 1 .. Len(c[t]) : Careful(c, t, i)
  BY <1>2, <1>3, <1>4, <1>5, Nothing, SimpleCareful DEF Signal!Thread, no
<1>7. QED BY <1>6 DEF Well

LEMMA SharedFutureWell ==
  ASSUME NEW c, c = Signal!Code("shared_future")
  PROVE  Well(c)
<1> DEFINE m == <<Signal!Start("t1"), Signal!Start("t2"), Signal!Get("p1"), Signal!Get("p2"),
                  Signal!Write("start", "now"), Signal!Set("go", "go"), Signal!Join("t1"), Signal!Join("t2"),
                  Signal!Destroy("start")>>
           fun(q) == <<Signal!Set(q, "ready"), Signal!Get("go"), Signal!Read("start")>>
           c1 == fun("p1")
           c2 == fun("p2")
           no == << >>
<1>1. c = Signal!Threads(m, c1, c2, no)
  BY DEF Signal!Code, Signal!SharedFuture
<1>2. /\ Len(m) = 9 /\ \A i \in 1 .. 9 : Simple(m[i]) \/ i = 9
      /\ Is(m[7], "join", "t1") /\ Is(m[8], "join", "t2") /\ Is(m[9], "destroy", "start")
      /\ Is(m[5], "write", "start") /\ \A i \in 1 .. 9 : m[i].op \in Puts /\ m[i].on = "go" => i = 6
  <2>1. /\ Len(m) = 9 /\ Simple(m[1]) /\ Simple(m[2]) /\ Simple(m[3]) /\ Simple(m[4]) /\ Simple(m[5])
        /\ Simple(m[6]) /\ Simple(m[7]) /\ Simple(m[8])
    BY SimpleIs DEF Signal!Thread, Cells
  <2>2. /\ Is(m[1], "start", "t1") /\ Is(m[2], "start", "t2") /\ Is(m[3], "get", "p1") /\ Is(m[4], "get", "p2")
        /\ Is(m[5], "write", "start") /\ Is(m[7], "join", "t1") /\ Is(m[8], "join", "t2")
        /\ Is(m[9], "destroy", "start")
    BY DeedIs
  <2> HIDE DEF m
  <2>3. \A i \in 1 .. 9 : m[i].op \in Puts /\ m[i].on = "go" => i = 6
    BY <2>2, Places DEF Is, Puts
  <2>4. QED BY <2>1, <2>2, <2>3, Places
<1>3. ASSUME NEW q \in {"p1", "p2"}, NEW d, d = fun(q)
      PROVE  /\ Len(d) = 3 /\ Simple(d[1]) /\ Simple(d[2]) /\ Is(d[1], "set", q) /\ Is(d[2], "get", "go")
             /\ Is(d[3], "read", "start")
  BY <1>3, SimpleIs, DeedIs DEF Cells
<1>4. ASSUME NEW d \in {c1, c2}
      PROVE  /\ Len(d) = 3 /\ \A i \in 1 .. 3 : Simple(d[i]) \/ i = 3
             /\ Is(d[2], "get", "go") /\ Is(d[3], "read", "start")
             /\ \A i \in 1 .. 3 : ~(d[i].op \in Puts /\ d[i].on = "go")
  <2>1. PICK q \in {"p1", "p2"} : d = fun(q)
    OBVIOUS
  <2> HIDE DEF fun, c1, c2
  <2>2. /\ Len(d) = 3 /\ Simple(d[1]) /\ Simple(d[2]) /\ Is(d[1], "set", q) /\ Is(d[2], "get", "go")
        /\ Is(d[3], "read", "start")
    BY <1>3, <2>1
  <2>3. \A i \in 1 .. 3 : i = 1 \/ i = 2 \/ i = 3
    OBVIOUS
  <2>4. QED BY <2>2, <2>3 DEF Is, Puts
<1>5. c["main"] = m /\ c["t1"] = c1 /\ c["t2"] = c2 /\ c["t3"] = no
  BY <1>1, ThreadsHave
<1>6. /\ Len(c1) = 3 /\ \A i \in 1 .. 3 : Simple(c1[i]) \/ i = 3
      /\ Is(c1[2], "get", "go") /\ Is(c1[3], "read", "start")
      /\ \A i \in 1 .. 3 : ~(c1[i].op \in Puts /\ c1[i].on = "go")
  <2>1. c1 \in {c1, c2}
    OBVIOUS
  <2> HIDE DEF c1, c2
  <2>2. QED BY <1>4, <2>1
<1>7. /\ Len(c2) = 3 /\ \A i \in 1 .. 3 : Simple(c2[i]) \/ i = 3
      /\ Is(c2[2], "get", "go") /\ Is(c2[3], "read", "start")
      /\ \A i \in 1 .. 3 : ~(c2[i].op \in Puts /\ c2[i].on = "go")
  <2>1. c2 \in {c1, c2}
    OBVIOUS
  <2> HIDE DEF c1, c2
  <2>2. QED BY <1>4, <2>1
<1> HIDE DEF m, c1, c2, no
<1>8. \A u \in Signal!Thread : u = "main" \/ u = "t1" \/ u = "t2" \/ u = "t3"
  BY DEF Signal!Thread
<1>9. Careful(c, "main", 9)
  <2>1. Before(m, 9, {"join"}, "t1") /\ Before(m, 9, {"join"}, "t2")
    BY <1>2 DEF Before, Is
  <2>2. ASSUME NEW u \in Signal!Thread, NEW k \in 1 .. Len(c[u])
        PROVE  (u = "main" /\ k <= 9) \/ Before(m, 9, {"join"}, u)
    <3>1. u = "t3" => k \in 1 .. Len(<< >>)
      BY <1>5 DEF no
    <3>2. Len(m) = 9
      BY <1>2
    <3>3. u = "main" => k \in 1 .. Len(m)
      BY <1>5
    <3>4. QED BY <1>8, <2>1, <3>1, <3>2, <3>3, Nothing
  <2>3. m[9].op = "destroy"
    BY <1>2 DEF Is
  <2>4. QED BY <1>5, <2>2, <2>3 DEF Careful, Puts
\* Who has got the signal reads what was written before it was sent.
<1>10. ASSUME NEW u \in Signal!Thread, NEW k \in 1 .. Len(c[u]), c[u][k].op \in Puts, c[u][k].on = "go"
       PROVE  Before(c[u], k, Puts, "start")
  <2>1. u = "main"
    <3>1. u = "t3" => k \in 1 .. Len(<< >>)
      BY <1>5 DEF no
    <3>2. u = "t1" => k \in 1 .. 3 /\ c1[k].op \in Puts /\ c1[k].on = "go"
      BY <1>5, <1>6, <1>10
    <3>3. u = "t2" => k \in 1 .. 3 /\ c2[k].op \in Puts /\ c2[k].on = "go"
      BY <1>5, <1>7, <1>10
    <3>4. QED BY <1>6, <1>7, <1>8, <3>1, <3>2, <3>3, Nothing
  <2>2. k = 6
    BY <1>2, <1>5, <1>10, <2>1
  <2>3. Before(m, 6, Puts, "start")
    BY <1>2 DEF Before, Is, Puts
  <2>4. QED BY <1>5, <2>1, <2>2, <2>3
<1>11. ASSUME NEW t \in {"t1", "t2"} PROVE Careful(c, t, 3)
  <2>1. Is(c[t][2], "get", "go") /\ Is(c[t][3], "read", "start")
    BY <1>5, <1>6, <1>7
  <2>2. Before(c[t], 3, {"get"}, "go")
    BY <2>1 DEF Before, Is
  <2>3. c[t][3].op = "read" /\ c[t][3].on = "start" /\ {"go", "start"} \subseteq Cells
    BY <2>1 DEF Is, Cells
  <2>4. \A u \in Signal!Thread : \A k \in 1 .. Len(c[u]) :
          c[u][k].op \in Puts /\ c[u][k].on = "go" => Before(c[u], k, Puts, c[t][3].on)
    BY <1>10, <2>3
  <2>5. QED BY <2>2, <2>3, <2>4 DEF Careful, Puts
<1>12. \A t \in Signal!Thread : Len(c[t]) \in Nat /\ \A i \in 1 .. Len(c[t]) : Careful(c, t, i)
  <2>1. Len(c["main"]) \in Nat /\ \A i \in 1 .. Len(c["main"]) : Careful(c, "main", i)
    BY <1>2, <1>5, <1>9, SimpleCareful
  <2>2. Len(c["t1"]) \in Nat /\ \A i \in 1 .. Len(c["t1"]) : Careful(c, "t1", i)
    BY <1>5, <1>6, <1>11, SimpleCareful
  <2>3. Len(c["t2"]) \in Nat /\ \A i \in 1 .. Len(c["t2"]) : Careful(c, "t2", i)
    BY <1>5, <1>7, <1>11, SimpleCareful
  <2>4. Len(c["t3"]) \in Nat /\ \A i \in 1 .. Len(c["t3"]) : Careful(c, "t3", i)
    BY <1>5, Nothing DEF no
  <2>5. QED BY <1>8, <2>1, <2>2, <2>3, <2>4
<1>13. QED BY <1>12 DEF Well

-----------------------------------------------------------------------------
LEMMA EachThread == \A u \in Signal!Thread : u = "main" \/ u = "t1" \/ u = "t2" \/ u = "t3"
BY DEF Signal!Thread

LEMMA PromiseExceptionWell ==
  ASSUME NEW c, c = Signal!Code("promise_exception")
  PROVE  Well(c)
<1> DEFINE m == <<Signal!Start("t1"), Signal!Get("p"), Signal!Join("t1")>>
           c1 == <<Signal!Say("catch"), Signal!Set("p", "exception"), Signal!Say("end"), Signal!Drop("p")>>
           no == << >>
<1>1. c = Signal!Threads(m, c1, no, no)
  BY DEF Signal!Code, Signal!PromiseException
<1>2. Len(m) = 3 /\ \A i \in 1 .. 3 : Simple(m[i])
  <2>1. Len(m) = 3 /\ Simple(m[1]) /\ Simple(m[2]) /\ Simple(m[3])
    BY SimpleIs DEF Signal!Thread, Cells
  <2> HIDE DEF m
  <2>2. QED BY <2>1, Places
<1>3. /\ Len(c1) = 4 /\ \A i \in 1 .. 4 : Simple(c1[i]) \/ i = 4
      /\ Is(c1[2], "set", "p") /\ Is(c1[4], "drop", "p")
  <2>1. /\ Len(c1) = 4 /\ Simple(c1[1]) /\ Simple(c1[2]) /\ Simple(c1[3])
        /\ Is(c1[2], "set", "p") /\ Is(c1[4], "drop", "p")
    BY SimpleIs, DeedIs DEF Cells
  <2> HIDE DEF c1
  <2>2. QED BY <2>1, Places
<1> HIDE DEF m, c1, no
<1>4. c["main"] = m /\ c["t1"] = c1 /\ c["t2"] = no /\ c["t3"] = no
  BY <1>1, ThreadsHave
<1>5. Careful(c, "t1", 4)
  <2>1. Before(c1, 4, Puts, "p")
    BY <1>3 DEF Before, Is, Puts
  <2>2. QED BY <1>3, <1>4, <2>1 DEF Careful, Is, Puts
<1>6. \A t \in Signal!Thread : Len(c[t]) \in Nat /\ \A i \in 1 .. Len(c[t]) : Careful(c, t, i)
  BY <1>2, <1>3, <1>4, <1>5, Nothing, SimpleCareful DEF Signal!Thread, no
<1>7. QED BY <1>6 DEF Well

LEMMA LatchWell ==
  ASSUME NEW c, c = Signal!Code("latch")
  PROVE  /\ Well(c)
         /\ Len(c["main"]) = 10 /\ c["main"][5].op = "await"
         /\ \A i \in 1 .. 10 : /\ c["main"][i].op \notin {"get", "read", "is_ready", "stop_requested", "count_down"}
                               /\ Is(c["main"][i], "say", "everybody") => i = 6
         /\ \A t \in Signal!Runners : /\ Len(c[t]) = 2 /\ Is(c[t][1], "say", t) /\ c[t][2].op = "count_down"
<1> DEFINE m == <<Signal!Say("come on"), Signal!Start("t1"), Signal!Start("t2"), Signal!Start("t3"),
                  Signal!Await("latch"), Signal!Say("everybody"),
                  Signal!Join("t1"), Signal!Join("t2"), Signal!Join("t3"), Signal!Destroy("latch")>>
           run(t) == <<Signal!Say(t), Signal!CountDown("latch")>>
           c1 == run("t1")
           c2 == run("t2")
           c3 == run("t3")
<1>1. c = Signal!Threads(m, c1, c2, c3)
  BY DEF Signal!Code, Signal!Latch, Signal!LatchMain
<1>2. /\ Len(m) = 10 /\ \A i \in 1 .. 10 : Simple(m[i]) \/ i = 10
      /\ Is(m[7], "join", "t1") /\ Is(m[8], "join", "t2") /\ Is(m[9], "join", "t3") /\ Is(m[10], "destroy", "latch")
      /\ m[5].op = "await"
      /\ \A i \in 1 .. 10 : /\ m[i].op \notin {"get", "read", "is_ready", "stop_requested", "count_down"}
                            /\ Is(m[i], "say", "everybody") => i = 6
  <2>1. /\ Len(m) = 10 /\ Simple(m[1]) /\ Simple(m[2]) /\ Simple(m[3]) /\ Simple(m[4]) /\ Simple(m[5])
        /\ Simple(m[6]) /\ Simple(m[7]) /\ Simple(m[8]) /\ Simple(m[9])
    BY SimpleIs DEF Signal!Thread
  <2>2. /\ Is(m[1], "say", "come on") /\ Is(m[2], "start", "t1") /\ Is(m[3], "start", "t2") /\ Is(m[4], "start", "t3")
        /\ Is(m[5], "await", "latch") /\ Is(m[6], "say", "everybody") /\ Is(m[7], "join", "t1")
        /\ Is(m[8], "join", "t2") /\ Is(m[9], "join", "t3") /\ Is(m[10], "destroy", "latch")
    BY DeedIs
  <2> HIDE DEF m
  <2>3. \A i \in 1 .. 10 : Simple(m[i]) \/ i = 10
    BY <2>1, Places
  <2>4. \A i \in 1 .. 10 : /\ m[i].op \notin {"get", "read", "is_ready", "stop_requested", "count_down"}
                           /\ Is(m[i], "say", "everybody") => i = 6
    BY <2>2, Places DEF Is
  <2>5. m[5].op = "await"
    BY <2>2 DEF Is
  <2>6. QED BY <2>1, <2>2, <2>3, <2>4, <2>5
<1>3. ASSUME NEW t \in {"t1", "t2", "t3"}
      PROVE  /\ Len(run(t)) = 2 /\ \A i \in 1 .. 2 : Simple(run(t)[i])
             /\ Is(run(t)[1], "say", t) /\ run(t)[2].op = "count_down"
  <2>1. Len(run(t)) = 2 /\ Is(run(t)[1], "say", t) /\ Is(run(t)[2], "count_down", "latch")
    BY DeedIs
  <2>2. Simple(run(t)[1]) /\ Simple(run(t)[2])
    BY <1>3, SimpleIs
  <2> HIDE DEF run
  <2>3. QED BY <2>1, <2>2, Places DEF Is
<1> HIDE DEF m, run
<1>4. c["main"] = m /\ c["t1"] = run("t1") /\ c["t2"] = run("t2") /\ c["t3"] = run("t3")
  BY <1>1, ThreadsHave
<1> HIDE DEF c1, c2, c3
<1>5. Careful(c, "main", 10)
  <2>1. Before(m, 10, {"join"}, "t1") /\ Before(m, 10, {"join"}, "t2") /\ Before(m, 10, {"join"}, "t3")
    BY <1>2 DEF Before, Is
  <2>2. ASSUME NEW u \in Signal!Thread, NEW k \in 1 .. Len(c[u])
        PROVE  (u = "main" /\ k <= 10) \/ Before(m, 10, {"join"}, u)
    <3>1. Len(m) = 10
      BY <1>2
    <3>2. u = "main" => k \in 1 .. Len(m)
      BY <1>4
    <3>3. QED BY EachThread, <2>1, <3>1, <3>2
  <2>3. m[10].op = "destroy"
    BY <1>2 DEF Is
  <2>4. QED BY <1>4, <2>2, <2>3 DEF Careful, Puts
<1>6. ASSUME NEW t \in {"t1", "t2", "t3"}
      PROVE  /\ Len(c[t]) = 2 /\ \A i \in 1 .. 2 : Careful(c, t, i)
             /\ Is(c[t][1], "say", t) /\ c[t][2].op = "count_down"
  <2>1. c[t] = run(t)
    BY <1>4
  <2>2. QED BY <1>3, <2>1, SimpleCareful
<1>7. Len(c["main"]) \in Nat /\ \A i \in 1 .. Len(c["main"]) : Careful(c, "main", i)
  BY <1>2, <1>4, <1>5, SimpleCareful
<1>8. Well(c)
  <2>1. ASSUME NEW t \in Signal!Thread
        PROVE  Len(c[t]) \in Nat /\ \A i \in 1 .. Len(c[t]) : Careful(c, t, i)
    <3>1. CASE t = "main"
      BY <1>7, <3>1
    <3>2. CASE t \in {"t1", "t2", "t3"}
      <4>1. Len(c[t]) = 2 /\ \A i \in 1 .. 2 : Careful(c, t, i)
        BY <1>6, <3>2
      <4> DEFINE n == Len(c[t])
      <4>2. n = 2
        BY <4>1
      <4> HIDE DEF n
      <4>3. n \in Nat /\ \A i \in 1 .. n : Careful(c, t, i)
        BY <4>1, <4>2
      <4>4. QED BY <4>3 DEF n
    <3>3. QED BY <3>1, <3>2, EachThread
  <2>2. QED BY <2>1 DEF Well
<1>9. QED BY <1>2, <1>4, <1>6, <1>8 DEF Signal!Runners

LEMMA FirstThreadLifeWell ==
  ASSUME NEW c, c = Signal!Code("first_thread_life")
  PROVE  Well(c)
<1> DEFINE m == <<Signal!Start("t1"), Signal!Destroy("temporary"), Signal!Say("hello main"), Signal!Join("t1"),
                  Signal!Say("by")>>
           c1 == <<Signal!Write("callable", "Hello"), Signal!Read("callable"), Signal!Destroy("callable")>>
           no == << >>
<1>1. c = Signal!Threads(m, c1, no, no)
  BY DEF Signal!Code, Signal!FirstThreadLife
<1>2. /\ Len(m) = 5 /\ \A i \in 1 .. 5 : Simple(m[i]) \/ i = 2
      /\ m[2].op = "destroy" /\ m[2].on = "temporary"
      /\ \A i \in 1 .. 5 : m[i].on /= "callable" /\ (m[i].on = "temporary" => i = 2)
  <2>1. /\ Len(m) = 5 /\ Simple(m[1]) /\ Simple(m[3]) /\ Simple(m[4]) /\ Simple(m[5])
    BY SimpleIs DEF Signal!Thread
  <2>2. /\ Is(m[1], "start", "t1") /\ Is(m[2], "destroy", "temporary") /\ Is(m[3], "say", "hello main")
        /\ Is(m[4], "join", "t1") /\ Is(m[5], "say", "by")
    BY DeedIs
  <2> HIDE DEF m
  <2>3. \A i \in 1 .. 5 : Simple(m[i]) \/ i = 2
    BY <2>1, Places
  <2>4. \A i \in 1 .. 5 : m[i].on /= "callable" /\ (m[i].on = "temporary" => i = 2)
    <3>1. /\ m[1].on = "t1" /\ m[2].on = "temporary" /\ m[3].on = "hello main" /\ m[4].on = "t1"
          /\ m[5].on = "by"
      BY <2>2 DEF Is
    <3>2. \A i \in 1 .. 5 : i = 1 \/ i = 2 \/ i = 3 \/ i = 4 \/ i = 5
      OBVIOUS
    <3>3. ASSUME NEW i \in 1 .. 5 PROVE m[i].on /= "callable"
      BY <3>1, <3>2
    <3>4. ASSUME NEW i \in 1 .. 5, m[i].on = "temporary" PROVE i = 2
      BY <3>1, <3>2, <3>4
    <3>5. QED BY <3>3, <3>4
  <2>5. m[2].op = "destroy" /\ m[2].on = "temporary"
    BY <2>2 DEF Is
  <2>6. QED BY <2>1, <2>3, <2>4, <2>5
<1>3. /\ Len(c1) = 3 /\ Simple(c1[1]) /\ Is(c1[1], "write", "callable") /\ Is(c1[2], "read", "callable")
      /\ Is(c1[3], "destroy", "callable")
  BY SimpleIs, DeedIs DEF Cells
<1> HIDE DEF m, c1, no
<1>4. c["main"] = m /\ c["t1"] = c1 /\ c["t2"] = no /\ c["t3"] = no
  BY <1>1, ThreadsHave
<1>5. \A i \in 1 .. 3 : i = 1 \/ i = 2 \/ i = 3
  OBVIOUS
<1>6. \A k \in 1 .. 3 : c1[k].on = "callable"
  BY <1>3, <1>5 DEF Is
<1>7. ASSUME NEW u \in Signal!Thread, NEW k \in 1 .. Len(c[u])
      PROVE  (u = "main" /\ k \in 1 .. 5) \/ (u = "t1" /\ k \in 1 .. 3)
  <2>1. u = "main" => k \in 1 .. Len(m)
    BY <1>4
  <2>2. u = "t1" => k \in 1 .. Len(c1)
    BY <1>4
  <2>3. u \notin {"t2", "t3"}
    <3>1. k \in 1 .. Len(c[u]) /\ \A i : i \notin 1 .. Len(<< >>)
      BY Nothing
    <3>2. c["t2"] = << >> /\ c["t3"] = << >>
      BY <1>4 DEF no
    <3>3. QED BY <3>1, <3>2
  <2>4. Len(m) = 5 /\ Len(c1) = 3
    BY <1>2, <1>3
  <2>5. QED BY <2>1, <2>2, <2>3, <2>4, EachThread
<1>8. Careful(c, "main", 2)
  <2>1. ASSUME NEW u \in Signal!Thread, NEW k \in 1 .. Len(c[u]), c[u][k].on = "temporary"
        PROVE  u = "main" /\ k <= 2
    <3>1. CASE u = "main"
      BY <1>2, <1>4, <1>7, <2>1, <3>1
    <3>2. CASE u = "t1"
      BY <1>4, <1>6, <1>7, <2>1, <3>2
    <3>3. QED BY <1>7, <2>1, <3>1, <3>2
  <2>2. m[2].op = "destroy" /\ m[2].on = "temporary"
    BY <1>2
  <2>3. QED BY <1>4, <2>1, <2>2 DEF Careful, Puts
<1>9. Careful(c, "t1", 2)
  <2>1. Before(c1, 2, Puts, "callable")
    BY <1>3 DEF Before, Is, Puts
  <2>2. QED BY <1>3, <1>4, <2>1 DEF Careful, Is, Puts, Cells
<1>10. Careful(c, "t1", 3)
  <2>1. ASSUME NEW u \in Signal!Thread, NEW k \in 1 .. Len(c[u]), c[u][k].on = "callable"
        PROVE  u = "t1" /\ k <= 3
    <3>1. CASE u = "main"
      BY <1>2, <1>4, <1>7, <2>1, <3>1
    <3>2. CASE u = "t1"
      BY <1>7, <3>2
    <3>3. QED BY <1>7, <2>1, <3>1, <3>2
  <2>2. c1[3].op = "destroy" /\ c1[3].on = "callable"
    BY <1>3 DEF Is
  <2>3. QED BY <1>4, <2>1, <2>2 DEF Careful, Puts
<1>11. \A i \in 1 .. 5 : Careful(c, "main", i)
  BY <1>2, <1>4, <1>8, SimpleCareful
<1>12. \A i \in 1 .. 3 : Careful(c, "t1", i)
  BY <1>3, <1>4, <1>5, <1>9, <1>10, SimpleCareful
<1>13. \A t \in Signal!Thread : Len(c[t]) \in Nat
  BY <1>2, <1>3, <1>4, Nothing, EachThread DEF no
<1>14. \A t \in Signal!Thread : \A i \in 1 .. Len(c[t]) : Careful(c, t, i)
  BY <1>7, <1>11, <1>12
<1>15. QED BY <1>13, <1>14 DEF Well

-----------------------------------------------------------------------------
LEMMA InterruptibleWell ==
  ASSUME ThreadsAssumption, NEW c, c = Signal!Code("interruptible")
  PROVE  /\ Well(c)
         /\ Len(c["main"]) = 9 /\ Is(c["main"][3], "request_stop", "t2") /\ Is(c["main"][5], "say", "completed")
         /\ \A i \in 1 .. 9 : /\ c["main"][i].op \notin {"get", "read", "is_ready", "stop_requested"}
                              /\ c["main"][i].op = "say" => i = 5
         /\ Len(c["t1"]) = counter /\ \A i \in 1 .. counter : Is(c["t1"][i], "say", "t1")
         /\ Len(c["t2"]) = 2 * counter
         /\ \A i \in 1 .. 2 * counter : IF i % 2 = 1 THEN c["t2"][i].op = "stop_requested"
                                                     ELSE Is(c["t2"][i], "say", "t2")
         /\ Len(c["t3"]) = 0
<1> DEFINE m == <<Signal!Start("t1"), Signal!Start("t2"), Signal!Stop("t2"), Signal!Stop("t1"),
                  Signal!Say("completed"), Signal!Stop("t2"), Signal!Join("t2"), Signal!Stop("t1"),
                  Signal!Join("t1")>>
           c1 == [k \in 1 .. counter |-> Signal!Say("t1")]
           c2 == [k \in 1 .. 2 * counter |-> IF k % 2 = 1 THEN Signal!Check ELSE Signal!Say("t2")]
           no == << >>
<1>1. c = Signal!Threads(m, c1, c2, no)
  BY DEF Signal!Code, Signal!Interruptible
<1>2. /\ Len(m) = 9 /\ \A i \in 1 .. 9 : Simple(m[i])
      /\ Is(m[3], "request_stop", "t2") /\ Is(m[5], "say", "completed")
      /\ \A i \in 1 .. 9 : m[i].op \notin {"get", "read", "is_ready", "stop_requested"}
      /\ \A i \in 1 .. 9 : m[i].op = "say" => i = 5
  <2>1. /\ Len(m) = 9 /\ Simple(m[1]) /\ Simple(m[2]) /\ Simple(m[3]) /\ Simple(m[4]) /\ Simple(m[5])
        /\ Simple(m[6]) /\ Simple(m[7]) /\ Simple(m[8]) /\ Simple(m[9])
    BY SimpleIs DEF Signal!Thread
  <2>2. /\ Is(m[1], "start", "t1") /\ Is(m[2], "start", "t2") /\ Is(m[3], "request_stop", "t2")
        /\ Is(m[4], "request_stop", "t1") /\ Is(m[5], "say", "completed") /\ Is(m[6], "request_stop", "t2")
        /\ Is(m[7], "join", "t2") /\ Is(m[8], "request_stop", "t1") /\ Is(m[9], "join", "t1")
    BY DeedIs
  <2> HIDE DEF m
  <2>3. \A i \in 1 .. 9 : m[i].op \notin {"get", "read", "is_ready", "stop_requested"}
    BY <2>2, Places DEF Is
  <2>4. \A i \in 1 .. 9 : m[i].op = "say" => i = 5
    BY <2>2, Places DEF Is
  <2>5. \A i \in 1 .. 9 : Simple(m[i])
    BY <2>1, Places
  <2>6. QED BY <2>1, <2>2, <2>3, <2>4, <2>5
<1>3. counter \in Nat /\ 2 * counter \in Nat
  BY DEF ThreadsAssumption
<1>4. Len(c1) = counter /\ \A i \in 1 .. counter : Is(c1[i], "say", "t1") /\ Simple(c1[i])
  <2>1. c1 \in [1 .. counter -> {Signal!Say("t1")}]
    OBVIOUS
  <2>2. \A i \in 1 .. counter : c1[i] = Signal!Say("t1")
    OBVIOUS
  <2> HIDE DEF c1
  <2>3. c1 \in Seq({Signal!Say("t1")}) /\ DOMAIN c1 = 1 .. counter
    BY <1>3, <2>1, SeqDef
  <2>4. Len(c1) = counter
    BY <1>3, <2>3, LenProperties
  <2>5. Is(Signal!Say("t1"), "say", "t1") /\ Simple(Signal!Say("t1"))
    BY DeedIs, SimpleIs
  <2>6. QED BY <2>2, <2>4, <2>5
<1>5. /\ Len(c2) = 2 * counter
      /\ \A i \in 1 .. 2 * counter : IF i % 2 = 1 THEN c2[i].op = "stop_requested"
                                                  ELSE Is(c2[i], "say", "t2") /\ Simple(c2[i])
  <2>1. c2 \in [1 .. 2 * counter -> {Signal!Check, Signal!Say("t2")}]
    OBVIOUS
  <2>2. \A i \in 1 .. 2 * counter : c2[i] = IF i % 2 = 1 THEN Signal!Check ELSE Signal!Say("t2")
    OBVIOUS
  <2> HIDE DEF c2
  <2>3. c2 \in Seq({Signal!Check, Signal!Say("t2")}) /\ DOMAIN c2 = 1 .. 2 * counter
    BY <1>3, <2>1, SeqDef
  <2>4. Len(c2) = 2 * counter
    BY <1>3, <2>3, LenProperties
  <2>5. Is(Signal!Say("t2"), "say", "t2") /\ Simple(Signal!Say("t2")) /\ Signal!Check.op = "stop_requested"
    BY DeedIs, SimpleIs DEF Is
  <2>6. ASSUME NEW i \in 1 .. 2 * counter
        PROVE  IF i % 2 = 1 THEN c2[i].op = "stop_requested" ELSE Is(c2[i], "say", "t2") /\ Simple(c2[i])
    <3>1. CASE i % 2 = 1
      BY <2>2, <2>5, <3>1
    <3>2. CASE i % 2 /= 1
      BY <2>2, <2>5, <3>2
    <3>3. QED BY <3>1, <3>2
  <2>7. QED BY <2>4, <2>6
<1> HIDE DEF m, c1, c2, no
<1>6. c["main"] = m /\ c["t1"] = c1 /\ c["t2"] = c2 /\ c["t3"] = no
  BY <1>1, ThreadsHave
\* Who looks whether it is to stop only says things.
<1>7. ASSUME NEW i \in 1 .. 2 * counter PROVE Careful(c, "t2", i)
  <2>1. c["t2"][i].op = "stop_requested" \/ Simple(c["t2"][i])
    BY <1>5, <1>6
  <2>2. ASSUME c["t2"][i].op = "stop_requested" PROVE Careful(c, "t2", i)
    <3>1. \A k \in 1 .. 2 * counter : c2[k].op \in {"stop_requested", "say"}
      BY <1>5 DEF Is
    <3>2. \A k \in 1 .. Len(c["t2"]) : c["t2"][k].op \in {"stop_requested", "say"}
      BY <1>5, <1>6, <3>1
    <3>3. QED BY ONLY <2>2, <3>2 DEF Careful, Puts
  <2>3. QED BY <2>1, <2>2, SimpleCareful
<1>8. Len(c["main"]) = 9 /\ Len(c["t1"]) = counter /\ Len(c["t2"]) = 2 * counter /\ Len(c["t3"]) = 0
  BY <1>2, <1>4, <1>5, <1>6, Nothing DEF no
<1>9. \A i \in 1 .. Len(c["main"]) : Careful(c, "main", i)
  BY <1>2, <1>6, SimpleCareful
<1>10. \A i \in 1 .. Len(c["t1"]) : Careful(c, "t1", i)
  BY <1>4, <1>6, SimpleCareful
<1>11. \A i \in 1 .. Len(c["t2"]) : Careful(c, "t2", i)
  BY <1>5, <1>6, <1>7
<1>12. \A i \in 1 .. Len(c["t3"]) : Careful(c, "t3", i)
  BY <1>6, Nothing DEF no
<1>13. Well(c)
  <2>1. \A u \in Signal!Thread : Len(c[u]) \in Nat
    BY <1>3, <1>8, EachThread
  <2>2. \A u \in Signal!Thread : \A i \in 1 .. Len(c[u]) : Careful(c, u, i)
    BY <1>9, <1>10, <1>11, <1>12, EachThread
  <2>3. QED BY <2>1, <2>2 DEF Well
<1>14. QED BY <1>2, <1>4, <1>5, <1>6, <1>8, <1>13

LEMMA EveryWell ==
  ASSUME ThreadsAssumption, NEW q \in Signal!Programs
  PROVE  Well(Signal!Code(q))
<1>1. CASE q \in {"latch", "promise", "promise_exception", "shared_future", "notify", "interruptible", "first_thread_life"}
  BY <1>1, LatchWell, PromiseWell, PromiseExceptionWell, SharedFutureWell, NotifyWell, InterruptibleWell,
     FirstThreadLifeWell
<1>2. CASE q \in {"future", "async_too_slow", "first_thread", "first_jthread"}
  BY <1>2, FutureWell, AsyncWell, FirstThreadWell, FirstJThreadWell
<1>3. QED BY <1>1, <1>2 DEF Signal!Programs

-----------------------------------------------------------------------------
\* What is said in a step comes from the operation at the place of the thread.
LEMMA TellsIs ==
  ASSUME SignalType, NEW t \in Signal!Thread, Signal!Run(t), NEW o, o = CodeOf(t)[sg_pc[t]],
         NEW y, Tells(t, y)
  PROVE  \/ Is(o, "say", y)
         \/ o.op = "is_ready" /\ y \in {"ready", "not ready"}
         \/ o.op \in {"get", "read"} /\ o.on \in Cells /\ y = sg_mem[o.on]
<1>1. PICK S : said \in Seq(S)
  BY DEF SignalType
<1>2. /\ o.op = "say" => Tells(t, o.on)
      /\ o.op = "is_ready" => Tells(t, "ready") \/ Tells(t, "not ready")
      /\ o.op \in {"get", "read"} => Tells(t, sg_mem[o.on]) /\ o.on \in Cells
      /\ o.op \notin {"say", "is_ready", "get", "read"} => said' = said
  BY DeedsMean
<1>3. ASSUME NEW z, Tells(t, z)
      PROVE  said'[Len(said) + 1] = <<t, z>> /\ Len(said') = Len(said) + 1 /\ Len(said) \in Nat
  <2>1. said \in Seq(S \cup {<<t, z>>})
    BY <1>1
  <2>2. QED BY <1>3, <2>1, AppendProperties, LenProperties DEF Tells
<1>4. \A z : Tells(t, z) => z = y
  BY <1>3
<1>5. said' /= said
  BY <1>3
<1>6. QED BY <1>2, <1>4, <1>5 DEF Is

\* Whoever puts y has said x before, and nobody says y otherwise.
Follows(c, x, y) ==
  /\ y \notin {"", "ready", "not ready"}
  /\ \A t \in Signal!Thread : \A i \in 1 .. Len(c[t]) :
       /\ c[t][i].op /= "stop_requested"
       /\ ~Is(c[t][i], "say", y)
       /\ c[t][i].op \in Puts /\ c[t][i].val = y => Before(c[t], i, {"say"}, x)

LEMMA FollowsKept ==
  ASSUME SignalType, Effective, Heard, NEW t \in Signal!Thread, Signal!Run(t), NEW x, NEW y,
         Follows(Signal!Code(sg_program), x, y), Signal!After({x}, y)
  PROVE  Signal!After({x}, y)'
<1> DEFINE o == CodeOf(t)[sg_pc[t]]
<1>1. sg_pc[t] \in 1 .. Len(CodeOf(t))
  BY DeedsDone
<1>2. /\ y \notin {"", "ready", "not ready"}
      /\ \A u \in Signal!Thread : \A i \in 1 .. Len(CodeOf(u)) :
           /\ CodeOf(u)[i].op /= "stop_requested"
           /\ ~Is(CodeOf(u)[i], "say", y)
           /\ CodeOf(u)[i].op \in Puts /\ CodeOf(u)[i].val = y => Before(CodeOf(u), i, {"say"}, x)
  BY DEF Follows, CodeOf
<1>3. ASSUME Tells(t, y) PROVE Signal!Said(x) /= {}
  <2>1. \/ Is(o, "say", y)
        \/ o.op = "is_ready" /\ y \in {"ready", "not ready"}
        \/ o.op \in {"get", "read"} /\ o.on \in Cells /\ y = sg_mem[o.on]
    BY <1>3, TellsIs
  <2>2. o.on \in Cells /\ y = sg_mem[o.on]
    BY <1>1, <1>2, <2>1
  <2>3. PICK u \in Signal!Thread : \E k \in Passed(u) : CodeOf(u)[k].op \in Puts /\ CodeOf(u)[k].val = y
    <3> HIDE DEF o
    <3>1. sg_mem[o.on] /= ""
      BY <1>2, <2>2
    <3>2. QED BY <2>2, <3>1 DEF Effective, FromPuts
  <2>4. PICK k \in Passed(u) : CodeOf(u)[k].op \in Puts /\ CodeOf(u)[k].val = y
    BY <2>3
  <2>5. /\ Passed(u) \subseteq 1 .. Len(CodeOf(u)) /\ sg_pc[u] \in Nat
    BY PassedIs DEF SignalType
  <2>6. PICK j \in 1 .. k - 1 : CodeOf(u)[j].op = "say" /\ CodeOf(u)[j].on = x
    BY <1>2, <2>4, <2>5 DEF Before
  <2>7. j \in Passed(u)
    BY <2>5 DEF Passed
  <2>8. QED BY <1>2, <2>6, <2>7 DEF Heard
<1>4. QED BY <1>3, AfterKept

-----------------------------------------------------------------------------
\* latch.cpp: the latch counts the runners that have not counted down, and
\* whoever is behind wait() knows that all have.
Uncounted == {t \in Signal!Runners : sg_pc[t] <= 2}
LatchInv ==
  sg_program = "latch" =>
    /\ left = Cardinality(Uncounted)
    /\ sg_pc["main"] > 5 => Uncounted = {}
    /\ Signal!After(Signal!Runners, "everybody")

\* promise.cpp and future.cpp: a value is got after what comes before its set.
ValueInv ==
  sg_program \in {"promise", "future"} =>
    Signal!After({"computing"}, "42") /\ Signal!After({"thread"}, "Hello")

\* async_too_slow.cpp: the second call starts when the first has been joined.
AsyncInv ==
  sg_program = "async_too_slow" =>
    /\ life["t2"] /= "unborn" => sg_pc["main"] > 3
    /\ Signal!After({"f"}, "g")

\* interruptible-jthread.cpp: what t2 says after main has completed comes from
\* a test before; it sees the request at the next one.
Late == {k \in Signal!Said("t2") : \E j \in Signal!Said("completed") : j < k}
InterruptInv ==
  sg_program = "interruptible" =>
    /\ sg_pc["main"] > 3 => "t2" \in stopped
    /\ Signal!Said("completed") /= {} => sg_pc["main"] > 5
    /\ \A j, k \in Late : j = k
    /\ Late /= {} => sg_pc["t2"] % 2 = 1
    /\ IsFiniteSet(Signal!Said("t1")) /\ Cardinality(Signal!Said("t1")) = sg_pc["t1"] - 1

SignalInv ==
  SignalType /\ Effective /\ Heard /\ NothingBad /\ LatchInv /\ ValueInv /\ AsyncInv /\ InterruptInv

\* The places of the threads after a step of t.
LEMMA PlacesKept ==
  ASSUME SignalType, NEW t \in Signal!Thread, Signal!Run(t)
  PROVE  /\ UNCHANGED sg_program /\ life[t] = "started"
         /\ \A u \in Signal!Thread : sg_pc[u] \in Nat /\ sg_pc'[u] \in Nat /\ sg_pc[u] <= sg_pc'[u]
         /\ \A u \in Signal!Thread : CodeOf(u) = Signal!Code(sg_program)[u] /\ Len(CodeOf(u)) \in Nat
         /\ \A u \in Signal!Thread : u /= t => sg_pc'[u] = sg_pc[u]
         /\ sg_pc[t] \in 1 .. Len(CodeOf(t)) /\ sg_pc'[t] <= Len(CodeOf(t)) + 1
<1>1. /\ sg_pc[t] \in 1 .. Len(CodeOf(t)) /\ Len(CodeOf(t)) \in Nat
      /\ UNCHANGED sg_program /\ life[t] = "started"
      /\ \A u \in Signal!Thread : u /= t => sg_pc'[u] = sg_pc[u]
      /\ \/ sg_pc'[t] = sg_pc[t] + 1
         \/ sg_pc'[t] = sg_pc[t]
         \/ sg_pc'[t] = Len(CodeOf(t)) + 1
  BY DeedsDone
<1>2. \A u \in Signal!Thread : sg_pc[u] \in Nat /\ Len(CodeOf(u)) \in Nat /\ CodeOf(u) = Signal!Code(sg_program)[u]
  BY DEF SignalType, Well, CodeOf
<1>3. QED BY <1>1, <1>2

LEMMA LatchKept ==
  ASSUME SignalType, Heard, LatchInv, NEW t \in Signal!Thread, Signal!Run(t), sg_program = "latch"
  PROVE  LatchInv'
<1> DEFINE c == Signal!Code(sg_program)
           o == c[t][sg_pc[t]]
<1>1. /\ Len(c["main"]) = 10 /\ c["main"][5].op = "await"
      /\ \A i \in 1 .. 10 : /\ c["main"][i].op \notin {"get", "read", "is_ready", "stop_requested", "count_down"}
                            /\ Is(c["main"][i], "say", "everybody") => i = 6
      /\ \A u \in Signal!Runners : /\ Len(c[u]) = 2 /\ Is(c[u][1], "say", u) /\ c[u][2].op = "count_down"
  <2> HIDE DEF c
  <2>1. c = Signal!Code("latch")
    BY DEF c
  <2>2. QED BY <2>1, LatchWell
<1>2. /\ \A u \in Signal!Thread : sg_pc[u] \in Nat /\ sg_pc'[u] \in Nat /\ sg_pc[u] <= sg_pc'[u]
      /\ \A u \in Signal!Thread : CodeOf(u) = c[u]
      /\ \A u \in Signal!Thread : u /= t => sg_pc'[u] = sg_pc[u]
      /\ sg_pc[t] \in 1 .. Len(c[t]) /\ Len(c[t]) \in Nat
  BY PlacesKept
<1>3. o = CodeOf(t)[sg_pc[t]]
  BY <1>2
<1>4. /\ left' = IF o.op = "count_down" THEN left - 1 ELSE left
      /\ o.op = "await" => left = 0
  <2> HIDE DEF o
  <2>1. QED BY <1>3, DeedsMean
<1>5. /\ left = Cardinality(Uncounted)
      /\ sg_pc["main"] > 5 => Uncounted = {}
      /\ Signal!After(Signal!Runners, "everybody")
  BY DEF LatchInv
<1>6. \/ sg_pc'[t] = sg_pc[t] + 1
      \/ sg_pc'[t] = sg_pc[t] /\ o.op \in {"join", "wait"}
      \/ sg_pc'[t] = Len(c[t]) + 1 /\ o.op = "stop_requested"
  <2> HIDE DEF o
  <2>1. QED BY <1>2, <1>3, DeedsDone
<1>7. Signal!Runners \subseteq Signal!Thread /\ "main" \notin Signal!Runners /\ "main" \in Signal!Thread
      /\ \A u \in Signal!Thread : u = "main" \/ u \in Signal!Runners
  BY DEF Signal!Runners, Signal!Thread
<1>8. IsFiniteSet(Uncounted)
  <2>1. IsFiniteSet({"t1"}) /\ IsFiniteSet({"t2"}) /\ IsFiniteSet({"t3"})
    BY FS_Singleton
  <2>2. IsFiniteSet({"t1"} \cup {"t2"} \cup {"t3"})
    BY <2>1, FS_Union
  <2>3. Uncounted \subseteq {"t1"} \cup {"t2"} \cup {"t3"}
    BY DEF Uncounted, Signal!Runners
  <2>4. QED BY <2>2, <2>3, FS_Subset
<1> HIDE DEF c, o
\* A runner that counts down leaves the set, and nobody else does.
<1>9. left' = Cardinality(Uncounted') /\ (sg_pc'["main"] > 5 => Uncounted' = {})
  <2>1. CASE t \in Signal!Runners
    <3>1. Len(c[t]) = 2 /\ Is(c[t][1], "say", t) /\ c[t][2].op = "count_down"
      BY <1>1, <2>1
    <3>2. sg_pc[t] \in 1 .. 2 /\ (sg_pc[t] = 1 \/ sg_pc[t] = 2)
      BY <1>2, <3>1
    <3>3. o.op \in {"say", "count_down"} /\ (o.op = "count_down" <=> sg_pc[t] = 2)
      BY <3>1, <3>2 DEF Is, o
    <3>4. sg_pc'[t] = sg_pc[t] + 1
      BY <1>6, <3>3
    <3>5. sg_pc'["main"] = sg_pc["main"] /\ t \in Uncounted
      BY <1>2, <1>7, <2>1, <3>2 DEF Uncounted
    <3>6. CASE sg_pc[t] = 1
      <4>1. Uncounted' = Uncounted
        BY <1>2, <1>7, <3>4, <3>6 DEF Uncounted
      <4>2. QED BY <1>4, <1>5, <3>3, <3>5, <3>6, <4>1
    <3>7. CASE sg_pc[t] = 2
      <4>1. Uncounted' = Uncounted \ {t}
        BY <1>2, <1>7, <3>4, <3>7 DEF Uncounted
      <4>2. Cardinality(Uncounted \ {t}) = Cardinality(Uncounted) - 1
        BY <1>8, <3>5, FS_RemoveElement
      <4>3. QED BY <1>4, <1>5, <3>3, <3>5, <3>7, <4>1, <4>2
    <3>8. QED BY <3>2, <3>6, <3>7
  <2>2. CASE t = "main"
    <3>1. Uncounted' = Uncounted
      BY <1>2, <1>7, <2>2 DEF Uncounted
    <3>2. sg_pc["main"] \in 1 .. 10 /\ o = c["main"][sg_pc["main"]]
      BY <1>1, <1>2, <2>2 DEF o
    <3>3. o.op \notin {"count_down", "stop_requested"}
      BY <1>1, <3>2
    <3>4. sg_pc["main"] = 5 => Uncounted = {}
      <4>1. sg_pc["main"] = 5 => left = 0
        BY <1>1, <1>4, <3>2
      <4>2. QED BY <1>5, <1>8, <4>1, FS_EmptySet
    <3>5. sg_pc'["main"] > 5 => sg_pc["main"] > 5 \/ sg_pc["main"] = 5
      BY <1>6, <2>2, <3>2, <3>3
    <3>6. QED BY <1>4, <1>5, <3>1, <3>3, <3>4, <3>5
  <2>3. QED BY <1>7, <2>1, <2>2
<1>10. ASSUME Tells(t, "everybody"), NEW x \in Signal!Runners PROVE Signal!Said(x) /= {}
  <2>1. \/ Is(o, "say", "everybody")
        \/ o.op = "is_ready" /\ "everybody" \in {"ready", "not ready"}
        \/ o.op \in {"get", "read"} /\ o.on \in Cells /\ "everybody" = sg_mem[o.on]
    BY <1>3, <1>10, TellsIs
  <2>2. t = "main"
    <3>1. CASE t \in Signal!Runners
      <4>1. Len(c[t]) = 2 /\ Is(c[t][1], "say", t) /\ c[t][2].op = "count_down"
        BY <1>1, <3>1
      <4>2. sg_pc[t] \in 1 .. 2 /\ (sg_pc[t] = 1 \/ sg_pc[t] = 2)
        BY <1>2, <4>1
      <4>3. t /= "everybody"
        BY <3>1 DEF Signal!Runners
      <4>4. QED BY <2>1, <4>1, <4>2, <4>3 DEF Is, o
    <3>2. QED BY <1>7, <3>1
  <2>3. sg_pc["main"] \in 1 .. 10 /\ o = c["main"][sg_pc["main"]]
    BY <1>1, <1>2, <2>2 DEF o
  <2>4. sg_pc["main"] = 6
    BY <1>1, <2>1, <2>3
  <2>5. sg_pc[x] > 2 /\ Len(c[x]) = 2 /\ Is(c[x][1], "say", x) /\ c[x][2].op = "count_down" /\ x \in Signal!Thread
    BY <1>1, <1>2, <1>5, <1>7, <2>4 DEF Uncounted
  <2>6. 1 \in Passed(x) /\ CodeOf(x) = c[x]
    BY <1>2, <2>5 DEF Passed
  <2>7. \A i \in 1 .. 2 : c[x][i].op /= "stop_requested"
    <3>1. \A i \in 1 .. 2 : i = 1 \/ i = 2
      OBVIOUS
    <3>2. QED BY <2>5, <3>1 DEF Is
  <2>8. \A i \in 1 .. Len(CodeOf(x)) : CodeOf(x)[i].op /= "stop_requested"
    BY <2>5, <2>6, <2>7
  <2>9. CodeOf(x)[1].op = "say" /\ CodeOf(x)[1].on = x
    BY <2>5, <2>6 DEF Is
  <2>10. QED BY <2>5, <2>6, <2>8, <2>9 DEF Heard
<1>11. Signal!After(Signal!Runners, "everybody")'
  BY <1>5, <1>10, AfterKept
<1>12. QED BY <1>9, <1>11 DEF LatchInv

-----------------------------------------------------------------------------
LEMMA PromiseFollows ==
  LET c == Signal!Code("promise") IN Follows(c, "computing", "42") /\ Follows(c, "thread", "Hello")
<1> DEFINE c == Signal!Code("promise")
           m == <<Signal!Start("t1"), Signal!Say("ready"), Signal!IsReady("p"), Signal!Get("p"), Signal!Join("t1")>>
           c1 == <<Signal!Say("computing"), Signal!Set("p", "42"), Signal!Say("cleaning"), Signal!Drop("p")>>
           no == << >>
<1>1. c = Signal!Threads(m, c1, no, no)
  BY DEF Signal!Code, Signal!Promise
<1>2. Len(m) = 5 /\ \A i \in 1 .. 5 : m[i].op \notin Puts \cup {"stop_requested"} /\ m[i].on \notin {"42", "Hello"}
  <2>1. /\ Len(m) = 5 /\ Is(m[1], "start", "t1") /\ Is(m[2], "say", "ready") /\ Is(m[3], "is_ready", "p")
        /\ Is(m[4], "get", "p") /\ Is(m[5], "join", "t1")
    BY DeedIs
  <2> HIDE DEF m
  <2>2. \A i \in 1 .. 5 : m[i].op \notin Puts \cup {"stop_requested"}
    BY <2>1, Places DEF Is, Puts
  <2>3. \A i \in 1 .. 5 : m[i].on \notin {"42", "Hello"}
    BY <2>1, Places DEF Is
  <2>4. QED BY <2>1, <2>2, <2>3
<1>3. /\ Len(c1) = 4 /\ \A i \in 1 .. 4 : c1[i].op /= "stop_requested" /\ c1[i].on \notin {"42", "Hello"}
      /\ \A i \in 1 .. 4 : c1[i].op \in Puts => i = 2
      /\ Is(c1[1], "say", "computing") /\ c1[2].val = "42"
  <2>1. /\ Len(c1) = 4 /\ Is(c1[1], "say", "computing") /\ Is(c1[2], "set", "p") /\ c1[2].val = "42"
        /\ Is(c1[3], "say", "cleaning") /\ Is(c1[4], "drop", "p")
    BY DeedIs
  <2> HIDE DEF c1
  <2>2. \A i \in 1 .. 4 : c1[i].op /= "stop_requested" /\ (c1[i].op \in Puts => i = 2)
    BY <2>1, Places DEF Is, Puts
  <2>3. \A i \in 1 .. 4 : c1[i].on \notin {"42", "Hello"}
    BY <2>1, Places DEF Is
  <2>4. QED BY <2>1, <2>2, <2>3
<1> HIDE DEF m, c1, no
<1>4. c["main"] = m /\ c["t1"] = c1 /\ c["t2"] = no /\ c["t3"] = no
  BY <1>1, ThreadsHave
<1> HIDE DEF c
<1>5. ASSUME NEW t \in Signal!Thread, NEW i \in 1 .. Len(c[t])
      PROVE  /\ c[t][i].op /= "stop_requested" /\ c[t][i].on \notin {"42", "Hello"}
             /\ c[t][i].op \in Puts => c[t][i].val = "42" /\ Before(c[t], i, {"say"}, "computing")
  <2>1. CASE t = "main"
    <3>1. i \in 1 .. Len(m)
      BY <1>4, <2>1
    <3>2. QED BY <1>2, <1>4, <2>1, <3>1
  <2>2. CASE t = "t1"
    <3>1. i \in 1 .. Len(c1)
      BY <1>4, <2>2
    <3>2. Before(c1, 2, {"say"}, "computing")
      BY <1>3 DEF Before, Is
    <3>3. QED BY <1>3, <1>4, <2>2, <3>1, <3>2
  <2>3. CASE t \in {"t2", "t3"}
    <3>1. i \in 1 .. Len(no)
      BY <1>4, <2>3
    <3>2. QED BY <3>1, Nothing DEF no
  <2>4. QED BY <2>1, <2>2, <2>3, EachThread
<1>6. Follows(c, "computing", "42")
  BY <1>5 DEF Follows, Is
<1>7. Follows(c, "thread", "Hello")
  BY <1>5 DEF Follows, Is
<1>8. QED BY <1>6, <1>7 DEF c

LEMMA FutureFollows ==
  LET c == Signal!Code("future") IN Follows(c, "computing", "42") /\ Follows(c, "thread", "Hello")
<1> DEFINE c == Signal!Code("future")
           m == <<Signal!Async("t1"), Signal!Say("ready"), Signal!IsReady("p"), Signal!Join("t1"), Signal!Get("p")>>
           c1 == <<Signal!Say("thread"), Signal!Set("p", "Hello")>>
           no == << >>
<1>1. c = Signal!Threads(m, c1, no, no)
  BY DEF Signal!Code, Signal!Future
<1>2. Len(m) = 5 /\ \A i \in 1 .. 5 : m[i].op \notin Puts \cup {"stop_requested"} /\ m[i].on \notin {"42", "Hello"}
  <2>1. /\ Len(m) = 5 /\ Is(m[1], "async", "t1") /\ Is(m[2], "say", "ready") /\ Is(m[3], "is_ready", "p")
        /\ Is(m[4], "join", "t1") /\ Is(m[5], "get", "p")
    BY DeedIs
  <2> HIDE DEF m
  <2>2. \A i \in 1 .. 5 : m[i].op \notin Puts \cup {"stop_requested"}
    BY <2>1, Places DEF Is, Puts
  <2>3. \A i \in 1 .. 5 : m[i].on \notin {"42", "Hello"}
    BY <2>1, Places DEF Is
  <2>4. QED BY <2>1, <2>2, <2>3
<1>3. /\ Len(c1) = 2 /\ \A i \in 1 .. 2 : c1[i].op /= "stop_requested" /\ c1[i].on \notin {"42", "Hello"}
      /\ \A i \in 1 .. 2 : c1[i].op \in Puts => i = 2
      /\ Is(c1[1], "say", "thread") /\ c1[2].val = "Hello"
  <2>1. /\ Len(c1) = 2 /\ Is(c1[1], "say", "thread") /\ Is(c1[2], "set", "p") /\ c1[2].val = "Hello"
    BY DeedIs
  <2> HIDE DEF c1
  <2>2. \A i \in 1 .. 2 : c1[i].op /= "stop_requested" /\ (c1[i].op \in Puts => i = 2)
    BY <2>1, Places DEF Is, Puts
  <2>3. \A i \in 1 .. 2 : c1[i].on \notin {"42", "Hello"}
    BY <2>1, Places DEF Is
  <2>4. QED BY <2>1, <2>2, <2>3
<1> HIDE DEF m, c1, no
<1>4. c["main"] = m /\ c["t1"] = c1 /\ c["t2"] = no /\ c["t3"] = no
  BY <1>1, ThreadsHave
<1> HIDE DEF c
<1>5. ASSUME NEW t \in Signal!Thread, NEW i \in 1 .. Len(c[t])
      PROVE  /\ c[t][i].op /= "stop_requested" /\ c[t][i].on \notin {"42", "Hello"}
             /\ c[t][i].op \in Puts => c[t][i].val = "Hello" /\ Before(c[t], i, {"say"}, "thread")
  <2>1. CASE t = "main"
    <3>1. i \in 1 .. Len(m)
      BY <1>4, <2>1
    <3>2. QED BY <1>2, <1>4, <2>1, <3>1
  <2>2. CASE t = "t1"
    <3>1. i \in 1 .. Len(c1)
      BY <1>4, <2>2
    <3>2. Before(c1, 2, {"say"}, "thread")
      BY <1>3 DEF Before, Is
    <3>3. QED BY <1>3, <1>4, <2>2, <3>1, <3>2
  <2>3. CASE t \in {"t2", "t3"}
    <3>1. i \in 1 .. Len(no)
      BY <1>4, <2>3
    <3>2. QED BY <3>1, Nothing DEF no
  <2>4. QED BY <2>1, <2>2, <2>3, EachThread
<1>6. Follows(c, "computing", "42")
  BY <1>5 DEF Follows, Is
<1>7. Follows(c, "thread", "Hello")
  BY <1>5 DEF Follows, Is
<1>8. QED BY <1>6, <1>7 DEF c

LEMMA ValueKept ==
  ASSUME SignalType, Effective, Heard, ValueInv, NEW t \in Signal!Thread, Signal!Run(t),
         sg_program \in {"promise", "future"}
  PROVE  ValueInv'
<1>1. /\ Follows(Signal!Code(sg_program), "computing", "42")
      /\ Follows(Signal!Code(sg_program), "thread", "Hello")
  BY PromiseFollows, FutureFollows
<1>2. Signal!After({"computing"}, "42") /\ Signal!After({"thread"}, "Hello")
  BY DEF ValueInv
<1>3. Signal!After({"computing"}, "42")'
  BY <1>1, <1>2, FollowsKept
<1>4. Signal!After({"thread"}, "Hello")'
  BY <1>1, <1>2, FollowsKept
<1>5. QED BY <1>3, <1>4 DEF ValueInv

LEMMA AsyncCode ==
  ASSUME NEW c, c = Signal!Code("async_too_slow")
  PROVE  /\ Len(c["main"]) = 4 /\ Is(c["main"][2], "join", "t1")
         /\ \A i \in 1 .. 4 : /\ c["main"][i].op \notin {"get", "read", "is_ready", "say", "stop_requested"}
                              /\ c["main"][i].op \in {"start", "async"} /\ c["main"][i].on = "t2" => i = 3
         /\ Len(c["t1"]) = 1 /\ Is(c["t1"][1], "say", "f") /\ Len(c["t2"]) = 1 /\ Is(c["t2"][1], "say", "g")
         /\ Len(c["t3"]) = 0
<1> DEFINE m == <<Signal!Start("t1"), Signal!Join("t1"), Signal!Start("t2"), Signal!Join("t2")>>
           c1 == <<Signal!Say("f")>>
           c2 == <<Signal!Say("g")>>
           no == << >>
<1>1. c = Signal!Threads(m, c1, c2, no)
  BY DEF Signal!Code, Signal!AsyncTooSlow
<1>2. /\ Len(m) = 4 /\ Is(m[1], "start", "t1") /\ Is(m[2], "join", "t1") /\ Is(m[3], "start", "t2")
      /\ Is(m[4], "join", "t2")
  BY DeedIs
<1>3. Len(c1) = 1 /\ Is(c1[1], "say", "f") /\ Len(c2) = 1 /\ Is(c2[1], "say", "g")
  BY DeedIs
<1> HIDE DEF m, c1, c2, no
<1>4. c["main"] = m /\ c["t1"] = c1 /\ c["t2"] = c2 /\ c["t3"] = no
  BY <1>1, ThreadsHave
<1>5. \A i \in 1 .. 4 : m[i].op \notin {"get", "read", "is_ready", "say", "stop_requested"}
  BY <1>2, Places DEF Is
<1>6. \A i \in 1 .. 4 : m[i].op \in {"start", "async"} /\ m[i].on = "t2" => i = 3
  BY <1>2, Places DEF Is
<1>7. Len(no) = 0
  BY Nothing DEF no
<1>8. QED BY <1>2, <1>3, <1>4, <1>5, <1>6, <1>7

-----------------------------------------------------------------------------
LEMMA AsyncKept ==
  ASSUME SignalType, Effective, Heard, AsyncInv, NEW t \in Signal!Thread, Signal!Run(t),
         sg_program = "async_too_slow"
  PROVE  AsyncInv'
<1> DEFINE c == Signal!Code(sg_program)
           o == c[t][sg_pc[t]]
<1>1. /\ Len(c["main"]) = 4 /\ Is(c["main"][2], "join", "t1")
      /\ \A i \in 1 .. 4 : /\ c["main"][i].op \notin {"get", "read", "is_ready", "say", "stop_requested"}
                           /\ c["main"][i].op \in {"start", "async"} /\ c["main"][i].on = "t2" => i = 3
      /\ Len(c["t1"]) = 1 /\ Is(c["t1"][1], "say", "f") /\ Len(c["t2"]) = 1 /\ Is(c["t2"][1], "say", "g")
      /\ Len(c["t3"]) = 0
  <2> HIDE DEF c
  <2>1. c = Signal!Code("async_too_slow")
    BY DEF c
  <2>2. QED BY <2>1, AsyncCode
<1>2. /\ \A u \in Signal!Thread : sg_pc[u] \in Nat /\ sg_pc'[u] \in Nat /\ sg_pc[u] <= sg_pc'[u]
      /\ \A u \in Signal!Thread : CodeOf(u) = c[u]
      /\ \A u \in Signal!Thread : u /= t => sg_pc'[u] = sg_pc[u]
      /\ sg_pc[t] \in 1 .. Len(c[t]) /\ Len(c[t]) \in Nat /\ life[t] = "started"
  BY PlacesKept
<1>3. o = CodeOf(t)[sg_pc[t]]
  BY <1>2
<1>4. \A u \in Signal!Thread : life'[u] /= life[u] /\ life[u] = "unborn" => o.op \in {"start", "async"} /\ o.on = u
  <2> HIDE DEF o
  <2> SUFFICES ASSUME NEW u \in Signal!Thread, life'[u] /= life[u], life[u] = "unborn"
               PROVE  o.op \in {"start", "async"} /\ o.on = u
    OBVIOUS
  <2>1. QED BY <1>3, DeedsMean
<1>5. /\ life["t2"] /= "unborn" => sg_pc["main"] > 3
      /\ Signal!After({"f"}, "g")
  BY DEF AsyncInv
<1>6. \/ sg_pc'[t] = sg_pc[t] + 1
      \/ sg_pc'[t] = sg_pc[t] /\ o.op \in {"join", "wait"}
      \/ sg_pc'[t] = Len(c[t]) + 1 /\ o.op = "stop_requested"
  <2> HIDE DEF o
  <2>1. QED BY <1>2, <1>3, DeedsDone
<1>7. {"main", "t1", "t2"} \subseteq Signal!Thread
  BY DEF Signal!Thread
<1> HIDE DEF c, o
<1>8. t = "main" => sg_pc["main"] \in 1 .. 4 /\ o = c["main"][sg_pc["main"]]
  BY <1>1, <1>2 DEF o
<1>9. t = "t1" => Is(o, "say", "f")
  <2>1. t = "t1" => sg_pc["t1"] \in 1 .. Len(c["t1"])
    BY <1>2
  <2>2. t = "t1" => sg_pc["t1"] = 1
    BY <1>1, <2>1
  <2>3. QED BY <1>1, <2>2 DEF o
<1>10. t = "t2" => Is(o, "say", "g")
  <2>1. t = "t2" => sg_pc["t2"] \in 1 .. Len(c["t2"])
    BY <1>2
  <2>2. t = "t2" => sg_pc["t2"] = 1
    BY <1>1, <2>1
  <2>3. QED BY <1>1, <2>2 DEF o
<1>11. t /= "t3"
  <2>1. t = "t3" => sg_pc["t3"] \in 1 .. Len(c["t3"])
    BY <1>2
  <2>2. QED BY <1>1, <2>1
<1>12. life'["t2"] /= "unborn" => sg_pc'["main"] > 3
  <2>1. CASE life["t2"] /= "unborn"
    BY <1>2, <1>5, <1>7, <2>1
  <2>2. CASE life["t2"] = "unborn" /\ life'["t2"] /= "unborn"
    <3>1. o.op \in {"start", "async"} /\ o.on = "t2"
      BY <1>4, <1>7, <2>2
    <3>2. t = "main"
      BY <1>9, <1>10, <1>11, <3>1, EachThread DEF Is
    <3>3. sg_pc["main"] = 3
      BY <1>1, <1>8, <3>1, <3>2
    <3>4. QED BY <1>2, <1>6, <1>7, <3>1, <3>2, <3>3
  <2>3. QED BY <2>1, <2>2
\* t2 runs: t1 was joined, and has said all it says.
<1>13. ASSUME Tells(t, "g") PROVE Signal!Said("f") /= {}
  <2>1. \/ Is(o, "say", "g")
        \/ o.op = "is_ready" /\ "g" \in {"ready", "not ready"}
        \/ o.op \in {"get", "read"} /\ o.on \in Cells /\ "g" = sg_mem[o.on]
    BY <1>3, <1>13, TellsIs
  <2>2. t = "t2"
    BY <1>1, <1>8, <1>9, <1>11, <2>1, EachThread DEF Is
  <2>3. sg_pc["main"] > 3
    BY <1>2, <1>5, <2>2
  <2>4. 2 \in Passed("main") /\ CodeOf("main") = c["main"] /\ CodeOf("t1") = c["t1"]
    BY <1>2, <1>7, <2>3 DEF Passed
  <2>5. Over("t1")
    BY <1>1, <1>7, <2>4 DEF Effective, JoinsOver, Is
  <2>6. Len(CodeOf("t1")) = 1 /\ CodeOf("t1")[1].op = "say" /\ CodeOf("t1")[1].on = "f"
    BY <1>1, <2>4 DEF Is
  <2>7. sg_pc["t1"] = 2
    <3> DEFINE n == Len(CodeOf("t1"))
    <3>1. sg_pc["t1"] = n + 1
      BY <2>5 DEF Over
    <3>2. n = 1
      BY <2>6
    <3> HIDE DEF n
    <3>3. QED BY <3>1, <3>2
  <2>8. 1 \in Passed("t1")
    BY <2>7 DEF Passed
  <2>9. \A i \in 1 .. Len(CodeOf("t1")) : CodeOf("t1")[i].op /= "stop_requested"
    <3> DEFINE n == Len(CodeOf("t1"))
    <3>1. n = 1
      BY <2>6
    <3> HIDE DEF n
    <3>2. \A i \in 1 .. n : i = 1
      BY <3>1
    <3>3. QED BY <2>6, <3>2 DEF n
  <2>10. QED BY <1>7, <2>6, <2>8, <2>9 DEF Heard
<1>14. Signal!After({"f"}, "g")'
  BY <1>5, <1>13, AfterKept
<1>15. QED BY <1>12, <1>14 DEF AsyncInv

LEMMA InterruptKept ==
  ASSUME ThreadsAssumption, SignalType, InterruptInv, NEW t \in Signal!Thread, Signal!Run(t),
         sg_program = "interruptible"
  PROVE  InterruptInv'
<1> DEFINE c == Signal!Code(sg_program)
           o == c[t][sg_pc[t]]
<1>1. /\ Len(c["main"]) = 9 /\ Is(c["main"][3], "request_stop", "t2") /\ Is(c["main"][5], "say", "completed")
      /\ \A i \in 1 .. 9 : /\ c["main"][i].op \notin {"get", "read", "is_ready", "stop_requested"}
                           /\ c["main"][i].op = "say" => i = 5
      /\ Len(c["t1"]) = counter /\ \A i \in 1 .. counter : Is(c["t1"][i], "say", "t1")
      /\ Len(c["t2"]) = 2 * counter
      /\ \A i \in 1 .. 2 * counter : IF i % 2 = 1 THEN c["t2"][i].op = "stop_requested"
                                                  ELSE Is(c["t2"][i], "say", "t2")
      /\ Len(c["t3"]) = 0
  <2> HIDE DEF c
  <2>1. c = Signal!Code("interruptible")
    BY DEF c
  <2>2. QED BY <2>1, InterruptibleWell
<1>2. /\ \A u \in Signal!Thread : sg_pc[u] \in Nat /\ sg_pc'[u] \in Nat /\ sg_pc[u] <= sg_pc'[u]
      /\ \A u \in Signal!Thread : CodeOf(u) = c[u]
      /\ \A u \in Signal!Thread : u /= t => sg_pc'[u] = sg_pc[u]
      /\ sg_pc[t] \in 1 .. Len(c[t]) /\ Len(c[t]) \in Nat
  BY PlacesKept
<1>3. o = CodeOf(t)[sg_pc[t]]
  BY <1>2
<1>4. /\ stopped' = IF o.op = "request_stop" THEN stopped \cup {o.on} ELSE stopped
      /\ o.op = "say" => Tells(t, o.on)
      /\ o.op \notin {"say", "is_ready", "get", "read"} => said' = said
      /\ o.op = "stop_requested" /\ t \in stopped => sg_pc'[t] = Len(c[t]) + 1
  <2> HIDE DEF o
  <2>1. CodeOf(t) = c[t]
    BY <1>2
  <2> HIDE DEF c
  <2>2. o.op = "stop_requested" /\ t \in stopped => sg_pc'[t] = Len(CodeOf(t)) + 1
    BY <1>3, DeedsMean
  <2>3. /\ stopped' = IF o.op = "request_stop" THEN stopped \cup {o.on} ELSE stopped
        /\ o.op = "say" => Tells(t, o.on)
        /\ o.op \notin {"say", "is_ready", "get", "read"} => said' = said
    BY <1>3, DeedsMean
  <2>4. QED BY <2>1, <2>2, <2>3
<1>5. \/ sg_pc'[t] = sg_pc[t] + 1
      \/ sg_pc'[t] = sg_pc[t] /\ o.op \in {"join", "wait"}
      \/ sg_pc'[t] = Len(c[t]) + 1 /\ o.op = "stop_requested"
  <2> HIDE DEF o
  <2>1. QED BY <1>2, <1>3, DeedsDone
<1>6. {"main", "t1", "t2"} \subseteq Signal!Thread /\ counter \in Nat
  BY DEF Signal!Thread, ThreadsAssumption
<1>7. /\ sg_pc["main"] > 3 => "t2" \in stopped
      /\ Signal!Said("completed") /= {} => sg_pc["main"] > 5
      /\ \A j, k \in Late : j = k
      /\ Late /= {} => sg_pc["t2"] % 2 = 1
      /\ IsFiniteSet(Signal!Said("t1")) /\ Cardinality(Signal!Said("t1")) = sg_pc["t1"] - 1
  BY DEF InterruptInv
<1> HIDE DEF c, o
\* What each of the sets gets when x is said.
<1>8. \A x, y : /\ Tells(t, x) => Signal!Said(y)' = IF x = y THEN Signal!Said(y) \cup {Len(said) + 1} ELSE Signal!Said(y)
                /\ Signal!Said(y) \subseteq 1 .. Len(said) /\ Len(said) \in Nat
  BY SaidIs
<1>9. said' = said => \A y : Signal!Said(y)' = Signal!Said(y)
  BY DEF Signal!Said
<1>10. CASE t = "main"
  <2>1. sg_pc["main"] \in 1 .. 9 /\ o = c["main"][sg_pc["main"]]
    BY <1>1, <1>2, <1>10 DEF o
  <2>2. sg_pc'["t1"] = sg_pc["t1"] /\ sg_pc'["t2"] = sg_pc["t2"]
    BY <1>2, <1>6, <1>10
  <2>3. sg_pc'["main"] = sg_pc["main"] \/ sg_pc'["main"] = sg_pc["main"] + 1
    BY <1>1, <1>5, <1>10, <2>1
  <2>4. sg_pc["main"] \in {3, 5} => o.op \notin {"join", "wait"}
    BY <1>1, <2>1 DEF Is
  <2>5. sg_pc'["main"] > 3 => "t2" \in stopped'
    <3>1. CASE sg_pc["main"] > 3
      BY <1>4, <1>7, <3>1
    <3>2. CASE sg_pc["main"] = 3
      BY <1>1, <1>4, <2>1, <3>2 DEF Is
    <3>3. QED BY <2>1, <2>3, <3>1, <3>2
  <2>6. CASE o.op /= "say"
    <3>1. said' = said
      BY <1>1, <1>4, <2>1, <2>6
    <3>2. \A y : Signal!Said(y)' = Signal!Said(y)
      BY <1>9, <3>1
    <3>3. Late' = Late
      BY <3>2 DEF Late
    <3>4. QED BY <1>2, <1>6, <1>7, <2>2, <2>5, <3>2, <3>3 DEF InterruptInv
  <2>7. CASE o.op = "say"
    <3>1. sg_pc["main"] = 5 /\ o.on = "completed"
      BY <1>1, <2>1, <2>7 DEF Is
    <3>2. Tells(t, "completed") /\ sg_pc'["main"] = 6
      BY <1>4, <1>5, <1>10, <2>7, <3>1
    <3>3. /\ Signal!Said("completed")' = Signal!Said("completed") \cup {Len(said) + 1}
          /\ Signal!Said("t1")' = Signal!Said("t1") /\ Signal!Said("t2")' = Signal!Said("t2")
      BY <1>8, <3>2
    <3>4. \A k \in Signal!Said("t2") : ~(Len(said) + 1 < k)
      <4>1. Signal!Said("t2") \subseteq 1 .. Len(said) /\ Len(said) \in Nat
        BY <1>8
      <4>2. QED BY <4>1
    <3>5. Late' = Late
      BY <3>3, <3>4 DEF Late
    <3>6. QED BY <1>7, <2>2, <2>5, <3>2, <3>3, <3>5 DEF InterruptInv
  <2>8. QED BY <2>6, <2>7
<1>11. CASE t = "t1"
  <2>1. sg_pc["t1"] \in 1 .. Len(c["t1"])
    BY <1>2, <1>11
  <2>2. sg_pc["t1"] \in 1 .. counter
    BY <1>1, <2>1
  <2>3. o.op = "say" /\ o.on = "t1"
    BY <1>1, <1>11, <2>2 DEF Is, o
  <2>4. sg_pc'["t1"] = sg_pc["t1"] + 1 /\ sg_pc'["main"] = sg_pc["main"] /\ sg_pc'["t2"] = sg_pc["t2"]
    BY <1>2, <1>5, <1>6, <1>11, <2>3
  <2>5. Tells(t, "t1") /\ stopped' = stopped
    BY <1>4, <2>3
  <2>6. /\ Signal!Said("t1")' = Signal!Said("t1") \cup {Len(said) + 1}
        /\ Signal!Said("completed")' = Signal!Said("completed") /\ Signal!Said("t2")' = Signal!Said("t2")
    BY <1>8, <2>5
  <2>7. Len(said) + 1 \notin Signal!Said("t1")
    <3>1. Signal!Said("t1") \subseteq 1 .. Len(said) /\ Len(said) \in Nat
      BY <1>8
    <3>2. QED BY <3>1
  <2>8. /\ IsFiniteSet(Signal!Said("t1") \cup {Len(said) + 1})
        /\ Cardinality(Signal!Said("t1") \cup {Len(said) + 1}) = Cardinality(Signal!Said("t1")) + 1
    BY <1>7, <2>7, FS_AddElement
  <2>9. Late' = Late
    BY <2>6 DEF Late
  <2>10. /\ IsFiniteSet(Signal!Said("t1")') /\ Cardinality(Signal!Said("t1")') = sg_pc'["t1"] - 1
    <3>1. Cardinality(Signal!Said("t1")) = sg_pc["t1"] - 1 /\ sg_pc["t1"] \in Nat
      BY <1>6, <1>7, <2>2
    <3>2. (sg_pc["t1"] - 1) + 1 = sg_pc'["t1"] - 1
      BY <2>4, <3>1
    <3>3. /\ IsFiniteSet(Signal!Said("t1")')
          /\ Cardinality(Signal!Said("t1")') = Cardinality(Signal!Said("t1")) + 1
      BY <2>6, <2>8
    <3>4. QED BY <3>1, <3>2, <3>3
  <2>11. QED BY <1>7, <2>4, <2>5, <2>6, <2>9, <2>10 DEF InterruptInv
<1>12. CASE t = "t2"
  <2>1. sg_pc["t2"] \in 1 .. Len(c["t2"])
    BY <1>2, <1>12
  <2>2. sg_pc["t2"] \in 1 .. 2 * counter
    BY <1>1, <2>1
  <2>3. sg_pc'["t1"] = sg_pc["t1"] /\ sg_pc'["main"] = sg_pc["main"]
    BY <1>2, <1>6, <1>12
  <2>4. CASE sg_pc["t2"] % 2 = 1
    <3>1. o.op = "stop_requested"
      BY <1>1, <1>12, <2>2, <2>4 DEF o
    <3>2. said' = said /\ stopped' = stopped
      BY <1>4, <3>1
    <3>3. \A y : Signal!Said(y)' = Signal!Said(y)
      BY <1>9, <3>2
    <3>4. Late' = Late
      BY <3>3 DEF Late
    <3>5. Late /= {} => sg_pc'["t2"] % 2 = 1
      <4>1. Late /= {} => Signal!Said("completed") /= {}
        BY DEF Late
      <4>2. Late /= {} => "t2" \in stopped
        BY <1>6, <1>2, <1>7, <4>1
      <4>3. Late /= {} => sg_pc'["t2"] = 2 * counter + 1
        BY <1>1, <1>4, <1>12, <3>1, <4>2
      <4>4. (2 * counter + 1) % 2 = 1
        BY <1>6
      <4>5. QED BY <4>3, <4>4
    <3>6. QED BY <1>7, <2>3, <3>2, <3>3, <3>4, <3>5 DEF InterruptInv
  <2>5. CASE sg_pc["t2"] % 2 /= 1
    <3>1. o.op = "say" /\ o.on = "t2"
      BY <1>1, <1>12, <2>2, <2>5 DEF Is, o
    <3>2. Tells(t, "t2") /\ stopped' = stopped /\ sg_pc'["t2"] = sg_pc["t2"] + 1
      BY <1>4, <1>5, <1>12, <3>1
    <3>3. /\ Signal!Said("t2")' = Signal!Said("t2") \cup {Len(said) + 1}
          /\ Signal!Said("completed")' = Signal!Said("completed") /\ Signal!Said("t1")' = Signal!Said("t1")
      BY <1>8, <3>2
    <3>4. Late = {}
      BY <1>7, <2>5
    <3>5. Late' \subseteq {Len(said) + 1}
      BY <3>3, <3>4 DEF Late
    <3>6. sg_pc'["t2"] % 2 = 1
      <4>1. sg_pc["t2"] \in Nat
        BY <2>2, <1>6
      <4>2. QED BY <2>5, <3>2, <4>1
    <3>7. QED BY <1>7, <2>3, <3>2, <3>3, <3>5, <3>6 DEF InterruptInv
  <2>6. QED BY <2>4, <2>5
<1>13. t /= "t3"
  <2>1. t = "t3" => sg_pc["t3"] \in 1 .. Len(c["t3"])
    BY <1>2
  <2>2. QED BY <1>1, <2>1
<1>14. QED BY <1>10, <1>11, <1>12, <1>13, EachThread

-----------------------------------------------------------------------------
LEMMA RunnersCounted == Signal!Cardinality(Signal!Runners) = Cardinality(Signal!Runners) /\ IsFiniteSet(Signal!Runners)
<1>1. \A S : Signal!Cardinality(S) = Cardinality(S)
  BY DEF Signal!Cardinality, Cardinality, Signal!IsFiniteSet, IsFiniteSet
<1>2. IsFiniteSet({"t1"}) /\ IsFiniteSet({"t2"}) /\ IsFiniteSet({"t3"})
  BY FS_Singleton
<1>3. IsFiniteSet({"t1"} \cup {"t2"} \cup {"t3"})
  BY <1>2, FS_Union
<1>4. Signal!Runners = {"t1"} \cup {"t2"} \cup {"t3"}
  BY DEF Signal!Runners
<1>5. QED BY <1>1, <1>3, <1>4

LEMMA SignalInit ==
  ASSUME ThreadsAssumption, Signal!Init
  PROVE  SignalInv
<1>1. /\ sg_program \in Signal!Programs /\ sg_pc = [t \in Signal!Thread |-> 1]
      /\ life = [t \in Signal!Thread |-> IF t = "main" THEN "started" ELSE "unborn"]
      /\ sg_mem = [x \in Cells |-> ""] /\ stopped = {} /\ dead = {} /\ said = << >>
      /\ left = Cardinality(Signal!Runners)
  BY RunnersCounted DEF Signal!Init, Cells
<1>2. Well(Signal!Code(sg_program))
  BY <1>1, EveryWell
<1>3. ASSUME NEW t \in Signal!Thread PROVE sg_pc[t] = 1 /\ Passed(t) = {}
  <2>1. sg_pc[t] = 1
    BY <1>1
  <2>2. \A i : i \notin 1 .. 1 - 1
    OBVIOUS
  <2>3. QED BY <2>1, <2>2 DEF Passed
<1>4. ASSUME NEW x PROVE Signal!Said(x) = {}
  <2>1. \A i : i \notin 1 .. Len(said)
    BY <1>1, Nothing
  <2>2. QED BY <2>1 DEF Signal!Said
<1>5. SignalType
  <2>1. said \in Seq({}) /\ \E S : said \in Seq(S)
    <3>1. << >> \in Seq({})
      OBVIOUS
    <3>2. QED BY <1>1, <3>1
  <2>2. \A t \in Signal!Thread : Len(CodeOf(t)) \in Nat
    BY <1>2 DEF Well, CodeOf
  <2>3. \A t \in Signal!Thread : sg_pc[t] \in 1 .. Len(CodeOf(t)) + 1
    BY <1>3, <2>2
  <2>4. sg_pc \in [Signal!Thread -> Nat]
    BY <1>1
  <2>5. left \in Int
    <3>1. Cardinality(Signal!Runners) \in Nat
      BY RunnersCounted, FS_CardinalityType
    <3>2. left \in Nat
      BY <1>1, <3>1
    <3>3. QED BY <3>2
  <2>6. life = [t \in Signal!Thread |-> life[t]] /\ sg_mem = [x \in Cells |-> sg_mem[x]]
    BY <1>1
  <2>7. QED BY <1>1, <1>2, <2>1, <2>3, <2>4, <2>5, <2>6 DEF SignalType
<1>6. Effective
  BY <1>1, <1>3 DEF Effective, JoinsOver, CellsFilled, NoneBroken, FromPuts, DeadEnded
<1>7. Heard /\ NothingBad
  BY <1>3, <1>4 DEF Heard, NothingBad
<1>8. \A X, y : Signal!After(X, y)
  BY <1>4 DEF Signal!After
<1>9. {"main", "t1", "t2"} \subseteq Signal!Thread /\ Signal!Runners \subseteq Signal!Thread
  BY DEF Signal!Thread, Signal!Runners
<1>10. LatchInv
  <2>1. Uncounted = Signal!Runners
    BY <1>3, <1>9 DEF Uncounted
  <2>2. ~(sg_pc["main"] > 5)
    BY <1>3, <1>9
  <2>3. QED BY <1>1, <1>8, <2>1, <2>2 DEF LatchInv
<1>11. ValueInv
  BY <1>8 DEF ValueInv
<1>12. AsyncInv
  <2>1. life["t2"] = "unborn"
    BY <1>1, <1>9
  <2>2. QED BY <1>8, <2>1 DEF AsyncInv
<1>13. InterruptInv
  <2>1. sg_pc["main"] = 1 /\ sg_pc["t1"] = 1
    BY <1>3, <1>9
  <2>2. Late = {}
    BY <1>4 DEF Late
  <2>3. IsFiniteSet(Signal!Said("t1")) /\ Cardinality(Signal!Said("t1")) = 0
    BY <1>4, FS_EmptySet
  <2>4. QED BY <1>4, <2>1, <2>2, <2>3 DEF InterruptInv
<1>14. QED BY <1>5, <1>6, <1>7, <1>10, <1>11, <1>12, <1>13 DEF SignalInv

LEMMA SignalSame ==
  ASSUME SignalInv, UNCHANGED <<sg_program, sg_pc, life, sg_mem, left, stopped, dead, said>>
  PROVE  SignalInv'
<1>1. \A t \in Signal!Thread : CodeOf(t)' = CodeOf(t) /\ Passed(t)' = Passed(t)
  BY DEF CodeOf, Passed
<1>2. \A x : Signal!Said(x)' = Signal!Said(x)
  BY DEF Signal!Said
<1>3. \A X, y : Signal!After(X, y)' <=> Signal!After(X, y)
  BY <1>2 DEF Signal!After
<1>4. SignalType'
  BY <1>1 DEF SignalInv, SignalType
<1>5. Effective'
  <2>1. JoinsOver'
    BY DEF SignalInv, Effective, JoinsOver, Over, CodeOf, Passed
  <2>2. CellsFilled' /\ NoneBroken'
    BY <1>1 DEF SignalInv, Effective, CellsFilled, NoneBroken
  <2>3. FromPuts'
    BY DEF SignalInv, Effective, FromPuts, CodeOf, Passed
  <2>4. DeadEnded'
    BY <1>1 DEF SignalInv, Effective, DeadEnded
  <2>5. QED BY <2>1, <2>2, <2>3, <2>4 DEF Effective
<1>6. Heard'
  BY DEF SignalInv, Heard, CodeOf, Passed, Signal!Said
<1>7. NothingBad' /\ ValueInv'
  BY <1>2, <1>3 DEF SignalInv, NothingBad, ValueInv
<1>8. LatchInv'
  BY <1>3 DEF SignalInv, LatchInv, Uncounted
<1>9. AsyncInv'
  BY <1>3 DEF SignalInv, AsyncInv
<1>10. InterruptInv'
  BY <1>2 DEF SignalInv, InterruptInv, Late
<1>11. QED BY <1>4, <1>5, <1>6, <1>7, <1>8, <1>9, <1>10 DEF SignalInv

LEMMA SignalKept ==
  ASSUME ThreadsAssumption, SignalInv, [Signal!Next]_signalVars
  PROVE  SignalInv'
<1>1. ASSUME NEW t \in Signal!Thread, Signal!Run(t) PROVE SignalInv'
  <2>1. SignalType /\ Effective /\ Heard /\ NothingBad /\ LatchInv /\ ValueInv /\ AsyncInv /\ InterruptInv
    BY DEF SignalInv
  <2>2. sg_program' = sg_program
    BY <1>1 DEF Signal!Run
  <2>3. SignalType' /\ Effective' /\ Heard' /\ NothingBad'
    BY <1>1, <2>1, TypeKept, EffectiveKept, HeardKept, NothingBadKept
  <2>4. LatchInv'
    BY <1>1, <2>1, <2>2, LatchKept DEF LatchInv
  <2>5. ValueInv'
    BY <1>1, <2>1, <2>2, ValueKept DEF ValueInv
  <2>6. AsyncInv'
    BY <1>1, <2>1, <2>2, AsyncKept DEF AsyncInv
  <2>7. InterruptInv'
    BY <1>1, <2>1, <2>2, InterruptKept DEF InterruptInv
  <2>8. QED BY <2>3, <2>4, <2>5, <2>6, <2>7 DEF SignalInv
<1>2. CASE Signal!Spurious
  BY <1>2, SignalSame DEF Signal!Spurious
<1>3. CASE UNCHANGED Signal!vars \/ UNCHANGED signalVars
  BY <1>3, SignalSame DEF Signal!vars, signalVars
<1>4. QED BY <1>1, <1>2, <1>3 DEF Signal!Next

LEMMA SignalMeans == ThreadsAssumption /\ SignalInv => Signal!HandedOver
<1> SUFFICES ASSUME ThreadsAssumption, SignalInv PROVE Signal!HandedOver
  OBVIOUS
<1>1. Signal!NoneUsedDead
  BY NoneDead DEF SignalInv
<1>2. NothingBad /\ LatchInv /\ ValueInv /\ AsyncInv /\ InterruptInv
  BY DEF SignalInv
<1>3. ASSUME sg_program = "interruptible", Signal!Ended PROVE Signal!Cardinality(Signal!Said("t1")) = counter
  <2> DEFINE c == Signal!Code(sg_program)
  <2>1. Len(c["t1"]) = counter
    <3> HIDE DEF c
    <3>1. c = Signal!Code("interruptible")
      BY <1>3 DEF c
    <3>2. QED BY <3>1, InterruptibleWell
  <2>2. sg_pc["t1"] = Len(c["t1"]) + 1
    BY <1>3 DEF Signal!Ended, Signal!End, Signal!Thread
  <2>3. Cardinality(Signal!Said("t1")) = sg_pc["t1"] - 1
    BY <1>2, <1>3 DEF InterruptInv
  <2>4. \A S : Signal!Cardinality(S) = Cardinality(S)
    BY DEF Signal!Cardinality, Cardinality, Signal!IsFiniteSet, IsFiniteSet
  <2>5. counter \in Nat
    BY DEF ThreadsAssumption
  <2> HIDE DEF c
  <2>6. sg_pc["t1"] - 1 = counter
    BY <2>1, <2>2, <2>5
  <2>7. QED BY <2>3, <2>4, <2>6
<1>4. ASSUME sg_program = "interruptible" PROVE \A j, k \in Late : j = k
  BY <1>2, <1>4 DEF InterruptInv
<1>5. QED BY <1>1, <1>2, <1>3, <1>4 DEF Signal!HandedOver, NothingBad, LatchInv, ValueInv, AsyncInv, Late

\* latch.cpp, promise.cpp, future.cpp, shared_future.cpp, notify_condition_variable.cpp
\* and the other one-shot signals: what is handed over arrives, after what it
\* stands for, nothing is used dead, and a stopped thread says one thing more at
\* most, for any number of rounds of interruptible-jthread.cpp.
THEOREM SignalsHandedOver == MCSpec => []HandedOver
<1>1. MCInit => SignalInv
  BY ThreadsAssumption, SignalInit DEF MCInit
<1>2. SignalInv /\ [MCNext]_demoVars => SignalInv'
  BY ThreadsAssumption, SignalKept, StepOfOne
<1>3. SignalInv => HandedOver
  BY ThreadsAssumption, SignalMeans DEF HandedOver
<1>4. QED BY <1>1, <1>2, <1>3, PTL DEF MCSpec
=============================================================================
