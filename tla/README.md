# TLA+ for cpp-advanced-training

TLA+ models of the programs of this training repository, TLC configurations
that check them on small instances, and TLAPS proofs about the most important
ones. The repository is a collection of about 200 small programs, one per
C++20 feature. Worth a model are those that run threads, suspend coroutines,
share state, own memory, or compute something that has a specification of its
own. Paths below are relative to the root of the repository.

1. [Inventory](#1-inventory)
2. [Modules](#2-modules)
3. [Runs](#3-runs)
4. [Fairness](#4-fairness)
5. [Proofs](#5-proofs)
6. [What the code does that its text does not say](#6-what-the-code-does-that-its-text-does-not-say)
7. [What is not modelled](#7-what-is-not-modelled)
8. [Plan](#8-plan)

## 1. Inventory

The programs do not depend on each other, apart from copies of the same class
in several files. Within the larger ones the parts interact as follows.

| component | source | state | operations | what is hard | correct means |
|---|---|---|---|---|---|
| thread pool | `src/coroutines/async--thread_pool.{hpp,cpp}` | queue of tasks, termination mode, vector of threads, mutex, condition variable | constructor, `wait_loop`, `addTask`, `stop`, `isActive`, destructor | tasks that call `addTask`, `notify_one` after the unlock, two ways to stop, joins | no task lost or run twice, no wakeup lost, `stop` ends, and with `EmptyQueue` only after all tasks |
| echo server | `src/coroutines/async--server.{hpp,cpp}`, `async--unittest.cpp` | a coroutine frame per stream with its source, buffer and counters; the owner's list of tasks; the pool | the awaitables of `Source` and `Destination`, `echo_server`, the loop of the test that polls `done()` and destroys frames | the thread that suspends a coroutine is still in it when another resumes it, a third destroys it; `erase` in a `for` loop | no use of a destroyed frame (but see section 6), one resumption per suspension, everything echoed, the test ends |
| concurrent queue | `Solutions/producer-consumer-queue.hpp` | bounded queue, one mutex, two condition variables | `push`, `pop` | two notifications of one thread each, after the unlock | a bounded FIFO channel that loses no wakeup |
| producers and consumers | `Solutions/producer-consumer--unittest.cpp`, `producer-consumer-ASSERT_DURATION_LE.hpp` | count of each thread, a joiner that the macro detaches, its promise | `run` of both classes, joins, stops, the timeout | stops overtake values; a timeout while threads run | every value taken once, a stop per consumer, the test ends or fails |
| ping-pong tests | `src/concurrency/pingpong--benchmark.cpp` | a flag, flags, semaphores or a flag under a mutex; a counter | six tests | turns without a lock, the last turn, notification of a flag both wait on | strict turns, both threads end |
| slots behind semaphores | `src/concurrency/semaphore.cpp` | array of slots, counting and binary semaphore | `find_slot`, `do_stuff`, release | a search without a bound that relies on the permits | slots are exclusive and always found |
| find run | `Solutions/FindRun.cpp` | latch, promise, stop source, threads | arrival, search, `set_value`, `request_stop`, destructors of `main` | late winners, destruction before the joins | one winner, all stop |
| runners at a barrier | `src/concurrency/barrier.cpp` | barrier, its completion function, `do_run` | rounds | `do_run` is not protected | all agree on the rounds |
| racing updates, guarded value | `src/concurrency/incrementation--benchmark.cpp`, `atomic_ref.cpp`, `hazardous_atomic_operation.cpp`, `combinatory_result.cpp`, `concurrent_*`, `thread_local.cpp` | shared numbers | loads, stores, fetch-adds, a mutex | interleavings | exactly the results the mechanism allows |
| one-shot signals, thread life and interruption | `src/concurrency/latch.cpp`, `promise*.cpp`, `future.cpp`, `shared_future.cpp`, `notify_condition_variable.cpp`, `async_too_slow.cpp`, `first_*`, `interruptible-jthread.cpp` | latch, shared state, stop source, what each thread has said | set, wait, get, join, request a stop, end of an object | the signal before the wait; an object that ends while a thread uses it | said after what it depends on, nothing used after its end, everybody ends |
| `ConcurrentStack` | `src/concurrency/atomic_shared_ptr_list-WIP.cpp` | an atomic head, the links of the nodes | `push`, `pop`, `find` | exchanges that fail and overwrite what they expected | a list of what was pushed, as far as `pop` lets it be one (section 6) |
| small pools | `Solutions/thread_pool_quick_and_dirty.cpp`, `run_hot_thread` of `src/coroutines/concurrency--benchmark.cpp` | a queue, a mode, a mutex, a condition variable | `add_task`, `stop_pool`, the loop, the joins | the stop comes while tasks are queued | every task run once before the joins return |
| chunks of a parallel transform | `src/parallel-stl/parallel_insight.cpp` | first and last element seen by each copy of a lambda, a map of chunks per thread | call, copy, destruction of the copy | the library cuts and copies as it likes | the statistics are those of the chunks |
| owners of frames | `src/coroutines/generator.cpp`, `massive-usage.cpp`, `composed_iterator.cpp`, `awaiters.cpp`, `co_await_path.cpp`, `concurrency--benchmark.cpp`, `inlined-coroutines.cpp` | a handle per object | special members, `resume` | seven classes, four kinds of move assignment; reuse of memory | one owner per frame, none leaked |
| first coroutines | the same files and `hello_world.cpp` | the frames, the values in their promises, the stack of resumed frames | bodies and mains | lazy and eager starts, three ways to await, generators that iterate on generators, a frame that destroys itself | only what is suspended is resumed, no frame is left, the values are those of the body |
| duplicated handle | `src/coroutines/duplicated_handle_error-will_fail.cpp` | the same, with implicit copies | `main` | a frame destroyed twice, reuse of memory | its assertion |
| coroutines that change threads | `src/coroutines/coroutine_trait.cpp`, `future_coroutine_trait.cpp`, `move_thread_coroutine.cpp`, `src/cpp20-demo-test.cpp` | frame with promise and awaiter, futures, detached threads | `await_suspend`, resumption, `get` | the awaiter dies while the thread that suspended it is inside it | resumed once, in order, in a live frame; the caller is told |
| pipeline of generators | `src/coroutines/inlined-coroutines.cpp` | a stack of stages that resume each other | `begin`, `++`, `co_yield`, end | an infinite first stage, ends that travel up | on demand, the sum |
| frames in a byte stream | `src/coroutines/ProcessStream.cpp` | the byte in the promise, the frame under construction, the value yielded | `SendSignal`, `Parse`, `async_generator::operator()`, `HandleFrame` | escapes, garbage, a coroutine resumed at two kinds of suspension | every frame handled once, whole, in order |
| lexer and postfix parser | `src/coroutines/lexer-parser.cpp` | two coroutines and their values, stack of expressions | `read`, `parse`, `main` | look-ahead of one character, the last token, pending operands | results stand for the tokens |
| function algebra | `Curiosity/algebra.cpp`, `algebraT.cpp` | trees of shared nodes, or types | `operator()`, `diff`, arithmetic, simplification by specialisation | rules that overlap | derivative right, simplified form equal |
| prime test | `Curiosity/prime_number_concept.cpp` | none | `clz`, `isqrt`, `IsPrime` | rounding of a square root in three steps | tells primes |
| random view | `src/ranges/custom_rnd_view.hpp` | rank, engine and current number of an iterator | `++`, `--`, `+=`, `-=` | going back is seeding again and discarding; the limit at the first number | a jump is so many steps |
| window view | `src/ranges/custom_window_fold_view.hpp` | the ends of the window and what it accumulates | `begin`, `end`, `++`, `--` | the walks in the two directions cut the range differently | every element shown once, in order |
| pipelines of views | `src/ranges/custom_take_view.hpp`, `range_filter_gcc_expanded.cpp`, `range_from_unix_pipe.cpp`, `range_adaptors*.cpp`, `ranges_traps*.cpp` | nested iterators, caches, counters in function objects | `begin`, `end`, `*`, `++`, `--` | everything is lazy: functions are called again, an `end` may lie past the range | each `*` shows what is at its position |
| closures of range adaptors | `src/ranges/custom_adaptor_details.hpp` | arguments kept in closures | composition, application | lvalues are copied from, rvalues moved from | a composed closure is what was written |
| sorts, selections, questions about persons | `src/ranges/range_algorithm.cpp`, `iterator_sample.cpp`, `range_sample.cpp`, `src/concepts/shell_sort.cpp`, `best_swap.cpp`, `src/meta-programming/min_element*`, `src/new_stl_erase_if.cpp` | a container | the algorithms | a pivot that moves while it is read | sorted permutations, the first minimum |
| prime numbers by templates | `src/meta-programming/primer.cpp` | none | `TESTPRIME` | specialisations that end the recursion | tells primes |
| integers with a nan, three-way comparison | `Solutions/IntNan--unittest.cpp`, `src/spaceship/*`, `src/integer_compare.cpp` | none | `==`, `<=>`, the operators rewritten with them | two operators written apart, three categories, integers of different types | the laws of the category |
| memory resources | `src/pmr/TrackNew.hpp`, `monotonic--unittest.cpp`, `introspection.cpp`, `pool--unittest.cpp`, `container--benchmark.cpp` | counters, a buffer, the storages of containers | allocate, give back, grow | a buffer that takes nothing back, elements that allocate for themselves, who propagates a resource | counters balance, the buffer is never exceeded |
| word count | `Solutions/parallel_word_count.hpp` | the partial results of a reduction | `naive_word_count`, `word_count`, `make_text` | reductions in any order and grouping, one of them not commutative | words counted and made as many as asked |

The other components are listed in section 7.

Interactions: the echo server's coroutines put jobs into the thread pool, whose
workers resume them, while the test owns and destroys them. The producers,
consumers and the joiner share one queue. In ProcessStream the stream, `Parse`
and the generator object around it run in turn and communicate through the
promise. In the lexer, `main` resumes `parse`, which resumes `read`.

## 2. Modules

One module per program, or per group of programs with one idea; the variables
have the names of the code's members and locals. A `pc` tells where a thread
is, as far as another thread can tell the difference: one action is one lock
acquisition, critical section, atomic operation or notification.

| module | what it is |
|---|---|
| `ThreadPool` | the pool, its workers, a caller of `addTask` from inside a task, and an owner that stops and destroys it |
| `TaskService` | what the pool promises: tasks start in the order they were accepted, each once, at most as many at a time as there are workers; a drain ends when nothing runs |
| `EchoServer` | coroutines, workers and owner of the echo test, on the pool as a `TaskService` |
| `EchoStream` | what one stream is, seen alone: it echoes so many pieces, is done after the last, and destroyed after that; every stream of `EchoServer` implements it |
| `ConcurrentQueue`, `BoundedChannel` | the queue for any threads, and the bounded FIFO channel it is |
| `ProducerConsumer` | the test around the queue (EXTENDS it), with the joiner and the timeout |
| `PingPong`, `TurnTaking` | the six tests in one module, since they share their loop; strict alternation, which all but the spinning one implement |
| `SlotQueue`, `FindRun`, `Rounds`, `RacingUpdates` | the small thread programs; the last one interprets each thread's operations, one atomic step at a time |
| `Signals` | the programs that hand over one signal: each thread is a sequence of operations of the library, with the ends of the objects among them |
| `ConcurrentStack` | the stack with its exchanges, pushed to and popped from at random |
| `PoolPrograms` | the two small pools with their mains, two more implementations of `TaskService` |
| `Inspection` | a parallel transform whose library cuts and copies as it likes, and the statistics taken of it |
| `CoroutineOwners` | objects that own frames through a plain pointer, used by a client in any order; the class is a parameter of the behaviour |
| `CoroutineBodies` | seven programs with the bodies of their coroutines; one thread with a stack of frames |
| `DuplicatedHandle`, `DetachedResume`, `GeneratorPipeline` | the other coroutine programs |
| `FrameParser` | `Parse` and its promise, with the sender of frames, noise and given-up frames as environment |
| `ExpressionParser` | `read`, `parse` and `main` as three processes that hand over; results are kept as trees, and the infix text as what it reads as |
| `FunctionAlgebra` | the run-time trees, the types and their simplification, and a user that builds functions both ways |
| `Primes` | the compile-time arithmetic and the recursion of templates |
| `RndView` | two iterators that make the same moves, one in steps and one in jumps, as in the test `FastMove` |
| `WindowFold` | an iterator that walks in any direction from either end |
| `WordCount` | the reductions of `make_text` and of `word_count`, one combination at a time |
| `ViewPipeline` | the iterators of a pipeline of views, one layer on another; what a client sees of each pipeline of `src/ranges/` |
| `RangeAdaptors` | a client that keeps, composes, copies, moves and applies closures |
| `SortPrograms` | the sorts, `min_element`, `best_swap`, remove-erase and the questions about persons, on every small container |
| `Orders` | the comparisons of each class, the operators the compiler rewrites, and the laws of their categories |
| `Memory` | the counters of `operator new`, a monotonic buffer under the containers of the tests, and the collections of the pool test |
| `ThreadPoolProofs`, `EchoServerProofs`, `ProducerConsumerProofs`, `PingPongProofs`, `ThreadsProofs`, `CoroutinesProofs`, `AlgorithmsProofs` | theorems and proofs; `ProducerConsumerProofs` holds those of the queue and of its client, `ThreadsProofs`, `CoroutinesProofs` and `AlgorithmsProofs` those of the modules that `MCThreads`, `MCCoroutines` and `Computations` run; `FindRun` holds its own |
| `Computations` | the programs that only compute and whose models need no recursion, one at a time: `FrameParser`, `RndView`, `WindowFold`, `WordCount`, `Orders`, `Memory` |
| `MC*` | instances for TLC (`ThreadPool`, `PingPong` and `ProducerConsumer` need none); `MCThreads`, `MCCoroutines` and `MCAlgorithms` run several unrelated modules, one at a time: the variable `demo` says which; `MCAlgorithms` runs those of `Computations`, which it extends, and those whose models recurse |

Correspondence that is not one to one:

- `ThreadPool`: `m_queue_condition.wait(lock, pred)` is `WorkerSleep` (predicate
  false: release and sleep in one step), then a wakeup by a notification or
  `SpuriousWake`, then `WorkerLock`. `submitted`, `pushed` and `done` are
  history. A task is an identity; its body may call `addTask` any number of
  times between `WorkerTake` and `WorkerFinish`.
- `EchoServer`: a coroutine has no thread of its own, so `at[t]` is the
  coroutine and the point thread `t` executes. A thread that has queued a job
  remains inside the coroutine until it leaves `await_suspend`. The end of a
  coroutine is two steps: `CoReturn` calls `final_suspend()`, whose body still
  uses the promise, and `FinalSuspend` suspends the coroutine. The owner asks
  `done()` of a coroutine that may be running, outside the precondition; GCC
  makes it true before the call and Clang after it. `build` is chosen in the
  initial states, as the repository's workflow builds with both. `erase` followed
  by the `++` of the loop is one action, with its effect on `end()` as the
  library of the repository's platforms has it (a circular list).
- `FrameParser`: `frame` survives in the coroutine; `mRecentSignal` and `mValue`
  are the promise's. Where one of `main`'s streams ends and the next begins is
  not visible to `Parse`.
- `FunctionAlgebra`: a type is a tree too; a specialisation is a rule that
  matches it. Where two rules match and neither is more special the program
  does not compile: the value `Ambiguous`. Numbers are those of the field of
  five elements, where sums, products and reciprocals are exact; sine and
  cosine are two arbitrary functions of which only the derivatives are known.
- `PingPong`: `counter` counts for pong only, as in the code; `turns` is history.
- `RndView`: the numbers of the engine are the positions of their draws, so that
  an engine is how many numbers it has drawn; `Word` stands for 2^64, the
  range of the argument of `discard`.
- `WordCount`: `transform_reduce` may combine any two of what it has: `sums` and
  `parts` are functions that lose one of their arguments with each combination.
- `MoveAssign` of `CoroutineOwners` covers self-assignment, in the order of the
  members' assignments, but for the class that destroys and exchanges: its
  object would keep the handle of the frame it has destroyed. No program of the
  repository assigns.
- `ConcurrentStack`: a node is the call that pushed it; the value it carries is
  left out. A spurious failure of `compare_exchange_weak` writes what was there.
- `Signals`: one operation of a thread is one step, with what it waits for as its
  guard; `pc` is the place of each thread in its code; `said` is what the threads have printed, in order.
- `ViewPipeline`: an iterator is a record of the iterator below it and of what
  its view adds; the counts in `mutable` function objects are part of the state,
  as every `*` calls the functions again.
- `Orders`, `SortPrograms` and `Primes` have no steps of their own worth telling:
  a behaviour of `MCAlgorithms` picks an input, and the property is about the
  operators that translate the functions of the code.
- `Memory`: a container grows as libstdc++ lets it grow; sizes are in bytes.

Definitions whose comment begins with "Faulty:" are plausible mistakes in the
definition that follows them. Each is used to test that a property notices:
with the definition replaced, the run fails.

## 3. Runs

`tlc -config X.cfg M` in this directory.

| run | module, cfg | distinct states | what it shows |
|---|---|---|---|
| thread_pool | `ThreadPool` | 10371 | nothing lost or run twice, no wakeup lost, `stop` wakes and joins all and drains when asked to, submitted tasks run, the pool implements `TaskService` |
| echo_server | `MCEchoServer` | 32654 | `FramesSafe`: no frame is used when it is gone, nor by two, but for a thread in `final_suspend()` where `done()` is true before it (section 6); `Echoed`; the polling loop ends, with every stream at its end; each stream refines `EchoStream` |
| producer_consumer | `ProducerConsumer` | 24613 | `QueueInv`: the bound, the lock and both condition variables; `AllPopped`: what was pushed is popped once, the stops last and one each; the test ends; the queue is a `BoundedChannel` |
| pingpong | `PingPong` | 822 | `SignalsKept`: no notification lost, one permit; the tests without a lock end with the same count; `TakesTurns` |
| threads | `MCThreads` | 44864 | `SlotsKept`; `Meetings`: one winner, the same rounds for all; `Results` of the racing updates; `HandedOver`; `StackKept`; `PoolsServe`: the small pools run every task once, as a `TaskService`; `Inspected`; everybody ends |
| coroutines | `MCCoroutines` | 49296 | `SoleOwner`, `NoLeak`, `ResumedRight`, `CallerTold` |
| algorithms | `MCAlgorithms` | 254240 | `FramesDelivered`, `Agree`, `ExpressionsRight`, `TellsPrimes`, `ViewsRight`, `WordsCounted`, `Arranged`, `OrdersLawful`, `MemoryRight` |
| producer_consumer_timeout | `ProducerConsumer`, `ProducerConsumerTimeout.cfg` | stops at the violation | finding 1 |
| pingpong_hang | `PingPong`, `PingPongHang.cfg` | " | finding 2 |
| find_run_late | `FindRun`, `FindRunLate.cfg` | " | finding 3 |
| duplicated_handle | `DuplicatedHandle` | " | finding 4 |
| rnd_view_jump | `RndView`, `RndViewJump.cfg` | " | finding 5 |

Bounds, and why they are enough:

- thread_pool: two workers and three tasks. One more task than workers, so that
  one is queued while both run; a task may add tasks while the owner is in each
  point of `stop`; both workers may sleep, or one sleep and one be on its way.
- echo_server: two streams (so that `erase` at the front with others behind, and of
  the last element, both occur), two workers, `ncount` of 3 as in the code, a
  buffer of 8. Words are modulo 16: `ncount` below zero would show. Both orders
  of `done()` and `final_suspend()`.
- producer_consumer: capacity 2 and two pushes by each of two producers, so
  that both condition variables have sleepers and a queue that is neither full
  nor empty exists; `CAPACITY` is 32 in the code, which only delays the sleep.
  `MaxPush` bounds the pushes of a producer; values are -1, 0 and 1 (`Numbers`),
  since the code tells only negative, zero and positive apart.
- pingpong: a limit of 4 gives each player several turns and a last one.
- threads: four queuers on two slots (`Size`); three runners; four increments
  per thread (`count`), since the naive result of 2 needs only two; three rounds
  of the interruptible loops (`counter`, 10 in the code), so that the request
  comes before, between and after them; three calls for each of
  two tasks of the stack (`Calls`), enough for two pops to race with a push and
  for a cycle of two nodes; three tasks on two workers (`TaskCount`), so that
  the stop meets a queue; six elements (`Elements`), which two threads can cut
  into chunks of one, two and more. `Limit` only has to be larger. The programs
  of `Signals` have no other number in them, so that TLC sees all their
  behaviours.
- coroutines: three objects and three frames: a move from a moved-from object,
  a chain of moves and a reuse of memory fit. `limit`, `factor`, `adder`,
  `FirstOne` and `Rounds` have the values of the code; `Starts` are six of the
  100000 coroutines of `massive-usage.cpp`, and the containers of
  `composed_iterator.cpp` have up to two (`Width`) vectors of up to two sets of
  `Leaves`, empty ones at every level.
- algorithms: payloads of up to two bytes of {ESC, SOF, other} and two frames
  per behaviour, with noise and given-up frames between; functions of up to
  three operators; inputs of up to five characters, of seven representatives;
  all numbers to 3000 and neighbourhoods of squares and powers of two; ranks up
  to six and moves up to three either way, so that every move is made from both
  sides of the first number; ranges of up to five elements and windows of one
  to three, with and without a remainder; texts of up to five characters and of
  up to three words, with one space between them; pipelines over every input of up to four elements, and over
  40 elements (`Horizon`) of the ranges without an end, more than any of their
  clients asks for; three closure variables and compositions of up to three
  adaptors; containers of up to five elements of three keys, so that there are
  equal ones; strings of up to two letters in both cases, integers of three
  bits, where every wrap and sign occurs; 1000 elements as in the tests of
  memory, two collections and eleven turns of the pool test. The constants `Max...`, `Horizon`, `Longest`, `Half`, `Collections`
  and `Turns` are the bounds.

## 4. Fairness

Weak fairness of the steps of each thread: the operating system schedules every
thread. Strong fairness where a thread waits for a mutex that others keep
taking (`WorkerLock`, `AddLock`, `StopLock`, `PushLock`, `PopLock`, `Lock` of
PingPong): the standard does not promise it, and without it a worker could
starve while others take the lock in turn, in the model and in theory; every
implementation of `std::mutex` wakes waiters. Waking up without a notification
may happen and is never assumed to. The owner of the pool need not call
`stop`; what it has called goes on. In FindRun nothing makes a search find, so
only what follows a find is claimed. `ConcurrentStack`, `CoroutineOwners`, `GeneratorPipeline` and the programs of `MCAlgorithms` are
checked for safety only: what they compute when they stop.

## 5. Proofs

`tlapm M.tla` checks the module's proofs. They hold for every value of the
constants under the assumptions named in the third column; the named
assumptions are evaluated by TLC in every run that extends the module.

| theorem | module | assumptions | statement |
|---|---|---|---|
| `TypeCorrect`, `MutualExclusion` | `ThreadPoolProofs` | `PoolAssumption` | `[]TypeInv`; one thread is in a critical section, the one the mutex names |
| `TasksOnce` | | " | `[]EachTaskOnce` |
| `WakeupsKept` | | " | `[]NoLostWakeup` |
| `StopWakes` | | " | `[]StopWakesAll` |
| `Drained` | | " | `[]DrainedOnReturn` |
| `ActiveCorrect` | | " | `[]ActiveWhileRunning` |
| `Implements` | | and the workers are finitely many, and not none | `Spec => ImplementsService` |
| `FramesAlwaysSafe`, `AlwaysEchoed` | `EchoServerProofs` | `EchoAssumption` | `[]FramesSafe`, `[]Echoed` |
| `StreamsImplemented` | | " | `Spec => ImplementsStreams`: every stream implements `EchoStream` |
| `QueueCorrect`, `QueueIsChannel` | `ProducerConsumerProofs` | `QueueAssumption` | for any clients, `[]QueueInv`, and the queue implements `BoundedChannel` |
| `UsesQueue`, `TestQueueCorrect`, `TestQueueIsChannel` | | and `ClientAssumption` | the producers, the consumers and the joiner are such clients, with the timeout and without; so both hold in the test |
| `EverythingPopped` | | " | `[]AllPopped`, with the timeout and without |
| `SignalsAlwaysKept`, `EveryTestTakesTurns` | `PingPongProofs` | `PingPongAssumption` | `[]SignalsKept`; all tests but the spinning one implement `TurnTaking` |
| `SlotsShared` | `ThreadsProofs` | `ThreadsAssumption` | `[]SlotsKept`, of `SlotQueue` alone and in the composition |
| `RunnersMeet` | | " | `[]Meetings`: `FindRun` and `Rounds` |
| `TasksRunOnce`, `PoolsServed` | | " | `[]RanOnce` and `PoolsServe`: both small pools run every task once and implement `TaskService` |
| `PopsTie` | | " | `[]StackKept`: `ConcurrentStack` |
| `ChunksTold` | | " | `[]Inspected`: `Inspection` |
| `UpdatesEnd` | | " | `[]Results`: all programs of `RacingUpdates` |
| `SignalsHandedOver` | | " | `[]HandedOver`: all programs of `Signals`, for any number of rounds |
| `OneOwnerEach`, `NoFrameLost` | `CoroutinesProofs` | `CoroutinesAssumption` | `[]SoleOwner`, `[]NoLeak` |
| `CoroutinesResumed` | | " | `[]ResumedRight`: `DetachedResume`, `GeneratorPipeline` and all programs of `CoroutineBodies` |
| `FirstWins` | `FindRun` | finitely many runners, `Main` and `NoRunner` differ from them | `[](StartTogether /\ OneWinner)` |
| `EveryFrameDelivered` | `AlgorithmsProofs` | `BytesAssumption` | `ComputeSpec => []FramesDelivered` |
| `WordsAlwaysCounted` | | `ComputationsAssumption` | `[]WordsCounted`: every order and grouping of both reductions |
| `OrdersAlwaysLawful` | | " | `[]OrdersLawful`: strings of any length, all integers, any width of `int` |
| `MemoryAlwaysRight` | | " | `[]MemoryRight`: up to a thousand elements, any number of collections and turns |
| `IteratorsAlwaysRight` | | " | `[]IteratorsRight`: the random view and the window view, a part of `ViewsRight` |

- **ThreadPool.** The invariants build on each other. `TypeInv` adds to the
  types where a thread has a task or an argument. `LifeInv` ties the point the
  owner is at to the vector of threads, to the mode and to the points of the
  workers (`Lifecycle`, `StopProgress`): `StopWakesAll` and
  `ActiveWhileRunning` follow from it. `NoLostWakeup` is inductive by itself: a
  worker falls asleep only after it has seen an empty queue under the mutex, so
  whoever filled the queue has yet to notify. `EachTaskOnce` needs
  `Submission`: what a caller of `addTask` holds was submitted, not pushed, and
  held by nobody else. `DrainedOnReturn` needs `SomeoneLeft`: after the stop a
  task in the queue, or one that a running task adds, has a worker that has not
  left. `Implements` maps `m_task_queue` to the accepted tasks and the tasks in
  the workers' hands to the running ones, and shows that every step is a step
  of the service or a stutter; that no more tasks run than there are workers is
  the injection from tasks to workers.
- **EchoServer.** `ResumerInv` says without counting what `FramesSafe` counts:
  a coroutine whose frame is alive and that is not done has a thread inside it
  or a queued job, no two of either, and no frame that is gone has any. A thread
  in `final_suspend()` of a coroutine whose `done()` is true is no user in this
  sense (`IsLate`): its frame may go at any time, which `LateInv` says, and that
  there is one such thread at most. `ResumerInv` is
  inductive as every step that lets go of a coroutine (a suspension) hands it to
  the job it has queued, and as only a done coroutine is destroyed. `ProgressInv`
  relates, for each point of the coroutine and each kind of job, the count of
  the source, the last read and the pieces written; that the count never wraps,
  and what has been written at the end, follow from it. For `ImplementsStreams`
  three steps of a stream count: a write, the step after which `done()` is true
  (the first or the second half of its end, by the build) and the `erase` of the
  owner; `ProgressInv` says that a write finds a piece left and the end none.
- **ConcurrentQueue.** The strengthening of "no lost wakeup" is a debt: while a
  thread sleeps on the side of the consumers, there are at most as many items
  as there are threads that will take one, or notify a sleeper, without waiting
  for anything but the lock; likewise for places and producers (`WokenInv`).
  A step moves one thread from one point to another, so that both sides of the
  inequality change by what one lemma on cardinalities (`OneMoves`) says. The
  refinement needs only that `pop` finds an item and `push` a place. That the
  test's steps are the queue's, or leave it alone, is by cases on its actions.
- **ProducerConsumer.** The queue holds values, then stops (`StopsFrom`): the
  stops in it and the consumers that have taken one are as many as the joiner
  has given, and no stop has been taken while a value is in front of it. When
  every consumer is done this is `stops` of them, all there are, so that none is
  left in the queue. The other half of `AllPopped`, `CountsBalance`, is about
  sums over the threads. A sum of counts is the number of pairs of a thread and
  one of its calls (`Returned`), so that no induction over the threads is
  needed: pushed and not popped is what the queue holds, if the calls that have
  changed the queue and not yet notified are counted (`Balance`). At the end
  nobody is between the two and the queue is empty.
- **FindRun.** The latch counts the threads that have not arrived (`LatchInv`), so
  that one that has not keeps it above 0. The promise is destroyed after the
  source, so that as long as the source exists only the first to set the promise
  can be about to use it (`PromiseInv`).
- **PingPong.** `TurnInv` says for each test whose turn it is by what the players
  share (the flag, the two flags, or who holds the permit) and how many turns
  pong has had (`counter`, and one more while pong is about to count); with it
  a turn of ping finds as many turns of each, a turn of pong one more of ping's.
- **SlotQueue.** `slots[i]` says whether somebody marked slot `i`; the binary
  semaphore is a mutex (`MutexInv`); the permits in the counting semaphore and
  the queuers that hold one are as many as the slots (`PermitsInv`). That the
  search, which has no bound, finds a slot is the pigeonhole principle: were
  all slots taken, the other holders of permits would be as many as the slots.
- **Rounds.** Who waits at the barrier has arrived; who is in a round is in the
  one that the completion function has counted, who is not has ended the one
  before (`RoundsInv`). `do_run` is written while everybody waits, so that
  whoever has read it has read the same.
- **PoolPrograms.** Each task that was added is in one place: in the queue, with
  one worker, or done (`TaskPlaces`, `NoneLost`); after the stop none is added,
  and who returns has seen an empty queue (`PoolEnds`). So a take is a start of
  the service, with room since the worker that takes runs nothing yet
  (`PoolRoom`), and the joins are its drain (`PoolServes`).
- **ConcurrentStack.** A task that pushes has a node of its own that is not in
  the list, one that pops has one of the list (`OwnNodes`). An exchange that
  fails overwrites what was expected, which leaves both true; a pop that
  "succeeds" gives its node a link to itself or to one that leads back to it,
  and a `find()` that came to it once comes again (`StackInv`).
- **Inspection.** What a copy has noted is where its chunk begins and where it is
  (`NotesRight`), the chunks that a thread has been at are apart and the one of
  its copy is one of them (`ChunksApart`); the entry of a thread tells of all of
  them but that one (`AllTold`). The sums in the entry are the same sums with a
  chunk more, by lemmas on the folds over finite sets.
- **RacingUpdates.** `Progress` says where each thread is in its loop by how many
  operations it has left. Under the mutex and with atomics what was stored and
  what is left to store is constant. For the unprotected counter `NaiveInv`
  bounds each number and each register by the writes made so far, and shows that
  a thread that has written once cannot read 0 again: hence the 2. The programs
  with a listed outcome have an invariant that lists what each number can be by
  how far each thread is.
- **Signals.** What the codes have in common is said of their text (`Careful`):
  a promise is set before it ends; a variable is written before it is read, by
  the reader or before the promise that the reader got was set; an object ends
  after the joins of the others that name it. That each of the eleven codes is so
  is shown operation by operation. For every code that is, what is behind a
  thread has had its effect, and only that (`Effective`, `Heard`): whatever is
  in a variable comes from a write that some thread has passed, hence from all
  that is in front of the write. That nothing is used dead, and that a value is
  got after what was said before its set, follow from it. Three programs need
  more: the latch counts the runners that have not counted down (`LatchInv`),
  the second thread of `async_too_slow.cpp` is not born before the first was
  joined (`AsyncInv`), and a thread that said something late has looked before
  the request, so that its next look ends it (`InterruptInv`).
- **CoroutineOwners.** Neither half of `SoleOwner` is inductive without the
  other: an owner is unique because a new frame was free, and a frame of an
  owner is not free because the one who freed it was its only owner. The proof
  goes through the forms of the move assignment, self-assignment included.
- **DetachedResume, GeneratorPipeline.** The threads that the body has not come
  to wait, are about to resume it, or are not born; who is about to resume has
  the result (`DetachedInv`). While a stage of the pipeline runs none below it
  has ended, and the values of `seq` that were not stopped have been summed, all
  or, on the way up, all but one (`PipelineInv`).
- **CoroutineBodies.** Each program has an invariant that lists its phases: not
  called, inside, suspended, at the end, destroyed. An awaiting body has told of
  as many awaits as main has resumed (`AwaitInv`); the local value of `generate`
  is the last that was shown (`GeneratorInv`), for each of many coroutines the
  value of its own orbit at the turn it is at (`MassiveInv`); the eager generator
  is one value ahead (`BenchInv`). In `composed_iterator.cpp` up to three frames
  stand on each other; in each of thirteen phases, what is shown, followed by
  the value on its way up and by what each frame has not come to, innermost
  first, is the sequence of all numbers (`ComposedInv`). That the sequence of
  orbits and the flattening of a sequence exist as the recursive definitions
  say is shown with a least counterexample (`LeastNat`).
- **FrameParser.** Between two bytes, `Parse` is suspended at the point the
  sender's phase calls for and its `frame` is what was sent of the payload
  (`Met`); while it holds a byte it is one step behind the sender (`Behind`);
  the handled frames are the sent ones, but for the one that has been yielded
  and not yet taken (`Accounted`). `start` and `yielded` take the next byte
  alike, which is why garbage may precede a frame. Every step of `MCSpec` is one
  of `ComputeSpec` or leaves its variables alone, so that what is proved of
  `Computations` is what the run checks.
- **WordCount.** While a text is made, the words of all parts are as many as were
  asked for: a separator begins and ends with a space, so that the words of a
  joined text are those of the one and, moved, those of the other (`WordsJoin`).
  While words are counted, the numbers add up to the beginnings of words in the
  text. Both sums are the number of pairs of a position and one of its units,
  so that a reduction, which moves the units of one position to another,
  changes neither (`ReducedTotal`), in whatever order it comes.
- **RndView, WindowFold.** A walk is a recursive function; the sequence of ranks
  it should be satisfies the same equation, and a least number where the two
  differ does not exist (`WalkIs`). From there the iterator that steps and the
  one that jumps are at the same rank, with the engine behind it, until one
  throws: going back `discard`s a number below `Word`, but for rank 0
  (`RandomInv`). A window is the stretch of the range between two positions, and
  two stretches that meet are one (`BetweenJoin`, `WindowInv`).
- **Orders.** Two laws are enough: exchanged operands flip the result, and if two
  comparisons in a row say less or equivalent, the one of the ends says less if
  either does, and else equivalent (`Chain`). A comparison of integers has them,
  a lexicographic one by the first position where two sequences differ, and a
  comparison by one member and then by another if both have them (`ThenLaws`);
  the classes are built of these. A nan compares as unordered, which is its own
  flip and never begins a chain. For integers of two types the conversion adds
  2^w to a negative `int`, which puts it behind every value that an `int` can
  have.

- **Memory.** Each test has a record (`TestIs`), and an insert is proved test by
  test. A vector that doubles has the capacity that its size determines
  (`Doubling`), so that it has had as many storages as there are powers of two
  below twice its size (`BelowMore`, `BelowSame`). What a buffer has given away
  is bounded by a multiple of the capacity and of the size (`Filled`): a
  storage is as large as all before it and one element, and each piece has up to
  seven bytes before it. With up to 1000 elements the capacity is at most 1024,
  and 87 * 1024 + 53 * 1000 bytes fit in the 200000 that the test has; this is
  the bound in `ComputationsAssumption`. The hint remembers where the
  vector was one insert ago, which in a buffer of bytes is its capacity less one
  (`HintsInv`). A collection of the pool test has grown with every turn, or has
  nine elements at least (`CollectionsInv`), so that two turns are enough for
  a jump to take the median of.

Only model-checked:

- liveness (`StopReturns`, `TasksRun`, `TestEnds`, `Completes`,
  `LockFreeReturns`, `EveryoneEnds`, `CallerTold`), which TLAPS cannot prove;
- of what `MCAlgorithms` runs: `Agree`, `ExpressionsRight`, `Arranged` and, of
  `ViewsRight`, the pipelines and the closures, which are about what is computed
  by recursion, in modules with `RECURSIVE` operators, about which nothing can be
  proved; `TellsPrimes`, which tests with such an operator, too, and takes a root
  by three of Newton's steps from a power of two, of which the provers know
  nothing.

## 6. What the code does that its text does not say

Findings, each shown by a run:

1. **A timeout of ASSERT_DURATION_LE terminates the process**
   (`Solutions/producer-consumer-ASSERT_DURATION_LE.hpp:19`). It is meant to
   report a failed test; it returns from a test whose vectors hold joinable
   threads.
2. **`condition_variable_test` may hang** (`src/concurrency/pingpong--benchmark.cpp:140`).
   pong counts after it has released the mutex; ping may go into one more round
   that pong will never answer.
3. **A late winner of FindRun uses a destroyed promise**
   (`Solutions/FindRun.cpp:36`). The threads are declared first and so joined
   last.
4. **The copied tasks may have equal handles**
   (`src/coroutines/duplicated_handle_error-will_fail.cpp:76`), as the name of
   the file announces.
5. **A jump of the random view to rank 0 does not throw**
   (`src/ranges/custom_rnd_view.hpp:48`). A step back from the first number
   does; the jump discards 2^64 - 1 numbers. `ViewsRight` shows that jumps and
   steps agree everywhere else.

Observed while modelling, where neither a comment nor a test says otherwise:

- **The echo test may destroy a frame that `final_suspend()` still uses**, when
  it is built with GCC. `async--unittest.cpp:69` calls `done()` while a worker
  may be inside `resume()`; `done()` must only be asked of a suspended coroutine.
  With GCC it is true before `final_suspend()` is called, so that the owner can
  erase the task while the worker is in its body (`async--server.cpp:41-48`: the
  assertion on `context`, the wait for the mutex of `SyncCout`); with Clang it is
  true after the body, and what is left of `resume()` does not touch the frame.
  `FramesSafe` therefore leaves out `Late`, the thread at that point with GCC's
  order, and says that this is the only use of a frame that can go wrong; with
  `Late` put back TLC finds the case in 35 states (`CoReturn` of a worker, then
  `PollErase`). What the body reads from a frame that is gone is undefined
  and not modelled: nothing else depends on it, and the thread leaves as
  otherwise. Two other things do not depend on the order: a thread that leaves
  `resume()` behind `final_suspend()` may outlive the frame in both builds
  without touching it; and what is echoed is the same.
- `a - f` of a number and a function is built as `f - a`
  (`Curiosity/algebra.cpp:235`; the same in `algebraT.cpp`), and some legal
  expressions of `algebraT.cpp` do not compile: `x + x` has the derivative
  1 + 1, which two specialisations match.
- `isqrt` may be one too large, which only adds a divisor; `IsPrime` is true of
  0 and 1 and false of 2.
- Empty frames are parsed and not handled (`ProcessStream.cpp:222`).
- `'c' != '0'` (`lexer-parser.cpp:191`) compares two literals and is always
  true; an exception in `parse` ends the output without a message.
- The move assignments of `generator.cpp` and `awaiters.cpp` leak the frame
  they overwrite; `NoLeak` leaves these two classes out. That of
  `concurrency--benchmark.cpp`, applied to itself, keeps the handle of the frame
  it destroys. No program of the repository assigns.
- `pop` of the atomic stack (`atomic_shared_ptr_list-WIP.cpp:104`) gives
  `compare_exchange_weak` the head's successor as the expected value and the
  head as the new one: it removes nothing, and ends by tying the list into a
  cycle. `StackKept` says what remains: until a pop has written a `next`, the
  list is what was pushed, last first; from then on, and not before, `find()` of
  a value that is not there never returns.
- `max_chunk_size` of `parallel_insight.cpp` is a `min_element`, and a copy of
  the lambda that saw one element counts as one that saw none.
- `size()` of the custom take view is `s - c`, what is left and not what is
  taken; its `end()` lies past a range that is shorter than the count.
- `ranges_traps4.cpp` shows an even number behind a filter for odd ones, since
  `*` calls the function again; the two orders of `ranges_traps3.cpp` come to
  the same result.
- The pools of `pool--unittest.cpp` are never used: the index is not incremented
  and a move assignment does not hand the resource over.
- The first value of the generator of `concurrency--benchmark.cpp` is never seen.
- In `atomic_flags_test` of the ping-pong tests both flags start clear, so that
  neither player moves.

## 7. What is not modelled

| component | why |
|---|---|
| coroutine templates (`co_await_principle-WIP.cpp`, `CoroutineTemplate.cpp`, `async--synccout.hpp`) | templates that run nothing of their own; output |
| samples of ranges | one or two statements each, of the library itself |
| parallel algorithms (other than `parallel_insight.cpp`) | one call of an algorithm of the library each, timed or counted |
| other memory resources | a resource that forwards and prints; a program about a type that does not compile |
| three-way comparison: migration | which overload of `==` the compiler chooses in C++17 and in C++20 |
| concepts, meta-programming (other than the sorts, `best_swap`, `min_element` and the primes) | which template, specialisation or overload the compiler takes |
| formatting | wording and layout of text, no state |
| modules | what a module exports: name lookup of the compiler |
| language samples | one feature of the language or library each, a straight line of statements |
| support headers | colours, names of types, messages about missing features |
| build and tools | no behaviour of the programs |

Partly modelled: of the ping-pong tests, `empty_test` (a reader and a writer of
one atomic counter) is left out; of thread life and interruption,
`osyncstream.cpp`, which only shows that lines are not mixed, and the sleeps; of
the guarded value the program without a mutex, two threads in `push_back` of one
vector, whose outcomes no set of values describes and which is not built; of the
function algebra the division of a function by a real, printing, `memory_size`
and `plot`.

Left out inside modelled components: output and its mutex (`SyncCout`), sleeps
(any delay is possible anyway), memory exhaustion, the numeric rounding of
`Real` in the algebra, and weak memory orderings: the code uses the default,
sequentially consistent ones throughout.

## 8. Plan

Done, in this order: thread pool, echo server, queue and its client, ping-pong,
small thread programs, coroutines, algorithms; the random and window views and
the word count; the stack, the signals, the small pools, the chunks; the bodies
of the first coroutines; pipelines of views and closures; sorts, orders, memory;
proofs for the pool, the slots, the owners, the frame parser, the queue and its
client, the ping-pong tests, the echo server and the find run; then for the
balance of the queue's client, the streams of the echo server, the small pools
as services, the barrier, the racing updates, the signals, the stack, the chunks,
all coroutines, the word count, the orders, memory and the two iterators of views.

Left, by importance:

1. Proofs about the other algorithms, with their `RECURSIVE` operators as
   recursive functions, as in `CoroutineBodies`: first the pipelines of views,
   then the sorts.
2. The order of static initialisation (`src/StaticInitOrderFiasco*.cpp`), the
   only one of the language samples with orders to tell apart.
