--------------------------- MODULE RacingUpdates ---------------------------
(***************************************************************************)
(* The programs of src/concurrency/ in which threads update shared numbers *)
(* and main joins them and looks at the result: incrementation--benchmark, *)
(* atomic_ref, hazardous_atomic_operation, combinatory_result, the two     *)
(* concurrent_safe_mutex_access (of the vector: its size), thread_local.   *)
(* The code of a thread is a sequence of operations on one variable each,  *)
(* atomic as C++ has them: a += c reads c and then adds to a, a = a * 3    *)
(* reads a and then writes it, ++a is one operation. ++data of an unsigned *)
(* that is not atomic is a data race; DoNotOptimize makes the build read   *)
(* and write it.                                                           *)
(***************************************************************************)
EXTENDS Naturals, Sequences, FiniteSets

CONSTANTS
  count,      \* the increments of each thread in incrementation--benchmark
  NoThread    \* the mutex is free

Thread == {"t1", "t2", "t3"}
Var == {"a", "b", "c"}

\* The register of the thread takes the value of v.
Load(v) == [op |-> "load", var |-> v, mul |-> 0, plus |-> 0]

\* v takes mul times the register plus a number; v grows by the same.
Store(v, m, n) == [op |-> "store", var |-> v, mul |-> m, plus |-> n]
Add(v, m, n) == [op |-> "add", var |-> v, mul |-> m, plus |-> n]

Lock == [op |-> "lock", var |-> "a", mul |-> 0, plus |-> 0]
Unlock == [op |-> "unlock", var |-> "a", mul |-> 0, plus |-> 0]

Repeat(n, code) == [i \in 1 .. n * Len(code) |-> code[((i - 1) % Len(code)) + 1]]

Threads(c1, c2, c3) == [t1 |-> c1, t2 |-> c2, t3 |-> c3]

-----------------------------------------------------------------------------
\* Faulty: data is read once, before the loop, and not again.
NaiveKeepsRegister ==
  LET f == <<Load("a")>> \o Repeat(count, <<Store("a", 1, 1)>>) IN Threads(f, f, << >>)

\* ++data, of an unsigned.
Naive ==
  LET f == Repeat(count, <<Load("a"), Store("a", 1, 1)>>) IN Threads(f, f, << >>)

\* Faulty: the mutex is released before the increment is written.
MutexEarly ==
  LET f == Repeat(count, <<Lock, Load("a"), Unlock, Store("a", 1, 1)>>)
  IN  Threads(f, f, << >>)

\* ++data under a lock_guard.
Mutex ==
  LET f == Repeat(count, <<Lock, Load("a"), Store("a", 1, 1), Unlock>>)
  IN  Threads(f, f, << >>)

\* ++data, of an atomic.
Atomic == LET f == Repeat(count, <<Add("a", 0, 1)>>) IN Threads(f, f, << >>)

\* BigStructure::data.
data == <<1, 2, 3, 4, 5, 5, 6>>

\* atomic_ref.cpp: one thread counts the even numbers of data, one the odd.
AtomicRef ==
  LET parity(b) == Repeat(Cardinality({i \in DOMAIN data : data[i] % 2 = b}), <<Add("a", 0, 1)>>)
  IN  Threads(parity(0), parity(1), << >>)

\* Faulty: a += a * 3 in the first thread.
HazardousAdd ==
  Threads(<<Load("a"), Add("a", 3, 0)>>, <<Load("a"), Store("a", 1, 1)>>, <<Add("a", 0, 1)>>)

\* hazardous_atomic_operation.cpp: a = a * 3, a = a + 1, ++a.
Hazardous ==
  Threads(<<Load("a"), Store("a", 3, 0)>>, <<Load("a"), Store("a", 1, 1)>>, <<Add("a", 0, 1)>>)

\* Faulty: t1 writes its three numbers in the opposite order.
CombinatoryReversed ==
  Threads(<<Store("c", 0, 3), Store("b", 0, 4), Store("a", 0, 2)>>,
          <<Load("a"), Add("b", 1, 0), Add("c", 0, 4), Load("c"), Add("a", 1, 0)>>, << >>)

\* combinatory_result.cpp.
Combinatory ==
  Threads(<<Store("a", 0, 2), Store("b", 0, 4), Store("c", 0, 3)>>,
          <<Load("a"), Add("b", 1, 0), Add("c", 0, 4), Load("c"), Add("a", 1, 0)>>, << >>)

\* v.push_back(...) reads the size, puts the element there, writes the size.
PushBack == <<Load("a"), Store("a", 1, 1)>>

\* Faulty: tb has no lock.
GoodWayHalf ==
  Threads(Repeat(count, <<Lock>> \o PushBack \o <<Unlock>>), Repeat(count, PushBack), << >>)

\* concurrent_safe_mutex_access_good_way.cpp: lock_guard, scoped_lock.
GoodWay ==
  LET push == Repeat(count, <<Lock>> \o PushBack \o <<Unlock>>) IN Threads(push, push, << >>)

\* concurrent_safe_mutex_access_bad_way.cpp: m.lock(), m.unlock(). push_back
\* does not throw here.
BadWay ==
  LET push == Repeat(count, <<Lock>> \o PushBack \o <<Unlock>>) IN Threads(push, push, << >>)

\* Faulty: one variable for all threads.
ThreadShared ==
  LET increase_rage == <<Add("a", 0, 1), Lock, Load("a"), Unlock>>
  IN  Threads(increase_rage, increase_rage, <<Lock, Load("a"), Unlock>>)

\* thread_local.cpp: each thread has its rage, main (t3) too.
ThreadLocal ==
  LET increase_rage(v) == <<Add(v, 0, 1), Lock, Load(v), Unlock>>
  IN  Threads(increase_rage("a"), increase_rage("b"), <<Lock, Load("c"), Unlock>>)

Programs ==
  {"naive", "mutex", "atomic", "atomic_ref", "hazardous", "combinatory", "good_way", "bad_way",
   "thread_local"}

Code(p) ==
  CASE p = "naive" -> Naive
    [] p = "mutex" -> Mutex
    [] p = "atomic" -> Atomic
    [] p = "atomic_ref" -> AtomicRef
    [] p = "hazardous" -> Hazardous
    [] p = "combinatory" -> Combinatory
    [] p = "good_way" -> GoodWay
    [] p = "bad_way" -> BadWay
    [] p = "thread_local" -> ThreadLocal

Start(p) ==
  [a |-> IF p \in {"hazardous", "combinatory", "thread_local"} THEN 1 ELSE 0,
   b |-> IF p = "thread_local" THEN 1 ELSE 0,
   c |-> IF p \in {"combinatory", "thread_local"} THEN 1 ELSE 0]

-----------------------------------------------------------------------------
VARIABLES
  program,   \* the program that runs
  rest,      \* the operations each thread has still to do
  reg,       \* the register of each thread
  mem,       \* the shared numbers
  mutex

vars == <<program, rest, reg, mem, mutex>>

Init ==
  /\ program \in Programs
  /\ rest = Code(program)
  /\ reg = [t \in Thread |-> 0]
  /\ mem = Start(program)
  /\ mutex = NoThread

Value(t, o) == o.mul * reg[t] + o.plus

Step(t) ==
  /\ rest[t] /= << >>
  /\ rest' = [rest EXCEPT ![t] = Tail(@)]
  /\ LET o == Head(rest[t]) IN
       \/ /\ o.op = "load"
          /\ reg' = [reg EXCEPT ![t] = mem[o.var]]
          /\ UNCHANGED <<mem, mutex>>
       \/ /\ o.op \in {"store", "add"}
          /\ mem' = [mem EXCEPT ![o.var] = Value(t, o) + IF o.op = "add" THEN @ ELSE 0]
          /\ UNCHANGED <<reg, mutex>>
       \/ /\ o.op = "lock" /\ mutex = NoThread
          /\ mutex' = t
          /\ UNCHANGED <<reg, mem>>
       \/ /\ o.op = "unlock"
          /\ mutex' = NoThread
          /\ UNCHANGED <<reg, mem>>
  /\ UNCHANGED program

\* main has joined the threads.
Joined == \A t \in Thread : rest[t] = << >>

Next == (\E t \in Thread : Step(t)) \/ (Joined /\ UNCHANGED vars)

Spec == Init /\ [][Next]_vars

-----------------------------------------------------------------------------
Result(p) == Joined /\ program = p

\* assert(mutex_data == 2 * count), assert(atomic_data == 2 * count), the
\* length of the vector that two threads have filled, and the test of
\* atomic_ref.cpp that every element was counted once.
NothingLost ==
  /\ Joined /\ program \in {"mutex", "atomic", "good_way", "bad_way"} => mem.a = 2 * count
  /\ Result("atomic_ref") => mem.a = Len(data)

\* What the threads of thread_local.cpp show: their own number.
OwnRage == Result("thread_local") => reg = [t1 |-> 2, t2 |-> 2, t3 |-> 1]

\* What naive_test can return, the TODO of its assert: with two increments or
\* more per thread at least 2, since a write that undoes all the others
\* is based on a read that follows one of its own thread or of the other.
NaiveLoses == Result("naive") /\ count >= 2 => mem.a \in 2 .. 2 * count

\* The results of a = a * 3, a = a + 1 and ++a, of which only the last one is
\* atomic: each of the three may be lost, none is applied twice.
HazardousResults == Result("hazardous") => mem.a \in {2, 3, 4, 5, 6, 7, 9}

\* The ten results (a, b, c) of combinatory_result, out of 27 combinations
\* of what each number can be: the number that loses an update tells which
\* others did. If the 4 added to c survives, a has all of its updates; if a is
\* left with the 2 of t1, then t2 had ended before, and b and c lost its
\* additions.
CombinatoryResults ==
  Result("combinatory") =>
    \/ mem.a = 9 /\ mem.b \in {4, 5, 6} /\ mem.c = 7
    \/ mem.a \in {5, 7} /\ mem.b \in {4, 5, 6} /\ mem.c = 3
    \/ mem.a = 2 /\ mem.b = 4 /\ mem.c = 3
=============================================================================
