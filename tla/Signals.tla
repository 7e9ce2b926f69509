------------------------------ MODULE Signals -------------------------------
(***************************************************************************)
(* The programs of src/concurrency/ whose threads hand over one signal or  *)
(* one value: latch, promise, promise_exception, future, shared_future,    *)
(* notify_condition_variable, async_too_slow, interruptible-jthread, and   *)
(* the first_* programs. The code of a thread is a sequence of operations  *)
(* of the standard library; what a thread prints goes to `said`. Where an  *)
(* object ends is part of the code: its users must have ended before.      *)
(***************************************************************************)
EXTENDS Naturals, Sequences, FiniteSets

CONSTANT counter   \* the rounds of the loops of interruptible-jthread: 10

Thread == {"main", "t1", "t2", "t3"}

\* An operation on an object or a thread, with a value.
Op(op, on, val) == [op |-> op, on |-> on, val |-> val]

Say(x)       == Op("say", x, "")
Start(t)     == Op("start", t, "")         \* std::thread, jthread, launch::async
Async(t)     == Op("async", t, "")         \* std::async: now, or in get()
Join(t)      == Op("join", t, "")          \* join(), ~jthread, get() of an async
Lock(m)      == Op("lock", m, "")
Unlock(m)    == Op("unlock", m, "")
Wait(cv)     == Op("wait", cv, "")         \* until `ready`, with the lock of "mutex"
Notify(cv)   == Op("notify", cv, "")
Write(x, v)  == Op("write", x, v)
Read(x)      == Op("read", x, "")          \* the reader says what it reads
Set(p, v)    == Op("set", p, v)            \* set_value, set_exception
IsReady(p)   == Op("is_ready", p, "")
Get(p)       == Op("get", p, "")           \* the caller says what it gets
CountDown(l) == Op("count_down", l, "")
Await(l)     == Op("await", l, "")         \* latch.wait()
Stop(t)      == Op("request_stop", t, "")
Check        == Op("stop_requested", "", "")
Drop(p)      == Op("drop", p, "")          \* ~promise
Destroy(x)   == Op("destroy", x, "")

Threads(m, c1, c2, c3) == [main |-> m, t1 |-> c1, t2 |-> c2, t3 |-> c3]

-----------------------------------------------------------------------------
Runners == {"t1", "t2", "t3"}

\* latch.cpp: the runners, declared after the latch, are joined before its end.
LatchMain ==
  <<Say("come on"), Start("t1"), Start("t2"), Start("t3"), Await("latch"), Say("everybody"),
    Join("t1"), Join("t2"), Join("t3"), Destroy("latch")>>

\* Faulty: count_down() before the name is written.
LatchEarly ==
  LET runner(t) == <<CountDown("latch"), Say(t)>> IN
  Threads(LatchMain, runner("t1"), runner("t2"), runner("t3"))

Latch ==
  LET runner(t) == <<Say(t), CountDown("latch")>> IN
  Threads(LatchMain, runner("t1"), runner("t2"), runner("t3"))

\* promise.cpp: the promise is moved into the thread, which ends it.
Promise ==
  Threads(<<Start("t1"), Say("ready"), IsReady("p"), Get("p"), Join("t1")>>,
          <<Say("computing"), Set("p", "42"), Say("cleaning"), Drop("p")>>, << >>, << >>)

\* Faulty: the exception is caught and not passed on.
PromiseSwallowed ==
  Threads(<<Start("t1"), Get("p"), Join("t1")>>, <<Say("catch"), Say("end"), Drop("p")>>, << >>, << >>)

\* promise_exception.cpp: v.at(10) of ten elements throws.
PromiseException ==
  Threads(<<Start("t1"), Get("p"), Join("t1")>>,
          <<Say("catch"), Set("p", "exception"), Say("end"), Drop("p")>>, << >>, << >>)

\* future.cpp: the default policy leaves std::async the choice.
Future ==
  Threads(<<Async("t1"), Say("ready"), IsReady("p"), Join("t1"), Get("p")>>,
          <<Say("thread"), Set("p", "Hello")>>, << >>, << >>)

\* Faulty: main writes `start` once the threads may go on.
SharedFutureLate ==
  LET fun(p) == <<Set(p, "ready"), Get("go"), Read("start")>> IN
  Threads(<<Start("t1"), Start("t2"), Get("p1"), Get("p2"), Set("go", "go"), Write("start", "now"),
            Join("t1"), Join("t2"), Destroy("start")>>,
          fun("p1"), fun("p2"), << >>)

\* shared_future.cpp
SharedFuture ==
  LET fun(p) == <<Set(p, "ready"), Get("go"), Read("start")>> IN
  Threads(<<Start("t1"), Start("t2"), Get("p1"), Get("p2"), Write("start", "now"), Set("go", "go"),
            Join("t1"), Join("t2"), Destroy("start")>>,
          fun("p1"), fun("p2"), << >>)

\* Faulty: the notification comes before the flag.
NotifyFirst ==
  Threads(<<Start("t1"), Notify("cv"), Lock("mutex"), Write("ready", "true"), Unlock("mutex"), Say("main"),
            Join("t1"), Destroy("cv"), Destroy("mutex")>>,
          <<Say("ok"), Lock("mutex"), Wait("cv"), Say("end"), Unlock("mutex")>>, << >>, << >>)

\* notify_condition_variable.cpp
NotifyCV ==
  Threads(<<Start("t1"), Lock("mutex"), Write("ready", "true"), Unlock("mutex"), Notify("cv"), Say("main"),
            Join("t1"), Destroy("cv"), Destroy("mutex")>>,
          <<Say("ok"), Lock("mutex"), Wait("cv"), Say("end"), Unlock("mutex")>>, << >>, << >>)

\* Faulty: the two futures are kept to the end of main.
AsyncKept == Threads(<<Start("t1"), Start("t2"), Join("t2"), Join("t1")>>, <<Say("f")>>, <<Say("g")>>, << >>)

\* async_too_slow.cpp: the destructor of the temporary future waits.
AsyncTooSlow ==
  Threads(<<Start("t1"), Join("t1"), Start("t2"), Join("t2")>>, <<Say("f")>>, <<Say("g")>>, << >>)

\* interruptible-jthread.cpp: t1 does not look at its stop token.
Interruptible ==
  Threads(<<Start("t1"), Start("t2"), Stop("t2"), Stop("t1"), Say("completed"), Stop("t2"), Join("t2"),
            Stop("t1"), Join("t1")>>,
          [k \in 1 .. counter |-> Say("t1")],
          [k \in 1 .. 2 * counter |-> IF k % 2 = 1 THEN Check ELSE Say("t2")], << >>)

\* first_jthread.cpp: ~jthread asks for the stop and joins.
FirstJThread ==
  Threads(<<Say("starting"), Start("t1"), Say("see you"), Stop("t1"), Join("t1")>>,
          <<Say("hello"), Say("goodbye")>>, << >>, << >>)

\* first_thread_life.cpp: the callable is moved into the thread, the temporary
\* ends with the declaration, the thread's own object with the thread.
FirstThreadLife ==
  Threads(<<Start("t1"), Destroy("temporary"), Say("hello main"), Join("t1"), Say("by")>>,
          <<Write("callable", "Hello"), Read("callable"), Destroy("callable")>>, << >>, << >>)

\* first_thread.cpp
FirstThread ==
  Threads(<<Start("t1"), Say("hello main"), Join("t1"), Say("by")>>, <<Say("hello")>>, << >>, << >>)

Programs ==
  {"latch", "promise", "promise_exception", "future", "shared_future", "notify", "async_too_slow",
   "interruptible", "first_thread", "first_jthread", "first_thread_life"}

Code(p) ==
  CASE p = "latch" -> Latch
    [] p = "promise" -> Promise
    [] p = "promise_exception" -> PromiseException
    [] p = "future" -> Future
    [] p = "shared_future" -> SharedFuture
    [] p = "notify" -> NotifyCV
    [] p = "async_too_slow" -> AsyncTooSlow
    [] p = "interruptible" -> Interruptible
    [] p = "first_thread" -> FirstThread
    [] p = "first_jthread" -> FirstJThread
    [] p = "first_thread_life" -> FirstThreadLife

-----------------------------------------------------------------------------
VARIABLES
  program,   \* the program that runs
  pc,        \* the place of each thread in its code
  life,      \* of each thread: "unborn", "deferred" or "started"
  mem,       \* the variables, and the shared states of the promises
  held,      \* the mutex is held by this thread; "" if by none
  asleep,    \* the threads that are blocked on the condition variable
  left,      \* the counter of the latch
  stopped,   \* the threads that are asked to stop
  dead,      \* the objects that have ended
  said       \* what was printed, with the thread

vars == <<program, pc, life, mem, held, asleep, left, stopped, dead, said>>

Init ==
  /\ program \in Programs
  /\ pc = [t \in Thread |-> 1]
  /\ life = [t \in Thread |-> IF t = "main" THEN "started" ELSE "unborn"]
  /\ mem = [x \in {"p", "p1", "p2", "go", "start", "ready", "callable"} |-> ""]
  /\ held = "" /\ asleep = {} /\ stopped = {} /\ dead = {}
  /\ left = Cardinality(Runners)
  /\ said = << >>

Place(t) == Code(program)[t][pc[t]]
End(t) == Len(Code(program)[t]) + 1
Done(t) == pc' = [pc EXCEPT ![t] = @ + 1]
Tell(t, x) == said' = Append(said, <<t, x>>)

\* Output, variables and the shared states of promises: a promise that ends
\* without a value leaves an exception.
Data(t, o) ==
  /\ \/ o.op = "say" /\ Tell(t, o.on) /\ UNCHANGED mem
     \/ o.op = "is_ready" /\ Tell(t, IF mem[o.on] = "" THEN "not ready" ELSE "ready") /\ UNCHANGED mem
     \/ o.op = "get" /\ mem[o.on] /= "" /\ Tell(t, mem[o.on]) /\ UNCHANGED mem
     \/ o.op = "read" /\ Tell(t, mem[o.on]) /\ UNCHANGED mem
     \/ o.op \in {"write", "set"} /\ mem' = [mem EXCEPT ![o.on] = o.val] /\ UNCHANGED said
     \/ o.op = "drop" /\ mem' = [mem EXCEPT ![o.on] = IF @ = "" THEN "broken" ELSE @] /\ UNCHANGED said
  /\ Done(t)
  /\ UNCHANGED <<life, held, asleep, left, stopped, dead>>

\* A deferred function runs in the get() of its future: the caller waits.
Life(t, o) ==
  /\ \/ o.op = "start" /\ life' = [life EXCEPT ![o.on] = "started"] /\ Done(t)
     \/ o.op = "async" /\ (\E l \in {"started", "deferred"} : life' = [life EXCEPT ![o.on] = l]) /\ Done(t)
     \/ o.op = "join" /\ life[o.on] = "deferred" /\ life' = [life EXCEPT ![o.on] = "started"] /\ UNCHANGED pc
     \/ o.op = "join" /\ life[o.on] = "started" /\ pc[o.on] = End(o.on) /\ UNCHANGED life /\ Done(t)
  /\ UNCHANGED <<mem, held, asleep, left, stopped, dead, said>>

\* wait(lock, pred): it tests, sleeps without the lock, takes it again.
Blocking(t, o) ==
  /\ \/ o.op = "lock" /\ held = "" /\ held' = t /\ Done(t) /\ UNCHANGED asleep
     \/ o.op = "unlock" /\ held' = "" /\ Done(t) /\ UNCHANGED asleep
     \/ o.op = "wait" /\ held = t /\ mem["ready"] = "true" /\ Done(t) /\ UNCHANGED <<held, asleep>>
     \/ o.op = "wait" /\ held = t /\ mem["ready"] = "" /\ held' = "" /\ asleep' = asleep \cup {t} /\ UNCHANGED pc
     \/ o.op = "wait" /\ held = "" /\ t \notin asleep /\ held' = t /\ UNCHANGED <<pc, asleep>>
     \/ o.op = "notify" /\ Done(t) /\ UNCHANGED held
        /\ IF asleep = {} THEN UNCHANGED asleep ELSE \E s \in asleep : asleep' = asleep \ {s}
  /\ UNCHANGED <<life, mem, left, stopped, dead, said>>

Other(t, o) ==
  /\ \/ o.op = "count_down" /\ left' = left - 1 /\ Done(t) /\ UNCHANGED <<stopped, dead>>
     \/ o.op = "await" /\ left = 0 /\ Done(t) /\ UNCHANGED <<left, stopped, dead>>
     \/ o.op = "request_stop" /\ stopped' = stopped \cup {o.on} /\ Done(t) /\ UNCHANGED <<left, dead>>
     \/ /\ o.op = "stop_requested"
        /\ pc' = [pc EXCEPT ![t] = IF t \in stopped THEN End(t) ELSE @ + 1]
        /\ UNCHANGED <<left, stopped, dead>>
     \/ o.op = "destroy" /\ dead' = dead \cup {o.on} /\ Done(t) /\ UNCHANGED <<left, stopped>>
  /\ UNCHANGED <<life, mem, held, asleep, said>>

Active(t) == life[t] = "started" /\ pc[t] /= End(t)

Run(t) ==
  /\ Active(t)
  /\ LET o == Place(t) IN Data(t, o) \/ Life(t, o) \/ Blocking(t, o) \/ Other(t, o)
  /\ UNCHANGED program

\* A condition variable may wake without a notification.
Spurious ==
  /\ \E t \in asleep : asleep' = asleep \ {t}
  /\ UNCHANGED <<program, pc, life, mem, held, left, stopped, dead, said>>

Ended == \A t \in Thread : pc[t] = End(t)

Next == (\E t \in Thread : Run(t)) \/ Spurious \/ (Ended /\ UNCHANGED vars)

\* A thread that waits for the mutex gets it although another takes it again
\* and again.
Spec == Init /\ [][Next]_vars /\ \A t \in Thread : SF_vars(Run(t))

-----------------------------------------------------------------------------
Said(x) == {k \in 1 .. Len(said) : said[k][2] = x}

\* y is not printed before every x of X is.
After(X, y) == \A k \in Said(y), x \in X : \E j \in Said(x) : j < k

\* No thread is about to use an object that has ended.
NoneUsedDead == \A t \in Thread : Active(t) => Place(t).on \notin dead

\* What one thread hands over to another gets there, and is not seen before.
HandedOver ==
  /\ NoneUsedDead
  /\ program = "latch" => After(Runners, "everybody")
  /\ program = "async_too_slow" => After({"f"}, "g")
  /\ program \in {"promise", "future"} => After({"computing"}, "42") /\ After({"thread"}, "Hello")
  /\ Said("broken") = {} /\ Said("") = {}
  /\ program = "interruptible" =>
       LET late == {k \in Said("t2") : \E j \in Said("completed") : j < k} IN
       /\ \A j, k \in late : j = k
       /\ Ended => Cardinality(Said("t1")) = counter

\* Every program ends: no signal is lost, no thread waits for another in vain.
AllEnd == <>Ended
=============================================================================
