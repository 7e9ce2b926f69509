----------------------------- MODULE EchoServer -----------------------------
(***************************************************************************)
(* The echo server of src/coroutines/async--server.{hpp,cpp} as the test   *)
(* EchoFakeServer of async--unittest.cpp drives it: one coroutine per      *)
(* stream, resumed by jobs on a thread pool, and an owner that polls       *)
(* done() and destroys the frames.                                         *)
(*                                                                         *)
(* The pool is the TaskService that ThreadPool implements; its tasks are   *)
(* the jobs of the two await_suspend.  A coroutine has no thread of its    *)
(* own: at[t] is the coroutine and the point thread t executes, and a      *)
(* thread that has put a job in the queue may still be on its way out of   *)
(* the coroutine when another thread already resumes it.                   *)
(*                                                                         *)
(* The owner asks done() while a worker may be inside resume(), which is   *)
(* outside done()'s precondition: what it sees then depends on the         *)
(* compiler.  GCC clears the resume function, which is what done() reads,  *)
(* before it calls final_suspend(), Clang when the coroutine is suspended  *)
(* behind it.  The project is built with both, so build is chosen in the   *)
(* initial states.                                                         *)
(***************************************************************************)
EXTENDS Naturals, Sequences, FiniteSets, SequencesExt

CONSTANTS
  Stream,   \* a sequence of streams, in the order the owner starts them
  Worker,   \* the threads of the pool
  Main,     \* the owner
  NCount,   \* Source::ncount: how often async_read_some is called (3)
  BufSize   \* the size of the coroutine's buffer (64)

Handle == Range(Stream)
Thread == Worker \cup {Main}

\* size_t arithmetic, on a word of which only the wrap-around matters.
Word == 16

ASSUME EchoAssumption ==
  /\ IsInjective(Stream) /\ Main \notin Worker
  /\ NCount \in 1 .. Word - 1 /\ BufSize \in NCount .. Word - 1

VARIABLES
  at,        \* [h |-> coroutine, point |-> program point] of each thread
  job,       \* the job a worker has taken from the pool
  frame,     \* "none", "alive" or "destroyed", for each coroutine
  context,   \* promise.context has been set
  build,     \* the compiler, "gcc" or "clang"
  finalled,  \* what done() returns
  ncount,    \* Source::ncount
  n,         \* Source::Awaitable::n, the result of the last read
  written,   \* history: the sizes written to the destination
  tasks,     \* the owner's std::list<Task>
  pos,       \* the iterator i of the polling loop; Len(tasks) + 1 is end()
  owner,     \* where the owner is
  accepted, running, finished, state  \* the pool

coro == <<build, frame, context, finalled, ncount, n, written>>
loop == <<tasks, pos, owner>>
pool == <<accepted, running, finished, state>>
vars == <<at, job, coro, loop, pool>>

Job == [h : Handle, kind : {"generate", "write"}, left : 0 .. Word - 1]

Pool == INSTANCE TaskService WITH Task <- Job, Width <- Cardinality(Worker)

NoJob == [h |-> Stream[1], kind |-> "none", left |-> 0]

\* A thread outside every coroutine.
Idle == [h |-> Stream[1], point |-> "idle"]

\* Points at which the thread goes on to use the frame of its coroutine.
Inside ==
  {"start", "read", "read_job", "generate", "got", "write_job", "write", "final",
   "final_suspend"}

Goto(t, h, p) == at' = [at EXCEPT ![t] = [h |-> h, point |-> p]]
At(t, p) == at[t].point = p

Init ==
  /\ at = [t \in Thread |-> Idle] /\ job = [w \in Worker |-> NoJob]
  /\ frame = [h \in Handle |-> "none"]
  /\ context = [h \in Handle |-> FALSE]
  /\ finalled = [h \in Handle |-> FALSE] /\ build \in {"gcc", "clang"}
  /\ ncount = [h \in Handle |-> NCount]
  /\ n = [h \in Handle |-> BufSize]
  /\ written = [h \in Handle |-> << >>]
  /\ tasks = << >> /\ pos = 1 /\ owner = "create"
  /\ accepted = << >> /\ running = {} /\ finished = {}
  \* A pool at work, or one whose owner called stop(EmptyQueue) before.
  /\ state \in {"open", "drained"}

\* pool.isActive()
IsActive == state = "open"

-----------------------------------------------------------------------------
\* echo_server is called: the frame is made with copies of source and
\* destination, initial_suspend does not suspend.
Create ==
  /\ owner = "create" /\ At(Main, "idle")
  /\ \E i \in DOMAIN Stream :
       /\ frame[Stream[i]] = "none"
       /\ \A j \in 1 .. i - 1 : frame[Stream[j]] /= "none"
       /\ frame' = [frame EXCEPT ![Stream[i]] = "alive"]
       /\ Goto(Main, Stream[i], "start")
  /\ UNCHANGED <<job, build, context, finalled, ncount, n, written, loop, pool>>

\* co_await ctx.schedule(): the context is saved, the coroutine goes on.
Schedule(t) ==
  /\ At(t, "start")
  /\ context' = [context EXCEPT ![at[t].h] = TRUE]
  /\ Goto(t, at[t].h, "read")
  /\ UNCHANGED <<job, build, frame, finalled, ncount, n, written, loop, pool>>

\* Source::Awaitable::await_suspend up to the test of isActive; the awaitable
\* is new: n is the size of the buffer.
ReadSuspend(t) ==
  /\ At(t, "read")
  /\ ncount' = [ncount EXCEPT ![at[t].h] = (@ + Word - 1) % Word]
  /\ n' = [n EXCEPT ![at[t].h] = BufSize]
  /\ Goto(t, at[t].h, "read_job")
  /\ UNCHANGED <<job, build, frame, context, finalled, written, loop, pool>>

\* Faulty: await_suspend returns false after addTask, so that the coroutine
\* goes on although a job will resume it.
ReadAsyncNoSuspend(t) ==
  /\ At(t, "read_job") /\ IsActive
  /\ LET h == at[t].h IN
       /\ Pool!Accept([h |-> h, kind |-> "generate", left |-> ncount[h]])
       /\ Goto(t, h, "got")
  /\ UNCHANGED <<job, coro, loop>>

\* pool.addTask(job); return true.  Another thread may run the job before
\* this one has left the coroutine.
ReadAsync(t) ==
  /\ At(t, "read_job") /\ IsActive
  /\ LET h == at[t].h IN
       /\ Pool!Accept([h |-> h, kind |-> "generate", left |-> ncount[h]])
       /\ Goto(t, h, "leave")
  /\ UNCHANGED <<job, coro, loop>>

\* The pool has no thread: the read takes place here and now.
ReadSync(t) ==
  /\ At(t, "read_job") /\ ~IsActive
  /\ n' = [n EXCEPT ![at[t].h] = ncount[at[t].h]]
  /\ Goto(t, at[t].h, "got")
  /\ UNCHANGED <<job, build, frame, context, finalled, ncount, written, loop, pool>>

\* The job of the read: generate fills data, then h.resume().
Generate(t) ==
  /\ At(t, "generate")
  /\ n' = [n EXCEPT ![at[t].h] = ncount[at[t].h]]
  /\ Goto(t, at[t].h, "got")
  /\ UNCHANGED <<job, build, frame, context, finalled, ncount, written, loop, pool>>

\* Faulty: the end of the stream is not looked at.
AfterReadForever(t) ==
  /\ At(t, "got")
  /\ Goto(t, at[t].h, "write_job")
  /\ UNCHANGED <<job, coro, loop, pool>>

\* Faulty: a read of one byte ends the stream too.
AfterReadShort(t) ==
  /\ At(t, "got")
  /\ Goto(t, at[t].h, IF n[at[t].h] <= 1 THEN "final" ELSE "write_job")
  /\ UNCHANGED <<job, coro, loop, pool>>

\* The loop of echo_server: an empty read ends it.
AfterRead(t) ==
  /\ At(t, "got")
  /\ Goto(t, at[t].h, IF n[at[t].h] = 0 THEN "final" ELSE "write_job")
  /\ UNCHANGED <<job, coro, loop, pool>>

\* Destination::Awaitable::await_suspend with an active pool.
WriteAsync(t) ==
  /\ At(t, "write_job") /\ IsActive
  /\ LET h == at[t].h IN
       /\ Pool!Accept([h |-> h, kind |-> "write", left |-> ncount[h]])
       /\ Goto(t, h, "leave")
  /\ UNCHANGED <<job, coro, loop>>

WriteSync(t) ==
  /\ At(t, "write_job") /\ ~IsActive
  /\ Goto(t, at[t].h, "write")
  /\ UNCHANGED <<job, coro, loop, pool>>

\* The data is written out, in the job or in await_suspend; the coroutine
\* goes on with the next read.
Write(t) ==
  /\ At(t, "write")
  /\ written' = [written EXCEPT ![at[t].h] = Append(@, n[at[t].h])]
  /\ Goto(t, at[t].h, "read")
  /\ UNCHANGED <<job, build, frame, context, finalled, ncount, n, loop, pool>>

\* Faulty: done() is true before final_suspend() is called, in every build.
CoReturnDone(t) ==
  /\ At(t, "final")
  /\ finalled' = [finalled EXCEPT ![at[t].h] = TRUE]
  /\ Goto(t, at[t].h, "final_suspend")
  /\ UNCHANGED <<job, build, frame, context, ncount, n, written, loop, pool>>

\* co_return: return_void, and final_suspend() is called.
CoReturn(t) ==
  /\ At(t, "final")
  /\ finalled' = IF build = "gcc" THEN [finalled EXCEPT ![at[t].h] = TRUE] ELSE finalled
  /\ Goto(t, at[t].h, "final_suspend")
  /\ UNCHANGED <<job, build, frame, context, ncount, n, written, loop, pool>>

\* Faulty: final_suspend is std::suspend_never, so the frame destroys itself.
FinalSuspendNever(t) ==
  /\ At(t, "final_suspend")
  /\ frame' = [frame EXCEPT ![at[t].h] = "destroyed"]
  /\ Goto(t, at[t].h, "leave")
  /\ UNCHANGED <<job, build, context, finalled, ncount, n, written, loop, pool>>

\* The body of final_suspend() asserts on the promise and prints its address;
\* then the coroutine is suspended, and the thread only has to leave.
FinalSuspend(t) ==
  /\ At(t, "final_suspend")
  /\ finalled' = [finalled EXCEPT ![at[t].h] = TRUE]
  /\ Goto(t, at[t].h, "leave")
  /\ UNCHANGED <<job, build, frame, context, ncount, n, written, loop, pool>>

-----------------------------------------------------------------------------
\* A free worker takes the oldest job and calls it.
StartJob(w) ==
  /\ At(w, "idle")
  /\ Pool!Start
  /\ LET j == Head(accepted) IN
       /\ job' = [job EXCEPT ![w] = j]
       /\ Goto(w, j.h, j.kind)
  /\ UNCHANGED <<coro, loop>>

\* h.resume() returns in the job, and the job in the worker.
EndJob(w) ==
  /\ At(w, "leave")
  /\ Pool!Finish(job[w])
  /\ at' = [at EXCEPT ![w] = Idle] /\ job' = [job EXCEPT ![w] = NoJob]
  /\ UNCHANGED <<coro, loop>>

\* The coroutine suspends for the first time: echo_server returns its Task to
\* the owner, who keeps it in the list.
KeepTask ==
  /\ At(Main, "leave")
  /\ tasks' = Append(tasks, at[Main].h)
  /\ at' = [at EXCEPT ![Main] = Idle]
  /\ owner' = IF Len(tasks') = Len(Stream) THEN "poll" ELSE "create"
  /\ UNCHANGED <<job, coro, pos, pool>>

\* Faulty: the owner does not ask whether the coroutine is done.
PollEraseAny ==
  /\ owner = "poll" /\ pos <= Len(tasks)
  /\ frame' = [frame EXCEPT ![tasks[pos]] = "destroyed"]
  /\ tasks' = RemoveAt(tasks, pos)
  /\ pos' = IF pos > Len(tasks') THEN 1 ELSE pos + 1
  /\ UNCHANGED <<job, at, build, context, finalled, ncount, n, written, owner, pool>>

\* task.done() holds: tasks.erase(i) destroys the frame, i becomes the next
\* position, and ++i of the for loop steps over it; past end() the iterator of
\* a std::list is at its first element again.
PollErase ==
  /\ owner = "poll" /\ pos <= Len(tasks)
  /\ finalled[tasks[pos]]
  /\ frame' = [frame EXCEPT ![tasks[pos]] = "destroyed"]
  /\ tasks' = RemoveAt(tasks, pos)
  /\ pos' = IF pos > Len(tasks') THEN 1 ELSE pos + 1
  /\ UNCHANGED <<job, at, build, context, finalled, ncount, n, written, owner, pool>>

PollNext ==
  /\ owner = "poll" /\ pos <= Len(tasks)
  /\ ~finalled[tasks[pos]]
  /\ pos' = pos + 1
  /\ UNCHANGED <<job, at, coro, tasks, owner, pool>>

\* The for loop is over: sleep and look at the list again, if it has tasks.
PollAgain ==
  /\ owner = "poll" /\ pos = Len(tasks) + 1
  /\ IF tasks /= << >>
     THEN pos' = 1 /\ UNCHANGED owner
     ELSE owner' = "destroy" /\ UNCHANGED pos
  /\ UNCHANGED <<job, at, coro, tasks, pool>>

\* The test returns: the pool is destroyed after the tasks.
DestroyPool ==
  /\ owner = "destroy"
  /\ Pool!Close
  /\ owner' = "end"
  /\ UNCHANGED <<job, at, coro, tasks, pos>>

Terminated == owner = "end" /\ UNCHANGED vars

-----------------------------------------------------------------------------
Resumed(t) ==
  \/ Schedule(t) \/ ReadSuspend(t) \/ ReadAsync(t) \/ ReadSync(t) \/ Generate(t)
  \/ AfterRead(t) \/ WriteAsync(t) \/ WriteSync(t) \/ Write(t) \/ CoReturn(t)
  \/ FinalSuspend(t)

OwnerStep ==
  \/ Create \/ KeepTask \/ PollErase \/ PollNext \/ PollAgain \/ DestroyPool

WorkerStep(w) == StartJob(w) \/ EndJob(w)

Next ==
  \/ \E t \in Thread : Resumed(t)
  \/ \E w \in Worker : WorkerStep(w)
  \/ OwnerStep \/ Terminated

Spec == Init /\ [][Next]_vars

\* Every thread is scheduled.
Fairness ==
  /\ WF_vars(OwnerStep) /\ \A t \in Thread : WF_vars(Resumed(t))
  /\ \A w \in Worker : WF_vars(WorkerStep(w))

FairSpec == Spec /\ Fairness

-----------------------------------------------------------------------------
\* The threads inside a coroutine, and the jobs in the queue for it.
Users(h) ==
  {t \in Thread : at[t].h = h /\ at[t].point \in Inside}
    \cup {i \in DOMAIN accepted : accepted[i].h = h}

\* A thread in the body of final_suspend() although done() is true already.
IsLate(t) == build = "gcc" /\ At(t, "final_suspend")
Late(h) == {t \in Thread : at[t].h = h /\ IsLate(t)}

\* No thread uses a frame, and no job in the queue will, that the owner has
\* destroyed, although the thread that added a job and the thread that finished
\* the coroutine both run on while it is destroyed.  The one exception is the
\* question the owner may not ask, done() of a coroutine that runs: where it is
\* answered early, the thread in final_suspend() may be left without its frame.
FramesLive == \A h \in Handle : Users(h) \ Late(h) /= {} => frame[h] = "alive"

\* A coroutine that is not done is in exactly one place: one thread runs it or
\* one job will resume it.  So it is never resumed twice for one suspension,
\* never forgotten, and its buffer is never read and filled at the same time.
\* When it is done, at most the one thread that finished it is inside.
OneResumer ==
  \A h \in Handle :
    IF frame[h] = "alive" /\ ~finalled[h]
    THEN Cardinality(Users(h)) = 1
    ELSE Users(h) = Late(h) /\ Cardinality(Late(h)) <= 1

\* The frames of the streams: alive as long as they are used, by one at a time;
\* without exception if done() is not true before final_suspend() has returned.
FramesSafe == FramesLive /\ OneResumer

\* ncount never wraps, so that no read follows the empty one and the assertion
\* src->ncount <= n of await_suspend holds; that of final_suspend, the context
\* is set, holds of a frame that is there to be read; and what a done coroutine
\* has written is what its source gave: every size below ncount, once, in order,
\* up to the empty read.
Echoed ==
  /\ \A t \in Thread : At(t, "read") => ncount[at[t].h] \in 1 .. BufSize
  /\ \A t \in Thread :
       At(t, "final_suspend") /\ frame[at[t].h] = "alive" => context[at[t].h]
  /\ \A h \in Handle :
       finalled[h] => written[h] = [i \in 1 .. NCount - 1 |-> NCount - i]

\* A coroutine, seen alone, is a sequential program.
PhaseOf(h) ==
  IF frame[h] = "destroyed" THEN "destroyed"
  ELSE IF finalled[h] THEN "done" ELSE "active"

Echoing(h) == INSTANCE EchoStream WITH left <- NCount - 1 - Len(written[h]), phase <- PhaseOf(h)

\* Each stream implements EchoStream: it echoes NCount - 1 pieces, one after the
\* other, is done, and only then destroyed, whatever the other streams and the
\* threads do.
ImplementsStreams ==
  /\ \A h \in Handle : Echoing(h)!Init
  /\ [][\A h \in Handle : [Echoing(h)!Next]_(Echoing(h)!vars)]_vars

\* The test ends, and every stream has come to its end by then.
TestEnds == <>(owner = "end" /\ \A h \in Handle : PhaseOf(h) = "destroyed")
=============================================================================
