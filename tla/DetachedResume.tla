--------------------------- MODULE DetachedResume --------------------------
(***************************************************************************)
(* Coroutines of src/coroutines/ that go on in another thread than the one *)
(* that called them:                                                       *)
(*   compute  coroutine_trait.cpp, future_coroutine_trait.cpp: awaits two  *)
(*            std::async; await_suspend starts a detached thread that      *)
(*            waits for the future inside the awaiter, then resumes        *)
(*   fail     the same files: throws before it awaits                      *)
(*   simple   coroutine_trait.cpp: returns at once                         *)
(*   move     move_thread_coroutine.cpp, and cpp20-demo-test.cpp (demo):   *)
(*            awaits once, its awaiter resumes it in the thread `out`,      *)
(*            which main joins                                             *)
(* The frame, which holds the awaiter, is destroyed at the end of the body *)
(* (final_suspend never suspends) by the thread that ran it.               *)
(***************************************************************************)
EXTENDS Naturals

\* A coroutine: its co_awaits, and what its promise tells the caller. The ones
\* that tell nothing have a thread `out` in which they go on, and that is joined.
Coroutine(name, awaits, tells) == [name |-> name, awaits |-> awaits, tells |-> tells]

compute        == Coroutine("compute", 2, "value")
fail           == Coroutine("fail", 0, "exception")
simple         == Coroutine("simple", 0, "value")
future_compute == Coroutine("compute, a promise that is a std::promise", 2, "value")
future_fail    == Coroutine("fail, a promise that is a std::promise", 0, "exception")
move           == Coroutine("move", 1, "none")
demo20         == Coroutine("demo", 1, "none")

Programs == {compute, fail, simple, future_compute, future_fail, move, demo20}

\* Thread 0 is main, thread k the one that the k-th await_suspend starts.
Thread == 0 .. 2

VARIABLES
  program,
  pc,      \* where each thread is
  at,      \* the co_awaits that the body has completed
  future,  \* of each std::async: "running", "deferred" or "ready"
  frame,   \* the frame, and with it the promise and the awaiter, exists
  result   \* the shared state of promise_type: "none", "value", "exception"

vars == <<program, pc, at, future, frame, result>>

Init ==
  /\ program \in Programs
  /\ pc = [t \in Thread |-> IF t = 0 THEN "body" ELSE "unborn"]
  /\ at = 0
  /\ future \in [1 .. 2 -> {"running", "deferred"}]
  /\ (program.awaits = 2 \/ \A k \in 1 .. 2 : future[k] = "running")
  /\ frame = TRUE
  /\ result = "none"

Goto(t, l) == pc' = [pc EXCEPT ![t] = l]

\* The point at which a thread that leaves the coroutine goes on.
Leave(t) == IF t = 0 THEN "get" ELSE "exit"

More == at < program.awaits
Moves == program.tells = "none"
Awaited == at + 1

-----------------------------------------------------------------------------
\* The task of a std::async that the body has called ends in its own thread.
AsyncEnds(k) ==
  /\ program.awaits = 2 /\ future[k] = "running" /\ k <= Awaited
  /\ future' = [future EXCEPT ![k] = "ready"]
  /\ UNCHANGED <<program, pc, at, frame, result>>

\* await_ready: wait_for(0s) is not `timeout` for a future that is ready, nor
\* for a deferred one, which await_resume's get() runs in this thread.
Ready(t) ==
  /\ pc[t] = "body" /\ More
  /\ ~Moves /\ future[Awaited] /= "running"
  /\ future' = [future EXCEPT ![Awaited] = "ready"]
  /\ at' = at + 1
  /\ UNCHANGED <<program, pc, frame, result>>

\* await_suspend: a thread starts that will resume the coroutine.
Suspend(t) ==
  /\ pc[t] = "body" /\ More
  /\ ~Moves => future[Awaited] = "running"
  /\ pc' = [pc EXCEPT ![t] = "suspend", ![Awaited] = IF Moves THEN "resume" ELSE "wait"]
  /\ UNCHANGED <<program, at, future, frame, result>>

\* Faulty: await_suspend lets its caller go on with the body.
SuspendedNot(t) ==
  /\ pc[t] = "suspend"
  /\ Goto(t, "body")
  /\ UNCHANGED <<program, at, future, frame, result>>

\* The rest of await_suspend: detach() of its own std::thread, or the output
\* of out.get_id(), neither of them in the frame.
Suspended(t) ==
  /\ pc[t] = "suspend"
  /\ Goto(t, Leave(t))
  /\ UNCHANGED <<program, at, future, frame, result>>

\* Faulty: the thread does not wait for the future of the awaiter.
WaitNot(t) ==
  /\ pc[t] = "wait"
  /\ Goto(t, "resume")
  /\ UNCHANGED <<program, at, future, frame, result>>

\* this->wait()
Wait(t) ==
  /\ pc[t] = "wait" /\ future[t] = "ready"
  /\ Goto(t, "resume")
  /\ UNCHANGED <<program, at, future, frame, result>>

\* resume(); await_resume() gets the value, the awaiter is destroyed.
Resume(t) ==
  /\ pc[t] = "resume"
  /\ at' = t
  /\ Goto(t, "body")
  /\ UNCHANGED <<program, future, frame, result>>

\* Faulty: an exception is reported as a value.
ReturnSwallows(t) ==
  /\ pc[t] = "body" /\ ~More
  /\ result' = IF Moves THEN "none" ELSE "value"
  /\ Goto(t, "final")
  /\ UNCHANGED <<program, at, future, frame>>

\* return_value or unhandled_exception. Of a move nobody is told.
Return(t) ==
  /\ pc[t] = "body" /\ ~More
  /\ result' = program.tells
  /\ Goto(t, "final")
  /\ UNCHANGED <<program, at, future, frame>>

\* final_suspend does not suspend: the frame is destroyed.
End(t) ==
  /\ pc[t] = "final"
  /\ frame' = FALSE
  /\ Goto(t, Leave(t))
  /\ UNCHANGED <<program, at, future, result>>

\* main: get(), or the join of `out`.
Get ==
  /\ pc[0] = "get"
  /\ IF Moves THEN pc[1] = "exit" ELSE result /= "none"
  /\ Goto(0, "exit")
  /\ UNCHANGED <<program, at, future, frame, result>>

Exited == pc[0] = "exit" /\ UNCHANGED vars

Run(t) ==
  \/ Ready(t) \/ Suspend(t) \/ Suspended(t) \/ Wait(t) \/ Resume(t)
  \/ Return(t) \/ End(t)

Next ==
  \/ \E t \in Thread : Run(t)
  \/ \E k \in 1 .. 2 : AsyncEnds(k)
  \/ Get \/ Exited

Spec == Init /\ [][Next]_vars

-----------------------------------------------------------------------------
InFrame(t) == pc[t] \in {"body", "wait", "resume", "final"}

\* One thread at a time runs the body or is to resume it, and the frame exists
\* as long as one does: the rest of an await_suspend, which runs beside the
\* resumed body and beyond its end, is no longer in the frame.
OneResumer ==
  /\ \A s, t \in Thread : InFrame(s) /\ InFrame(t) => s = t
  /\ (\E t \in Thread : InFrame(t)) => frame

\* The body passes a co_await only with a result to take from it, and it is
\* resumed after the await that has suspended it, not an earlier one.
ResumedInOrder ==
  \A t \in Thread \ {0} :
    pc[t] = "resume" => at = t - 1 /\ (~Moves => future[t] = "ready")

\* The caller's get() returns or throws what the body did, although the frame
\* and the promise may be gone by then and another thread has run the body.
CallerTold == <>(pc[0] = "exit" /\ result = program.tells)
=============================================================================
