--------------------------- MODULE CoroutineBodies --------------------------
(***************************************************************************)
(* The coroutines of src/coroutines/ with their bodies, and the mains that *)
(* resume them:                                                            *)
(*   hello      hello_world.cpp: starts suspended, awaits once, and its    *)
(*              frame destroys itself at the end, since its owner does not *)
(*   path       co_await_path.cpp: runs up to its co_await in the call     *)
(*   awaiters   awaiters.cpp: awaits three objects, in three ways          *)
(*   generator  generator.cpp: the values from 127 down to 1               *)
(*   massive    massive-usage.cpp: many endless generators in turn         *)
(*   bench      concurrency--benchmark.cpp: an endless generator that      *)
(*              computes its first value in the call                       *)
(*   composed   composed_iterator.cpp: generators that iterate on others   *)
(* One thread: `stack` holds the frames that it is in, above main.         *)
(***************************************************************************)
EXTENDS Integers, Sequences, SequencesExt

CONSTANTS
  FirstOne,   \* what generator.cpp starts from (127)
  Starts,     \* bound: the coroutines of massive (0 .. 99999), a sequence
  Rounds,     \* the turns of massive's main (10); bound: those of bench's
  Leaves,     \* the sets that a container of composed may have
  Width       \* bound: how many vectors, and sets in a vector

\* A coroutine type: does it suspend at its start and at its end, and does its
\* owner destroy the frame? awaits is the number of co_awaits of its body.
Type(lazy, keeps, owned, awaits) == [lazy |-> lazy, keeps |-> keeps, owned |-> owned, awaits |-> awaits]

HelloWorldCoro  == Type(TRUE, FALSE, FALSE, 1)
PathTask        == Type(FALSE, TRUE, TRUE, 1)
AwaitersTask    == Type(TRUE, TRUE, TRUE, 3)
Generator       == Type(TRUE, TRUE, TRUE, 0)
EagerGenerator  == Type(FALSE, TRUE, TRUE, 0)

TypeOf ==
  [hello |-> HelloWorldCoro, path |-> PathTask, awaiters |-> AwaitersTask, generator |-> Generator,
   massive |-> Generator, bench |-> EagerGenerator, composed |-> EagerGenerator]

Tuples(S) == UNION {[1 .. n -> S] : n \in 0 .. Width}

\* std::list<std::vector<std::set<int>>>; the one of main is one of them.
Containers == Tuples(Tuples(Leaves)) \cup {<< << <<1, 2>>, <<3, 4>> >>, << <<5, 6>>, <<7, 8>> >> >>}

VARIABLES
  program,
  c,          \* the container of composed
  frame,      \* the frames, or << >> where there is none
  stack,
  asked,      \* how often main has resumed each of its coroutines, -1: no call yet
  owned,      \* the frames that an owner in main will destroy
  shown,      \* the values that main, or the body of a task, has shown
  undefined   \* a frame was resumed that was not suspended, or destroyed twice

vars == <<program, c, frame, stack, asked, owned, shown, undefined>>

Mains == IF program = "massive" THEN 1 .. Len(Starts) ELSE {1}
T == TypeOf[program]

Init ==
  /\ program \in DOMAIN TypeOf
  /\ c \in IF program = "composed" THEN Containers ELSE {<< >>}
  /\ frame = [f \in 1 .. 3 \cup Mains |-> << >>]
  /\ stack = << >>
  /\ asked = [f \in Mains |-> -1]
  /\ owned = {}
  /\ shown = << >>
  /\ undefined = FALSE

Exists(f) == frame[f] /= << >>
Top == Last(stack)
Suspended(f) == Exists(f) /\ frame[f].state = "suspended"

\* A new frame: where its body is, its local value, and what it iterates on.
NewFrame(state, n, items, level) ==
  [state |-> state, point |-> "begin", n |-> n, current |-> -1, items |-> items, level |-> level, inner |-> 0]

\* The call of a coroutine by main: up to the initial suspension, or into the
\* body.
Call(f) ==
  /\ stack = << >> /\ asked[f] = -1 /\ \A g \in Mains : g < f => asked[g] /= -1
  /\ LET n == CASE program = "generator" -> FirstOne [] program = "massive" -> Starts[f] [] OTHER -> 0
         state == IF T.lazy THEN "suspended" ELSE "running"
     IN  frame' = [frame EXCEPT ![f] = NewFrame(state, n, c, 3)]
  /\ stack' = IF T.lazy THEN << >> ELSE <<f>>
  /\ asked' = [asked EXCEPT ![f] = 0]
  /\ owned' = IF T.owned THEN owned \cup {f} ELSE owned
  /\ UNCHANGED <<program, c, shown, undefined>>

\* m_co_handle.done()
Done(f) == Exists(f) /\ frame[f].state = "final"

\* Faulty: resumed once more than it suspends.
ResumesTooMany == [hello |-> 2, path |-> 1, awaiters |-> 5, massive |-> Rounds]

\* How often the mains that count resume.
Resumes == [hello |-> 2, path |-> 1, awaiters |-> 4, massive |-> Rounds]

\* Does main resume f once more? generator's main until a nullopt, that of
\* composed while !done(), bench as often as it likes.
Wants(f) ==
  CASE program \in DOMAIN Resumes -> asked[f] < Resumes[program] /\ \A g \in Mains : g < f => asked[g] > asked[f]
    [] program \in {"generator", "composed"} -> ~Done(f)
    [] program = "bench" -> asked[f] < Rounds

InMain == stack = << >> /\ \A f \in Mains : asked[f] /= -1

\* resume(), next() or ++ by main; composed shows *it before.
Ask(f) ==
  /\ InMain /\ (T.owned => f \in owned) /\ Wants(f)
  /\ undefined' = (undefined \/ ~Suspended(f))
  /\ shown' = IF program = "composed" THEN Append(shown, frame[f].current) ELSE shown
  /\ frame' = IF Suspended(f) THEN [frame EXCEPT ![f].state = "running"] ELSE frame
  /\ stack' = IF Suspended(f) THEN <<f>> ELSE << >>
  /\ asked' = [asked EXCEPT ![f] = @ + 1]
  /\ UNCHANGED <<program, c, owned>>

\* main's loop is over: the destructor of the owner.
Destroy(f) ==
  /\ InMain /\ f \in owned
  /\ program /= "bench" => \A g \in owned : ~Wants(g)
  /\ undefined' = (undefined \/ ~Exists(f) \/ frame[f].state = "running")
  /\ frame' = [frame EXCEPT ![f] = << >>]
  /\ owned' = owned \ {f}
  /\ UNCHANGED <<program, c, stack, asked, shown>>

-----------------------------------------------------------------------------
\* The frame that runs suspends, and the one below goes on.
Suspend(new) ==
  /\ frame' = [frame EXCEPT ![Top] = [new EXCEPT !.state = "suspended"]]
  /\ stack' = Front(stack)

\* return_void, final_suspend.
Return ==
  /\ frame' = [frame EXCEPT ![Top] = IF T.keeps THEN [@ EXCEPT !.state = "final"] ELSE << >>]
  /\ stack' = Front(stack)
  /\ UNCHANGED <<program, c, asked, owned, shown, undefined>>

\* A body that awaits: n co_awaits are behind it, the result of the last one is
\* shown when the body goes on.
Await ==
  /\ stack /= << >> /\ T.awaits > 0
  /\ LET me == frame[Top] IN
     IF me.point = "awaits"
     THEN /\ shown' = Append(shown, me.n) /\ frame' = [frame EXCEPT ![Top].point = "shown"]
          /\ UNCHANGED <<program, c, stack, asked, owned, undefined>>
     ELSE IF me.n < T.awaits
     THEN /\ Suspend([me EXCEPT !.point = "awaits", !.n = @ + 1])
          /\ UNCHANGED <<program, c, asked, owned, shown, undefined>>
     ELSE Return

\* co_yield
Yield(value, new) ==
  /\ Suspend([new EXCEPT !.current = value])
  /\ shown' = IF program = "generator" THEN Append(shown, value) ELSE shown
  /\ UNCHANGED <<program, c, asked, owned, undefined>>

\* The next value of generate: 3 n + 1 or n / 2.
After(n) == IF n % 2 = 1 THEN 3 * n + 1 ELSE n \div 2

\* Faulty: the end is looked for before the value.
GenerateShort ==
  /\ stack /= << >> /\ program \in {"generator", "massive"}
  /\ LET me == frame[Top]
         n == IF me.point = "begin" THEN me.n ELSE After(me.n)
     IN  IF program = "generator" /\ n = 1 THEN Return
         ELSE Yield(n, [me EXCEPT !.n = n, !.point = "yielded"])

\* generate(n)
Generate ==
  /\ stack /= << >> /\ program \in {"generator", "massive"}
  /\ LET me == frame[Top]
         n == IF me.point = "begin" THEN me.n ELSE After(me.n)
     IN  IF program = "generator" /\ me.point = "yielded" /\ me.n = 1 THEN Return
         ELSE Yield(n, [me EXCEPT !.n = n, !.point = "yielded"])

\* coroutine(v): the sum of v, each time; n counts them.
Accumulate ==
  /\ stack /= << >> /\ program = "bench"
  /\ LET me == frame[Top] IN Yield(me.n + 1, [me EXCEPT !.n = @ + 1])

-----------------------------------------------------------------------------
InFlatten(point) == stack /= << >> /\ program = "composed" /\ frame[Top].point = point
Free == CHOOSE f \in DOMAIN frame : ~Exists(f) /\ \A g \in DOMAIN frame : ~Exists(g) => f <= g

\* flatten_iterate of a container of numbers: for (auto &&x : c) co_yield x.
FlattenLeaf ==
  /\ InFlatten("begin") /\ frame[Top].level = 1
  /\ LET me == frame[Top] IN
     IF me.n = Len(me.items) THEN Return ELSE Yield(me.items[me.n + 1], [me EXCEPT !.n = @ + 1])

\* Of containers: the next outer is flattened by another coroutine, which runs
\* to its first value in the call.
FlattenOuter ==
  /\ InFlatten("begin") /\ frame[Top].level > 1
  /\ LET me == frame[Top] IN
     IF me.n = Len(me.items) THEN Return
     ELSE /\ frame' = [frame EXCEPT ![Top] = [me EXCEPT !.n = @ + 1, !.inner = Free, !.point = "look"],
                                    ![Free] = NewFrame("running", 0, me.items[me.n + 1], me.level - 1)]
          /\ stack' = Append(stack, Free)
          /\ UNCHANGED <<program, c, asked, owned, shown, undefined>>

\* Faulty: it != end holds always.
FlattenLookBlind ==
  /\ InFlatten("look")
  /\ Yield(frame[frame[Top].inner].current, [frame[Top] EXCEPT !.point = "ask"])

\* it != end: the inner coroutine has ended, and its owner with the loop; or its
\* value is yielded.
FlattenLook ==
  /\ InFlatten("look")
  /\ LET me == frame[Top] IN
     IF Done(me.inner)
     THEN /\ frame' = [frame EXCEPT ![me.inner] = << >>, ![Top] = [me EXCEPT !.inner = 0, !.point = "begin"]]
          /\ UNCHANGED <<program, c, stack, asked, owned, shown, undefined>>
     ELSE Yield(frame[me.inner].current, [me EXCEPT !.point = "ask"])

\* ++it
FlattenAsk ==
  /\ InFlatten("ask")
  /\ LET inner == frame[Top].inner IN
     /\ undefined' = (undefined \/ ~Suspended(inner))
     /\ frame' = [frame EXCEPT ![Top].point = "look", ![inner].state = "running"]
     /\ stack' = Append(stack, inner)
  /\ UNCHANGED <<program, c, asked, owned, shown>>

\* main has ended, and its owners have destroyed their frames.
Exited ==
  /\ InMain /\ owned = {}
  /\ T.owned \/ \A f \in Mains : ~Wants(f)

Ended == Exited /\ UNCHANGED vars

Next ==
  \/ \E f \in Mains : Call(f) \/ Ask(f) \/ Destroy(f)
  \/ Await \/ Generate \/ Accumulate
  \/ FlattenLeaf \/ FlattenOuter \/ FlattenLook \/ FlattenAsk
  \/ Ended

Spec == Init /\ [][Next]_vars

-----------------------------------------------------------------------------
\* No main and no loop of a body resumes a frame that is not suspended (at its
\* end, destroyed, or in use), or destroys one twice; when main has ended no
\* frame is left, though that of hello_world.cpp has no owner that destroys it.
FramesUsedWell ==
  /\ ~undefined
  /\ Exited => \A f \in DOMAIN frame : ~Exists(f)

\* The result of a co_await is there when the coroutine is resumed, not before:
\* main has the results of as many awaits as it has resumed, without the
\* resume that starts a lazy coroutine.
AwaitsAnswered ==
  (T.awaits > 0 /\ InMain) =>
    LET started == IF T.lazy THEN 1 ELSE 0
    IN  shown = [n \in 1 .. (IF asked[1] < started THEN 0 ELSE asked[1] - started) |-> n]

\* generator.cpp: each value is the next of the one before, and it is 1 at the
\* end only; massive-usage.cpp: the values of a coroutine are its own whoever
\* else is resumed between two of its turns.
OrbitsFollowed ==
  /\ program = "generator" =>
       /\ shown /= << >> => shown[1] = FirstOne
       /\ \A k \in 2 .. Len(shown) : shown[k - 1] /= 1 /\ shown[k] = After(shown[k - 1])
       /\ Exited => Last(shown) = 1
  /\ (program = "massive" /\ InMain) =>
       \A f \in owned : asked[f] > 0 =>
         LET orbit[k \in 1 .. Rounds] == IF k = 1 THEN Starts[f] ELSE After(orbit[k - 1])
         IN  frame[f].current = orbit[asked[f]]

\* concurrency--benchmark.cpp: the coroutine has computed one value more than
\* were asked for. The first one is in nobody's hands: next() resumes before
\* it reads.
FirstOneUnseen ==
  (program = "bench" /\ InMain) => \A f \in owned : frame[f].current = asked[f] + 1

\* composed_iterator.cpp: the loop shows the numbers of the containers in
\* order, each one once, for every shape of the containers, empty ones
\* included.
Flattened ==
  program = "composed" =>
    LET all == FlattenSeq(FlattenSeq(c))
    IN  /\ IsPrefix(shown, all)
        /\ Exited => shown = all
=============================================================================
