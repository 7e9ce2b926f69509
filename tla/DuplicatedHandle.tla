-------------------------- MODULE DuplicatedHandle -------------------------
(***************************************************************************)
(* src/coroutines/duplicated_handle_error-will_fail.cpp: Task has a        *)
(* destructor that destroys its frame and the implicit copy operations,    *)
(* so that a copy leaves two owners, and the end of the first one leaves   *)
(* the other with the handle of a freed frame, which the next coroutine    *)
(* may get. main as a sequence of the constructions and destructions of    *)
(* its tasks.                                                              *)
(***************************************************************************)
EXTENDS Naturals, Sequences

CONSTANTS
  Frame,    \* the frames the allocator may hand out
  NoFrame   \* a variable outside its lifetime

VARIABLES
  step,     \* the position in main
  handle,   \* m_co_handle of each task
  live      \* the allocated frames

vars == <<step, handle, live>>

New(x) == [op |-> "new", to |-> x, from |-> x]
Copy(x, y) == [op |-> "copy", to |-> x, from |-> y]
Destruct(x) == [op |-> "destruct", to |-> x, from |-> x]
Compare(x, y) == [op |-> "compare", to |-> x, from |-> y]

\* Each emplace_back(new_task()) makes a temporary, copies it into the vector
\* and destroys it; the second one also copies the first element into the
\* larger storage before it destroys the old one.
main == <<
  New("c"), New("c2"), Compare("c", "c2"),
  New("temporary"), Copy("old0", "temporary"), Destruct("temporary"),
  New("temporary"), Copy("tasks1", "temporary"), Copy("tasks0", "old0"),
  Destruct("old0"), Destruct("temporary"),
  Compare("tasks0", "tasks1")>>

Task == {main[i].to : i \in 1 .. Len(main)}

Init ==
  /\ step = 1
  /\ handle = [x \in Task |-> NoFrame]
  /\ live = {}

At(op) == step <= Len(main) /\ main[step].op = op
To == main[step].to
From == main[step].from

\* new_task() allocates a frame and suspends at its start.
NewTask ==
  /\ At("new")
  /\ \E f \in Frame \ live :
       /\ live' = live \cup {f}
       /\ handle' = [handle EXCEPT ![To] = f]
  /\ step' = step + 1

\* The implicit copy constructor.
CopyTask ==
  /\ At("copy")
  /\ handle' = [handle EXCEPT ![To] = handle[From]]
  /\ step' = step + 1
  /\ UNCHANGED live

\* ~Task() destroys the frame; a second destruction is undefined, here it has
\* no effect unless the memory is another task's by then.
DestructTask ==
  /\ At("destruct")
  /\ live' = live \ {handle[To]}
  /\ handle' = [handle EXCEPT ![To] = NoFrame]
  /\ step' = step + 1

Assert == At("compare") /\ step' = step + 1 /\ UNCHANGED <<handle, live>>

End == step > Len(main) /\ UNCHANGED vars

Next == NewTask \/ CopyTask \/ DestructTask \/ Assert \/ End

Spec == Init /\ [][Next]_vars

\* assert(tasks[0].m_co_handle != tasks[1].m_co_handle): two coroutine handles
\* are not equal.
HandlesDiffer == At("compare") => handle[To] /= handle[From]
=============================================================================
