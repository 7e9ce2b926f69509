-------------------------- MODULE CoroutineOwners --------------------------
(***************************************************************************)
(* The objects of src/coroutines/ that own a coroutine frame through a     *)
(* handle: Generator of generator.cpp, massive-usage.cpp,                  *)
(* composed_iterator.cpp, inlined-coroutines.cpp and                       *)
(* concurrency--benchmark.cpp, Task of awaiters.cpp and co_await_path.cpp. *)
(* A handle is a plain pointer: whether a frame is destroyed once is up to *)
(* the special members of its class, which differ in the move assignment.  *)
(* Here a client uses the objects in any order it may.                     *)
(***************************************************************************)
EXTENDS Naturals, FiniteSets

CONSTANTS
  Object,   \* the variables of the client
  Frame,    \* the frames the allocator may hand out
  Null,     \* the null handle
  NoObject  \* the state of a variable outside its lifetime

\* A class. assign tells what its move assignment does: it assigns, if there is
\* one; it may destroy the frame of its left side first, and may exchange the
\* handle for a null (std::exchange), which makes a difference when an object
\* is assigned to itself. born is where the coroutines of its program may be
\* when the call that creates them returns.
Class(assign, born) == [assign |-> assign, born |-> born]

generator     == Class({"assigns"}, {"suspended"})
massive_usage == Class({"assigns", "destroys"}, {"suspended"})
awaiters      == Class({"assigns", "exchanges"}, {"suspended"})
co_await_path == Class({}, {"suspended"})
inlined       == Class({}, {"suspended"})

\* flatten_iterate does not suspend at its start, and runs to its end in the
\* call if the container is empty.
composed == Class({"assigns", "destroys"}, {"suspended", "final"})

\* Of concurrency--benchmark.cpp: endless, and in the call it runs to its first
\* co_yield.
benchmark == Class({"assigns", "destroys", "exchanges"}, {"suspended"})

Classes == {generator, massive_usage, awaiters, co_await_path, inlined, composed, benchmark}

VARIABLES
  class,   \* the class of the objects
  handle,  \* m_co_handle of each object
  frame    \* "free", "suspended" or "final": what done() tells

vars == <<class, handle, frame>>

Init ==
  /\ class \in Classes
  /\ handle = [o \in Object |-> NoObject]
  /\ frame = [f \in Frame |-> "free"]

Alive(o) == handle[o] /= NoObject

\* m_co_handle.destroy(), if it is not null.
DestroyFrame(h) ==
  IF h = Null THEN UNCHANGED frame ELSE frame' = [frame EXCEPT ![h] = "free"]

\* The call of a coroutine: a frame is allocated, get_return_object makes an
\* owner of it.
Create(o) ==
  /\ ~Alive(o)
  /\ \E f \in Frame, s \in class.born :
       /\ frame[f] = "free"
       /\ frame' = [frame EXCEPT ![f] = s]
       /\ handle' = [handle EXCEPT ![o] = f]
  /\ UNCHANGED class

\* Faulty: the handle is copied, not moved.
MoveConstructCopy(o, that) ==
  /\ ~Alive(o) /\ Alive(that)
  /\ handle' = [handle EXCEPT ![o] = handle[that]]
  /\ UNCHANGED <<class, frame>>

MoveConstruct(o, that) ==
  /\ ~Alive(o) /\ Alive(that)
  /\ handle' = [handle EXCEPT ![o] = handle[that], ![that] = Null]
  /\ UNCHANGED <<class, frame>>

Does(what) == what \in class.assign

\* A client may assign, to itself too unless the class destroys and exchanges:
\* its object would keep the handle of the frame that it has destroyed. No
\* program of the repository assigns.
MayAssign(o, that) ==
  /\ Alive(o) /\ Alive(that) /\ Does("assigns")
  /\ o = that => ~(Does("destroys") /\ Does("exchanges"))

\* Faulty: that keeps its handle.
MoveAssignKeep(o, that) ==
  /\ MayAssign(o, that)
  /\ IF Does("destroys") THEN DestroyFrame(handle[o]) ELSE UNCHANGED frame
  /\ handle' = [handle EXCEPT ![o] = handle[that]]
  /\ UNCHANGED class

\* Faulty: no class destroys the frame that is overwritten.
MoveAssignLeak(o, that) ==
  /\ MayAssign(o, that)
  /\ handle' = [handle EXCEPT ![o] = handle[that], ![that] = Null]
  /\ UNCHANGED <<class, frame>>

\* o may be that: the assignments of the members run in their order.
MoveAssign(o, that) ==
  /\ MayAssign(o, that)
  /\ IF Does("destroys") THEN DestroyFrame(handle[o]) ELSE UNCHANGED frame
  /\ handle' = IF o = that /\ Does("exchanges") THEN handle
               ELSE [handle EXCEPT ![o] = handle[that], ![that] = Null]
  /\ UNCHANGED class

\* next(), resume() or the ++ of an iterator: the coroutine runs to its next
\* suspension, which may be the final one. The callers stop at the final one.
Resume(o) ==
  /\ Alive(o) /\ handle[o] /= Null /\ frame[handle[o]] /= "final"
  /\ \E s \in {"suspended", "final"} : frame' = [frame EXCEPT ![handle[o]] = s]
  /\ UNCHANGED <<class, handle>>

\* The destructor.
Destruct(o) ==
  /\ Alive(o)
  /\ DestroyFrame(handle[o])
  /\ handle' = [handle EXCEPT ![o] = NoObject]
  /\ UNCHANGED class

\* The client has destroyed all its objects and ends.
Exit == (\A o \in Object : ~Alive(o)) /\ UNCHANGED vars

Next ==
  \/ \E o \in Object : Create(o) \/ Resume(o) \/ Destruct(o)
  \/ \E o, that \in Object : MoveConstruct(o, that) \/ MoveAssign(o, that)
  \/ Exit

Spec == Init /\ [][Next]_vars

-----------------------------------------------------------------------------
Owned(o) == Alive(o) /\ handle[o] /= Null

\* A frame has one owner, and an owner's frame exists: no destructor destroys
\* a frame a second time, or one that another object still resumes, even when
\* the allocator reuses the memory.
SoleOwner ==
  \A o \in Object : Owned(o) =>
    /\ frame[handle[o]] /= "free"
    /\ \A p \in Object : handle[p] = handle[o] => p = o

\* The classes that destroy the frame they overwrite lose none: a frame that
\* exists has an owner.
NoLeak ==
  (Does("assigns") => Does("destroys")) =>
    \A f \in Frame : frame[f] /= "free" => \E o \in Object : handle[o] = f
=============================================================================
