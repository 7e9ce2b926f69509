----------------------------- MODULE SlotQueue -----------------------------
(***************************************************************************)
(* src/concurrency/semaphore.cpp: queuers that share fewer slots than      *)
(* there are queuers. A counting semaphore holds one permit per slot; a    *)
(* binary semaphore is the mutex of the array of slots.                    *)
(***************************************************************************)
EXTENDS Naturals, FiniteSets

CONSTANTS
  Queuer,   \* names
  Size      \* slots.size()

VARIABLES
  pc,         \* where each queuer is
  slots,      \* true: taken
  mutex,      \* the permits of the binary semaphore, 0 or 1
  semaphore,  \* the permits of the counting semaphore
  pos         \* the local `pos` of each queuer, Size if it has none

vars == <<pc, slots, mutex, semaphore, pos>>

Slot == 0 .. Size - 1

\* The points between semaphore.acquire() and semaphore.release(), and among
\* them those at which the queuer has marked a slot and has not freed it.
Marked  == {"stuff", "lock", "free"}
Holding == {"find", "look", "mark", "release"} \cup Marked

Goto(n, l) == pc' = [pc EXCEPT ![n] = l]

Init ==
  /\ pc = [n \in Queuer |-> "acquire"]
  /\ slots = [i \in Slot |-> FALSE]
  /\ mutex = 1
  /\ semaphore = Size
  /\ pos = [n \in Queuer |-> Size]

-----------------------------------------------------------------------------
\* Faulty: the semaphore is not waited for.
AcquireAlways(n) ==
  /\ pc[n] = "acquire"
  /\ semaphore' = IF semaphore = 0 THEN 0 ELSE semaphore - 1
  /\ Goto(n, "find")
  /\ UNCHANGED <<slots, mutex, pos>>

\* semaphore.acquire(): wait if there is no slot available.
Acquire(n) ==
  /\ pc[n] = "acquire" /\ semaphore > 0
  /\ semaphore' = semaphore - 1
  /\ Goto(n, "find")
  /\ UNCHANGED <<slots, mutex, pos>>

\* Faulty: find_slot does not take the mutex.
LockFindNot(n) ==
  /\ pc[n] = "find"
  /\ mutex' = 0
  /\ Goto(n, "look")
  /\ UNCHANGED <<slots, semaphore, pos>>

\* find_slot: mutex.acquire().
LockFind(n) ==
  /\ pc[n] = "find" /\ mutex > 0
  /\ mutex' = mutex - 1
  /\ Goto(n, "look")
  /\ UNCHANGED <<slots, semaphore, pos>>

\* find_slot: the loop stops at the first slot that is not taken. Without
\* one it would read past the end of the array.
Look(n) ==
  /\ pc[n] = "look"
  /\ \E i \in Slot :
       /\ ~slots[i] /\ \A j \in Slot : j < i => slots[j]
       /\ pos' = [pos EXCEPT ![n] = i]
  /\ Goto(n, "mark")
  /\ UNCHANGED <<slots, mutex, semaphore>>

\* find_slot: slots[pos] = true; mutex.release().
Mark(n) ==
  /\ pc[n] = "mark"
  /\ slots' = [slots EXCEPT ![pos[n]] = TRUE]
  /\ mutex' = mutex + 1
  /\ Goto(n, "stuff")
  /\ UNCHANGED <<semaphore, pos>>

\* do_stuff in the slot.
DoStuff(n) ==
  /\ pc[n] = "stuff"
  /\ Goto(n, "lock")
  /\ UNCHANGED <<slots, mutex, semaphore, pos>>

LockFree(n) ==
  /\ pc[n] = "lock" /\ mutex > 0
  /\ mutex' = mutex - 1
  /\ Goto(n, "free")
  /\ UNCHANGED <<slots, semaphore, pos>>

\* slots[pos] = false; mutex.release().
Free(n) ==
  /\ pc[n] = "free"
  /\ slots' = [slots EXCEPT ![pos[n]] = FALSE]
  /\ mutex' = mutex + 1
  /\ Goto(n, "release")
  /\ UNCHANGED <<semaphore, pos>>

\* Faulty: the queuer queues for another turn.
ReleaseAgain(n) ==
  /\ pc[n] = "release"
  /\ semaphore' = semaphore + 1
  /\ Goto(n, "acquire")
  /\ UNCHANGED <<slots, mutex, pos>>

\* semaphore.release().
Release(n) ==
  /\ pc[n] = "release"
  /\ semaphore' = semaphore + 1
  /\ Goto(n, "done")
  /\ UNCHANGED <<slots, mutex, pos>>

\* The destructor of queuers joins every thread.
AllServed == \A n \in Queuer : pc[n] = "done"
Joined == AllServed /\ UNCHANGED vars

Queue(n) ==
  \/ Acquire(n) \/ LockFind(n) \/ Look(n) \/ Mark(n)
  \/ DoStuff(n) \/ LockFree(n) \/ Free(n) \/ Release(n)

Next == (\E n \in Queuer : Queue(n)) \/ Joined

Spec == Init /\ [][Next]_vars

-----------------------------------------------------------------------------
\* The types of the variables.
TypeOK ==
  /\ pc \in [Queuer -> {"acquire", "done"} \cup Holding]
  /\ slots \in [Slot -> BOOLEAN]
  /\ mutex \in {0, 1}
  /\ semaphore \in 0 .. Size
  /\ pos \in [Queuer -> 0 .. Size]

\* A slot is taken just as long as one queuer uses it, and two queuers never
\* use the same one.
SlotsExclusive ==
  /\ \A i \in Slot : slots[i] <=> \E n \in Queuer : pc[n] \in Marked /\ pos[n] = i
  /\ \A m, n \in Queuer : pc[m] \in Marked /\ pc[n] \in Marked /\ pos[m] = pos[n] => m = n

\* Whoever looks for a slot finds one: the loop of find_slot, which has no
\* bound, does not read past the end of the array, and "No slot found" is
\* never thrown.
SlotFound == \A n \in Queuer : pc[n] = "look" => \E i \in Slot : ~slots[i]

\* The slots are shared rightly: one queuer each, and one for each who looks.
SlotsKept == SlotsExclusive /\ SlotFound
=============================================================================
