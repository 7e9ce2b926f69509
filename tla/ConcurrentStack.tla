--------------------------- MODULE ConcurrentStack --------------------------
(***************************************************************************)
(* src/concurrency/atomic_shared_ptr_list-WIP.cpp: the stack whose head is *)
(* an atomic shared_ptr, and the two tasks that push and pop at random.    *)
(* compare_exchange_weak(expected, desired) is one step that reads         *)
(* `expected` and, when it fails, writes the head to it; a spurious        *)
(* failure writes what was there. pop gives it the p->next of a node that  *)
(* others see: what pop does is modelled as it is written.                 *)
(***************************************************************************)
EXTENDS Naturals, Sequences

CONSTANTS
  Worker,  \* the two tasks
  Calls,   \* bound: the calls of a task (100 in main)
  Null

Node == Worker \X (1 .. Calls)

VARIABLES
  m_head,
  next,     \* the member of each node
  pc, p,    \* where a task is: "idle", "push" or "pop", with its p
  called,   \* the calls a task has begun
  pushed,   \* the nodes in the order they were put at the head
  relinked  \* a pop has written the next of a node

vars == <<m_head, next, pc, p, called, pushed, relinked>>

Init ==
  /\ m_head = Null
  /\ next = [n \in Node |-> Null]
  /\ pc = [w \in Worker |-> "idle"]
  /\ p = [w \in Worker |-> Null]
  /\ called = [w \in Worker |-> 0]
  /\ pushed = << >>
  /\ relinked = FALSE

Return(w) == pc' = [pc EXCEPT ![w] = "idle"] /\ p' = [p EXCEPT ![w] = Null]

Call(w) == pc[w] = "idle" /\ called[w] < Calls /\ called' = [called EXCEPT ![w] = @ + 1]

\* p->next = m_head
Push(w) ==
  /\ Call(w)
  /\ LET n == <<w, called'[w]>> IN
       /\ p' = [p EXCEPT ![w] = n]
       /\ next' = [next EXCEPT ![n] = m_head]
  /\ pc' = [pc EXCEPT ![w] = "push"]
  /\ UNCHANGED <<m_head, pushed, relinked>>

\* Faulty: the head is stored, not exchanged.
PushStored(w) ==
  /\ pc[w] = "push"
  /\ m_head' = p[w]
  /\ pushed' = Append(pushed, p[w])
  /\ Return(w)
  /\ UNCHANGED <<next, called, relinked>>

\* m_head.compare_exchange_weak(p->next, p), until it succeeds
PushExchange(w) ==
  /\ pc[w] = "push"
  /\ IF m_head = next[p[w]]
     THEN /\ m_head' = p[w]
          /\ pushed' = Append(pushed, p[w])
          /\ Return(w)
          /\ UNCHANGED next
     ELSE /\ next' = [next EXCEPT ![p[w]] = m_head]
          /\ UNCHANGED <<m_head, pushed, pc, p>>
  /\ UNCHANGED <<called, relinked>>

\* auto p = m_head.load(); of an empty stack nothing is popped.
Pop(w) ==
  /\ Call(w)
  /\ IF m_head = Null THEN UNCHANGED <<pc, p>>
     ELSE pc' = [pc EXCEPT ![w] = "pop"] /\ p' = [p EXCEPT ![w] = m_head]
  /\ UNCHANGED <<m_head, next, pushed, relinked>>

\* Faulty: the exchange of a stack that pops, m_head for p->next.
PopRemoves(w) ==
  /\ pc[w] = "pop"
  /\ IF m_head = p[w] THEN m_head' = next[p[w]] /\ Return(w)
     ELSE p' = [p EXCEPT ![w] = m_head] /\ UNCHANGED <<m_head, pc>>
  /\ UNCHANGED <<next, called, pushed, relinked>>

\* m_head.compare_exchange_weak(p->next, p), until it succeeds
PopExchange(w) ==
  /\ pc[w] = "pop"
  /\ IF m_head = next[p[w]]
     THEN /\ m_head' = p[w]
          /\ Return(w)
          /\ UNCHANGED <<next, relinked>>
     ELSE /\ next' = [next EXCEPT ![p[w]] = m_head]
          /\ relinked' = TRUE
          /\ UNCHANGED <<m_head, pc, p>>
  /\ UNCHANGED <<called, pushed>>

Run(w) == Push(w) \/ PushExchange(w) \/ Pop(w) \/ PopExchange(w)

\* fut1.wait(), fut2.wait()
Ended == \A w \in Worker : pc[w] = "idle" /\ called[w] = Calls

Next == (\E w \in Worker : Run(w)) \/ (Ended /\ UNCHANGED vars)

Spec == Init /\ [][Next]_vars

-----------------------------------------------------------------------------
\* While no pop has written a node, concurrent pushes make a list of all that
\* was pushed, the last one first.
LastInFirstOut ==
  ~relinked =>
    /\ pushed /= << >> => m_head = pushed[Len(pushed)]
    /\ \A k \in 1 .. Len(pushed) : next[pushed[k]] = IF k = 1 THEN Null ELSE pushed[k - 1]

\* find() of a value that is not there does not return: the nodes that it comes
\* to lead only to each other.
FindLoops == \E C \in SUBSET Node : m_head \in C /\ \A n \in C : next[n] \in C

\* pop removes nothing. It ties the list to a cycle: from then on, and not
\* before, find() of a value that is not there never returns; and whatever the
\* two tasks do, the head is a node that was pushed, which is what front()
\* after is_empty() needs.
PopTies ==
  /\ relinked <=> FindLoops
  /\ m_head = Null <=> pushed = << >>
  /\ m_head = Null \/ \E k \in 1 .. Len(pushed) : m_head = pushed[k]

\* Two tasks are at the next of one node only in two pops: a push exchanges
\* through a node that nobody else has seen.
PushAlone ==
  \A v, w \in Worker :
    v /= w /\ p[v] /= Null /\ p[v] = p[w] => pc[v] = "pop" /\ pc[w] = "pop"

StackKept == LastInFirstOut /\ PopTies /\ PushAlone
=============================================================================
