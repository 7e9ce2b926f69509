----------------------------- MODULE WindowFold -----------------------------
(***************************************************************************)
(* src/ranges/custom_window_fold_view.hpp: an iterator over the windows of *)
(* m_n consecutive elements of a base range, each accumulated. The windows *)
(* are not stored: a step forwards begins where the last window ended, a   *)
(* step backwards ends where it began, so that the two walks cut the range *)
(* differently. The elements are 1 .. size, the accumulator keeps them.    *)
(***************************************************************************)
EXTENDS Integers, Sequences, SequencesExt

CONSTANTS Sizes, Widths   \* the sizes of base ranges and of windows

VARIABLES
  size, m_n,
  m_current, m_next, m_acc,  \* the iterator; positions count from 0
  walk,    \* history: "forward" from begin(), "backward" from end(), "mixed"
  shown    \* history: what such a walk has shown, in the order of the range

vars == <<size, m_n, m_current, m_next, m_acc, walk, shown>>

Base == [k \in 1 .. size |-> k]

\* Faulty: the window is one too large.
LookupWide(p) ==
  /\ m_next' = IF p + m_n + 1 <= size THEN p + m_n + 1 ELSE size
  /\ m_acc' = SubSeq(Base, p + 1, m_next')

\* lookup() at p: at most m_n elements, up to the end of the range.
Lookup(p) ==
  /\ m_next' = IF p + m_n <= size THEN p + m_n ELSE size
  /\ m_acc' = SubSeq(Base, p + 1, m_next')

Init ==
  /\ size \in Sizes /\ m_n \in Widths
  /\ \/ m_current = 0 /\ walk = "forward"
     \/ m_current = size /\ walk = "backward"
  /\ m_next = IF m_current + m_n <= size THEN m_current + m_n ELSE size
  /\ m_acc = SubSeq(Base, m_current + 1, m_next)
  /\ shown = IF walk = "forward" THEN m_acc ELSE << >>

Increment ==
  /\ m_current /= size
  /\ m_current' = m_next
  /\ Lookup(m_next)
  /\ IF walk = "forward"
     THEN shown' = shown \o m_acc' /\ UNCHANGED walk
     ELSE shown' = << >> /\ walk' = "mixed"
  /\ UNCHANGED <<size, m_n>>

\* Faulty: m_next stays where it was.
DecrementStale ==
  /\ m_current /= 0
  /\ m_current' = IF m_current > m_n THEN m_current - m_n ELSE 0
  /\ m_acc' = SubSeq(Base, m_current' + 1, m_current)
  /\ IF walk = "backward"
     THEN shown' = m_acc' \o shown /\ UNCHANGED walk
     ELSE shown' = << >> /\ walk' = "mixed"
  /\ UNCHANGED <<size, m_n, m_next>>

\* The backward lookup: at most m_n elements, down to the beginning.
Decrement ==
  /\ m_current /= 0
  /\ m_next' = m_current
  /\ m_current' = IF m_current > m_n THEN m_current - m_n ELSE 0
  /\ m_acc' = SubSeq(Base, m_current' + 1, m_next')
  /\ IF walk = "backward"
     THEN shown' = m_acc' \o shown /\ UNCHANGED walk
     ELSE shown' = << >> /\ walk' = "mixed"
  /\ UNCHANGED <<size, m_n>>

\* A range without elements: begin() is end().
Nothing == size = 0 /\ UNCHANGED vars

Next == Increment \/ Decrement \/ Nothing

Spec == Init /\ [][Next]_vars

-----------------------------------------------------------------------------
\* A walk in one direction shows every element once and in order, whatever the
\* size of the last window; wherever an iterator has turned, its window is the
\* one from m_current to m_next, and it has m_n elements but at either end of
\* the range, and at least one but at end().
WindowsTile ==
  /\ walk = "forward" => shown = SubSeq(Base, 1, m_next)
  /\ walk = "backward" => shown = SubSeq(Base, m_current + 1, size)
  /\ m_acc = SubSeq(Base, m_current + 1, m_next)
  /\ m_next - m_current = m_n
       \/ (m_next - m_current < m_n /\ (m_current = 0 \/ m_next = size))
  /\ m_current < size => m_current < m_next
=============================================================================
