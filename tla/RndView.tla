------------------------------ MODULE RndView ------------------------------
(***************************************************************************)
(* src/ranges/custom_rnd_view.hpp: an iterator over the numbers that a     *)
(* seeded engine draws. It goes back by seeding the engine again and       *)
(* discarding numbers. A number is the position of its draw; an engine is  *)
(* how many it has drawn. Two iterators make the same moves, as in FastMove*)
(* of custom_rnd_view--unittest.cpp: one in steps, the other in jumps.     *)
(***************************************************************************)
EXTENDS Integers

CONSTANTS
  Word,      \* 2^64: discard takes an unsigned long long
  MaxRank,   \* bound: how far the iterators go
  MaxMove    \* bound: the longest move

VARIABLES
  i1, i2,    \* the iterator that steps, the one that jumps
  thrown     \* which of them have thrown std::out_of_range

vars == <<i1, i2, thrown>>

update(i) == [m_rank |-> i.m_rank + 1, m_engine |-> i.m_engine + 1, m_current |-> i.m_engine + 1]

\* Faulty: as many numbers are discarded as the rank says.
force_updateAhead(i) ==
  LET r == i.m_rank - 1 IN update([i EXCEPT !.m_rank = r, !.m_engine = i.m_rank % Word])

\* m_engine.seed(m_seed); m_engine.discard(m_rank -= 1); update()
force_update(i) ==
  LET r == i.m_rank - 1 IN update([i EXCEPT !.m_rank = r, !.m_engine = r % Word])

\* begin() of the view.
Begin == update([m_rank |-> 0, m_engine |-> 0, m_current |-> 0])

ReverseThrows(i) == i.m_rank <= 1
reverse_update(i) == force_update([i EXCEPT !.m_rank = @ - 1])

\* Faulty: n numbers are discarded and one more is drawn.
JumpForwardTooFar(i, n) ==
  update([i EXCEPT !.m_rank = @ + n - 1, !.m_engine = @ + n])

JumpForward(i, n) ==
  update([i EXCEPT !.m_rank = @ + n - 1, !.m_engine = @ + n - 1])

\* operator+=
JumpThrows(i, n) == n < 0 /\ i.m_rank < -n
Jump(i, n) ==
  CASE n > 0 -> JumpForward(i, n)
    [] n < 0 -> force_update([i EXCEPT !.m_rank = @ + n])
    [] OTHER -> i

\* n times ++, or -n times --, up to the one that throws.
Steps(i, n) ==
  LET walk[k \in Nat] ==
        IF k = 0 THEN i
        ELSE LET j == walk[k - 1] IN
             IF n > 0 THEN update(j)
             ELSE IF ReverseThrows(j) THEN j ELSE reverse_update(j)
  IN  walk[IF n < 0 THEN -n ELSE n]
StepsThrow(i, n) == n < 0 /\ ReverseThrows(Steps(i, n + 1))

-----------------------------------------------------------------------------
Init == i1 = Begin /\ i2 = Begin /\ thrown = {}

\* A client does not go on after an exception, nor from rank 0, where only a
\* jump leads that has discarded 2^64 - 1 numbers.
Move(n) ==
  /\ thrown = {} /\ i2.m_rank > 0
  /\ i2.m_rank + n <= MaxRank
  /\ i1' = Steps(i1, n)
  /\ i2' = IF JumpThrows(i2, n) THEN i2 ELSE Jump(i2, n)
  /\ thrown' = (IF StepsThrow(i1, n) THEN {1} ELSE {}) \cup (IF JumpThrows(i2, n) THEN {2} ELSE {})

Ended == (thrown /= {} \/ i2.m_rank <= 0) /\ UNCHANGED vars

Next == (\E n \in -MaxMove .. MaxMove : Move(n)) \/ Ended

Spec == Init /\ [][Next]_vars

-----------------------------------------------------------------------------
\* Whatever way an iterator took, what it shows is the number of its rank, and
\* the engine is just behind it.
ShowsRank ==
  \A i \in {i1, i2} : i.m_rank > 0 => i.m_current = i.m_rank /\ i.m_engine = i.m_rank

\* FastMove of the unit test: after the same moves the iterators are equal and
\* show the same number; before the first number both throw.
FastMove ==
  /\ 1 \in thrown <=> 2 \in thrown
  /\ thrown = {} => i1.m_rank = i2.m_rank /\ i1.m_current = i2.m_current

\* Jumps and steps agree but for the jump to rank 0, which should throw.
JumpsAgree == FastMove \/ (thrown = {1} /\ i2.m_rank = 0)
=============================================================================
