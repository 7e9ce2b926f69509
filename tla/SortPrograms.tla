---------------------------- MODULE SortPrograms ----------------------------
(***************************************************************************)
(* The programs that arrange the elements of a container: quicksort of     *)
(* ranges/range_algorithm.cpp, shell_sort of concepts/shell_sort.cpp,      *)
(* min_element of meta-programming/, best_swap of concepts/best_swap.cpp,  *)
(* new_stl_erase_if.cpp, and the questions that iterator_sample.cpp        *)
(* answers with iterators and range_sample.cpp with ranges. An element is  *)
(* its key. A result of the library that is not determined, nth_element,   *)
(* is a set. Positions count from 1.                                       *)
(***************************************************************************)
EXTENDS Integers, Sequences, FiniteSets, SequencesExt, FiniteSetsExt

CONSTANTS
  Keys,       \* the elements
  MaxItems,   \* bound: the size of a container
  MaxPersons, \* bound: the size of persons
  Top         \* bound: how many persons are counted (4)

Person == [imc : BOOLEAN, age : BOOLEAN, poids : 1 .. 2]

VARIABLES items, persons

vars == <<items, persons>>

Init ==
  \/ items \in UNION {[1 .. n -> Keys] : n \in 0 .. MaxItems} /\ persons = << >>
  \/ persons \in UNION {[1 .. n -> Person] : n \in 0 .. MaxPersons} /\ items = << >>

Next == UNCHANGED vars

Spec == Init /\ [][Next]_vars

Swap(s, i, j) == [s EXCEPT ![i] = s[j], ![j] = s[i]]

-----------------------------------------------------------------------------
\* The inner loop: from j down, in steps of gap, while *j < j[-gap].
RECURSIVE SiftDown(_, _, _)
SiftDown(s, j, gap) ==
  IF j > gap /\ s[j] < s[j - gap] THEN SiftDown(Swap(s, j - gap, j), j - gap, gap) ELSE s

\* Faulty: the last element is not sifted.
ShellPassShort(s, gap) ==
  FoldLeft(LAMBDA t, i : IF i <= gap \/ i = Len(s) THEN t ELSE SiftDown(t, i, gap), s, [k \in 1 .. Len(s) |-> k])

ShellPass(s, gap) ==
  FoldLeft(LAMBDA t, i : IF i <= gap THEN t ELSE SiftDown(t, i, gap), s, [k \in 1 .. Len(s) |-> k])

RECURSIVE ShellGaps(_, _)
ShellGaps(s, gap) == IF gap = 0 THEN s ELSE ShellGaps(ShellPass(s, gap), gap \div 2)

shell_sort(s) == ShellGaps(s, Len(s) \div 2)

\* std::ranges::partition of a forward range: each element that holds is
\* exchanged with the first one that does not.
Partition(s, holds) ==
  FoldLeft(LAMBDA r, k : IF r.s[k] \in holds THEN [s |-> Swap(r.s, r.head + 1, k), head |-> r.head + 1] ELSE r,
           [s |-> s, head |-> 0], [k \in 1 .. Len(s) |-> k])

Head_(r) == SubSeq(r.s, 1, r.head)
Tail_(r) == SubSeq(r.s, r.head + 1, Len(r.s))

Pivot(s) == Len(s) \div 2 + 1

\* Faulty: the middle takes more than the pivot's equals.
MiddleWide(s, ref) == Partition(s, {e \in Keys : e <= ref + 1})

\* The elements of the tail that are not above ref.
Middle(s, ref) == Partition(s, {e \in Keys : e <= ref})

\* Forward only: *pivot is read again after the first partition, which may
\* have put another element there.
RECURSIVE QuickForward(_)
QuickForward(s) ==
  IF Len(s) <= 1 THEN s
  ELSE LET one == Partition(s, {e \in Keys : e < s[Pivot(s)]})
           two == Middle(Tail_(one), one.s[Pivot(s)])
       IN  QuickForward(Head_(one)) \o Head_(two) \o QuickForward(Tail_(two))

\* What std::nth_element may make of s, by the rank of each element: the p-th is
\* the one of a sorted s, none in front of it is to be behind it.
NthElement(s, p, rank) ==
  {t \in {[k \in 1 .. Len(s) |-> s[pi[k]]] :
            pi \in {q \in [1 .. Len(s) -> 1 .. Len(s)] : \A i, j \in 1 .. Len(s) : i /= j => q[i] /= q[j]}} :
     p <= Len(t) => \A i \in 1 .. Len(t) :
       /\ i < p => rank[t[i]] <= rank[t[p]]
       /\ i > p => rank[t[p]] <= rank[t[i]]}

\* Random access: the pivot is in its place.
RECURSIVE QuickRandom(_)
QuickRandom(s) ==
  IF Len(s) <= 1 THEN {s}
  ELSE UNION {{l \o <<t[Pivot(s)]>> \o r :
                 l \in QuickRandom(SubSeq(t, 1, Pivot(s) - 1)),
                 r \in QuickRandom(SubSeq(t, Pivot(s) + 1, Len(s)))} :
              t \in NthElement(s, Pivot(s), [e \in Keys |-> e])}

\* Faulty: the last of equal elements.
MinElementLast(s) ==
  FoldLeft(LAMBDA smallest, k : IF ~(s[smallest] < s[k]) THEN k ELSE smallest, 1, [k \in 1 .. Len(s) |-> k])

\* min_element: 1, which is also the end, if there are no elements.
MinElement(s) ==
  FoldLeft(LAMBDA smallest, k : IF s[k] < s[smallest] THEN k ELSE smallest, 1, [k \in 1 .. Len(s) |-> k])

\* The general best_swap: T tmp = std::move(x); x = std::move(y);
\* y = std::move(tmp). A moved-from element is -1; x and y may be one.
BestSwap(s, x, y) ==
  LET tmp == s[x]
      one == [s EXCEPT ![x] = -1]
      val == one[y]
      two == [[one EXCEPT ![y] = -1] EXCEPT ![x] = val]
  IN  [two EXCEPT ![y] = tmp]

\* std::remove_if: those to keep are moved to the front, what is behind them
\* stays; then v.erase(end_of_good_values, v.end()).
RemoveIf(s, bad) ==
  FoldLeft(LAMBDA r, k : IF s[k] \in bad THEN r ELSE [s |-> [r.s EXCEPT ![r.head + 1] = s[k]], head |-> r.head + 1],
           [s |-> s, head |-> 0], [k \in 1 .. Len(s) |-> k])
RemoveErase(s, bad) == Head_(RemoveIf(s, bad))

-----------------------------------------------------------------------------
Heavier == [p \in Person |-> -p.poids]

\* std::accumulate of the weights from begin to pivot.
Total(s) == FoldLeft(LAMBDA a, p : a + p.poids, 0, SubSeq(s, 1, Min({Top, Len(s)})))

\* Question 3: pivot is begin + 4, or the end.
Question3Iterators ==
  {Total(t) : t \in NthElement(persons, IF Top < Len(persons) THEN Top + 1 ELSE Len(persons) + 1, Heavier)}
Question3Ranges == {Total(t) : t \in NthElement(persons, Top + 1, Heavier)}

\* Faulty: not_fn is forgotten.
SelectedIteratorsNot ==
  RemoveErase(SelectSeq(persons, LAMBDA p : p.imc), {p \in Person : p.age})

\* Question 4: copy_if, then remove_if and erase; or two filters.
SelectedIterators ==
  RemoveErase(SelectSeq(persons, LAMBDA p : p.imc), {p \in Person : ~p.age})
SelectedRanges == SelectSeq(SelectSeq(persons, LAMBDA p : p.imc), LAMBDA p : p.age)
Question4 == {Total(t) : t \in NthElement(SelectedIterators, Top + 1, Heavier)}

-----------------------------------------------------------------------------
Sorted(s) == \A i, j \in 1 .. Len(s) : i < j => s[i] <= s[j]
Count(s, x) == Len(SelectSeq(s, LAMBDA y : x = y))
Same(s, t) == \A x \in Keys : Count(s, x) = Count(t, x)

\* The sorts sort, and lose or double nothing: shell_sort although its gaps
\* halve, the forward quicksort although it takes another pivot for its second
\* partition, the other one whatever nth_element leaves on either side.
SortsSort ==
  /\ \A t \in {shell_sort(items), QuickForward(items)} \cup QuickRandom(items) : Sorted(t) /\ Same(t, items)
  /\ items /= << >> =>
       LET m == MinElement(items) IN
       \A k \in 1 .. Len(items) : items[m] <= items[k] /\ (items[k] = items[m] => m <= k)
  /\ \A x, y \in 1 .. Len(items) : BestSwap(items, x, y) = Swap(items, x, y)

\* The weight of the Top heaviest.
Heaviest(s) ==
  Max({MapThenSumSet(LAMBDA k : s[k].poids, K) :
         K \in {K \in SUBSET (1 .. Len(s)) : Cardinality(K) <= Top}})

\* The questions have one answer, however nth_element arranges equals, and the
\* two programs give the same: the Top heaviest, of all or of the selected.
SameAnswers ==
  /\ Question3Iterators = {Heaviest(persons)} /\ Question3Ranges = {Heaviest(persons)}
  /\ SelectedIterators = SelectedRanges
  /\ Question4 = {Heaviest(SelectedRanges)}

Arranged == SortsSort /\ SameAnswers
=============================================================================
