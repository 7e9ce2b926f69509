----------------------------- MODULE WordCount -----------------------------
(***************************************************************************)
(* Solutions/parallel_word_count.hpp: make_text joins words to a text, and *)
(* word_count counts the words of a text, both by std::transform_reduce,   *)
(* which may combine any two of what it has: a function that loses one of  *)
(* its arguments with each combination. A text is a sequence of spaces and *)
(* letters.                                                                *)
(***************************************************************************)
EXTENDS Integers, Sequences, FiniteSets

CONSTANTS
  Lengths,    \* the lengths of words
  Words,      \* how many words a text is made of
  MaxSpaces,  \* the longest separator
  MaxText     \* bound: the length of the texts that are not made by make_text

VARIABLES
  phase,   \* "make", "count" or "end"
  parts,   \* what the reduction of make_text has: texts
  made,    \* the number of words that text was made of, -1 if it was not
  s,       \* the text
  sums     \* what the reduction of word_count has: numbers

vars == <<phase, parts, made, s, sums>>

Space == " "
Letter == "a"
isspace(c) == c = Space
Repeated(c, n) == [k \in 1 .. n |-> c]
Texts == UNION {[1 .. n -> {Space, Letter}] : n \in 0 .. MaxText}

\* Faulty: any change begins a word.
word_beginningBoth(left, right) == isspace(left) /= isspace(right)

is_word_beginning(left, right) == isspace(left) /\ ~isspace(right)

First(t) == IF t /= << >> /\ ~isspace(Head(t)) THEN 1 ELSE 0

naive_word_count(t) ==
  First(t) + Cardinality({k \in 1 .. Len(t) - 1 : is_word_beginning(t[k], t[k + 1])})

\* The initial value, at 0, and the transformed pairs of neighbours.
Transformed(t) ==
  [k \in 0 .. Len(t) - 1 |-> IF k > 0 /\ is_word_beginning(t[k], t[k + 1]) THEN 1 ELSE 0]

\* The reduction of what there is at i and at j, to r.
Reduced(f, i, j, r) == [k \in DOMAIN f \ {j} |-> IF k = i THEN r ELSE f[k]]

-----------------------------------------------------------------------------
Init ==
  /\ sums = << >>
  /\ \/ /\ phase = "make" /\ made \in Words /\ s = << >>
        /\ \E length \in [1 .. made -> Lengths] :
             parts = [k \in 0 .. made |-> IF k = 0 THEN << >> ELSE Repeated(Letter, length[k])]
     \/ /\ phase = "begin" /\ made = -1 /\ parts = << >> /\ s \in Texts

\* Faulty: the texts are joined without a separator.
JoinClose(i, j) ==
  /\ phase = "make" /\ i /= j
  /\ parts' = Reduced(parts, i, j, parts[i] \o parts[j])
  /\ UNCHANGED <<phase, made, s, sums>>

\* The reduction of make_text: a + get_spaces() + b.
Join(i, j) ==
  /\ phase = "make" /\ i /= j
  /\ \E n \in 1 .. MaxSpaces :
       parts' = Reduced(parts, i, j, parts[i] \o Repeated(Space, n) \o parts[j])
  /\ UNCHANGED <<phase, made, s, sums>>

TextMade ==
  /\ phase = "make"
  /\ \E k \in DOMAIN parts : DOMAIN parts = {k} /\ s' = parts[k]
  /\ parts' = << >> /\ phase' = "begin"
  /\ UNCHANGED <<made, sums>>

\* word_count: nothing is reduced for an empty text, which has no end() - 1.
BeginCount ==
  /\ phase = "begin"
  /\ IF s = << >> THEN phase' = "end" /\ sums' = [k \in {0} |-> 0]
     ELSE phase' = "count" /\ sums' = Transformed(s)
  /\ UNCHANGED <<parts, made, s>>

\* std::plus of any two of the numbers.
Plus(i, j) ==
  /\ phase = "count" /\ i < j
  /\ sums' = Reduced(sums, i, j, sums[i] + sums[j])
  /\ UNCHANGED <<phase, parts, made, s>>

\* wc += the number that is left.
Count ==
  /\ phase = "count"
  /\ \E k \in DOMAIN sums : DOMAIN sums = {k} /\ sums' = [sums EXCEPT ![k] = First(s) + @]
  /\ phase' = "end"
  /\ UNCHANGED <<parts, made, s>>

Ended == phase = "end" /\ UNCHANGED vars

Next ==
  \/ \E i, j \in DOMAIN parts : Join(i, j)
  \/ \E i, j \in DOMAIN sums : Plus(i, j)
  \/ TextMade \/ BeginCount \/ Count \/ Ended

Spec == Init /\ [][Next]_vars

-----------------------------------------------------------------------------
\* The words of a text: where the longest stretches of letters begin.
WordsOf(t) ==
  {k \in 1 .. Len(t) : t[k] = Letter /\ (k = 1 \/ t[k - 1] = Space)}

\* In whatever order and grouping the numbers are added, both counts are the
\* number of words; and a text that is made of n words, in whatever order and
\* grouping they are joined, has n words.
WordsCounted ==
  /\ phase /= "make" => naive_word_count(s) = Cardinality(WordsOf(s))
  /\ phase = "end" =>
       /\ \E k \in DOMAIN sums : sums = [l \in {k} |-> Cardinality(WordsOf(s))]
       /\ made >= 0 => Cardinality(WordsOf(s)) = made
=============================================================================
