---------------------------- MODULE ViewPipeline ----------------------------
(***************************************************************************)
(* The pipelines of src/ranges/: a base range and the views on top of it.  *)
(* Nothing is stored: an iterator of a view holds one of the view below,   *)
(* and each * and each ++ of a client goes down to the base, calling the   *)
(* functions of the pipeline on the way. The filter is custom_filter_view  *)
(* of range_filter_gcc_expanded.cpp, take(n) of a counted iterator,        *)
(* custom_take that of custom_take_view.hpp, fold the windows of           *)
(* WindowFold, the other views those of the library.                       *)
(***************************************************************************)
EXTENDS Integers, Sequences, SequencesExt

CONSTANTS
  Horizon,    \* bound: the length of the base ranges that have no end
  MaxInput    \* bound: the length of the inputs of a client

\* Letters are numbers (" = 34, space = 32, A = 65, a = 97), strings sequences.
Holds(p, v) ==
  CASE p = "odd" -> v % 2 = 1
    [] p = "even" -> v % 2 = 0
    [] p = "not quote" -> v /= 34
    [] p = "isalpha" -> v \in 65 .. 90 \cup 97 .. 122
    [] p = "isxdigit" -> v[1] \in 48 .. 57 \cup 65 .. 70 \cup 97 .. 102
    [] p = "size > 3" -> v > 3
    [] p = "imc" -> v >= 2
    [] p = "age" -> v % 2 = 1

\* A function object may have a state c: the numbers generated so far in
\* ranges_traps4.cpp, the seconds that are left in ranges_traps3.cpp.
Apply(f, v, c) ==
  CASE f = "3x + 1" -> [v |-> 3 * v + 1, c |-> c]
    [] f = "% 256" -> [v |-> <<v % 256>>, c |-> c]
    [] f = "tolower" -> [v |-> IF v \in 65 .. 90 THEN v + 32 ELSE v, c |-> c]
    [] f = "to_string" -> [v |-> <<v>>, c |-> c]
    [] f = "size" -> [v |-> v, c |-> c]
    [] f = "gen" -> [v |-> c + 1, c |-> c + 1]
    [] f = "process" -> [v |-> c % v, c |-> c \div v]

Stage(kind, arg) == [kind |-> kind, arg |-> arg]
Filter(p) == Stage("filter", p)
Transform(f) == Stage("transform", f)
Take(n) == Stage("take", n)
TakeWhile(p) == Stage("take_while", p)
Drop(n) == Stage("drop", n)
DropWhile(p) == Stage("drop_while", p)
CustomTake(n) == Stage("custom_take", n)
Fold(n) == Stage("fold", n)
Reversed == Stage("reverse", 0)

-----------------------------------------------------------------------------
\* The programs: where the values come from and the stages.
Program(base, stages, c) == [base |-> base, stages |-> stages, c |-> c]

iota(a, b) == [k \in 1 .. b - a |-> a + k - 1]
Inputs(S) == UNION {[1 .. n -> S] : n \in 0 .. MaxInput}

FilterMain ==
  {Program(iota(1, Horizon), <<Filter("odd"), Take(10), Reversed, Take(4)>>, 0),
   Program(iota(1, Horizon), <<Transform("3x + 1"), Filter("odd"), Take(10), Take(4)>>, 0)}

WindowFoldDirect ==
  {Program(iota(1, Horizon), <<Filter("odd"), Transform("to_string"), Take(n), Fold(3)>>, 0) : n \in 0 .. 7}
WindowFoldDirect2 ==
  {Program(iota(0, n), <<Filter("odd"), Transform("to_string"), Fold(3)>>, 0) : n \in 0 .. 10}
WindowFoldReverse ==
  {Program(iota(0, n), <<Transform("to_string"), Fold(3), Reversed, Take(4)>>, 0) : n \in 0 .. 7}

\* The number that an engine draws is the position of the draw.
RndDirect == {Program(iota(1, Horizon), <<Drop(4), Take(n)>>, 0) : n \in 0 .. 9}
RndReverse == {Program(iota(1, Horizon), <<Drop(4), Take(n), Reversed>>, 0) : n \in 0 .. 9}

\* Whatever the engine draws first; 4 of the 15 characters are taken.
UnixPipe ==
  {Program(drawn \o iota(304, 310), <<Transform("% 256"), Filter("isxdigit"), Take(4), Fold(3)>>, 0) :
     drawn \in Inputs({33, 65 + 256, 102})}

\* The sizes of the words of the message.
Adaptors1 ==
  {Program(<<3, 5, 5, 3, 5, 4, 3, 4, 3>>, <<Filter("size > 3"), Transform("size"), Take(4)>>, 0)}

Extractor ==
  {Program(message, <<DropWhile("not quote"), Drop(1), TakeWhile("not quote")>>, 0) :
     message \in Inputs({34, 97, 32})}
Cleanup ==
  {Program(sentence, <<Filter("isalpha"), Transform("tolower"), Reversed>>, 0) :
     sentence \in Inputs({65, 97, 32})}

\* A person is 2 * (imc selected) + (age selected).
Persons == {Program(persons, <<Filter("imc"), Filter("age")>>, 0) : persons \in Inputs(0 .. 3)}

CustomTakeTests ==
  UNION {{Program(iota(1, 6), <<CustomTake(n)>>, 0), Program(iota(1, 6), <<CustomTake(n), Reversed>>, 0)} :
           n \in {0, 1, 2, 5}}
CombinedTest ==
  {Program(<<2, 1>> \o n \o <<4>>, <<Filter("even"), Reversed, CustomTake(2)>>, 0) : n \in Inputs({1, 8})}

Units == <<365, 24, 60, 60>>
Traps3 ==
  {Program(Units, <<Reversed, Transform("process")>>, 1000000),
   Program(Units, <<Transform("process"), Reversed>>, 1000000)}
Traps4 == {Program(iota(0, Horizon), <<Transform("gen"), Filter("odd"), Take(1)>>, 0)}

Programs ==
  UNION {FilterMain, WindowFoldDirect, WindowFoldDirect2, WindowFoldReverse, RndDirect, RndReverse,
         UnixPipe, Adaptors1, Extractor, Cleanup, Persons, CustomTakeTests, CombinedTest, Traps3, Traps4}

-----------------------------------------------------------------------------
VARIABLES
  program,
  pos,     \* the client's iterator
  c,       \* the state of the function objects
  rank,    \* how many elements are in front of the iterator
  shown    \* what a program with a state has shown

vars == <<program, pos, c, rank, shown>>

\* The operations of an iterator of the first k stages; they return where it
\* is, or a value, and the state. It is a position in the base; that of take
\* also counts, that of fold holds a window.
RECURSIVE Begin(_, _), Next_(_, _, _), Prev(_, _), Deref(_, _, _), AtEnd(_, _), Index(_, _),
          FindIf(_, _, _, _), Walk(_, _, _, _), End(_, _), Lookup(_, _, _, _), BackUp(_, _, _),
          FilterPrev(_, _)

At(p, s) == [p |-> p, c |-> s]
Kind(k) == program.stages[k].kind
Arg(k) == program.stages[k].arg

\* The position of the base, by which iterators are compared.
Index(k, p) ==
  IF k = 0 THEN p
  ELSE Index(k - 1, CASE Kind(k) = "take" -> p.base [] Kind(k) = "fold" -> p.current [] OTHER -> p)

\* find_if of the elements below stage k, or find_if_not.
FindIf(k, first, s, wanted) ==
  IF AtEnd(k - 1, first) THEN At(first, s)
  ELSE LET d == Deref(k - 1, first, s) IN
       IF Holds(Arg(k), d.v) = wanted THEN At(first, d.c)
       ELSE LET n == Next_(k - 1, first, d.c) IN FindIf(k, n.p, n.c, wanted)

\* std::next(p, n); that of ranges stops at the end.
Walk(k, p, s, n) ==
  IF n = 0 \/ AtEnd(k, p) THEN At(p, s)
  ELSE LET m == Next_(k, p, s) IN Walk(k, m.p, m.c, n - 1)

\* The end of a range, as an iterator.
End(k, p) == IF AtEnd(k, p) THEN p ELSE End(k, Next_(k, p, 0).p)

\* WindowFold: at most n elements from p on.
Lookup(k, p, acc, n) ==
  IF n = 0 \/ AtEnd(k - 1, p) THEN [next |-> p, acc |-> acc]
  ELSE Lookup(k, Next_(k - 1, p, 0).p, acc \o Deref(k - 1, p, 0).v, n - 1)

\* At most n elements in front of p.
BackUp(k, p, n) ==
  IF n = 0 \/ Index(k - 1, p) = Index(k - 1, Begin(k - 1, 0).p) THEN [p |-> p, acc |-> << >>]
  ELSE LET q == Prev(k - 1, p)
           b == BackUp(k, q, n - 1)
       IN  [p |-> b.p, acc |-> b.acc \o Deref(k - 1, q, 0).v]

Window(k, p) == [current |-> p] @@ Lookup(k, p, << >>, Arg(k))

\* Faulty: the end is one further.
CustomTakeEndAfter(k, p) == Index(k - 1, p) = Index(k - 1, Walk(k - 1, Begin(k - 1, 0).p, 0, Arg(k) + 1).p)

\* custom_take_view: end() is next(m_iter, m_count).
CustomTakeEnd(k, p) == Index(k - 1, p) = Index(k - 1, Walk(k - 1, Begin(k - 1, 0).p, 0, Arg(k)).p)

\* custom_filter_view::begin(), every time.
FilterBegin(k, s) == LET b == Begin(k - 1, s) IN FindIf(k, b.p, b.c, TRUE)

\* Faulty: the element is not moved from.
FilterNextStays(k, p, s) == LET n == Next_(k - 1, p, s) IN At(n.p, n.c)

\* ++
FilterNext(k, p, s) == LET n == Next_(k - 1, p, s) IN FindIf(k, n.p, n.c, TRUE)

\* Faulty: one step, whatever is there.
FilterPrevOnce(k, p) == Prev(k - 1, p)

\* --, which relies on an element in front that holds.
FilterPrev(k, p) ==
  LET q == Prev(k - 1, p) IN
  IF Holds(Arg(k), Deref(k - 1, q, 0).v) THEN q ELSE FilterPrev(k, q)

Begin(k, s) ==
  IF k = 0 THEN At(0, s)
  ELSE LET b == Begin(k - 1, s) IN
       CASE Kind(k) = "filter" -> FilterBegin(k, s)
         [] Kind(k) = "drop_while" -> FindIf(k, b.p, b.c, FALSE)
         [] Kind(k) = "drop" -> Walk(k - 1, b.p, b.c, Arg(k))
         [] Kind(k) = "take" -> At([base |-> b.p, count |-> Arg(k)], b.c)
         [] Kind(k) = "fold" -> At(Window(k, b.p), s)
         [] Kind(k) = "reverse" -> At(End(k - 1, b.p), s)
         [] OTHER -> b

AtEnd(k, p) ==
  IF k = 0 THEN p = Len(program.base)
  ELSE CASE Kind(k) = "take" -> p.count = 0 \/ AtEnd(k - 1, p.base)
         [] Kind(k) = "take_while" -> ~AtEnd(k - 1, p) => ~Holds(Arg(k), Deref(k - 1, p, 0).v)
         [] Kind(k) = "custom_take" -> CustomTakeEnd(k, p)
         [] Kind(k) = "fold" -> AtEnd(k - 1, p.current)
         [] Kind(k) = "reverse" -> Index(k - 1, p) = Index(k - 1, Begin(k - 1, 0).p)
         [] OTHER -> AtEnd(k - 1, p)

Deref(k, p, s) ==
  IF k = 0 THEN [v |-> program.base[p + 1], c |-> s]
  ELSE CASE Kind(k) = "transform" -> LET d == Deref(k - 1, p, s) IN Apply(Arg(k), d.v, d.c)
         [] Kind(k) = "take" -> Deref(k - 1, p.base, s)
         [] Kind(k) = "fold" -> [v |-> p.acc, c |-> s]
         [] Kind(k) = "reverse" -> Deref(k - 1, Prev(k - 1, p), s)
         [] OTHER -> Deref(k - 1, p, s)

Next_(k, p, s) ==
  IF k = 0 THEN At(p + 1, s)
  ELSE CASE Kind(k) = "filter" -> FilterNext(k, p, s)
         [] Kind(k) = "take" ->
              LET n == Next_(k - 1, p.base, s) IN At([base |-> n.p, count |-> p.count - 1], n.c)
         [] Kind(k) = "fold" -> At(Window(k, p.next), s)
         [] Kind(k) = "reverse" -> At(Prev(k - 1, p), s)
         [] OTHER -> Next_(k - 1, p, s)

Prev(k, p) ==
  IF k = 0 THEN p - 1
  ELSE CASE Kind(k) = "filter" -> FilterPrev(k, p)
         [] Kind(k) = "take" -> [base |-> Prev(k - 1, p.base), count |-> p.count + 1]
         [] Kind(k) = "fold" ->
              LET b == BackUp(k, p.current, Arg(k)) IN [current |-> b.p, next |-> p.current, acc |-> b.acc]
         [] Kind(k) = "reverse" -> Next_(k - 1, p, 0).p
         [] OTHER -> Prev(k - 1, p)

-----------------------------------------------------------------------------
Stages == Len(program.stages)

Init ==
  /\ program \in Programs
  /\ c = Begin(Stages, program.c).c
  /\ pos = Begin(Stages, program.c).p
  /\ rank = 0
  /\ shown = << >>

Has(kind) == \E k \in 1 .. Stages : Kind(k) = kind
Stateful == \E k \in 1 .. Stages : Kind(k) = "transform" /\ Arg(k) \in {"gen", "process"}

\* A turn of the loop of a client: *, ++.
Forward ==
  /\ ~AtEnd(Stages, pos)
  /\ LET d == Deref(Stages, pos, c)
         n == Next_(Stages, pos, d.c) IN
       /\ shown' = IF Stateful THEN Append(shown, d.v) ELSE shown
       /\ pos' = n.p /\ c' = n.c
  /\ rank' = rank + 1
  /\ UNCHANGED program

\* A client that turns; windows are cut differently backwards.
Backward ==
  /\ rank > 0 /\ ~Stateful /\ ~Has("fold")
  /\ pos' = Prev(Stages, pos)
  /\ rank' = rank - 1
  /\ UNCHANGED <<program, c, shown>>

Ended == AtEnd(Stages, pos) /\ UNCHANGED vars

Next == Forward \/ Backward \/ Ended

Spec == Init /\ [][Next]_vars

-----------------------------------------------------------------------------
\* What a pipeline stands for, as a function of sequences.
MinOf(a, b) == IF a < b THEN a ELSE b
First(s, Test(_)) == IF SelectInSeq(s, Test) = 0 THEN Len(s) + 1 ELSE SelectInSeq(s, Test)
Windows(s, n) ==
  [k \in 1 .. (Len(s) + n - 1) \div n |-> FlattenSeq(SubSeq(s, n * (k - 1) + 1, MinOf(n * k, Len(s))))]

Denotes(stage, s) ==
  LET arg == stage.arg IN
  CASE stage.kind = "filter" -> SelectSeq(s, LAMBDA x : Holds(arg, x))
    [] stage.kind = "transform" -> [k \in DOMAIN s |-> Apply(arg, s[k], 0).v]
    [] stage.kind \in {"take", "custom_take"} -> SubSeq(s, 1, MinOf(arg, Len(s)))
    [] stage.kind = "take_while" -> SubSeq(s, 1, First(s, LAMBDA x : ~Holds(arg, x)) - 1)
    [] stage.kind = "drop" -> SubSeq(s, arg + 1, Len(s))
    [] stage.kind = "drop_while" -> SubSeq(s, First(s, LAMBDA x : ~Holds(arg, x)), Len(s))
    [] stage.kind = "fold" ->
         \* Windows that are read from the end are cut from the end.
         IF Has("reverse")
         THEN Reverse([k \in DOMAIN Windows(Reverse(s), arg) |-> Reverse(Windows(Reverse(s), arg)[k])])
         ELSE Windows(s, arg)
    [] stage.kind = "reverse" -> Reverse(s)

Denoted ==
  LET after[k \in 0 .. Stages] ==
        IF k = 0 THEN program.base ELSE Denotes(program.stages[k], after[k - 1])
  IN  after[Stages]

\* Whatever way an iterator went through a pipeline of functions without a
\* state, it shows the element of its rank, and it is at the end after as many
\* steps as there are elements: what is computed again at each * and each --
\* is the same each time.
ShowsDenoted ==
  ~Stateful =>
    /\ AtEnd(Stages, pos) <=> rank = Len(Denoted)
    /\ rank < Len(Denoted) => Deref(Stages, pos, c).v = Denoted[rank + 1]

\* A search for a next element that is not there would not end: of a range
\* without an end, no program asks for one.
StaysOnBase == Len(program.base) = Horizon => Index(Stages, pos) < Horizon

\* ranges_traps3.cpp: reverse before or after process, the seconds are divided
\* by the units in the same order, since nothing is computed before the end
\* asks for it. ranges_traps4.cpp: the filter has held an odd number, and the
\* next * generates another one, that is shown although it is even.
StatefulShows ==
  Stateful =>
    IF Has("filter") THEN c = 2 * rank + 1 /\ \A k \in 1 .. rank : ~Holds("odd", shown[k])
    ELSE LET unit == Reverse(Units)
             worth[k \in 0 .. Len(unit)] == IF k = 0 THEN 1 ELSE unit[k] * worth[k - 1]
         IN  FoldSeq(+, c * worth[rank], [k \in 1 .. rank |-> shown[k] * worth[k - 1]]) = 1000000

PipelineRight == ShowsDenoted /\ StaysOnBase /\ StatefulShows
=============================================================================
