--------------------------- MODULE RangeAdaptors ----------------------------
(***************************************************************************)
(* src/ranges/custom_adaptor_details.hpp, and the same classes in          *)
(* range_filter_gcc_expanded.cpp: the objects that stand for a part of a   *)
(* pipeline. A _Partial keeps the arguments of an adaptor, a _Pipe two     *)
(* closures; a closure that is an lvalue is copied from, an rvalue is      *)
(* moved from. A client keeps closures in variables, composes them in any  *)
(* grouping and applies them to ranges, as often as it likes while it has  *)
(* not moved from them.                                                    *)
(***************************************************************************)
EXTENDS Naturals, Sequences, SequencesExt

CONSTANTS
  Variable,   \* the variables of the client
  Argument,   \* what it gives to the adaptor: numbers, predicates
  Moved,      \* what is left of an argument that was moved from
  Longest     \* bound: the adaptors in one closure

\* A closure: a tree of adaptors with their arguments.
Partial(arg) == [kind |-> "partial", arg |-> arg]
Pipe(lhs, rhs) == [kind |-> "pipe", lhs |-> lhs, rhs |-> rhs]

VARIABLES
  closure,   \* the object in each variable; << >> if there is none
  meaning,   \* history: the arguments that the client has put into it
  moved,     \* the variables that the client has moved from
  range      \* the last range: the adaptors it went through; with the meaning

vars == <<closure, meaning, moved, range>>

Init ==
  /\ closure = [v \in Variable |-> << >>]
  /\ meaning = [v \in Variable |-> << >>]
  /\ moved = {}
  /\ range = << << >>, << >> >>

Usable(v) == closure[v] /= << >> /\ v \notin moved

\* The moved-from object of a type: its members are moved from.
RECURSIVE MovedFrom(_), Call(_, _)
MovedFrom(x) ==
  IF x.kind = "partial" THEN Partial(Moved) ELSE Pipe(MovedFrom(x.lhs), MovedFrom(x.rhs))

\* After a use as an lvalue or as an rvalue.
After(x, value) == IF value = "lvalue" THEN x ELSE MovedFrom(x)

\* _RangeAdaptor::operator()(args...): decayed copies of the arguments.
Make(v, arg) ==
  /\ closure[v] = << >>
  /\ closure' = [closure EXCEPT ![v] = Partial(arg)]
  /\ meaning' = [meaning EXCEPT ![v] = <<arg>>]
  /\ UNCHANGED <<moved, range>>

\* Faulty: the operands exchanged.
PipeSwapped(lhs, rhs) == Pipe(rhs, lhs)

\* lhs | rhs: both are parameters by value, and moved into the _Pipe.
Composed(lhs, rhs) == Pipe(lhs, rhs)

Compose(v, l, r, lvalue, rvalue) ==
  /\ closure[v] = << >> /\ Usable(l) /\ Usable(r)
  /\ l = r => lvalue = "lvalue" /\ rvalue = "lvalue"
  /\ Len(meaning[l]) + Len(meaning[r]) <= Longest
  /\ closure' = [closure EXCEPT ![l] = After(@, lvalue), ![r] = After(@, rvalue),
                                ![v] = Composed(closure[l], closure[r])]
  /\ meaning' = [meaning EXCEPT ![v] = meaning[l] \o meaning[r]]
  /\ moved' = moved \cup (IF lvalue = "lvalue" THEN {} ELSE {l}) \cup (IF rvalue = "lvalue" THEN {} ELSE {r})
  /\ UNCHANGED range

\* operator()(r): the adaptors that r goes through, the left ones first.
Call(x, r) ==
  IF x.kind = "partial" THEN Append(r, x.arg) ELSE Call(x.rhs, Call(x.lhs, r))

\* Faulty: operator() const & moves the arguments.
LeftMoved(x, value) == MovedFrom(x)

\* What operator() leaves: const & copies the arguments, && moves them.
Left(x, value) == After(x, value)

\* r | closure
Apply(v, value) ==
  /\ Usable(v)
  /\ range' = <<Call(closure[v], << >>), meaning[v]>>
  /\ closure' = [closure EXCEPT ![v] = Left(@, value)]
  /\ moved' = IF value = "lvalue" THEN moved ELSE moved \cup {v}
  /\ UNCHANGED meaning

\* The variable ends, or is another one.
Forget(v) ==
  /\ closure[v] /= << >>
  /\ closure' = [closure EXCEPT ![v] = << >>]
  /\ meaning' = [meaning EXCEPT ![v] = << >>]
  /\ moved' = moved \ {v}
  /\ UNCHANGED range

Value == {"lvalue", "rvalue"}

Next ==
  \/ \E v \in Variable : (\E a \in Argument : Make(v, a)) \/ (\E c \in Value : Apply(v, c)) \/ Forget(v)
  \/ \E v, l, r \in Variable, a, b \in Value : Compose(v, l, r, a, b)

Spec == Init /\ [][Next]_vars

-----------------------------------------------------------------------------
\* A range goes through what the client wrote, in its order, however it has
\* grouped the |; no closure that it has used before gives a moved-from
\* argument to it.
AsWritten == range[1] = range[2]
=============================================================================
