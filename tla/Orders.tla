------------------------------- MODULE Orders -------------------------------
(***************************************************************************)
(* The comparisons of src/spaceship/, integer_compare.cpp and              *)
(* Solutions/IntNan--unittest.cpp. A class defines == and <=>, the         *)
(* compiler rewrites the other operators with these two, also with the     *)
(* operands exchanged; compare-cistring-by-hand.cpp writes all eighteen.   *)
(***************************************************************************)
EXTENDS Integers, Sequences, FiniteSets

CONSTANTS
  Letters,     \* of strings: a number, or 32 more in lower case
  MaxString,   \* bound: their length
  Ints,        \* the values of int in an IntNan or in a member
  Half         \* bound: the number of values of int that are not negative (2^31)

\* std::partial_ordering; the others lack unordered.
Less == "less"
Equivalent == "equivalent"
Greater == "greater"
Unordered == "unordered"

Strings == UNION {[1 .. n -> Letters] : n \in 0 .. MaxString}

\* No value: IntNan{}, or the nan of a double.
Nan == "nan"

\* The operands: values with the type they have in the expression.
Operand(type, values) == {[type |-> type, val |-> v] : v \in values}
A == [a : Ints, b : {<< >>, <<97>>}, c : {0, 1}]
Operands(family) ==
  CASE family = "IntNan" -> Operand("IntNan", [v : Ints] \cup {[none |-> Nan]}) \cup Operand("int", [v : Ints])
    [] family = "A" -> Operand("A", A \cup [a : Ints, b : {<< >>, <<97>>}, nan : {Nan}])
    [] family = "CIString" -> Operand("CIString", Strings) \cup Operand("char", Strings)
    [] family = "integers" -> Operand("int", -Half .. Half - 1)
                                \cup Operand("unsigned", 0 .. 2 * Half - 1)

VARIABLES family, x, y, z

vars == <<family, x, y, z>>

Init ==
  /\ family \in {"IntNan", "A", "CIString", "integers"}
  /\ x \in Operands(family) /\ y \in Operands(family) /\ z \in Operands(family)

Next == UNCHANGED vars

Spec == Init /\ [][Next]_vars

-----------------------------------------------------------------------------
Lower(l) == IF l < 97 THEN l + 32 ELSE l

\* Of two values that < orders.
ThreeWay(m, n) == IF m < n THEN Less ELSE IF m > n THEN Greater ELSE Equivalent

\* The first difference of two sequences, or their lengths.
Lexicographic(s, t) ==
  LET differ == {k \in DOMAIN s \cap DOMAIN t : s[k] /= t[k]} IN
  IF differ = {} THEN ThreeWay(Len(s), Len(t))
  ELSE LET k == CHOOSE k \in differ : \A l \in differ : k <= l IN ThreeWay(s[k], t[k])

case_insensitive_compare(s, t) ==
  LET lowered(r) == [k \in DOMAIN r |-> Lower(r[k])] IN Lexicographic(lowered(s), lowered(t))

IsNan(v) == "none" \in DOMAIN v

\* Faulty: std::optional's own ==, as = default gives it.
IntNanEqualOptional(a, b) == a = b

\* IntNan::operator==, for an IntNan and for an int.
IntNanEqual(a, b) == ~IsNan(a) /\ ~IsNan(b) /\ a.v = b.v

\* IntNan::operator<=>
IntNanCompare(a, b) == IF IsNan(a) \/ IsNan(b) THEN Unordered ELSE ThreeWay(a.v, b.v)

\* == = default: all members, and a nan is no double's equal.
AEqual(a, b) == "nan" \notin DOMAIN a /\ a = b

DoubleCompare(a, b) ==
  IF "nan" \in DOMAIN a \/ "nan" \in DOMAIN b THEN Unordered ELSE ThreeWay(a.c, b.c)

\* Faulty: without the last member.
ACompareTwo(a, b) ==
  LET cmp == Lexicographic(a.b, b.b) IN IF cmp /= Equivalent THEN cmp ELSE DoubleCompare(a, b)

\* A::operator<=> of implement_compare_on_struct.cpp: b, then c, then a.
ACompare(a, b) ==
  LET first == Lexicographic(a.b, b.b)
      second == DoubleCompare(a, b)
  IN  IF first /= Equivalent THEN first
      ELSE IF second /= Equivalent THEN second ELSE ThreeWay(a.a, b.a)

\* generate_compare_on_struct.cpp has a and b only: <=> = default goes through
\* them in their order, == comes with it.
GeneratedCompare(a, b) ==
  IF a.a /= b.a THEN ThreeWay(a.a, b.a) ELSE Lexicographic(a.b, b.b)

\* The usual arithmetic conversions: int to unsigned int, if one is.
Converted(p, q) ==
  IF p.type /= q.type THEN p.val % (2 * Half) ELSE p.val

NaiveLess(p, q) == Converted(p, q) < Converted(q, p)
cmp_less(p, q) == p.val < q.val

-----------------------------------------------------------------------------
\* The <=> and the == that the classes define; their left operand is of the
\* class, the right one may be the other type.
Member(p) == p.type \in {"IntNan", "A", "CIString"}
Defined(p, q) ==
  CASE family = "IntNan" -> IntNanCompare(p.val, q.val)
    [] family = "A" -> ACompare(p.val, q.val)
    [] family = "CIString" -> case_insensitive_compare(p.val, q.val)
DefinedEqual(p, q) ==
  CASE family = "IntNan" -> IntNanEqual(p.val, q.val)
    [] family = "A" -> AEqual(p.val, q.val)
    [] family = "CIString" -> Defined(p, q) = Equivalent

Flip(cmp) == CASE cmp = Less -> Greater [] cmp = Greater -> Less [] OTHER -> cmp

\* Faulty: the result of the exchanged operands as it is.
SpaceshipStraight(p, q) == IF Member(p) THEN Defined(p, q) ELSE Defined(q, p)

\* The rewritten candidates of C++20.
Spaceship(p, q) == IF Member(p) THEN Defined(p, q) ELSE Flip(Defined(q, p))
Equal(p, q) == IF Member(p) THEN DefinedEqual(p, q) ELSE DefinedEqual(q, p)

Rewritten(p, q) ==
  [eq |-> Equal(p, q), ne |-> ~Equal(p, q),
   lt |-> Spaceship(p, q) = Less, gt |-> Spaceship(p, q) = Greater,
   le |-> Spaceship(p, q) \in {Less, Equivalent}, ge |-> Spaceship(p, q) \in {Greater, Equivalent}]

\* compare-cistring-by-hand.cpp: == and < of the three pairs of types, the
\* others with these.
HandEqual(p, q) == case_insensitive_compare(p.val, q.val) = Equivalent
HandLess(p, q) == case_insensitive_compare(p.val, q.val) = Less

\* Faulty: a <= b is !(a < b).
ByHandSame(p, q) ==
  [eq |-> HandEqual(p, q), ne |-> ~HandEqual(p, q), lt |-> HandLess(p, q), gt |-> HandLess(q, p),
   le |-> ~HandLess(p, q), ge |-> ~HandLess(p, q)]

ByHand(p, q) ==
  [eq |-> HandEqual(p, q), ne |-> ~HandEqual(p, q), lt |-> HandLess(p, q), gt |-> HandLess(q, p),
   le |-> ~HandLess(q, p), ge |-> ~HandLess(p, q)]

-----------------------------------------------------------------------------
\* The operators are defined for operands of which one is of the class.
Comparable(p, q) == Member(p) \/ Member(q)
Chained == Comparable(x, y) /\ Comparable(y, z) /\ Comparable(x, z)

\* Exactly one of <, >, == and unordered; the two orders of the operands
\* agree; both are transitive, whatever types meet; and although == and <=> are
\* written apart, and compare the members in other orders, == is the
\* equivalence of <=>.
Lawful ==
  /\ Comparable(x, y) =>
       LET r == Rewritten(x, y) IN
       /\ r.eq <=> Spaceship(x, y) = Equivalent
       /\ Cardinality({o \in {"eq", "lt", "gt"} : r[o]}) = (IF Spaceship(x, y) = Unordered THEN 0 ELSE 1)
       /\ Spaceship(y, x) = Flip(Spaceship(x, y)) /\ Equal(y, x) = Equal(x, y)
  /\ Chained =>
       /\ Rewritten(x, y).le /\ Rewritten(y, z).le => Rewritten(x, z).le
       /\ Rewritten(x, y).le /\ Rewritten(y, z).lt => Rewritten(x, z).lt

\* Only a nan is without order, with everything, itself included.
OnlyNan ==
  /\ family = "IntNan" /\ Comparable(x, y) => (Spaceship(x, y) = Unordered <=> IsNan(x.val) \/ IsNan(y.val))
  /\ family = "CIString" /\ Comparable(x, y) => Spaceship(x, y) /= Unordered /\ Rewritten(x, y) = ByHand(x, y)
  /\ family = "A" /\ "c" \in DOMAIN x.val \cap DOMAIN y.val =>
       /\ Spaceship(x, y) /= Unordered
       /\ x.val.c = y.val.c => (GeneratedCompare(x.val, y.val) = Equivalent <=> Equal(x, y))

\* < of an int and an unsigned int is right when the int is not negative, and
\* wrong when it is and the other one has a value that an int has too.
ConversionBites ==
  LET wrong == NaiveLess(x, y) /= cmp_less(x, y)
      negative == x.type /= y.type /\ (x.val < 0 \/ y.val < 0)
  IN  /\ wrong => negative
      /\ negative /\ x.val < Half /\ y.val < Half => wrong

OrdersLawful ==
  /\ family /= "integers" => Lawful /\ OnlyNan
  /\ family = "integers" => ConversionBites
=============================================================================
