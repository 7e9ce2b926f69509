-------------------------- MODULE FunctionAlgebra --------------------------
(***************************************************************************)
(* Functions as trees of shared nodes, which can be evaluated and derived  *)
(* (Curiosity/algebra.cpp), and the same functions as types, which partial *)
(* specialisations simplify (Curiosity/algebraT.cpp). A Real is an element *)
(* of the field of p elements, where +, * and 1/x have no rounding, and    *)
(* sin and cos are two functions of which only the derivatives are known;  *)
(* 1/0 is 0.                                                               *)
(***************************************************************************)
EXTENDS Integers, FiniteSets

CONSTANTS
  p,            \* a prime
  sine, cosine  \* functions on Real

Real == 0 .. p - 1
Reciprocal(a) == IF a = 0 THEN 0 ELSE CHOOSE b \in Real : (a * b) % p = 1

\* The classes of nodes. Zero and One exist in algebraT.cpp only.
Identity == [op |-> "identity"]
Constant(v) == [op |-> "constant", v |-> v % p]
Sinus(f) == [op |-> "sin", f |-> f]
Cosinus(f) == [op |-> "cos", f |-> f]
Add(f, g) == [op |-> "add", f |-> f, g |-> g]
Mult(f, g) == [op |-> "mult", f |-> f, g |-> g]
Inverse(f) == [op |-> "inverse", f |-> f]
Pow(f, n) == [op |-> "pow", f |-> f, n |-> n]
Zero == [op |-> "zero"]
One == [op |-> "one"]

RECURSIVE Eval(_, _)
Eval(f, x) ==
  CASE f.op = "identity" -> x
    [] f.op = "constant" -> f.v
    [] f.op = "sin" -> sine[Eval(f.f, x)]
    [] f.op = "cos" -> cosine[Eval(f.f, x)]
    [] f.op = "add" -> (Eval(f.f, x) + Eval(f.g, x)) % p
    [] f.op = "mult" -> (Eval(f.f, x) * Eval(f.g, x)) % p
    [] f.op = "inverse" -> Reciprocal(Eval(f.f, x))
    [] f.op = "pow" -> (Eval(f.f, x) ^ f.n) % p
    [] f.op = "zero" -> 0
    [] f.op = "one" -> 1

-----------------------------------------------------------------------------
\* The operators of the user interface. a is a Real, f and g are functions.
Minus(f) == Mult(Constant(-1), f)
Times(a, f) == Mult(Constant(a), f)
Plus(f, a) == Add(f, Constant(a))
Divide(f, g) == Mult(f, Inverse(g))

\* operator-(Real, Function), which is f - a in both files.
RealMinus(a, f) == Plus(f, -a)

\* operator^
Power(f, n) ==
  CASE n = 0 -> Constant(1)
    [] n = 1 -> f
    [] OTHER -> Pow(f, n)

\* Faulty: the derivative of cos is sin.
RECURSIVE DiffCos(_)
DiffCos(f) ==
  CASE f.op = "cos" -> Mult(Sinus(f.f), DiffCos(f.f))
    [] f.op = "identity" -> Constant(1)
    [] f.op = "sin" -> Mult(Cosinus(f.f), DiffCos(f.f))
    [] OTHER -> Constant(0)

\* diff() of each class.
RECURSIVE Diff(_)
Diff(f) ==
  CASE f.op = "identity" -> Constant(1)
    [] f.op = "constant" -> Constant(0)
    [] f.op = "sin" -> Mult(Cosinus(f.f), Diff(f.f))
    [] f.op = "cos" -> Mult(Minus(Sinus(f.f)), Diff(f.f))
    [] f.op = "add" -> Add(Diff(f.f), Diff(f.g))
    [] f.op = "mult" -> Add(Mult(Diff(f.f), f.g), Mult(f.f, Diff(f.g)))
    [] f.op = "inverse" -> Divide(Minus(Diff(f.f)), Pow(f.f, 2))
    [] f.op = "pow" -> IF f.n = 1 THEN Diff(f.f)
                       ELSE Mult(Times(f.n, Power(f.f, f.n - 1)), Diff(f.f))

-----------------------------------------------------------------------------
\* The reference: the derivative of f at x is the second part of the value of
\* f at the dual number x + e, with e * e = 0.
Dual(v, d) == [v |-> v % p, d |-> d % p]
DualMult(a, b) == Dual(a.v * b.v, a.v * b.d + a.d * b.v)

DualPow(a, n) ==
  LET pow[k \in 0 .. n] == IF k = 0 THEN Dual(1, 0) ELSE DualMult(a, pow[k - 1]) IN pow[n]

RECURSIVE DualEval(_, _)
DualEval(f, x) ==
  LET a == DualEval(f.f, x)
      b == DualEval(f.g, x)
  IN  CASE f.op = "identity" -> Dual(x, 1)
        [] f.op = "constant" -> Dual(f.v, 0)
        [] f.op = "sin" -> Dual(sine[a.v], cosine[a.v] * a.d)
        [] f.op = "cos" -> Dual(cosine[a.v], -(sine[a.v] * a.d))
        [] f.op = "add" -> Dual(a.v + b.v, a.d + b.d)
        [] f.op = "mult" -> DualMult(a, b)
        [] f.op = "inverse" -> Dual(Reciprocal(a.v), -(a.d * Reciprocal(a.v * a.v % p)))
        [] f.op = "pow" -> DualPow(a, f.n)
        [] f.op = "zero" -> Dual(0, 0)
        [] f.op = "one" -> Dual(1, 0)

\* diff() is the derivative.
Derives(f) == \A x \in Real : Eval(Diff(f), x) = DualEval(f, x).d

-----------------------------------------------------------------------------
\* The types of algebraT.cpp. Partial specialisations of Add, Mult and Pow
\* simplify; Opt<F>::Type is the simplified type; an object of a specialised
\* class converts to it, and a value here is the converted object. Where the
\* compiler finds two specialisations and neither is more special, the program
\* is ill-formed: the value Ambiguous.
Ambiguous == [op |-> "ambiguous"]
Broken(f, g) == Ambiguous \in {f, g}

IsA(f, c) == f.op = c

\* The rules whose pattern <F, G> matches. C * (F * G) is more special than
\* C * F, the others are not ordered.
MultRules(f, g) ==
  (IF IsA(g, "one") THEN {"F*1"} ELSE {})
    \cup (IF IsA(f, "one") THEN {"1*F"} ELSE {})
    \cup (IF IsA(f, "zero") THEN {"0*F"} ELSE {})
    \cup (IF IsA(g, "zero") THEN {"F*0"} ELSE {})
    \cup (IF IsA(f, "mult") THEN {"(F*G)*H"} ELSE {})
    \cup (CASE ~IsA(f, "constant") -> {}
            [] IsA(g, "mult") -> {"C*(F*G)"}
            [] OTHER -> {"C*F"})

\* Faulty: the constant is lost on its way to the end of the product.
RECURSIVE SimplifyLoses(_, _)
SimplifyLoses(f, g) ==
  LET rules == MultRules(f, g) IN
  CASE Broken(f, g) \/ Cardinality(rules) > 1 -> Ambiguous
    [] IsA(f, "constant") /\ IsA(g, "constant") -> Constant(f.v * g.v)
    [] "C*(F*G)" \in rules -> g
    [] OTHER -> Mult(f, g)

\* Mult<F, G>, converted: a product becomes right associative with its
\* constants, multiplied, at the end.
RECURSIVE Simplify(_, _)
Simplify(f, g) ==
  LET rules == MultRules(f, g) IN
  CASE Broken(f, g) -> Ambiguous
    [] IsA(f, "constant") /\ IsA(g, "constant") -> Constant(f.v * g.v)
    [] Cardinality(rules) > 1 -> Ambiguous
    [] rules = {"F*1"} -> f
    [] rules = {"1*F"} -> g
    [] rules \in {{"0*F"}, {"F*0"}} -> Zero
    [] rules = {"C*(F*G)"} -> Simplify(g.f, Simplify(g.g, f))
    [] rules = {"(F*G)*H"} -> Simplify(f.f, Simplify(f.g, g))
    [] rules = {"C*F"} -> Simplify(g, f)
    [] OTHER -> Mult(f, g)

\* Add<F, G>, converted.
Sum(f, g) ==
  CASE Broken(f, g) \/ (IsA(f, "zero") /\ IsA(g, "zero")) -> Ambiguous
    [] IsA(g, "zero") -> f
    [] IsA(f, "zero") -> g
    [] OTHER -> Add(f, g)

\* Pow<n, F>, converted.
PowT(f, n) ==
  CASE Broken(f, f) -> Ambiguous
    [] n = 0 -> One
    [] n = 1 -> f
    [] OTHER -> Pow(f, n)

\* Opt<Mult<F, G>>::Type, which also knows C * 1 and C * 0.
OptMult(f, g) ==
  CASE IsA(f, "constant") /\ IsA(g, "one") -> f
    [] IsA(f, "constant") /\ IsA(g, "zero") -> Zero
    [] OTHER -> Simplify(f, g)

\* DiffType of each class, with arbitrary values for the constants in it. The
\* compiler computes it as soon as the class is instantiated.
RECURSIVE DiffType(_)
DiffType(f) ==
  CASE f.op \in {"zero", "one", "constant"} -> Zero
    [] f.op = "identity" -> One
    [] f.op = "add" -> Sum(DiffType(f.f), DiffType(f.g))
    [] f.op = "mult" -> Sum(OptMult(f.f, DiffType(f.g)), OptMult(DiffType(f.f), f.g))
    [] f.op = "inverse" -> OptMult(Constant(1), OptMult(DiffType(f.f), Inverse(OptMult(f.f, f.f))))
    [] f.op = "pow" -> OptMult(Constant(1), OptMult(PowT(f.f, f.n - 1), DiffType(f.f)))
    [] f.op = "sin" -> OptMult(Cosinus(f.f), DiffType(f.f))
    [] f.op = "cos" -> OptMult(Constant(1), OptMult(Sinus(f.f), DiffType(f.f)))
    [] OTHER -> Ambiguous

\* The object of a class, if the class can be instantiated.
Object(f) == IF DiffType(f) = Ambiguous THEN Ambiguous ELSE f

\* The operators of the user interface.
Product(f, g) == Object(Simplify(f, g))
SumT(f, g) == Object(Sum(f, g))
SinusT(f) == IF Broken(f, f) THEN f ELSE Object(Sinus(f))
CosinusT(f) == IF Broken(f, f) THEN f ELSE Object(Cosinus(f))
PowerT(f, n) == Object(PowT(f, n))
MinusT(f) == Product(Constant(-1), f)
TimesT(a, f) == Product(Constant(a), f)
PlusT(f, a) == SumT(f, Constant(a))
InverseT(f) == IF Broken(f, f) THEN f ELSE Object(Inverse(f))
DivideT(f, g) == Product(f, InverseT(g))

\* diff() of each class.
RECURSIVE DiffT(_)
DiffT(f) ==
  CASE f.op = "identity" -> One
    [] f.op \in {"constant", "zero", "one"} -> Zero
    [] f.op = "sin" -> Product(CosinusT(f.f), DiffT(f.f))
    [] f.op = "cos" -> MinusT(Product(SinusT(f.f), DiffT(f.f)))
    [] f.op = "add" -> SumT(DiffT(f.f), DiffT(f.g))
    [] f.op = "mult" -> SumT(Product(f.f, DiffT(f.g)), Product(DiffT(f.f), f.g))
    [] f.op = "inverse" -> MinusT(DivideT(DiffT(f.f), Product(f.f, f.f)))
    [] f.op = "pow" -> TimesT(f.n, Product(PowerT(f.f, f.n - 1), DiffT(f.f)))
    [] OTHER -> Ambiguous

-----------------------------------------------------------------------------
\* A program that builds one function with the operators of algebra.cpp and,
\* in the same way, with those of algebraT.cpp.
CONSTANTS MaxOps   \* bound: the operators that are applied

VARIABLES
  f,    \* the Function of algebra.cpp
  t,    \* the object of algebraT.cpp, Ambiguous if it does not compile
  ops   \* the operators applied

vars == <<f, t, ops>>

Init == f = Identity /\ t = Identity /\ ops = 0

Apply(dynamic, static) ==
  /\ ops < MaxOps /\ t /= Ambiguous
  /\ f' = dynamic /\ t' = static /\ ops' = ops + 1

Next ==
  \/ Apply(Sinus(f), SinusT(t))
  \/ Apply(Cosinus(f), CosinusT(t))
  \/ \E a \in {2, 3} : Apply(Times(a, f), TimesT(a, t))
  \/ Apply(Minus(f), MinusT(t))
  \/ Apply(Plus(f, 1), PlusT(t, 1))
  \/ Apply(RealMinus(1, f), PlusT(t, -1))
  \/ \E n \in 0 .. 3 : Apply(Power(f, n), PowerT(t, n))
  \/ Apply(Mult(f, Identity), Product(t, Identity))
  \/ Apply(Mult(f, Sinus(Identity)), Product(t, SinusT(Identity)))
  \/ Apply(Mult(Constant(3), Inverse(f)), Product(Constant(3), InverseT(t)))
  \/ Apply(Divide(f, Cosinus(Identity)), DivideT(t, CosinusT(Identity)))
  \/ Apply(Add(f, Identity), SumT(t, Identity))
  \/ Apply(Diff(f), DiffT(t))
  \/ UNCHANGED vars

Spec == Init /\ [][Next]_vars

-----------------------------------------------------------------------------
\* diff() of algebra.cpp is the derivative; the simplified object of
\* algebraT.cpp is the same function, and so is its diff(), if it compiles.
Agree ==
  /\ Derives(f)
  /\ t /= Ambiguous => \A x \in Real : Eval(t, x) = Eval(f, x)
  /\ t /= Ambiguous /\ DiffT(t) /= Ambiguous =>
       \A x \in Real : Eval(DiffT(t), x) = DualEval(f, x).d
=============================================================================
