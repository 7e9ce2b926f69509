-------------------------- MODULE ExpressionParser -------------------------
(***************************************************************************)
(* src/coroutines/lexer-parser.cpp: the coroutine read cuts a string into  *)
(* tokens, the coroutine parse turns them, in postfix order, into results  *)
(* and main prints these. Each is resumed by the next when it needs a      *)
(* value. A result is kept as its tree: `expression` is the tree in infix  *)
(* form.                                                                   *)
(***************************************************************************)
EXTENDS Integers, Sequences, SequencesExt, FiniteSetsExt

CONSTANTS
  Char,       \* the characters of the input: digits, " ", ";", operators, others
  MaxLength,  \* bound: the length of the input
  NoValue     \* std::nullopt

Digit == 0 .. 9
Operator == {"+", "-", "*", "/"}
digits == {"0", "1", "2", "3", "4", "5", "6", "7", "8", "9"}
IsDigit(ch) == ch \in digits
ValueOf(ch) == CHOOSE d \in Digit : ToString(d) = ch

VARIABLES
  input,
  turn,    \* the coroutine that runs, "main" or "end"
  i,       \* what read has used of the input
  value,   \* the number that read has begun
  token,   \* the token yielded, with its place in the source
  eof,     \* read has left its loop and yielded the last Print
  stack,
  popping, \* parse is suspended in its inner loop
  out,     \* what main has printed of the current expression
  tokens,  \* all tokens yielded
  group    \* the tokens that stand behind the stack and out

readVars == <<i, value, token, eof, tokens>>
parseVars == <<stack, popping, group>>
vars == <<input, turn, readVars, parseVars, out>>

Number(n) == [kind |-> "number", value |-> n]
Op(c) == [kind |-> "operator", op |-> c]
PrintToken == [kind |-> "print"]
ErrorToken == [kind |-> "error"]

\* Both coroutines start at once, main after them.
Init ==
  /\ input \in BoundedSeq(Char, MaxLength)
  /\ turn = "read" /\ i = 0 /\ value = NoValue /\ token = PrintToken /\ eof = FALSE
  /\ stack = <<>> /\ popping = FALSE /\ out = <<>>
  /\ tokens = <<>> /\ group = <<>>

-----------------------------------------------------------------------------
\* read: one action for a character, or for the part of it before a co_yield.
c == input[i + 1]
More == turn = "read" /\ i < Len(input)

Yield(t) ==
  /\ token' = t /\ tokens' = Append(tokens, t) /\ turn' = "parse"
  /\ UNCHANGED <<input, eof, parseVars, out>>

GoOn == i' = i + 1 /\ UNCHANGED <<input, turn, token, eof, tokens, parseVars, out>>

MoreDigits ==
  /\ More /\ value /= NoValue /\ IsDigit(c)
  /\ value' = value * 10 + ValueOf(c)
  /\ GoOn

\* Faulty: the character that ends a number is lost.
EndNumberSkips ==
  /\ turn = "read" /\ value /= NoValue
  /\ i < Len(input) => ~IsDigit(c)
  /\ Yield(Number(value))
  /\ value' = NoValue /\ i' = IF i < Len(input) THEN i + 1 ELSE i

\* The character after a number ends it and is looked at again.
EndNumber ==
  /\ turn = "read" /\ value /= NoValue
  /\ i < Len(input) => ~IsDigit(c)
  /\ Yield(Number(value))
  /\ value' = NoValue /\ UNCHANGED i

BeginNumber ==
  /\ More /\ value = NoValue /\ IsDigit(c)
  /\ value' = ValueOf(c)
  /\ GoOn

Space == More /\ value = NoValue /\ c = " " /\ GoOn /\ UNCHANGED value

Symbol ==
  /\ More /\ value = NoValue /\ ~IsDigit(c) /\ c /= " "
  /\ Yield(CASE c = ";" -> PrintToken [] c \in Operator -> Op(c) [] OTHER -> ErrorToken)
  /\ i' = i + 1 /\ UNCHANGED value

LastPrint ==
  /\ turn = "read" /\ i = Len(input) /\ value = NoValue /\ ~eof
  /\ token' = PrintToken /\ tokens' = Append(tokens, PrintToken) /\ eof' = TRUE
  /\ turn' = "parse" /\ UNCHANGED <<input, i, value, parseVars, out>>

\* read returns; so does parse, whose loop ends, and main.
Return ==
  /\ turn = "read" /\ eof
  /\ turn' = "end" /\ UNCHANGED <<input, readVars, parseVars, out>>

Read == MoreDigits \/ EndNumber \/ BeginNumber \/ Space \/ Symbol \/ LastPrint \/ Return

-----------------------------------------------------------------------------
\* The division of C++, which is towards zero.
Quotient(a, b) ==
  LET q == (IF a < 0 THEN -a ELSE a) \div (IF b < 0 THEN -b ELSE b)
  IN  IF (a < 0) = (b < 0) THEN q ELSE -q

Value(op, a, b) ==
  CASE op = "+" -> a + b
    [] op = "-" -> a - b
    [] op = "*" -> a * b
    [] op = "/" -> Quotient(a, b)

Leaf(n) == [tree |-> [n |-> n], value |-> n]

\* Faulty: the operands are exchanged.
NodeReversed(op, a, b) ==
  [tree |-> [op |-> op, a |-> a.tree, b |-> b.tree], value |-> Value(op, b.value, a.value)]

Node(op, a, b) == [tree |-> [op |-> op, a |-> a.tree, b |-> b.tree], value |-> Value(op, a.value, b.value)]

\* parse: one action for a token.
Reading(kind) == turn = "parse" /\ ~popping /\ token.kind = kind

Consumed ==
  /\ turn' = "read" /\ group' = Append(group, token)
  /\ UNCHANGED <<input, readVars, popping, out>>

Push ==
  /\ Reading("number")
  /\ stack' = Append(stack, Leaf(token.value))
  /\ Consumed

Size == Len(stack)
Divides0 == token.op = "/" /\ stack[Size].value = 0

Apply ==
  /\ Reading("operator") /\ Size >= 2 /\ ~Divides0
  /\ stack' = Append(SubSeq(stack, 1, Size - 2), Node(token.op, stack[Size - 1], stack[Size]))
  /\ Consumed

\* An exception ends parse: unhandled_exception reports it and returns. A
\* division by zero ends the program.
Fail ==
  /\ \/ Reading("error")
     \/ Reading("operator") /\ Size < 2
     \/ Reading("operator") /\ Size >= 2 /\ Divides0
  /\ turn' = "end" /\ UNCHANGED <<input, readVars, parseVars, out>>

YieldResult ==
  /\ Reading("print") /\ stack /= <<>>
  /\ turn' = "main" /\ popping' = TRUE
  /\ UNCHANGED <<input, readVars, stack, group, out>>

\* main prints the result and resumes parse, which pops it.
Show ==
  /\ turn = "main"
  /\ out' = Append(out, stack[Size])
  /\ turn' = "parse"
  /\ UNCHANGED <<input, readVars, parseVars>>

Pop ==
  /\ turn = "parse" /\ popping
  /\ stack' = Front(stack) /\ popping' = FALSE
  /\ UNCHANGED <<input, turn, readVars, group, out>>

NextToken ==
  /\ Reading("print") /\ stack = <<>>
  /\ turn' = "read" /\ group' = <<>> /\ out' = <<>>
  /\ UNCHANGED <<input, readVars, stack, popping>>

Done == turn = "end" /\ UNCHANGED vars

Next == Read \/ Push \/ Apply \/ Fail \/ YieldResult \/ Show \/ Pop \/ NextToken \/ Done

Spec == Init /\ [][Next]_vars

-----------------------------------------------------------------------------
\* The reference: a token is a longest run of digits or one other character
\* that is not a space, and the last one is a Print.
DigitRun(a, b) ==
  /\ \A k \in a .. b : IsDigit(input[k])
  /\ a > 1 => ~IsDigit(input[a - 1])
  /\ b < Len(input) => ~IsDigit(input[b + 1])

Spans ==
  LET P == 1 .. Len(input) IN
  {s \in P \X P : s[1] <= s[2] /\ DigitRun(s[1], s[2])}
    \cup {<<k, k>> : k \in {k \in P : ~IsDigit(input[k]) /\ input[k] /= " "}}

TokenOf(s) ==
  LET first == input[s[1]] IN
  CASE IsDigit(first) ->
         Number(FoldLeft(LAMBDA n, d : n * 10 + ValueOf(d), 0, SubSeq(input, s[1], s[2])))
    [] first = ";" -> PrintToken
    [] first \in Operator -> Op(first)
    [] OTHER -> ErrorToken

Tokens ==
  LET spans == SetToSortSeq(Spans, LAMBDA s, u : s[1] < u[1])
  IN  Append([k \in DOMAIN spans |-> TokenOf(spans[k])], PrintToken)

RECURSIVE Postfix(_), ValueOfTree(_)
Postfix(t) ==
  IF "n" \in DOMAIN t THEN <<Number(t.n)>>
  ELSE Postfix(t.a) \o Postfix(t.b) \o <<Op(t.op)>>
ValueOfTree(t) ==
  IF "n" \in DOMAIN t THEN t.n ELSE Value(t.op, ValueOfTree(t.a), ValueOfTree(t.b))

\* The tokens are those of the input; what is printed and what is still on the
\* stack are, in postfix form, what has been read since the last Print; each
\* value is that of its expression; and nothing is left at the end.
ExpressionsRight ==
  /\ turn = "parse" => IsPrefix(tokens, Tokens)
  /\ turn \in {"read", "parse"} /\ ~popping =>
       FlattenSeq([k \in 1 .. Len(stack \o out) |-> Postfix((stack \o Reverse(out))[k].tree)]) = group
  /\ \A k \in 1 .. Len(stack) : stack[k].value = ValueOfTree(stack[k].tree)
  /\ turn = "end" /\ eof /\ token = PrintToken => stack = <<>> /\ tokens = Tokens

=============================================================================
