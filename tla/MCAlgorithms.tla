---------------------------- MODULE MCAlgorithms ---------------------------
(* The programs that only compute: those of Computations, which this module  *)
(* extends, and those whose models recurse; one at a time.                   *)
EXTENDS Computations

CONSTANTS
  NoValue, MaxOps, MaxLength,
  Horizon, MaxInput, Variable, Argument, Moved, Longest,
  Keys, MaxItems, MaxPersons, Top

MCByte == {"H", "S", "x"}
MCPayload == UNION {[1 .. n -> MCByte] : n \in 0 .. 2}
MCChar == {"1", "0", "-", "/", " ", ";", "."}

\* Two functions on the field of five elements.
MCsine == [v \in 0 .. 4 |-> (v * v + 1) % 5]
MCcosine == [v \in 0 .. 4 |-> (2 * v + 3) % 5]

\* The small numbers, and those next to squares and to powers of two.
MCNumber ==
  0 .. 3000
    \cup UNION {{q * q - 1, q * q, q * q + 1} :
                 q \in {1009, 2039, 4093, 4099, 8191, 16381, 16411, 23167, 32749}}
    \cup {2 ^ k - 1 : k \in 11 .. 30}

VARIABLES
  al_f, al_t, al_ops,
  input, ex_turn, i, value, token, eof, stack, popping, out, tokens, group,
  N,
  vp_program, vp_pos, vp_c, vp_rank, vp_shown,
  closure, meaning, moved, range,
  items, persons

algebraVars == <<al_f, al_t, al_ops>>
expressionVars == <<input, ex_turn, i, value, token, eof, stack, popping, out, tokens, group>>
pipelineVars == <<vp_program, vp_pos, vp_c, vp_rank, vp_shown>>
adaptorVars == <<closure, meaning, moved, range>>
onceVars == <<N, items, persons>>
demoVars == <<computeVars, algebraVars, expressionVars, pipelineVars, adaptorVars, onceVars>>

Algebra == INSTANCE FunctionAlgebra WITH
  p <- 5, sine <- MCsine, cosine <- MCcosine, f <- al_f, t <- al_t, ops <- al_ops
Expressions == INSTANCE ExpressionParser WITH Char <- MCChar, turn <- ex_turn
Prime == INSTANCE Primes
Pipelines == INSTANCE ViewPipeline WITH
  program <- vp_program, pos <- vp_pos, c <- vp_c, rank <- vp_rank, shown <- vp_shown
Adaptors == INSTANCE RangeAdaptors
Sorts == INSTANCE SortPrograms

MCInit ==
  /\ ComputeInit /\ Algebra!Init /\ Adaptors!Init
  /\ IF demo = "expressions" THEN Expressions!Init ELSE input = <<>> /\ Expressions!Init
  /\ N \in IF demo = "primes" THEN MCNumber ELSE {0}
  /\ IF demo = "pipelines" THEN Pipelines!Init
     ELSE /\ vp_program = Pipelines!Program(<<>>, <<>>, 0)
          /\ vp_pos = 0 /\ vp_c = 0 /\ vp_rank = 0 /\ vp_shown = <<>>
  /\ IF demo = "sorts" THEN Sorts!Init ELSE items = <<>> /\ persons = <<>>

InAlgebra(A) ==
  demo = "algebra" /\ A /\ UNCHANGED <<computeVars, expressionVars, pipelineVars, adaptorVars, onceVars>>
InExpressions(A) ==
  demo = "expressions" /\ A /\ UNCHANGED <<computeVars, algebraVars, pipelineVars, adaptorVars, onceVars>>
InPipelines(A) ==
  demo = "pipelines" /\ A /\ UNCHANGED <<computeVars, algebraVars, expressionVars, adaptorVars, onceVars>>
InAdaptors(A) ==
  demo = "adaptors" /\ A /\ UNCHANGED <<computeVars, algebraVars, expressionVars, pipelineVars, onceVars>>

MCNext ==
  \/ InAlgebra(Algebra!Next)
  \/ InExpressions(Expressions!Next)
  \/ InPipelines(Pipelines!Next)
  \/ InAdaptors(Adaptors!Next)
  \/ /\ demo \in Computing \cup {"primes", "sorts"} /\ ComputeNext
     /\ UNCHANGED <<algebraVars, expressionVars, pipelineVars, adaptorVars, onceVars>>

MCSpec == MCInit /\ [][MCNext]_demoVars

-----------------------------------------------------------------------------
\* algebra.cpp and algebraT.cpp: diff() is the derivative, and the function
\* that the compiler has simplified is the same function.
Agree == demo = "algebra" => Algebra!Agree

\* lexer-parser.cpp: what is printed, with what is on the stack, stands for
\* the tokens of the input.
ExpressionsRight == demo = "expressions" => Expressions!ExpressionsRight

\* prime_number_concept.cpp: both tests tell the primes from 3 on.
TellsPrimes == demo = "primes" => Prime!TellsPrimes(N)

\* The ranges: a view shows what is at the position of its iterator, whatever
\* way it took to get there; so does a pipeline of views, and one that is
\* composed of closures is the one that was written.
ViewsRight ==
  /\ IteratorsRight
  /\ demo = "pipelines" => Pipelines!PipelineRight
  /\ demo = "adaptors" => Adaptors!AsWritten

\* The sorts sort and lose nothing; the questions about persons have the same
\* answer with iterators as with ranges.
Arranged == demo = "sorts" => Sorts!Arranged
=============================================================================
