---------------------------- MODULE Computations ----------------------------
(***************************************************************************)
(* Programs that only compute and whose models need no recursion, one at a *)
(* time: `demo` is the one that runs, the variables of the others stay as  *)
(* they are. ProcessStream.cpp is FrameParser, which this module extends.  *)
(* While a program of MCAlgorithms runs nothing happens here.              *)
(***************************************************************************)
EXTENDS FrameParser, Integers

CONSTANTS
  Word, MaxRank, MaxMove, Sizes, Widths,
  Lengths, Words, MaxSpaces, MaxText,
  Letters, MaxString, Ints, Half,
  Items, Collections, Turns

VARIABLES
  demo,
  i1, i2, thrown,
  size, m_n, m_current, m_next, m_acc, walk, shown,
  wc_phase, parts, made, s, sums,
  family, x, y, z,
  test, me_size, capacity, data, used, status, refused, memo, hints, sizes, resource, me_turn

rndVars == <<i1, i2, thrown>>
windowVars == <<size, m_n, m_current, m_next, m_acc, walk, shown>>
wordVars == <<wc_phase, parts, made, s, sums>>
orderVars == <<family, x, y, z>>
memoryVars == <<test, me_size, capacity, data, used, status, refused, memo, hints, sizes, resource, me_turn>>
computeVars == <<demo, vars, rndVars, windowVars, wordVars, orderVars, memoryVars>>

Random == INSTANCE RndView
Window == INSTANCE WindowFold
WordCounts == INSTANCE WordCount WITH phase <- wc_phase
Compared == INSTANCE Orders
Memories == INSTANCE Memory WITH size <- me_size, turn <- me_turn

ASSUME ComputationsAssumption ==
  /\ Lengths \subseteq Nat \ {0} /\ Words \subseteq Nat /\ {MaxSpaces, MaxText} \subseteq Nat
  /\ Letters \subseteq Int /\ MaxString \in Nat /\ Ints \subseteq Int /\ Half \in Nat \ {0}
  /\ {Word, MaxRank, MaxMove} \subseteq Nat /\ 0 < MaxRank /\ MaxRank < Word
  /\ Sizes \subseteq Nat /\ Widths \subseteq Nat \ {0}
  /\ Items \in 0 .. 1000 /\ {Collections, Turns} \subseteq Nat /\ 1 < Turns

Computing == {"frames", "random", "window", "words", "orders", "memory"}
Recursive == {"algebra", "expressions", "primes", "pipelines", "adaptors", "sorts"}

ComputeInit ==
  /\ demo \in Computing \cup Recursive
  /\ Init /\ Random!Init
  /\ Memories!Init /\ (demo /= "memory" => test = "collections")
  /\ IF demo = "window" THEN Window!Init
     ELSE /\ size = 0 /\ m_n = 1 /\ m_current = 0 /\ m_next = 0
          /\ m_acc = <<>> /\ walk = "forward" /\ shown = <<>>
  /\ IF demo = "words" THEN WordCounts!Init
     ELSE /\ wc_phase = "end" /\ made = -1
          /\ parts = <<>> /\ s = <<>> /\ sums = <<>>
  /\ IF demo = "orders" THEN Compared!Init
     ELSE family = "integers" /\ x = 0 /\ y = 0 /\ z = 0

InFrames(A) == demo = "frames" /\ A /\ UNCHANGED <<demo, rndVars, windowVars, wordVars, orderVars, memoryVars>>
InRandom(A) == demo = "random" /\ A /\ UNCHANGED <<demo, vars, windowVars, wordVars, orderVars, memoryVars>>
InWindow(A) == demo = "window" /\ A /\ UNCHANGED <<demo, vars, rndVars, wordVars, orderVars, memoryVars>>
InWords(A)  == demo = "words" /\ A /\ UNCHANGED <<demo, vars, rndVars, windowVars, orderVars, memoryVars>>
InMemory(A) == demo = "memory" /\ A /\ UNCHANGED <<demo, vars, rndVars, windowVars, wordVars, orderVars>>

ComputeNext ==
  \/ InFrames(Next)
  \/ InRandom(Random!Next)
  \/ InWindow(Window!Next)
  \/ InWords(WordCounts!Next)
  \/ InMemory(Memories!Next)
  \/ demo \in Recursive \cup {"orders"} /\ UNCHANGED computeVars

ComputeSpec == ComputeInit /\ [][ComputeNext]_computeVars

-----------------------------------------------------------------------------
\* The iterators of custom_rnd_view.hpp and of custom_window_fold_view.hpp show
\* what is at their position, whatever way they took to get there.
IteratorsRight ==
  /\ demo = "random" => Random!ShowsRank /\ Random!JumpsAgree
  /\ demo = "window" => Window!WindowsTile

\* parallel_word_count.hpp: the number of words does not depend on the order
\* and the grouping of the reductions.
WordsCounted == demo = "words" => WordCounts!WordsCounted

\* The classes that define == and <=> have the laws of an order, except for
\* nans; < of an int and an unsigned int is wrong exactly when one expects.
OrdersLawful == demo = "orders" => Compared!OrdersLawful

\* The counters of operator new, and what a monotonic buffer takes: what does
\* not come from the buffer, its size, and the pools that nobody uses.
MemoryRight == demo = "memory" => Memories!MemoryRight
=============================================================================
