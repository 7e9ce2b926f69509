----------------------------- MODULE Inspection -----------------------------
(***************************************************************************)
(* src/parallel-stl/parallel_insight.cpp: std::transform(par) calls copies *)
(* of a lambda whose Inspector notes the first and the last element that   *)
(* its copy has seen; ~Inspector adds the chunk to the entry of its thread *)
(* in id_map. How the library cuts the range, copies the lambda and picks  *)
(* threads is its choice. Sequence positions begin at 0.                   *)
(***************************************************************************)
EXTENDS Naturals, FiniteSetsExt

CONSTANTS
  Worker,   \* the threads of the library
  Size,     \* bound: the elements of v (100'000'000)
  Limit     \* numeric_limits<ptrdiff_t>::max()

VARIABLES
  begin,      \* the elements from here on are not given to a thread yet
  inspector,  \* of each thread: the copy it calls, with the rest of its chunk
  id_map,
  chunks      \* of each thread: the first and the end of its chunks so far

vars == <<begin, inspector, id_map, chunks>>

None == [pos |-> 0, end |-> 0, first |-> Limit, last |-> Limit, live |-> FALSE]

Init ==
  /\ begin = 0
  /\ inspector = [w \in Worker |-> None]
  /\ id_map = << >>
  /\ chunks = [w \in Worker |-> {}]

\* A thread copies the lambda for the next elements; the copy begins with no
\* first and no last. A copy that is not called for any is destroyed as well.
CopyFor(w, n) ==
  /\ ~inspector[w].live /\ begin + n <= Size
  /\ inspector' = [inspector EXCEPT ![w] = [None EXCEPT !.pos = begin, !.end = begin + n, !.live = TRUE]]
  /\ begin' = begin + n
  /\ chunks' = [chunks EXCEPT ![w] = IF n = 0 THEN @ ELSE @ \cup {<<begin, begin + n>>}]
  /\ UNCHANGED id_map

\* Faulty: the first element is noted again each time.
InspectFirst(w) ==
  /\ inspector[w].live /\ inspector[w].pos < inspector[w].end
  /\ LET pos == inspector[w].pos IN
       inspector' = [inspector EXCEPT ![w].first = pos, ![w].last = pos, ![w].pos = pos + 1]
  /\ UNCHANGED <<begin, id_map, chunks>>

Inspect(w) ==
  /\ inspector[w].live /\ inspector[w].pos < inspector[w].end
  /\ LET pos == inspector[w].pos IN
       inspector' = [inspector EXCEPT ![w].first = IF @ = Limit THEN pos ELSE @,
                                      ![w].last = pos, ![w].pos = pos + 1]
  /\ UNCHANGED <<begin, id_map, chunks>>

MinOf(a, b) == IF a < b THEN a ELSE b
MaxOf(a, b) == IF a < b THEN b ELSE a

\* Faulty: the entry of the thread is a new one each time.
AddOver(map, w, size) ==
  [x \in DOMAIN map \cup {w} |->
     IF x = w THEN [call_count |-> 1, min_size |-> size, max_size |-> size, cumul_size |-> size]
     ELSE map[x]]

\* insert() leaves an entry that is there; then the chunk is added to it.
Add(map, w, size) ==
  LET data == IF w \in DOMAIN map THEN map[w]
              ELSE [call_count |-> 0, min_size |-> Limit, max_size |-> 0, cumul_size |-> 0] IN
  [x \in DOMAIN map \cup {w} |->
     IF x = w THEN [call_count |-> data.call_count + 1,
                    min_size |-> MinOf(data.min_size, size),
                    max_size |-> MaxOf(data.max_size, size),
                    cumul_size |-> data.cumul_size + size]
     ELSE map[x]]

\* ~Inspector, under id_mutex.
Destroy(w) ==
  LET i == inspector[w] IN
  /\ i.live /\ i.pos = i.end
  /\ inspector' = [inspector EXCEPT ![w] = None]
  /\ id_map' = IF i.first /= i.last THEN Add(id_map, w, i.last - i.first + 1) ELSE id_map
  /\ UNCHANGED <<begin, chunks>>

\* The transform returns; main shows what is in id_map.
Ended == begin = Size /\ \A w \in Worker : ~inspector[w].live

Next ==
  \/ \E w \in Worker : (\E n \in 0 .. Size : CopyFor(w, n)) \/ Inspect(w) \/ Destroy(w)
  \/ Ended /\ UNCHANGED vars

Spec == Init /\ [][Next]_vars

-----------------------------------------------------------------------------
Entries == {id_map[w] : w \in DOMAIN id_map}

min_chunk_size == Min({d.min_size : d \in Entries})

\* As it is written: the smallest of the largest sizes.
max_chunk_size == Min({d.max_size : d \in Entries})

\* The calls of all entries, each one counted.
chunk_count == Cardinality(UNION {{w} \X (1 .. id_map[w].call_count) : w \in DOMAIN id_map})

Length(chunk) == chunk[2] - chunk[1]

\* The elements of a set of chunks.
ElementsOf(C) == UNION {chunk[1] .. chunk[2] - 1 : chunk \in C}

\* The entry of w tells of the chunks C and of no other.
Tells(map, w, C) ==
  IF C = {} THEN w \notin DOMAIN map
  ELSE /\ w \in DOMAIN map
       /\ map[w].call_count = Cardinality(C)
       /\ map[w].cumul_size = Cardinality(ElementsOf(C))
       /\ \A chunk \in C : Length(chunk) \in map[w].min_size .. map[w].max_size
       /\ \E chunk \in C : Length(chunk) = map[w].min_size
       /\ \E chunk \in C : Length(chunk) = map[w].max_size

\* What id_map tells when the transform has returned: of each thread all its
\* chunks, but those of one element, for which first and last are equal as
\* they are for a copy that saw nothing. So there is no entry without a chunk,
\* the division by chunk_count is safe, and no thread had a smaller one than
\* is shown; the largest that is shown is one that every thread has reached.
Inspected ==
  Ended =>
    /\ \A w \in Worker : Tells(id_map, w, {chunk \in chunks[w] : Length(chunk) >= 2})
    /\ Entries /= {} =>
         /\ chunk_count > 0
         /\ min_chunk_size >= 2
         /\ \A w \in DOMAIN id_map : \E chunk \in chunks[w] : Length(chunk) >= max_chunk_size
=============================================================================
