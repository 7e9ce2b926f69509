------------------------------- MODULE Memory -------------------------------
(***************************************************************************)
(* The programs of src/pmr/: a container takes its memory from operator    *)
(* new, which TrackNew.hpp counts, or from a monotonic buffer, which never *)
(* takes anything back and passes what does not fit to another resource.   *)
(* Elements may take memory of their own. In pool--unittest.cpp many       *)
(* containers take and give back in turn. The library's containers are     *)
(* those of libstdc++; sizes are in bytes.                                 *)
(***************************************************************************)
EXTENDS Integers, Sequences, FiniteSets

CONSTANTS
  Items,       \* the elements of a test (1000)
  Collections, \* bound: the number of collections of pool--unittest.cpp (10)
  Turns        \* bound: its turns (10000)

\* Where the memory comes from: "new", or "pool" for the resource. What does
\* not fit in the buffer is refused, or taken from new.
Test(outer, inner, element, text, items, buffer, upstream) ==
  [outer |-> outer, inner |-> inner, element |-> element, text |-> text,
   items |-> items, buffer |-> buffer, upstream |-> upstream]

\* A text of 52 letters and its end; a std::string has 32 bytes, a
\* std::pmr::string 40, a node of a list 24.
test_body(outer, inner, element) == Test(outer, inner, element, 53, Items, 200000, "null")

\* monotonic--unittest.cpp
StringTests ==
  [std_string_in_vector |-> test_body("new", "new", 32),
   std_string_in_pmr_vector |-> test_body("pool", "new", 32),
   pmr_string_in_pmr_vector |-> test_body("pool", "pool", 40)]

\* introspection.cpp: a vector of bytes.
Introspection == Test("pool", "none", 1, 0, 5, 96, "new")

\* container--benchmark.cpp: twenty integers.
Benchmarks ==
  [PMRList |-> Test("none", "pool", 0, 24, 20, 2048, "new"),
   standardList |-> Test("none", "new", 0, 24, 20, 2048, "new"),
   PMRVector |-> Test("pool", "none", 4, 0, 20, 2048, "new"),
   standardVector |-> Test("new", "none", 4, 0, 20, 2048, "new")]

Tests == DOMAIN StringTests \cup {"introspection"} \cup DOMAIN Benchmarks

VARIABLES
  test,
  size, capacity, data,   \* of the vector; data is its place in the buffer
  used,                   \* of the buffer
  status,                 \* TrackNew::m_status: numAlloc, sumSize
  refused,                \* bad_alloc was thrown
  memo,                   \* of introspection's hint
  hints,                  \* what hint() has said
  sizes,                  \* pool--unittest.cpp: the size of each collection
  resource,               \* and where its memory comes from
  turn

vars == <<test, size, capacity, data, used, status, refused, memo, hints, sizes, resource, turn>>

None == -1
Collection == 1 .. Collections

\* The one that runs.
T ==
  CASE test \in DOMAIN StringTests -> StringTests[test]
    [] test = "introspection" -> Introspection
    [] test \in DOMAIN Benchmarks -> Benchmarks[test]

\* A benchmark gives the vector its twenty elements at once.
AtOnce == test \in {"PMRVector", "standardVector"}

Init ==
  /\ test \in Tests \cup {"collections"}
  /\ size = 0 /\ capacity = 0 /\ data = None /\ used = 0
  /\ status = [numAlloc |-> 0, sumSize |-> 0]
  /\ refused = FALSE
  /\ memo = None /\ hints = << >>
  /\ sizes = [n \in Collection |-> 0]
  /\ resource = [n \in Collection |-> "new"]
  /\ turn = 0

-----------------------------------------------------------------------------
\* What there is to take from: [used, status, refused].
Before == [used |-> used, status |-> status, refused |-> refused]

\* TrackNew::allocate
allocate(m, bytes) ==
  [m EXCEPT !.status = [numAlloc |-> @.numAlloc + 1, sumSize |-> @.sumSize + bytes]]

Aligned(place, align) == ((place + align - 1) \div align) * align

\* The buffer of monotonic_buffer_resource, or its upstream.
Monotonic(m, bytes, align) ==
  LET place == Aligned(m.used, align) IN
  IF place + bytes <= T.buffer THEN [m EXCEPT !.used = place + bytes]
  ELSE IF T.upstream = "null" THEN [m EXCEPT !.refused = TRUE] ELSE allocate(m, bytes)

Take(m, from, bytes, align) ==
  CASE from = "new" -> allocate(m, bytes)
    [] from = "pool" -> Monotonic(m, bytes, align)
    [] from = "none" -> m

\* Faulty: one more place.
GrownOne == capacity + 1

\* The next capacity.
Grown == IF AtOnce THEN T.items ELSE IF capacity = 0 THEN 1 ELSE 2 * capacity

\* emplace_back: new storage if there is no room, to which the elements are
\* moved, with the memory of their own; then the memory of the new element.
\* The old storage goes back, which gives the buffer nothing.
Emplace ==
  /\ test \in Tests /\ size < T.items /\ ~refused
  /\ test = "introspection" => Len(hints) > size
  /\ LET grows == T.outer /= "none" /\ size = capacity
         align == IF T.element % 8 = 0 THEN 8 ELSE T.element
         m == IF grows THEN Take(Before, T.outer, Grown * T.element, align) ELSE Before
         n == Take(m, T.inner, T.text, IF T.text = 24 THEN 8 ELSE 1)
     IN  /\ used' = n.used /\ status' = n.status /\ refused' = n.refused
         /\ capacity' = IF grows THEN Grown ELSE capacity
         /\ data' = IF grows THEN m.used - Grown * T.element ELSE data
         /\ size' = IF n.refused THEN size ELSE IF AtOnce THEN T.items ELSE size + 1
  /\ UNCHANGED <<test, memo, hints, sizes, resource, turn>>

\* introspection.cpp, the hint before and after each insert: has the data moved?
Hint ==
  /\ test = "introspection" /\ Len(hints) = size
  /\ hints' = Append(hints, size > 0 /\ memo /= data)
  /\ memo' = IF size > 0 /\ memo /= data THEN data ELSE memo
  /\ UNCHANGED <<test, size, capacity, data, used, status, refused, sizes, resource, turn>>

-----------------------------------------------------------------------------
\* Faulty: the allocator goes with the elements.
AssignedAllocator(old, given) == given

\* The move assignment of a container with a polymorphic_allocator: it keeps
\* its own resource, and moves the elements one by one if they differ.
Assigned(old, given) == old

\* pool--unittest.cpp, c = build_collection(i): every collection with the pool
\* of i, which is not incremented.
Build ==
  /\ test = "collections" /\ turn = 0
  /\ resource' = [n \in Collection |-> Assigned(resource[n], "pool 0")]
  /\ turn' = 1
  /\ UNCHANGED <<test, size, capacity, data, used, status, refused, memo, hints, sizes>>

\* Faulty: a collection of any size gives.
MayEraseAny(n) == sizes[n] > 0

\* A collection of ten elements may lose its first.
MayErase(n) == sizes[n] >= 10

\* A turn of the outer loop: the engine decides for each collection.
Turn ==
  /\ test = "collections" /\ turn \in 1 .. Turns
  /\ \E erased \in SUBSET {n \in Collection : MayErase(n)} :
       sizes' = [n \in Collection |-> IF n \in erased THEN sizes[n] - 1 ELSE sizes[n] + 1]
  /\ turn' = turn + 1
  /\ UNCHANGED <<test, size, capacity, data, used, status, refused, memo, hints, resource>>

\* The jumps between neighbours: one less than the elements. The median reads
\* the middle, or the two of the middle; the mean divides by their number.
Jumps(n) == sizes[n] - 1
MiddleOfJumps(n) == IF Jumps(n) % 2 = 0 THEN {Jumps(n) \div 2 - 1, Jumps(n) \div 2} ELSE {Jumps(n) \div 2}

Ended ==
  /\ IF test = "collections" THEN turn > Turns
     ELSE (size = T.items \/ refused) /\ (test = "introspection" => Len(hints) > size)
  /\ UNCHANGED vars

Next == Emplace \/ Hint \/ Build \/ Turn \/ Ended

Spec == Init /\ [][Next]_vars

-----------------------------------------------------------------------------
\* The capacities of a vector that doubles, up to that for 1000 elements.
Doubles == {1, 2, 4, 8, 16, 32, 64, 128, 256, 512, 1024}

\* The bytes and the number of the storages that a vector has had: with the
\* doubling, less than four times what it needs.
Storage == IF capacity = 0 THEN 0 ELSE T.element * (IF AtOnce THEN capacity ELSE 2 * capacity - 1)
Storages ==
  IF T.outer = "none" \/ size = 0 THEN 0
  ELSE IF AtOnce THEN 1 ELSE Cardinality({c \in Doubles : c < 2 * size})

\* TrackNew counts what the container and its elements take from new, each
\* time, and nothing else: a polymorphic container of plain strings still takes
\* every string from new, one of polymorphic strings takes nothing.
NewCounted ==
  test \in Tests =>
    LET own == IF T.inner = "new" THEN size ELSE 0 IN
    /\ status.numAlloc = own + (IF T.outer = "new" THEN Storages ELSE 0)
    /\ status.sumSize = T.text * own + (IF T.outer = "new" THEN Storage ELSE 0)

\* No storage is ever taken back, and yet the buffers are large enough for all
\* the storages that a container has grown through: the resource behind the
\* buffer, which would refuse or take from new, is never asked, and the last
\* storage is in the buffer.
BufferFits ==
  test \in Tests =>
    /\ ~refused
    /\ T.outer = "pool" =>
         /\ size <= capacity /\ (capacity < 2 * size \/ size = 0)
         /\ data + capacity * T.element <= used /\ used <= T.buffer

\* The hint tells the inserts at which the vector has moved, since the address
\* of an old storage is never given again.
HintsTell ==
  test = "introspection" =>
    \A k \in 1 .. Len(hints) : hints[k] <=> k = 2 \/ k - 2 \in Doubles

\* pool--unittest.cpp: the collections keep the resource that they were made
\* with, so that the pools are never asked; and after the turns each one has
\* jumps to take the median and the mean of.
PoolsIdle ==
  test = "collections" =>
    /\ \A n \in Collection : resource[n] = "new"
    /\ turn > Turns =>
         \A n \in Collection : Jumps(n) > 0 /\ \A j \in MiddleOfJumps(n) : j \in 0 .. Jumps(n) - 1

MemoryRight == NewCounted /\ BufferFits /\ HintsTell /\ PoolsIdle
=============================================================================
