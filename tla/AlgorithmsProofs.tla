-------------------------- MODULE AlgorithmsProofs -------------------------
(***************************************************************************)
(* Frames in a byte stream: between two bytes the place where Parse is     *)
(* suspended is the one the sender's phase calls for and its frame is the  *)
(* part of the payload that was sent; while Parse holds a byte it is one   *)
(* step behind. Words: a reduction keeps the sum of the words of the texts,*)
(* or of the numbers, that it has. Orders: each comparison of one member   *)
(* has the laws of an order, and a comparison by one and then by another   *)
(* keeps the laws of both. Iterators: where a walk of n steps ends, and    *)
(* that what a walk over windows has shown is a stretch of the range.      *)
(* Memory: how large the storages of a vector are that doubles, and what   *)
(* has been taken from a buffer at most when it has a given capacity.      *)
(***************************************************************************)
EXTENDS Computations, TLAPS, FiniteSetTheorems, SequenceTheorems, WellFoundedInduction

FrameTypes ==
  /\ phase \in {"idle", "marker", "body", "escape", "closing", "garbled"}
  /\ payload \in Seq(Byte) /\ at \in 0 .. Len(payload)
  /\ sent \in Seq(Seq(Byte)) /\ handled \in Seq(Seq(Byte))
  /\ turn \in {"stream", "parse", "take"}
  /\ pc \in {"start", "marker", "body", "escaped", "yielded"}
  /\ frame \in Seq(Byte) /\ mValue \in Seq(Byte)
  /\ mRecentSignal \in Byte \cup {NoSignal}

\* frame is the first n bytes of payload.
Copied(n) == Len(frame) = n /\ \A k \in 1 .. n : frame[k] = payload[k]

\* Parse has taken every byte.
Met ==
  /\ mRecentSignal = NoSignal
  /\ phase = "idle" => pc \in {"start", "yielded"}
  /\ phase = "marker" => pc = "marker" /\ at = 0 /\ Copied(0)
  /\ phase = "body" => pc = "body" /\ Copied(at)
  /\ phase = "escape" => pc = "escaped" /\ Copied(at) /\ at < Len(payload) /\ payload[at + 1] = ESC
  /\ phase = "closing" => pc = "escaped" /\ Copied(at) /\ at = Len(payload)
  /\ phase = "garbled" => pc \in {"marker", "escaped"}

\* Parse holds the last byte.
Behind ==
  /\ mRecentSignal \in Byte
  /\ phase = "idle" =>
       \/ mRecentSignal /= ESC /\ pc \in {"start", "yielded"}
       \/ mRecentSignal \notin {ESC, SOF} /\ pc \in {"marker", "escaped"}
       \/ mRecentSignal = SOF /\ pc = "escaped" /\ Copied(Len(payload))
  /\ phase = "marker" => mRecentSignal = ESC /\ at = 0 /\ pc \in {"start", "yielded"}
  /\ phase = "body" =>
       \/ mRecentSignal = SOF /\ pc = "marker" /\ at = 0 /\ Copied(0)
       \/ /\ at > 0 /\ mRecentSignal = payload[at] /\ Copied(at - 1)
          /\ \/ mRecentSignal /= ESC /\ pc = "body"
             \/ mRecentSignal = ESC /\ pc = "escaped"
  /\ phase = "escape" =>
       mRecentSignal = ESC /\ pc = "body" /\ Copied(at) /\ at < Len(payload) /\ payload[at + 1] = ESC
  /\ phase = "closing" => mRecentSignal = ESC /\ pc = "body" /\ Copied(at) /\ at = Len(payload)
  /\ phase = "garbled" => mRecentSignal = ESC /\ pc \in {"start", "yielded", "body"}

Holds == turn = "parse" /\ mRecentSignal /= NoSignal
InStep == IF Holds THEN Behind ELSE Met

With(frames, m) == IF m = <<>> THEN frames ELSE Append(frames, m)

\* What has been sent has been handled, or Parse is about to yield it, or has.
Accounted ==
  /\ turn /= "take" => mValue = <<>>
  /\ turn = "take" => sent = With(handled, mValue)
  /\ turn /= "take" =>
       sent = IF Holds /\ mRecentSignal = SOF /\ pc = "escaped"
              THEN With(handled, payload) ELSE handled

FrameInv == FrameTypes /\ InStep /\ Accounted

-----------------------------------------------------------------------------
USE DEF Holds

LEMMA FrameInit == Init => FrameInv
  BY BytesAssumption DEF Init, FrameInv, FrameTypes, InStep, Met, Copied, Accounted

\* A byte that is sent finds Parse between two bytes, and then Parse holds it.
LEMMA SendHolds ==
  ASSUME FrameInv, NEW b \in Byte, SendSignal(b)
  PROVE  /\ Met /\ mValue = <<>> /\ mValue' = mValue /\ sent = handled /\ handled' = handled
         /\ turn' = "parse" /\ mRecentSignal' = b /\ Holds' /\ pc' = pc /\ frame' = frame
  BY BytesAssumption DEF FrameInv, FrameTypes, InStep, Met, Accounted, SendSignal, parseVars

LEMMA SenderStep == FrameInv /\ Sender => FrameInv'
<1> SUFFICES ASSUME FrameInv, Sender PROVE FrameInv'
  OBVIOUS
<1> USE BytesAssumption, SendHolds DEF senderVars
<1>1. CASE Noise
  <2>1. FrameTypes'
    BY <1>1 DEF FrameInv, FrameTypes, Noise
  <2>2. Behind'
    BY <1>1 DEF FrameInv, FrameTypes, Met, Behind, Copied, Noise
  <2>3. Accounted'
    BY <1>1 DEF FrameInv, FrameTypes, Accounted, Met, Noise
  <2> QED
    BY <1>1, <2>1, <2>2, <2>3 DEF FrameInv, InStep, Noise
<1>2. CASE Open
  <2>1. FrameTypes'
    BY <1>2 DEF FrameInv, FrameTypes, Open
  <2>2. Behind'
    BY <1>2 DEF FrameInv, FrameTypes, Met, Behind, Copied, Open
  <2>3. Accounted'
    BY <1>2 DEF FrameInv, FrameTypes, Accounted, Met, Open
  <2> QED
    BY <1>2, <2>1, <2>2, <2>3 DEF FrameInv, InStep, Open
<1>3. CASE Marker
  <2>1. FrameTypes'
    BY <1>3 DEF FrameInv, FrameTypes, Marker
  <2>2. Behind'
    BY <1>3 DEF FrameInv, FrameTypes, Met, Behind, Copied, Marker
  <2>3. Accounted'
    BY <1>3 DEF FrameInv, FrameTypes, Accounted, Met, Marker
  <2> QED
    BY <1>3, <2>1, <2>2, <2>3 DEF FrameInv, InStep, Marker
<1>4. CASE Plain
  <2>0. payload[at + 1] \in Byte
    BY <1>4 DEF FrameInv, FrameTypes, Plain
  <2>1. FrameTypes'
    BY <1>4 DEF FrameInv, FrameTypes, Plain
  <2>2. Behind'
    BY <1>4 DEF FrameInv, FrameTypes, Met, Behind, Copied, Plain
  <2>3. Accounted'
    BY <1>4 DEF FrameInv, FrameTypes, Accounted, Met, Plain
  <2> QED
    BY <1>4, <2>0, <2>1, <2>2, <2>3 DEF FrameInv, InStep, Plain
<1>5. CASE Escape
  <2>1. FrameTypes'
    BY <1>5 DEF FrameInv, FrameTypes, Escape
  <2>2. Behind'
    BY <1>5 DEF FrameInv, FrameTypes, Met, Behind, Copied, Escape
  <2>3. Accounted'
    BY <1>5 DEF FrameInv, FrameTypes, Accounted, Met, Escape
  <2> QED
    BY <1>5, <2>1, <2>2, <2>3 DEF FrameInv, InStep, Escape
<1>6. CASE Escaped
  <2>1. FrameTypes'
    BY <1>6 DEF FrameInv, FrameTypes, Met, Escaped
  <2>2. Behind'
    BY <1>6 DEF FrameInv, FrameTypes, Met, Behind, Copied, Escaped
  <2>3. Accounted'
    BY <1>6 DEF FrameInv, FrameTypes, Accounted, Met, Escaped
  <2> QED
    BY <1>6, <2>1, <2>2, <2>3 DEF FrameInv, InStep, Escaped
<1>7. CASE Close
  <2>1. FrameTypes'
    BY <1>7 DEF FrameInv, FrameTypes, Close
  <2>2. Behind'
    BY <1>7 DEF FrameInv, FrameTypes, Met, Behind, Copied, Close
  <2>3. Accounted'
    BY <1>7 DEF FrameInv, FrameTypes, Accounted, Met, Close
  <2> QED
    BY <1>7, <2>1, <2>2, <2>3 DEF FrameInv, InStep, Close
<1>8. CASE Closed
  <2>1. FrameTypes'
    BY <1>8 DEF FrameInv, FrameTypes, Closed
  <2>2. Behind'
    BY <1>8 DEF FrameInv, FrameTypes, Met, Behind, Copied, Closed
  <2>3. Accounted'
    BY <1>8 DEF FrameInv, FrameTypes, Accounted, With, Met, Closed
  <2> QED
    BY <1>8, <2>1, <2>2, <2>3 DEF FrameInv, InStep, Closed
<1>9. CASE Garble
  <2>1. FrameTypes'
    BY <1>9 DEF FrameInv, FrameTypes, Garble
  <2>2. Behind'
    BY <1>9 DEF FrameInv, FrameTypes, Met, Behind, Copied, Garble
  <2>3. Accounted'
    BY <1>9 DEF FrameInv, FrameTypes, Accounted, Met, Garble
  <2> QED
    BY <1>9, <2>1, <2>2, <2>3 DEF FrameInv, InStep, Garble
<1>10. CASE Garbled
  <2>1. FrameTypes'
    BY <1>10 DEF FrameInv, FrameTypes, Garbled
  <2>2. Behind'
    BY <1>10 DEF FrameInv, FrameTypes, Met, Behind, Copied, Garbled
  <2>3. Accounted'
    BY <1>10 DEF FrameInv, FrameTypes, Accounted, Met, Garbled
  <2> QED
    BY <1>10, <2>1, <2>2, <2>3 DEF FrameInv, InStep, Garbled
<1> QED
  BY <1>1, <1>2, <1>3, <1>4, <1>5, <1>6, <1>7, <1>8, <1>9, <1>10 DEF Sender

\* A frame that is as long as the payload and agrees with it is the payload.
LEMMA CopiedAll == FrameTypes /\ Copied(Len(payload)) => frame = payload
  BY DEF FrameTypes, Copied

LEMMA ParseStep == FrameInv /\ Parse => FrameInv'
<1> SUFFICES ASSUME FrameInv, Parse PROVE FrameInv'
  OBVIOUS
<1> USE BytesAssumption DEF senderVars
<1>1. CASE Suspend
  BY <1>1 DEF FrameInv, FrameTypes, InStep, Met, Copied, Accounted, With, Suspend, parseVars
<1>2. CASE AwaitStart
  <2>1. FrameTypes'
    BY <1>2 DEF FrameInv, FrameTypes, AwaitStart, Await, Take
  <2>2. Met'
    BY <1>2 DEF FrameInv, FrameTypes, InStep, Behind, Met, Copied, AwaitStart, Await, Take
  <2>3. Accounted'
    BY <1>2 DEF FrameInv, FrameTypes, Accounted, AwaitStart, Await, Take
  <2> QED
    BY <1>2, <2>1, <2>2, <2>3 DEF FrameInv, InStep, Met
<1>3. CASE AwaitMarker
  <2>1. FrameTypes'
    BY <1>3 DEF FrameInv, FrameTypes, AwaitMarker, Await, Take
  <2>2. Met'
    BY <1>3 DEF FrameInv, FrameTypes, InStep, Behind, Met, Copied, AwaitMarker, Await, Take
  <2>3. Accounted'
    BY <1>3 DEF FrameInv, FrameTypes, Accounted, AwaitMarker, Await, Take
  <2> QED
    BY <1>3, <2>1, <2>2, <2>3 DEF FrameInv, InStep, Met
<1>4. CASE AwaitBody
  <2>1. CASE mRecentSignal = ESC
    <3>1. FrameTypes'
      BY <1>4, <2>1 DEF FrameInv, FrameTypes, AwaitBody, Await, Take
    <3>2. Met'
      BY <1>4, <2>1 DEF FrameInv, FrameTypes, InStep, Behind, Met, Copied, AwaitBody, Await, Take
    <3> QED
      BY <1>4, <2>1, <3>1, <3>2 DEF FrameInv, InStep, Met, Accounted, AwaitBody, Await, Take
  <2>2. CASE mRecentSignal /= ESC
    <3>1. frame' = Append(frame, mRecentSignal) /\ mRecentSignal \in Byte /\ frame \in Seq(Byte)
      BY <1>4, <2>2 DEF FrameInv, FrameTypes, AwaitBody, Await
    <3>2. /\ frame' \in Seq(Byte) /\ Len(frame') = Len(frame) + 1
          /\ frame'[Len(frame) + 1] = mRecentSignal /\ \A k \in 1 .. Len(frame) : frame'[k] = frame[k]
      BY <3>1
    <3>3. FrameTypes'
      BY <1>4, <2>2, <3>2 DEF FrameInv, FrameTypes, AwaitBody, Await, Take
    <3>4. \/ phase = "body" /\ at > 0 /\ payload[at] = mRecentSignal /\ Copied(at - 1)
          \/ phase \notin {"body", "marker", "escape", "closing"}
      BY <1>4, <2>2 DEF FrameInv, FrameTypes, InStep, Behind, AwaitBody, Await
    <3>5. Met'
      BY <1>4, <2>2, <3>2, <3>4 DEF FrameInv, FrameTypes, InStep, Behind, Met, Copied, AwaitBody, Await, Take
    <3> QED
      BY <1>4, <2>2, <3>3, <3>5 DEF FrameInv, InStep, Met, Accounted, AwaitBody, Await, Take
  <2> QED
    BY <2>1, <2>2
<1>5. CASE AwaitEscaped
  <2>1. CASE mRecentSignal /= ESC
    <3>1. FrameTypes'
      BY <1>5, <2>1 DEF FrameInv, FrameTypes, AwaitEscaped, Await, Take
    <3>2. Met'
      BY <1>5, <2>1 DEF FrameInv, FrameTypes, InStep, Behind, Met, Copied, AwaitEscaped, Await, Take
    <3> QED
      BY <1>5, <2>1, <3>1, <3>2 DEF FrameInv, InStep, Met, Accounted, AwaitEscaped, Await, Take
  <2>2. CASE mRecentSignal = ESC
    <3>1. frame' = Append(frame, ESC) /\ ESC \in Byte /\ frame \in Seq(Byte)
      BY <1>5, <2>2 DEF FrameInv, FrameTypes, AwaitEscaped, Await
    <3>2. /\ frame' \in Seq(Byte) /\ Len(frame') = Len(frame) + 1
          /\ frame'[Len(frame) + 1] = ESC /\ \A k \in 1 .. Len(frame) : frame'[k] = frame[k]
      BY <3>1
    <3>3. FrameTypes'
      BY <1>5, <2>2, <3>2 DEF FrameInv, FrameTypes, AwaitEscaped, Await, Take
    <3>4. \/ phase = "body" /\ at > 0 /\ payload[at] = ESC /\ Copied(at - 1)
          \/ phase \notin {"body", "marker", "escape", "closing"}
      BY <1>5, <2>2 DEF FrameInv, FrameTypes, InStep, Behind, AwaitEscaped, Await
    <3>5. Met'
      BY <1>5, <2>2, <3>2, <3>4 DEF FrameInv, FrameTypes, InStep, Behind, Met, Copied, AwaitEscaped, Await, Take
    <3> QED
      BY <1>5, <2>2, <3>3, <3>5 DEF FrameInv, InStep, Met, Accounted, AwaitEscaped, Await, Take
  <2> QED
    BY <2>1, <2>2
<1>6. CASE YieldFrame
  <2>1. FrameTypes'
    BY <1>6 DEF FrameInv, FrameTypes, YieldFrame, Await
  <2>2. phase = "idle" /\ frame = payload
    BY <1>6, CopiedAll DEF FrameInv, FrameTypes, InStep, Behind, YieldFrame, Await
  <2>3. Met'
    BY <1>6, <2>2 DEF Met, YieldFrame
  <2>4. Accounted'
    BY <1>6, <2>2 DEF FrameInv, FrameTypes, Accounted, With, YieldFrame, Await
  <2> QED
    BY <1>6, <2>1, <2>3, <2>4 DEF FrameInv, InStep, Met, YieldFrame
<1>7. CASE AfterYield
  BY <1>7 DEF FrameInv, FrameTypes, InStep, Met, Behind, Copied, Accounted, With, AfterYield
<1> QED
  BY <1>1, <1>2, <1>3, <1>4, <1>5, <1>6, <1>7 DEF Parse

LEMMA TakeFrameStep == FrameInv /\ TakeFrame => FrameInv'
<1> SUFFICES ASSUME FrameInv, TakeFrame PROVE FrameInv'
  OBVIOUS
<1> USE DEF senderVars, parseVars
<1>1. FrameTypes'
  BY DEF FrameInv, FrameTypes, TakeFrame
<1>2. InStep'
  BY DEF FrameInv, InStep, Met, Copied, TakeFrame
<1>3. Accounted'
  BY DEF FrameInv, Accounted, With, TakeFrame
<1> QED
  BY <1>1, <1>2, <1>3 DEF FrameInv

-----------------------------------------------------------------------------
\* ProcessStream.cpp: whatever the payloads and the noise between the frames,
\* each frame that is not empty is handled once, in order, and complete.
THEOREM EveryFrameDelivered == ComputeSpec => []FramesDelivered
<1>1. FrameInv /\ [Next]_vars => FrameInv'
  <2>1. FrameInv /\ UNCHANGED vars => FrameInv'
    BY DEF FrameInv, FrameTypes, InStep, Met, Behind, Copied, Accounted, With, vars, senderVars, parseVars
  <2> QED
    BY <2>1, SenderStep, ParseStep, TakeFrameStep DEF Next
<1>2. [ComputeNext]_computeVars => [Next]_vars
  BY DEF ComputeNext, computeVars, InFrames, InRandom, InWindow, InWords, InMemory
<1>3. FrameInv => FramesDelivered
  BY DEF FrameInv, InStep, Met, Accounted, FramesDelivered
<1>4. ComputeInit => FrameInv
  BY FrameInit DEF ComputeInit
<1>5. QED
  BY <1>1, <1>2, <1>3, <1>4, PTL DEF ComputeSpec

-----------------------------------------------------------------------------
LEMMA SameNumber ==
  ASSUME NEW A, NEW B, NEW h \in [A -> B], IsFiniteSet(A),
         \A a, b \in A : h[a] = h[b] => a = b, \A b \in B : \E a \in A : h[a] = b
  PROVE  IsFiniteSet(B) /\ Cardinality(B) = Cardinality(A)
<1>1. h \in Injection(A, B)
  BY DEF Injection, IsInjective
<1>2. h \in Surjection(A, B)
  BY DEF Surjection
<1>3. ExistsBijection(A, B)
  BY <1>1, <1>2 DEF ExistsBijection, Bijection
<1>4. QED BY <1>3, FS_Bijection

-----------------------------------------------------------------------------
\* The sum of the numbers that a reduction has, counted in units.
Units(f) == UNION {{k} \X (1 .. f[k]) : k \in DOMAIN f}
Counted(f) == f \in [DOMAIN f -> Nat] /\ IsFiniteSet(Units(f))
Total(f) == Cardinality(Units(f))

LEMMA UnitsOf ==
  ASSUME NEW f
  PROVE  /\ \A u \in Units(f) : u = <<u[1], u[2]>> /\ u[1] \in DOMAIN f /\ u[2] \in 1 .. f[u[1]]
         /\ \A k \in DOMAIN f : \A n \in 1 .. f[k] : <<k, n>> \in Units(f)
<1>1. ASSUME NEW u \in Units(f)
      PROVE  u = <<u[1], u[2]>> /\ u[1] \in DOMAIN f /\ u[2] \in 1 .. f[u[1]]
  <2>1. PICK k \in DOMAIN f : u \in {k} \X (1 .. f[k])
    BY DEF Units
  <2>2. u = <<u[1], u[2]>> /\ u[1] = k /\ u[2] \in 1 .. f[k]
    BY <2>1
  <2>3. QED BY <2>2
<1>2. ASSUME NEW k \in DOMAIN f, NEW n \in 1 .. f[k]
      PROVE  <<k, n>> \in Units(f)
  <2>1. <<k, n>> \in {k} \X (1 .. f[k])
    OBVIOUS
  <2>2. QED BY <2>1 DEF Units
<1>3. QED BY <1>1, <1>2

\* A reduction by plus keeps the sum.
LEMMA ReducedTotal ==
  ASSUME NEW f, Counted(f), NEW i \in DOMAIN f, NEW j \in DOMAIN f, i /= j,
         NEW g, g = WordCounts!Reduced(f, i, j, f[i] + f[j])
  PROVE  Counted(g) /\ Total(g) = Total(f)
<1>1. /\ DOMAIN g = DOMAIN f \ {j} /\ g[i] = f[i] + f[j] /\ i \in DOMAIN g
      /\ \A k \in DOMAIN g : k /= i => g[k] = f[k]
  BY DEF WordCounts!Reduced
<1>2. f[i] \in Nat /\ f[j] \in Nat /\ \A k \in DOMAIN f : f[k] \in Nat
  BY DEF Counted
<1>3. g \in [DOMAIN g -> Nat]
  <2>1. \A k \in DOMAIN g : g[k] \in Nat
    BY <1>1, <1>2
  <2>2. g = [k \in DOMAIN g |-> g[k]]
    BY DEF WordCounts!Reduced
  <2>3. QED BY <2>1, <2>2
<1> DEFINE moved(u) == IF u[1] = j THEN <<i, f[i] + u[2]>> ELSE u
           h == [u \in Units(f) |-> moved(u)]
<1>4. \A u \in Units(f) : u = <<u[1], u[2]>> /\ u[1] \in DOMAIN f /\ u[2] \in Nat /\ u[2] \in 1 .. f[u[1]]
  BY <1>2, UnitsOf
<1>5. \A k \in DOMAIN g, n \in Nat : n \in 1 .. g[k] => <<k, n>> \in Units(g)
  BY UnitsOf
<1>6. \A k \in DOMAIN f, n \in Nat : n \in 1 .. f[k] => <<k, n>> \in Units(f)
  BY UnitsOf
<1>7. \A u \in Units(f) : moved(u) \in Units(g)
  <2> TAKE u \in Units(f)
  <2>1. CASE u[1] = j
    <3>1. f[i] + u[2] \in Nat /\ f[i] + u[2] \in 1 .. g[i]
      BY <1>1, <1>2, <1>4, <2>1
    <3>2. QED BY <1>1, <1>5, <2>1, <3>1
  <2>2. CASE u[1] /= j
    <3>1. u[1] \in DOMAIN g /\ u[2] \in Nat /\ u = <<u[1], u[2]>>
      BY <1>1, <1>4, <2>2
    <3>2. u[2] \in 1 .. g[u[1]]
      BY <1>1, <1>2, <1>4, <2>2, <3>1
    <3>3. QED BY <1>5, <2>2, <3>1, <3>2
  <2>3. QED BY <2>1, <2>2
<1>8. h \in [Units(f) -> Units(g)] /\ \A u \in Units(f) : h[u] = moved(u)
  BY <1>7
<1> HIDE DEF h
<1>9. \A a, b \in Units(f) : h[a] = h[b] => a = b
  <2> TAKE a, b \in Units(f)
  <2> HAVE h[a] = h[b]
  <2>1. moved(a) = moved(b)
    BY <1>8
  <2>2. CASE a[1] = j /\ b[1] = j
    <3>1. f[i] + a[2] = f[i] + b[2]
      BY <2>1, <2>2
    <3>2. a[2] = b[2]
      BY <1>2, <1>4, <3>1
    <3>3. QED BY <1>4, <2>2, <3>2
  <2>3. CASE a[1] = j /\ b[1] /= j
    <3>1. b[1] = i /\ b[2] = f[i] + a[2]
      BY <2>1, <2>3
    <3>2. QED BY <1>2, <1>4, <3>1
  <2>4. CASE a[1] /= j /\ b[1] = j
    <3>1. a[1] = i /\ a[2] = f[i] + b[2]
      BY <2>1, <2>4
    <3>2. QED BY <1>2, <1>4, <3>1
  <2>5. CASE a[1] /= j /\ b[1] /= j
    BY <2>1, <2>5
  <2>6. QED BY <2>2, <2>3, <2>4, <2>5
<1>10. \A v \in Units(g) : \E u \in Units(f) : h[u] = v
  <2> TAKE v \in Units(g)
  <2>1. v = <<v[1], v[2]>> /\ v[1] \in DOMAIN g /\ v[2] \in Nat /\ v[2] \in 1 .. g[v[1]]
    BY <1>1, <1>2, UnitsOf
  <2>2. CASE v[1] = i /\ v[2] > f[i]
    <3>1. v[2] - f[i] \in Nat /\ v[2] - f[i] \in 1 .. f[j]
      BY <1>1, <1>2, <2>1, <2>2
    <3>2. <<j, v[2] - f[i]>> \in Units(f)
      BY <1>6, <3>1
    <3>3. moved(<<j, v[2] - f[i]>>) = <<i, v[2]>>
      <4>1. f[i] + (v[2] - f[i]) = v[2]
        BY <1>2, <2>1
      <4>2. QED BY <4>1
    <3>4. QED BY <1>8, <2>1, <2>2, <3>2, <3>3
  <2>3. CASE ~(v[1] = i /\ v[2] > f[i])
    <3>1. v[1] \in DOMAIN f /\ v[1] /= j
      BY <1>1, <2>1
    <3>2. v[2] \in 1 .. f[v[1]]
      BY <1>1, <1>2, <2>1, <2>3, <3>1
    <3>3. v \in Units(f) /\ moved(v) = v
      BY <1>6, <2>1, <3>1, <3>2
    <3>4. QED BY <1>8, <3>3
  <2>4. QED BY <2>2, <2>3
<1>11. IsFiniteSet(Units(g)) /\ Cardinality(Units(g)) = Cardinality(Units(f))
  <2>1. IsFiniteSet(Units(f))
    BY DEF Counted
  <2>2. QED BY ONLY <1>8, <1>9, <1>10, <2>1, SameNumber
<1>12. QED BY <1>3, <1>11 DEF Counted, Total

\* One number is the sum.
LEMMA TotalOfOne ==
  ASSUME NEW f, NEW k, Counted(f), DOMAIN f = {k}
  PROVE  Total(f) = f[k]
<1>1. f[k] \in Nat
  BY DEF Counted
<1> DEFINE h == [n \in 1 .. f[k] |-> <<k, n>>]
<1>2. h \in [1 .. f[k] -> Units(f)] /\ \A n \in 1 .. f[k] : h[n] = <<k, n>>
  <2>1. \A n \in 1 .. f[k] : <<k, n>> \in Units(f)
    BY UnitsOf
  <2>2. QED BY <2>1
<1>3. \A u \in Units(f) : u = <<k, u[2]>> /\ u[2] \in 1 .. f[k]
  BY UnitsOf
<1> HIDE DEF h
<1>4. \A a, b \in 1 .. f[k] : h[a] = h[b] => a = b
  BY <1>2
<1>5. \A u \in Units(f) : \E n \in 1 .. f[k] : h[n] = u
  BY <1>2, <1>3
<1>6. IsFiniteSet(1 .. f[k]) /\ Cardinality(1 .. f[k]) = f[k]
  BY <1>1, FS_Interval
<1>7. Cardinality(Units(f)) = Cardinality(1 .. f[k])
  BY ONLY <1>2, <1>4, <1>5, <1>6, SameNumber
<1>8. QED BY <1>6, <1>7 DEF Total

\* A sum of ones and zeros is the number of the ones.
LEMMA TotalOfOnes ==
  ASSUME NEW D, IsFiniteSet(D), NEW f \in [D -> {0, 1}]
  PROVE  Counted(f) /\ Total(f) = Cardinality({k \in D : f[k] = 1})
<1> DEFINE ones == {k \in D : f[k] = 1}
           h == [k \in ones |-> <<k, 1>>]
<1>1. IsFiniteSet(ones)
  BY FS_Subset
<1>2. h \in [ones -> Units(f)] /\ \A k \in ones : h[k] = <<k, 1>>
  <2>1. \A k \in ones : <<k, 1>> \in Units(f)
    BY UnitsOf
  <2>2. QED BY <2>1
<1>3. \A u \in Units(f) : u = <<u[1], 1>> /\ u[1] \in ones
  <2> TAKE u \in Units(f)
  <2>1. u = <<u[1], u[2]>> /\ u[1] \in D /\ u[2] \in 1 .. f[u[1]]
    BY UnitsOf
  <2>2. f[u[1]] = 1 /\ u[2] = 1
    <3>1. f[u[1]] = 0 \/ f[u[1]] = 1
      BY <2>1
    <3>2. QED BY <2>1, <3>1
  <2>3. QED BY <2>1, <2>2
<1> HIDE DEF h, ones
<1>4. \A a, b \in ones : h[a] = h[b] => a = b
  BY <1>2
<1>5. \A u \in Units(f) : \E k \in ones : h[k] = u
  BY <1>2, <1>3
<1>6. IsFiniteSet(Units(f)) /\ Cardinality(Units(f)) = Cardinality(ones)
  BY ONLY <1>1, <1>2, <1>4, <1>5, SameNumber
<1>7. QED BY <1>6 DEF Counted, Total, ones

-----------------------------------------------------------------------------
Text == Seq({WordCounts!Space, WordCounts!Letter})

Beginnings(t) == {k \in 1 .. Len(t) - 1 : WordCounts!is_word_beginning(t[k], t[k + 1])}

\* WordCount's Cardinality is that of the theorems about finite sets.
LEMMA CountIsCardinality == \A S : WordCounts!Cardinality(S) = Cardinality(S)
BY DEF WordCounts!Cardinality, Cardinality

LEMMA SpaceIsNoLetter == WordCounts!Space /= WordCounts!Letter
BY DEF WordCounts!Space, WordCounts!Letter

\* A text has finitely many words, in it, and none if it is empty.
LEMMA WordsFinite ==
  ASSUME NEW t \in Text
  PROVE  /\ Len(t) \in Nat /\ WordCounts!WordsOf(t) \subseteq 1 .. Len(t)
         /\ IsFiniteSet(WordCounts!WordsOf(t)) /\ Cardinality(WordCounts!WordsOf(t)) \in Nat
         /\ t = <<>> => Cardinality(WordCounts!WordsOf(t)) = 0
<1>1. Len(t) \in Nat
  BY DEF Text
<1>2. WordCounts!WordsOf(t) \subseteq 1 .. Len(t)
  BY DEF WordCounts!WordsOf
<1>3. IsFiniteSet(1 .. Len(t))
  BY <1>1, FS_Interval
<1>4. IsFiniteSet(WordCounts!WordsOf(t)) /\ Cardinality(WordCounts!WordsOf(t)) \in Nat
  BY <1>2, <1>3, FS_Subset, FS_CardinalityType
<1>5. ASSUME t = <<>> PROVE Cardinality(WordCounts!WordsOf(t)) = 0
  <2>1. 1 .. Len(t) = {}
    BY <1>5
  <2>2. WordCounts!WordsOf(t) = {}
    BY <1>2, <2>1
  <2>3. QED BY <2>2, FS_EmptySet
<1>6. QED BY <1>1, <1>2, <1>4, <1>5

\* Letters only are one word.
LEMMA WordsOfLetters ==
  ASSUME NEW n \in Nat \ {0}
  PROVE  /\ WordCounts!Repeated(WordCounts!Letter, n) \in Text
         /\ Cardinality(WordCounts!WordsOf(WordCounts!Repeated(WordCounts!Letter, n))) = 1
<1> DEFINE t == WordCounts!Repeated(WordCounts!Letter, n)
<1>1. t \in Text /\ Len(t) = n /\ \A k \in 1 .. n : t[k] = WordCounts!Letter
  BY DEF WordCounts!Repeated, Text
<1> HIDE DEF t
<1>2. WordCounts!WordsOf(t) = {1}
  <2>1. \A k \in 1 .. n : k = 1 \/ t[k - 1] /= WordCounts!Space
    <3> TAKE k \in 1 .. n
    <3>1. k = 1 \/ k - 1 \in 1 .. n
      OBVIOUS
    <3>2. QED BY <1>1, <3>1, SpaceIsNoLetter
  <2>2. 1 \in 1 .. n
    OBVIOUS
  <2>3. QED BY <1>1, <2>1, <2>2 DEF WordCounts!WordsOf
<1>3. QED BY <1>1, <1>2, FS_Singleton DEF t

\* Texts that spaces separate keep their words.
LEMMA WordsJoin ==
  ASSUME NEW t \in Text, NEW u \in Text, NEW n \in Nat \ {0},
         NEW g, g = t \o WordCounts!Repeated(WordCounts!Space, n) \o u
  PROVE  /\ g \in Text
         /\ Cardinality(WordCounts!WordsOf(g)) =
              Cardinality(WordCounts!WordsOf(t)) + Cardinality(WordCounts!WordsOf(u))
<1> DEFINE sep == WordCounts!Repeated(WordCounts!Space, n)
           m == Len(t) + n
<1>1. sep \in Text /\ Len(sep) = n /\ \A k \in 1 .. n : sep[k] = WordCounts!Space
  BY DEF WordCounts!Repeated, Text
<1>2. Len(t) \in Nat /\ Len(u) \in Nat /\ m \in Nat /\ m > Len(t)
  BY DEF Text
<1>3. g = (t \o sep) \o u
  OBVIOUS
<1> HIDE DEF sep
<1>4. /\ t \o sep \in Text /\ Len(t \o sep) = m
      /\ \A k \in 1 .. m : (t \o sep)[k] = IF k <= Len(t) THEN t[k] ELSE sep[k - Len(t)]
  BY <1>1, ConcatProperties DEF Text
<1>5. /\ g \in Text /\ Len(g) = m + Len(u)
      /\ \A k \in 1 .. m + Len(u) : g[k] = IF k <= m THEN (t \o sep)[k] ELSE u[k - m]
  <2> DEFINE r == t \o sep
  <2>1. r \in Text /\ Len(r) = m /\ g = r \o u
    BY <1>3, <1>4
  <2> HIDE DEF r
  <2>2. r \in Seq({WordCounts!Space, WordCounts!Letter}) /\ u \in Seq({WordCounts!Space, WordCounts!Letter})
    BY <2>1 DEF Text
  <2>3. /\ r \o u \in Seq({WordCounts!Space, WordCounts!Letter}) /\ Len(r \o u) = Len(r) + Len(u)
        /\ \A k \in 1 .. Len(r) + Len(u) : (r \o u)[k] = IF k <= Len(r) THEN r[k] ELSE u[k - Len(r)]
    BY ONLY <2>2, ConcatProperties
  <2>4. /\ g \in Text /\ Len(g) = m + Len(u)
        /\ \A k \in 1 .. m + Len(u) : g[k] = IF k <= m THEN r[k] ELSE u[k - m]
    BY ONLY <2>1, <2>3 DEF Text
  <2>5. QED BY <2>4 DEF r
<1> HIDE DEF m
<1>6. \A k \in 1 .. Len(t) : g[k] = t[k]
  BY <1>2, <1>4, <1>5 DEF m
<1>7. \A k \in Len(t) + 1 .. m : g[k] = WordCounts!Space
  <2> TAKE k \in Len(t) + 1 .. m
  <2>1. k \in 1 .. m /\ k \in 1 .. m + Len(u) /\ k - Len(t) \in 1 .. n /\ ~(k <= Len(t)) /\ k <= m
    BY <1>2 DEF m
  <2>2. QED BY <1>1, <1>4, <1>5, <2>1
<1>8. \A k \in 1 .. Len(u) : g[m + k] = u[k]
  <2> TAKE k \in 1 .. Len(u)
  <2>1. m + k \in 1 .. m + Len(u) /\ ~(m + k <= m) /\ (m + k) - m = k
    BY <1>2
  <2>2. QED BY <1>5, <2>1
<1> DEFINE moved == {k \in m + 1 .. m + Len(u) : k - m \in WordCounts!WordsOf(u)}
           h == [k \in WordCounts!WordsOf(u) |-> m + k]
<1>9. WordCounts!WordsOf(g) = WordCounts!WordsOf(t) \cup moved
  <2>1. ASSUME NEW k \in 1 .. Len(t)
        PROVE  k \in WordCounts!WordsOf(g) <=> k \in WordCounts!WordsOf(t)
    <3>1. k \in 1 .. Len(g) /\ (k = 1 \/ k - 1 \in 1 .. Len(t))
      BY <1>2, <1>5
    <3>2. QED BY <1>6, <3>1 DEF WordCounts!WordsOf
  <2>2. ASSUME NEW k \in Len(t) + 1 .. m
        PROVE  k \notin WordCounts!WordsOf(g)
    BY <1>7, SpaceIsNoLetter DEF WordCounts!WordsOf
  <2>3. ASSUME NEW k \in m + 1 .. m + Len(u)
        PROVE  k \in WordCounts!WordsOf(g) <=> k - m \in WordCounts!WordsOf(u)
    <3>1. k - m \in 1 .. Len(u) /\ m + (k - m) = k /\ k \in 1 .. Len(g) /\ k /= 1
      BY <1>2, <1>5
    <3>2. g[k] = u[k - m]
      BY <1>8, <3>1
    <3>3. CASE k = m + 1
      <4>1. k - 1 \in Len(t) + 1 .. m /\ k - m = 1
        BY <1>2, <3>3
      <4>2. g[k - 1] = WordCounts!Space
        BY <1>7, <4>1
      <4>3. QED BY <3>1, <3>2, <4>1, <4>2 DEF WordCounts!WordsOf
    <3>4. CASE k /= m + 1
      <4>1. (k - m) - 1 \in 1 .. Len(u) /\ m + ((k - m) - 1) = k - 1 /\ k - m /= 1
        BY <1>2, <3>4
      <4>2. g[k - 1] = u[(k - m) - 1]
        BY <1>8, <4>1
      <4>3. QED BY <3>1, <3>2, <4>1, <4>2 DEF WordCounts!WordsOf
    <3>5. QED BY <3>3, <3>4
  <2>4. WordCounts!WordsOf(g) \subseteq 1 .. m + Len(u) /\ WordCounts!WordsOf(t) \subseteq 1 .. Len(t)
    BY <1>5 DEF WordCounts!WordsOf
  <2>5. \A k : k \in 1 .. m + Len(u) <=> k \in 1 .. Len(t) \/ k \in Len(t) + 1 .. m \/ k \in m + 1 .. m + Len(u)
    BY <1>2
  <2>6. ASSUME NEW k PROVE k \in WordCounts!WordsOf(g) <=> k \in WordCounts!WordsOf(t) \/ k \in moved
    <3>1. CASE k \in 1 .. Len(t)
      <4>1. k \notin m + 1 .. m + Len(u)
        BY <1>2, <3>1
      <4>2. QED BY <2>1, <3>1, <4>1
    <3>2. CASE k \in Len(t) + 1 .. m
      <4>1. k \notin m + 1 .. m + Len(u) /\ k \notin 1 .. Len(t)
        BY <1>2, <3>2
      <4>2. QED BY <2>2, <2>4, <3>2, <4>1
    <3>3. CASE k \in m + 1 .. m + Len(u)
      <4>1. k \notin 1 .. Len(t)
        BY <1>2, <3>3
      <4>2. QED BY <2>3, <2>4, <3>3, <4>1
    <3>4. CASE k \notin 1 .. m + Len(u)
      BY <2>4, <2>5, <3>4
    <3>5. QED BY <2>5, <3>1, <3>2, <3>3, <3>4
  <2>7. QED BY <2>6
<1>10. /\ IsFiniteSet(WordCounts!WordsOf(t)) /\ WordCounts!WordsOf(t) \subseteq 1 .. Len(t)
       /\ IsFiniteSet(WordCounts!WordsOf(u)) /\ WordCounts!WordsOf(u) \subseteq 1 .. Len(u)
       /\ Cardinality(WordCounts!WordsOf(t)) \in Nat /\ Cardinality(WordCounts!WordsOf(u)) \in Nat
  BY WordsFinite
<1>11. h \in [WordCounts!WordsOf(u) -> moved] /\ \A k \in WordCounts!WordsOf(u) : h[k] = m + k
  <2>1. \A k \in WordCounts!WordsOf(u) : m + k \in moved
    <3> TAKE k \in WordCounts!WordsOf(u)
    <3>1. m + k \in m + 1 .. m + Len(u) /\ (m + k) - m = k
      BY <1>2, <1>10
    <3>2. QED BY <3>1
  <2>2. QED BY <2>1
<1>12. \A k \in moved : k - m \in WordCounts!WordsOf(u) /\ m + (k - m) = k
  BY <1>2
<1>13. WordCounts!WordsOf(t) \cap moved = {}
  BY <1>2, <1>10
<1> HIDE DEF h, moved
<1>14. \A a, b \in WordCounts!WordsOf(u) : h[a] = h[b] => a = b
  BY <1>2, <1>10, <1>11
<1>15. \A k \in moved : \E a \in WordCounts!WordsOf(u) : h[a] = k
  BY <1>11, <1>12
<1>16. IsFiniteSet(moved) /\ Cardinality(moved) = Cardinality(WordCounts!WordsOf(u))
  <2>1. IsFiniteSet(WordCounts!WordsOf(u))
    BY <1>10
  <2>2. QED BY ONLY <1>11, <1>14, <1>15, <2>1, SameNumber
<1>17. Cardinality(WordCounts!WordsOf(g)) = Cardinality(WordCounts!WordsOf(t)) + Cardinality(moved)
  <2> DEFINE W == WordCounts!WordsOf(t)
  <2>1. IsFiniteSet(W) /\ Cardinality(W) \in Nat /\ W \cap moved = {} /\ WordCounts!WordsOf(g) = W \cup moved
    BY <1>9, <1>10, <1>13
  <2>2. Cardinality(moved) \in Nat
    BY <1>16, FS_CardinalityType
  <2> HIDE DEF W
  <2>3. Cardinality(W \cup moved) = Cardinality(W) + Cardinality(moved) - Cardinality(W \cap moved)
    BY ONLY <1>16, <2>1, FS_Union
  <2>4. Cardinality(W \cap moved) = 0
    BY <2>1, FS_EmptySet
  <2>5. Cardinality(W \cup moved) = Cardinality(W) + Cardinality(moved)
    BY <2>1, <2>2, <2>3, <2>4
  <2>6. QED BY <2>1, <2>5 DEF W
<1>18. QED BY <1>5, <1>16, <1>17

\* naive_word_count counts the words.
LEMMA NaiveRight ==
  ASSUME NEW t \in Text
  PROVE  /\ IsFiniteSet(Beginnings(t)) /\ Cardinality(Beginnings(t)) \in Nat
         /\ WordCounts!First(t) + Cardinality(Beginnings(t)) = Cardinality(WordCounts!WordsOf(t))
<1>1. Len(t) \in Nat /\ \A k \in 1 .. Len(t) : t[k] = WordCounts!Space \/ t[k] = WordCounts!Letter
  BY DEF Text
<1> DEFINE later == WordCounts!WordsOf(t) \ {1}
           h == [k \in Beginnings(t) |-> k + 1]
<1>2. IsFiniteSet(Beginnings(t)) /\ Cardinality(Beginnings(t)) \in Nat
  <2>1. Beginnings(t) \in SUBSET (1 .. Len(t) - 1)
    BY DEF Beginnings
  <2>2. IsFiniteSet(1 .. Len(t) - 1)
    BY <1>1, FS_Interval
  <2>3. QED BY <2>1, <2>2, FS_Subset, FS_CardinalityType
<1>3. \A k \in 1 .. Len(t) - 1 :
        WordCounts!is_word_beginning(t[k], t[k + 1]) <=> t[k] = WordCounts!Space /\ t[k + 1] = WordCounts!Letter
  <2> TAKE k \in 1 .. Len(t) - 1
  <2>1. k \in 1 .. Len(t) /\ k + 1 \in 1 .. Len(t)
    BY <1>1
  <2>2. QED BY <1>1, <2>1, SpaceIsNoLetter DEF WordCounts!is_word_beginning, WordCounts!isspace
<1>4. \A k \in Beginnings(t) : k \in Nat /\ k + 1 \in later
  <2> TAKE k \in Beginnings(t)
  <2>1. k \in 1 .. Len(t) - 1 /\ t[k] = WordCounts!Space /\ t[k + 1] = WordCounts!Letter
    BY <1>3 DEF Beginnings
  <2>2. k \in Nat /\ k + 1 \in 1 .. Len(t) /\ (k + 1) - 1 = k /\ k + 1 /= 1
    BY <1>1, <2>1
  <2>3. QED BY <2>1, <2>2 DEF WordCounts!WordsOf
<1>5. \A k \in later : k - 1 \in Beginnings(t) /\ (k - 1) + 1 = k
  <2> TAKE k \in later
  <2>1. k \in 1 .. Len(t) /\ k /= 1 /\ t[k] = WordCounts!Letter /\ t[k - 1] = WordCounts!Space
    BY DEF WordCounts!WordsOf
  <2>2. k - 1 \in 1 .. Len(t) - 1 /\ (k - 1) + 1 = k
    BY <1>1, <2>1
  <2>3. QED BY <1>3, <2>1, <2>2 DEF Beginnings
<1>6. h \in [Beginnings(t) -> later] /\ \A k \in Beginnings(t) : h[k] = k + 1
  BY <1>4
<1> HIDE DEF h, later
<1>7. \A a, b \in Beginnings(t) : h[a] = h[b] => a = b
  BY <1>4, <1>6
<1>8. \A k \in later : \E a \in Beginnings(t) : h[a] = k
  BY <1>5, <1>6
<1>9. IsFiniteSet(later) /\ Cardinality(later) = Cardinality(Beginnings(t))
  BY ONLY <1>2, <1>6, <1>7, <1>8, SameNumber
<1>10. WordCounts!First(t) = IF 1 \in WordCounts!WordsOf(t) THEN 1 ELSE 0
  <2>1. CASE t = <<>>
    BY <2>1 DEF WordCounts!First, WordCounts!WordsOf
  <2>2. CASE t /= <<>>
    <3>1. 1 \in 1 .. Len(t) /\ Head(t) = t[1]
      BY <2>2 DEF Text
    <3>2. QED BY <1>1, <2>2, <3>1, SpaceIsNoLetter DEF WordCounts!First, WordCounts!WordsOf, WordCounts!isspace
  <2>3. QED BY <2>1, <2>2
<1>11. Cardinality(WordCounts!WordsOf(t)) = Cardinality(later) + WordCounts!First(t)
  <2>1. 1 \notin later
    BY DEF later
  <2>2. CASE 1 \in WordCounts!WordsOf(t)
    <3>1. WordCounts!WordsOf(t) = later \cup {1}
      BY <2>2 DEF later
    <3>2. Cardinality(later \cup {1}) = Cardinality(later) + 1
      BY <1>9, <2>1, FS_AddElement
    <3>3. QED BY <1>10, <2>2, <3>1, <3>2
  <2>3. CASE 1 \notin WordCounts!WordsOf(t)
    <3>1. WordCounts!WordsOf(t) = later
      BY <2>3 DEF later
    <3>2. QED BY <1>2, <1>9, <1>10, <2>3, <3>1
  <2>4. QED BY <2>2, <2>3
<1>12. WordCounts!First(t) \in Nat
  BY <1>10
<1>13. QED BY <1>2, <1>9, <1>11, <1>12

-----------------------------------------------------------------------------
\* The number of words of each text that the reduction of make_text has.
WordsIn(f) == [k \in DOMAIN f |-> Cardinality(WordCounts!WordsOf(f[k]))]

Making ==
  /\ made \in Nat /\ \A k \in DOMAIN parts : parts[k] \in Text
  /\ Counted(WordsIn(parts)) /\ Total(WordsIn(parts)) = made

Given == s \in Text /\ (made >= 0 => Cardinality(WordCounts!WordsOf(s)) = made)

Counting == s /= <<>> /\ DOMAIN sums \subseteq Nat /\ Counted(sums) /\ Total(sums) = Cardinality(Beginnings(s))

Final == \E k \in DOMAIN sums : sums = [l \in {k} |-> Cardinality(WordCounts!WordsOf(s))]

WordInv ==
  /\ wc_phase \in {"make", "begin", "count", "end"}
  /\ wc_phase = "make" => Making
  /\ wc_phase /= "make" => Given
  /\ wc_phase = "count" => Counting
  /\ wc_phase = "end" => Final

LEMMA TextsAreText == WordCounts!Texts \subseteq Text /\ <<>> \in Text
BY DEF WordCounts!Texts, Text

LEMMA WordsInit ==
  ASSUME WordCounts!Init
  PROVE  WordInv
<1>1. CASE wc_phase = "begin" /\ made = -1 /\ s \in WordCounts!Texts
  BY <1>1, TextsAreText DEF WordInv, Given
<1>2. CASE /\ wc_phase = "make" /\ made \in Words
           /\ \E length \in [1 .. made -> Lengths] :
                parts = [k \in 0 .. made |->
                           IF k = 0 THEN <<>> ELSE WordCounts!Repeated(WordCounts!Letter, length[k])]
  <2>1. PICK length \in [1 .. made -> Lengths] :
          parts = [k \in 0 .. made |->
                     IF k = 0 THEN <<>> ELSE WordCounts!Repeated(WordCounts!Letter, length[k])]
    BY <1>2
  <2>2. made \in Nat /\ \A k \in 1 .. made : length[k] \in Nat \ {0}
    BY <1>2, ComputationsAssumption DEF ComputationsAssumption
  <2>3. DOMAIN parts = 0 .. made /\ parts[0] = <<>>
        /\ \A k \in 1 .. made : parts[k] = WordCounts!Repeated(WordCounts!Letter, length[k])
    BY <2>1, <2>2
  <2>4. \A k \in 0 .. made :
          /\ parts[k] \in Text
          /\ Cardinality(WordCounts!WordsOf(parts[k])) = IF k = 0 THEN 0 ELSE 1
    <3> TAKE k \in 0 .. made
    <3>1. CASE k = 0
      BY <2>3, <3>1, TextsAreText, WordsFinite
    <3>2. CASE k /= 0
      <4>1. k \in 1 .. made
        BY <2>2, <3>2
      <4>2. QED BY <2>2, <2>3, <3>2, <4>1, WordsOfLetters
    <3>3. QED BY <3>1, <3>2
  <2> DEFINE f == WordsIn(parts)
  <2>5. f \in [0 .. made -> {0, 1}] /\ \A k \in 0 .. made : f[k] = IF k = 0 THEN 0 ELSE 1
    BY <2>3, <2>4 DEF WordsIn
  <2> HIDE DEF f
  <2>6. IsFiniteSet(0 .. made)
    BY <2>2, FS_Interval
  <2>7. Counted(f) /\ Total(f) = Cardinality({k \in 0 .. made : f[k] = 1})
    BY ONLY <2>5, <2>6, TotalOfOnes
  <2>8. {k \in 0 .. made : f[k] = 1} = 1 .. made
    BY <2>2, <2>5
  <2>9. Cardinality(1 .. made) = made
    BY <2>2, FS_Interval
  <2>10. Making
    BY <2>2, <2>3, <2>4, <2>7, <2>8, <2>9 DEF Making, f
  <2>11. QED BY <1>2, <2>10 DEF WordInv
<1>3. QED BY <1>1, <1>2 DEF WordCounts!Init

LEMMA JoinStep ==
  ASSUME Making, NEW i \in DOMAIN parts, NEW j \in DOMAIN parts, WordCounts!Join(i, j)
  PROVE  Making'
<1>1. PICK n \in 1 .. MaxSpaces :
        parts' = WordCounts!Reduced(parts, i, j,
                   parts[i] \o WordCounts!Repeated(WordCounts!Space, n) \o parts[j])
  BY DEF WordCounts!Join
<1>2. made' = made /\ i /= j
  BY DEF WordCounts!Join
<1> DEFINE g == parts[i] \o WordCounts!Repeated(WordCounts!Space, n) \o parts[j]
           c == WordsIn(parts)
           d == WordsIn(parts')
<1>3. n \in Nat \ {0} /\ parts[i] \in Text /\ parts[j] \in Text
  BY ComputationsAssumption DEF ComputationsAssumption, Making
<1>4. g \in Text /\ Cardinality(WordCounts!WordsOf(g)) =
        Cardinality(WordCounts!WordsOf(parts[i])) + Cardinality(WordCounts!WordsOf(parts[j]))
  BY <1>3, WordsJoin
<1>5. parts' = WordCounts!Reduced(parts, i, j, g)
  BY <1>1
<1> HIDE DEF g
<1>6. /\ DOMAIN parts' = DOMAIN parts \ {j} /\ parts'[i] = g
      /\ \A k \in DOMAIN parts' : k /= i => parts'[k] = parts[k]
  BY <1>2, <1>5 DEF WordCounts!Reduced
<1>7. \A k \in DOMAIN parts' : parts'[k] \in Text
  BY <1>4, <1>6 DEF Making
<1>8. d = WordCounts!Reduced(c, i, j, c[i] + c[j])
  <2>1. c[i] + c[j] = Cardinality(WordCounts!WordsOf(g))
    BY <1>4 DEF WordsIn
  <2>2. \A k \in DOMAIN parts \ {j} :
          d[k] = IF k = i THEN c[i] + c[j] ELSE c[k]
    BY <1>6, <2>1 DEF WordsIn
  <2>3. DOMAIN d = DOMAIN parts \ {j} /\ DOMAIN c = DOMAIN parts /\ d = [k \in DOMAIN d |-> d[k]]
    BY <1>6 DEF WordsIn
  <2> HIDE DEF c, d
  <2>4. QED BY <2>2, <2>3 DEF WordCounts!Reduced
<1>9. Counted(c) /\ Total(c) = made /\ i \in DOMAIN c /\ j \in DOMAIN c
  BY DEF Making, WordsIn
<1> HIDE DEF c, d
<1>10. Counted(d) /\ Total(d) = Total(c)
  BY ONLY <1>2, <1>8, <1>9, ReducedTotal
<1>11. made \in Nat
  BY DEF Making
<1>12. QED BY <1>2, <1>7, <1>9, <1>10, <1>11 DEF Making, d

LEMMA WordStep ==
  ASSUME WordInv, WordCounts!Next
  PROVE  WordInv'
<1>1. ASSUME NEW i \in DOMAIN parts, NEW j \in DOMAIN parts, WordCounts!Join(i, j)
      PROVE  WordInv'
  <2>1. wc_phase = "make" /\ wc_phase' = wc_phase
    BY <1>1 DEF WordCounts!Join
  <2>2. Making'
    BY <1>1, <2>1, JoinStep DEF WordInv
  <2>3. QED BY <2>1, <2>2 DEF WordInv
<1>2. ASSUME NEW i \in DOMAIN sums, NEW j \in DOMAIN sums, WordCounts!Plus(i, j)
      PROVE  WordInv'
  <2>1. /\ wc_phase = "count" /\ wc_phase' = wc_phase /\ i < j
        /\ sums' = WordCounts!Reduced(sums, i, j, sums[i] + sums[j])
        /\ made' = made /\ s' = s
    BY <1>2 DEF WordCounts!Plus
  <2>2. Counting /\ Given
    BY <2>1 DEF WordInv
  <2>3. i /= j
    <3>1. i \in Nat /\ j \in Nat
      BY <2>2 DEF Counting
    <3>2. QED BY <2>1, <3>1
  <2>4. Counted(sums) /\ Total(sums) = Cardinality(Beginnings(s))
    BY <2>2 DEF Counting
  <2>5. Counted(sums') /\ Total(sums') = Total(sums)
    BY ONLY <1>2, <2>1, <2>3, <2>4, ReducedTotal
  <2>6. DOMAIN sums' \subseteq Nat /\ s' /= <<>>
    BY <2>1, <2>2 DEF Counting, WordCounts!Reduced
  <2>9. Counting'
    BY <2>1, <2>4, <2>5, <2>6 DEF Counting
  <2>7. Given'
    BY <2>1, <2>2 DEF Given
  <2>8. QED BY <2>1, <2>9, <2>7 DEF WordInv
<1>3. CASE WordCounts!TextMade
  <2>1. PICK k \in DOMAIN parts : DOMAIN parts = {k} /\ s' = parts[k]
    BY <1>3 DEF WordCounts!TextMade
  <2>2. wc_phase = "make" /\ wc_phase' = "begin" /\ made' = made
    BY <1>3 DEF WordCounts!TextMade
  <2>3. Making
    BY <2>2 DEF WordInv
  <2>4. s' \in Text
    BY <2>1, <2>3 DEF Making
  <2> DEFINE c == WordsIn(parts)
  <2>5. Counted(c) /\ Total(c) = made /\ DOMAIN c = {k} /\ c[k] = Cardinality(WordCounts!WordsOf(s'))
    BY <2>1, <2>3 DEF Making, WordsIn
  <2> HIDE DEF c
  <2>6. Total(c) = c[k]
    BY ONLY <2>5, TotalOfOne
  <2>7. Given'
    BY <2>2, <2>4, <2>5, <2>6 DEF Given
  <2>8. QED BY <2>2, <2>7 DEF WordInv
<1>4. CASE WordCounts!BeginCount
  <2>1. /\ wc_phase = "begin" /\ made' = made /\ s' = s
        /\ IF s = <<>> THEN wc_phase' = "end" /\ sums' = [k \in {0} |-> 0]
           ELSE wc_phase' = "count" /\ sums' = WordCounts!Transformed(s)
    BY <1>4 DEF WordCounts!BeginCount
  <2>2. Given
    BY <2>1 DEF WordInv
  <2>3. Given'
    BY <2>1, <2>2 DEF Given
  <2>4. CASE s = <<>>
    <3>1. Cardinality(WordCounts!WordsOf(s)) = 0
      BY <2>2, <2>4, WordsFinite DEF Given
    <3>2. sums' = [k \in {0} |-> 0] /\ 0 \in DOMAIN sums' /\ s' = s
      BY <2>1, <2>4
    <3>3. sums' = [l \in {0} |-> Cardinality(WordCounts!WordsOf(s'))]
      BY <3>1, <3>2
    <3>4. Final'
      BY <3>2, <3>3 DEF Final
    <3>5. QED BY <2>1, <2>3, <2>4, <3>4 DEF WordInv
  <2>5. CASE s /= <<>>
    <3> DEFINE D == 0 .. Len(s) - 1
               f == WordCounts!Transformed(s)
    <3>1. s \in Text /\ Len(s) \in Nat
      BY <2>2, WordsFinite DEF Given
    <3>2. f \in [D -> {0, 1}] /\ \A k \in D : f[k] = 1 <=> k \in Beginnings(s)
      <4>1. \A k \in D : f[k] = IF k > 0 /\ WordCounts!is_word_beginning(s[k], s[k + 1]) THEN 1 ELSE 0
        BY DEF WordCounts!Transformed
      <4>2. f = [k \in D |-> f[k]]
        BY DEF WordCounts!Transformed
      <4>3. \A k \in D : k > 0 <=> k \in 1 .. Len(s) - 1
        BY <3>1
      <4> HIDE DEF f
      <4>4. \A k \in D : f[k] \in {0, 1}
        BY <4>1
      <4>5. f \in [D -> {0, 1}]
        BY ONLY <4>2, <4>4
      <4>6. QED BY <4>1, <4>3, <4>5 DEF Beginnings
    <3>3. IsFiniteSet(D)
      BY <3>1, FS_Interval
    <3>4. {k \in D : f[k] = 1} = Beginnings(s)
      <4>1. Beginnings(s) \subseteq D
        BY <3>1 DEF Beginnings
      <4> HIDE DEF f, D
      <4>2. QED BY <3>2, <4>1
    <3>5. sums' = f
      BY <2>1, <2>5
    <3> HIDE DEF f, D
    <3>6. Counted(f) /\ Total(f) = Cardinality({k \in D : f[k] = 1})
      BY ONLY <3>2, <3>3, TotalOfOnes
    <3>9. DOMAIN sums' \subseteq Nat
      BY <3>1, <3>2, <3>5 DEF D
    <3>7. Counting'
      BY <2>1, <2>5, <3>4, <3>5, <3>6, <3>9 DEF Counting
    <3>8. QED BY <2>1, <2>3, <2>5, <3>7 DEF WordInv
  <2>6. QED BY <2>4, <2>5
<1>5. CASE WordCounts!Count
  <2>1. PICK k \in DOMAIN sums :
          DOMAIN sums = {k} /\ sums' = [sums EXCEPT ![k] = WordCounts!First(s) + @]
    BY <1>5 DEF WordCounts!Count
  <2>2. wc_phase = "count" /\ wc_phase' = "end" /\ made' = made /\ s' = s
    BY <1>5 DEF WordCounts!Count
  <2>3. Counting /\ Given
    BY <2>2 DEF WordInv
  <2>4. Counted(sums) /\ Total(sums) = Cardinality(Beginnings(s)) /\ s \in Text
    BY <2>3 DEF Counting, Given
  <2>5. Total(sums) = sums[k]
    BY ONLY <2>1, <2>4, TotalOfOne
  <2>6. WordCounts!First(s) + sums[k] = Cardinality(WordCounts!WordsOf(s))
    BY <2>4, <2>5, NaiveRight
  <2>7. sums' = [l \in {k} |-> Cardinality(WordCounts!WordsOf(s))] /\ k \in DOMAIN sums'
    BY <2>1, <2>6
  <2>8. Final'
    BY <2>2, <2>7 DEF Final
  <2>9. Given'
    BY <2>2, <2>3 DEF Given
  <2>10. QED BY <2>2, <2>8, <2>9 DEF WordInv
<1>6. CASE WordCounts!Ended
  <2>1. wc_phase' = wc_phase /\ parts' = parts /\ made' = made /\ s' = s /\ sums' = sums
    BY <1>6 DEF WordCounts!Ended, WordCounts!vars
  <2>2. QED BY <2>1 DEF WordInv, Making, Given, Counting, Final
<1>7. QED BY <1>1, <1>2, <1>3, <1>4, <1>5, <1>6 DEF WordCounts!Next

\* parallel_word_count.hpp: whatever two things the reductions of make_text and
\* of word_count combine next, the counts are the number of words.
THEOREM WordsAlwaysCounted == ComputeSpec => []WordsCounted
<1> DEFINE Inv == demo = "words" => WordInv
<1>1. ComputeInit => Inv
  BY WordsInit DEF ComputeInit
<1>2. Inv /\ [ComputeNext]_computeVars => Inv'
  <2> SUFFICES ASSUME Inv, [ComputeNext]_computeVars, demo' = "words" PROVE WordInv'
    OBVIOUS
  <2>1. CASE InWords(WordCounts!Next)
    BY <2>1, WordStep DEF InWords
  <2>2. ASSUME demo' = demo, UNCHANGED wordVars PROVE WordInv'
    <3>1. wc_phase' = wc_phase /\ parts' = parts /\ made' = made /\ s' = s /\ sums' = sums
      BY <2>2 DEF wordVars
    <3>2. QED BY <2>2, <3>1 DEF WordInv, Making, Given, Counting, Final
  <2>3. CASE InFrames(Next)
    BY <2>2, <2>3 DEF InFrames
  <2>4. CASE InRandom(Random!Next)
    BY <2>2, <2>4 DEF InRandom
  <2>5. CASE InWindow(Window!Next)
    BY <2>2, <2>5 DEF InWindow
  <2>6. CASE InMemory(Memories!Next)
    BY <2>2, <2>6 DEF InMemory
  <2>7. CASE UNCHANGED computeVars
    BY <2>2, <2>7 DEF computeVars
  <2>8. QED BY <2>1, <2>3, <2>4, <2>5, <2>6, <2>7 DEF ComputeNext
<1>3. Inv => WordsCounted
  <2> SUFFICES ASSUME WordInv PROVE WordCounts!WordsCounted
    BY DEF WordsCounted
  <2>1. ASSUME s \in Text PROVE WordCounts!naive_word_count(s) = Cardinality(WordCounts!WordsOf(s))
    BY <2>1, NaiveRight, CountIsCardinality DEF WordCounts!naive_word_count, Beginnings
  <2>2. ASSUME wc_phase /= "make"
        PROVE  WordCounts!naive_word_count(s) = WordCounts!Cardinality(WordCounts!WordsOf(s))
    BY <2>1, <2>2, CountIsCardinality DEF WordInv, Given
  <2>3. ASSUME wc_phase = "end"
        PROVE  /\ \E k \in DOMAIN sums : sums = [l \in {k} |-> WordCounts!Cardinality(WordCounts!WordsOf(s))]
               /\ made >= 0 => WordCounts!Cardinality(WordCounts!WordsOf(s)) = made
    BY <2>3, CountIsCardinality DEF WordInv, Given, Final
  <2>4. QED BY <2>2, <2>3 DEF WordCounts!WordsCounted
<1> HIDE DEF Inv
<1>4. QED BY <1>1, <1>2, <1>3, PTL DEF ComputeSpec

-----------------------------------------------------------------------------
LEMMA LeastNat ==
  ASSUME NEW T \in SUBSET Nat, T /= {}
  PROVE  \E m \in T : \A j \in T : m <= j
<1>1. IsWellFoundedOn(OpToRel(<, Nat), Nat)
  BY NatLessThanWellFounded
<1>2. PICK m \in T : \A j \in T : ~(<<j, m>> \in OpToRel(<, Nat))
  BY <1>1, WFMin
<1>3. \A j \in T : ~(j < m)
  BY <1>2 DEF OpToRel
<1>4. QED BY <1>3

-----------------------------------------------------------------------------
\* The results of <=> are four.
LEMMA FourResults ==
  /\ Compared!Less /= Compared!Equivalent /\ Compared!Less /= Compared!Greater
  /\ Compared!Less /= Compared!Unordered /\ Compared!Equivalent /= Compared!Greater
  /\ Compared!Equivalent /= Compared!Unordered /\ Compared!Greater /= Compared!Unordered
BY DEF Compared!Less, Compared!Equivalent, Compared!Greater, Compared!Unordered

LEMMA Flips ==
  /\ Compared!Flip(Compared!Less) = Compared!Greater
  /\ Compared!Flip(Compared!Greater) = Compared!Less
  /\ \A c \in {Compared!Equivalent, Compared!Unordered} : Compared!Flip(c) = c
BY FourResults DEF Compared!Flip

LEMMA ThreeWayOfInts ==
  ASSUME NEW m \in Int, NEW n \in Int
  PROVE  /\ Compared!ThreeWay(m, n) \in {Compared!Less, Compared!Equivalent, Compared!Greater}
         /\ Compared!ThreeWay(m, n) = Compared!Less <=> m < n
         /\ Compared!ThreeWay(m, n) = Compared!Greater <=> n < m
         /\ Compared!ThreeWay(m, n) = Compared!Equivalent <=> m = n
BY FourResults DEF Compared!ThreeWay

\* Where t goes on as s does, up to a place where s ends or is less.
Precedes(s1, t1) ==
  \E k \in 1 .. Len(t1) :
    /\ \A l \in 1 .. k - 1 : l <= Len(s1) /\ s1[l] = t1[l]
    /\ k <= Len(s1) => s1[k] < t1[k]

LEMMA NotBoth ==
  ASSUME NEW a \in Seq(Int), NEW b \in Seq(Int), Precedes(a, b), Precedes(b, a)
  PROVE  FALSE
<1>1. PICK j \in 1 .. Len(b) : (\A l \in 1 .. j - 1 : l <= Len(a) /\ a[l] = b[l]) /\ (j <= Len(a) => a[j] < b[j])
  BY DEF Precedes
<1>2. PICK k \in 1 .. Len(a) : (\A l \in 1 .. k - 1 : l <= Len(b) /\ b[l] = a[l]) /\ (k <= Len(b) => b[k] < a[k])
  BY DEF Precedes
<1>3. Len(a) \in Nat /\ Len(b) \in Nat
  OBVIOUS
<1>4. (\A l \in 1 .. Len(a) : a[l] \in Int) /\ (\A l \in 1 .. Len(b) : b[l] \in Int)
  OBVIOUS
<1>5. CASE j < k
  <2>1. j \in 1 .. k - 1 /\ j \in 1 .. Len(a)
    BY <1>3, <1>5
  <2>2. b[j] = a[j] /\ a[j] < b[j]
    BY <1>1, <1>2, <2>1
  <2>3. QED BY <1>4, <2>1, <2>2
<1>6. CASE k < j
  <2>1. k \in 1 .. j - 1 /\ k \in 1 .. Len(b)
    BY <1>3, <1>6
  <2>2. b[k] = a[k] /\ b[k] < a[k]
    BY <1>1, <1>2, <2>1
  <2>3. QED BY <1>4, <2>1, <2>2
<1>7. CASE j = k
  <2>1. a[j] < b[j] /\ b[j] < a[j]
    BY <1>1, <1>2, <1>3, <1>7
  <2>2. QED BY <1>4, <1>7, <2>1
<1>8. QED BY <1>3, <1>5, <1>6, <1>7

\* It goes from a to c if it goes from a to b and from b to c.
LEMMA PrecedesTrans ==
  ASSUME NEW a \in Seq(Int), NEW b \in Seq(Int), NEW c \in Seq(Int), Precedes(a, b), Precedes(b, c)
  PROVE  Precedes(a, c)
<1>1. PICK j \in 1 .. Len(b) : (\A l \in 1 .. j - 1 : l <= Len(a) /\ a[l] = b[l]) /\ (j <= Len(a) => a[j] < b[j])
  BY DEF Precedes
<1>2. PICK k \in 1 .. Len(c) : (\A l \in 1 .. k - 1 : l <= Len(b) /\ b[l] = c[l]) /\ (k <= Len(b) => b[k] < c[k])
  BY DEF Precedes
<1>3. Len(a) \in Nat /\ Len(b) \in Nat /\ Len(c) \in Nat
  OBVIOUS
<1>4. /\ \A l \in 1 .. Len(a) : a[l] \in Int
      /\ \A l \in 1 .. Len(b) : b[l] \in Int
      /\ \A l \in 1 .. Len(c) : c[l] \in Int
  OBVIOUS
<1>5. CASE j < k
  <2>1. j \in 1 .. k - 1 /\ j \in 1 .. Len(c) /\ j - 1 <= k - 1
    BY <1>3, <1>5
  <2>2. b[j] = c[j]
    BY <1>2, <2>1
  <2>3. ASSUME NEW l \in 1 .. j - 1 PROVE l <= Len(a) /\ a[l] = c[l]
    <3>1. l \in 1 .. k - 1
      BY <1>3, <1>5
    <3>2. QED BY <1>1, <1>2, <3>1
  <2>4. j <= Len(a) => a[j] < c[j]
    BY <1>1, <2>2
  <2>5. QED BY <2>1, <2>3, <2>4 DEF Precedes
<1>6. CASE k < j
  <2>1. k \in 1 .. j - 1 /\ k \in 1 .. Len(b)
    BY <1>3, <1>6
  <2>2. a[k] = b[k] /\ b[k] < c[k] /\ k <= Len(a)
    BY <1>1, <1>2, <2>1
  <2>3. ASSUME NEW l \in 1 .. k - 1 PROVE l <= Len(a) /\ a[l] = c[l]
    <3>1. l \in 1 .. j - 1
      BY <1>3, <1>6
    <3>2. QED BY <1>1, <1>2, <3>1
  <2>4. QED BY <2>2, <2>3 DEF Precedes
<1>7. CASE j = k
  <2>1. b[k] < c[k] /\ k \in 1 .. Len(b)
    BY <1>2, <1>3, <1>7
  <2>2. ASSUME NEW l \in 1 .. k - 1 PROVE l <= Len(a) /\ a[l] = c[l]
    BY <1>1, <1>2, <1>7
  <2>3. k <= Len(a) => a[k] < c[k]
    <3>1. SUFFICES ASSUME k <= Len(a) PROVE a[k] < c[k]
      OBVIOUS
    <3>2. a[k] < b[k] /\ k \in 1 .. Len(a)
      BY <1>1, <1>3, <1>7, <3>1
    <3>3. a[k] \in Int /\ b[k] \in Int /\ c[k] \in Int
      BY <1>4, <2>1, <3>2
    <3>4. QED BY <2>1, <3>2, <3>3
  <2>4. QED BY <2>2, <2>3 DEF Precedes
<1>8. QED BY <1>3, <1>5, <1>6, <1>7

\* What the lexicographic comparison means.
LEMMA LexicographicMeans ==
  ASSUME NEW a \in Seq(Int), NEW b \in Seq(Int)
  PROVE  /\ Compared!Lexicographic(a, b) \in {Compared!Less, Compared!Equivalent, Compared!Greater}
         /\ Compared!Lexicographic(a, b) = Compared!Less <=> Precedes(a, b)
         /\ Compared!Lexicographic(a, b) = Compared!Greater <=> Precedes(b, a)
         /\ Compared!Lexicographic(a, b) = Compared!Equivalent <=> a = b
<1> DEFINE differ == {k \in DOMAIN a \cap DOMAIN b : a[k] /= b[k]}
           result == Compared!Lexicographic(a, b)
<1>1. DOMAIN a = 1 .. Len(a) /\ DOMAIN b = 1 .. Len(b) /\ Len(a) \in Nat /\ Len(b) \in Nat
  OBVIOUS
<1>2. (\A l \in 1 .. Len(a) : a[l] \in Int) /\ (\A l \in 1 .. Len(b) : b[l] \in Int)
  OBVIOUS
<1> DEFINE Right ==
             \/ result = Compared!Less /\ Precedes(a, b)
             \/ result = Compared!Greater /\ Precedes(b, a)
             \/ result = Compared!Equivalent /\ a = b
<1>3. ASSUME differ = {} PROVE Right
  <2>1. result = Compared!ThreeWay(Len(a), Len(b))
    BY <1>3 DEF Compared!Lexicographic
  <2>2. \A l \in 1 .. Len(a) : l <= Len(b) => a[l] = b[l]
    <3> TAKE l \in 1 .. Len(a)
    <3>1. l <= Len(b) => l \in DOMAIN a \cap DOMAIN b
      BY <1>1
    <3>2. QED BY <1>3, <3>1
  <2>7. LET c == Compared!ThreeWay(Len(a), Len(b)) IN
        /\ Len(a) < Len(b) => c = Compared!Less
        /\ Len(b) < Len(a) => c = Compared!Greater
        /\ Len(a) = Len(b) => c = Compared!Equivalent
    <3>1. \A m, n \in Int : LET c == Compared!ThreeWay(m, n) IN
             /\ m < n => c = Compared!Less
             /\ n < m => c = Compared!Greater
             /\ m = n => c = Compared!Equivalent
      BY FourResults DEF Compared!ThreeWay
    <3>2. Len(a) \in Int /\ Len(b) \in Int
      BY <1>1
    <3>3. QED BY ONLY <3>1, <3>2, Zenon
  <2> HIDE DEF result, differ
  <2>3. CASE Len(a) < Len(b)
    <3>1. Len(a) + 1 \in 1 .. Len(b) /\ ~(Len(a) + 1 <= Len(a)) /\ (Len(a) + 1) - 1 = Len(a)
      BY <1>1, <2>3
    <3>2. \A l \in 1 .. (Len(a) + 1) - 1 : l <= Len(a) /\ a[l] = b[l]
      BY <1>1, <2>2, <2>3
    <3>3. Precedes(a, b)
      BY <3>1, <3>2 DEF Precedes
    <3>4. QED BY <2>1, <2>3, <2>7, <3>3
  <2>4. CASE Len(b) < Len(a)
    <3>1. Len(b) + 1 \in 1 .. Len(a) /\ ~(Len(b) + 1 <= Len(b)) /\ (Len(b) + 1) - 1 = Len(b)
      BY <1>1, <2>4
    <3>2. \A l \in 1 .. (Len(b) + 1) - 1 : l <= Len(b) /\ b[l] = a[l]
      BY <1>1, <2>2, <2>4
    <3>3. Precedes(b, a)
      BY <3>1, <3>2 DEF Precedes
    <3>4. QED BY <2>1, <2>4, <2>7, <3>3
  <2>5. CASE Len(a) = Len(b)
    <3>1. a = b
      BY <1>1, <2>2, <2>5
    <3>2. QED BY <2>1, <2>5, <2>7, <3>1
  <2>6. Len(a) < Len(b) \/ Len(b) < Len(a) \/ Len(a) = Len(b)
    <3>1. Len(a) \in Int /\ Len(b) \in Int
      BY <1>1
    <3>2. \A m, n \in Int : m < n \/ n < m \/ m = n
      OBVIOUS
    <3>3. QED BY ONLY <3>1, <3>2, Zenon
  <2>8. QED BY <2>3, <2>4, <2>5, <2>6, Zenon
<1>4. ASSUME differ /= {} PROVE Right
  <2> DEFINE k == CHOOSE k \in differ : \A l \in differ : k <= l
  <2>1. differ \in SUBSET Nat
    BY <1>1
  <2>2. result = Compared!ThreeWay(a[k], b[k])
    BY <1>4 DEF Compared!Lexicographic
  <2>3. k \in differ /\ \A l \in differ : k <= l
    <3> HIDE DEF differ
    <3>1. \E m \in differ : \A l \in differ : m <= l
      BY <1>4, <2>1, LeastNat
    <3>2. QED BY <3>1, Zenon
  <2> HIDE DEF k, result
  <2>4. k \in 1 .. Len(a) /\ k \in 1 .. Len(b) /\ a[k] /= b[k]
    BY <1>1, <2>3
  <2>5. \A l \in 1 .. k - 1 : l <= Len(a) /\ l <= Len(b) /\ a[l] = b[l]
    <3> TAKE l \in 1 .. k - 1
    <3>1. l \in DOMAIN a \cap DOMAIN b /\ ~(k <= l)
      BY <1>1, <2>4
    <3>2. l \notin differ
      BY <2>3, <3>1
    <3>3. QED BY <1>1, <3>1, <3>2
  <2>6. a[k] \in Int /\ b[k] \in Int
    BY <1>2, <2>4
  <2> HIDE DEF differ
  <2>10. LET c == Compared!ThreeWay(a[k], b[k]) IN
         (a[k] < b[k] => c = Compared!Less) /\ (b[k] < a[k] => c = Compared!Greater)
    BY <2>6, ThreeWayOfInts
  <2>7. CASE a[k] < b[k]
    <3>1. Precedes(a, b)
      BY <2>4, <2>5, <2>7 DEF Precedes
    <3>2. QED BY <2>2, <2>7, <2>10, <3>1
  <2>8. CASE b[k] < a[k]
    <3>1. Precedes(b, a)
      BY <2>4, <2>5, <2>8 DEF Precedes
    <3>2. QED BY <2>2, <2>8, <2>10, <3>1
  <2>9. QED BY <2>4, <2>6, <2>7, <2>8
<1> HIDE DEF result, differ
<1>5. Right
  BY <1>3, <1>4
<1>6. ~(Precedes(a, b) /\ Precedes(b, a)) /\ ~(a = b /\ Precedes(a, b)) /\ ~(a = b /\ Precedes(b, a))
  BY NotBoth
<1>7. QED BY <1>5, <1>6, FourResults DEF result

-----------------------------------------------------------------------------
Results == {Compared!Less, Compared!Equivalent, Compared!Greater, Compared!Unordered}

\* What <=> gives for the first and second, the second and third, and the
\* first and third of three values.
Chain(r, q, w) ==
  {r, q} \subseteq {Compared!Less, Compared!Equivalent} =>
    w = IF Compared!Less \in {r, q} THEN Compared!Less ELSE Compared!Equivalent

LEMMA ThreeWayLaws ==
  ASSUME NEW a \in Int, NEW b \in Int, NEW c \in Int
  PROVE  /\ Compared!ThreeWay(b, a) = Compared!Flip(Compared!ThreeWay(a, b))
         /\ Chain(Compared!ThreeWay(a, b), Compared!ThreeWay(b, c), Compared!ThreeWay(a, c))
<1>1. /\ a < b => Compared!ThreeWay(a, b) = Compared!Less /\ Compared!ThreeWay(b, a) = Compared!Greater
      /\ b < a => Compared!ThreeWay(a, b) = Compared!Greater /\ Compared!ThreeWay(b, a) = Compared!Less
      /\ a = b => Compared!ThreeWay(a, b) = Compared!Equivalent /\ Compared!ThreeWay(b, a) = Compared!Equivalent
  BY DEF Compared!ThreeWay
<1>2. a < b \/ b < a \/ a = b
  OBVIOUS
<1>3. Compared!ThreeWay(b, a) = Compared!Flip(Compared!ThreeWay(a, b))
  BY ONLY <1>1, <1>2, Flips, Zenon
<1>4. Chain(Compared!ThreeWay(a, b), Compared!ThreeWay(b, c), Compared!ThreeWay(a, c))
  BY FourResults DEF Chain, Compared!ThreeWay
<1>5. QED BY <1>3, <1>4

LEMMA LexicographicLaws ==
  ASSUME NEW a \in Seq(Int), NEW b \in Seq(Int), NEW c \in Seq(Int)
  PROVE  /\ Compared!Lexicographic(b, a) = Compared!Flip(Compared!Lexicographic(a, b))
         /\ Chain(Compared!Lexicographic(a, b), Compared!Lexicographic(b, c), Compared!Lexicographic(a, c))
<1>1. /\ Compared!Lexicographic(a, b) \in {Compared!Less, Compared!Equivalent, Compared!Greater}
      /\ Compared!Lexicographic(a, b) = Compared!Less <=> Precedes(a, b)
      /\ Compared!Lexicographic(a, b) = Compared!Greater <=> Precedes(b, a)
      /\ Compared!Lexicographic(a, b) = Compared!Equivalent <=> a = b
  BY LexicographicMeans
<1>2. /\ Compared!Lexicographic(b, a) = Compared!Less <=> Precedes(b, a)
      /\ Compared!Lexicographic(b, a) = Compared!Greater <=> Precedes(a, b)
      /\ Compared!Lexicographic(b, a) = Compared!Equivalent <=> b = a
  BY LexicographicMeans
<1>3. /\ Compared!Lexicographic(b, c) = Compared!Less <=> Precedes(b, c)
      /\ Compared!Lexicographic(b, c) = Compared!Equivalent <=> b = c
  BY LexicographicMeans
<1>4. /\ Compared!Lexicographic(a, c) = Compared!Less <=> Precedes(a, c)
      /\ Compared!Lexicographic(a, c) = Compared!Equivalent <=> a = c
  BY LexicographicMeans
<1>5. Compared!Lexicographic(b, a) = Compared!Flip(Compared!Lexicographic(a, b))
  BY ONLY <1>1, <1>2, Flips, Zenon
<1>6. Precedes(a, b) /\ Precedes(b, c) => Precedes(a, c)
  BY PrecedesTrans
<1>7. Chain(Compared!Lexicographic(a, b), Compared!Lexicographic(b, c), Compared!Lexicographic(a, c))
  <2> SUFFICES ASSUME {Compared!Lexicographic(a, b), Compared!Lexicographic(b, c)} \subseteq
                        {Compared!Less, Compared!Equivalent}
               PROVE  Compared!Lexicographic(a, c) =
                        IF Compared!Less \in {Compared!Lexicographic(a, b), Compared!Lexicographic(b, c)}
                        THEN Compared!Less ELSE Compared!Equivalent
    BY DEF Chain
  <2>1. CASE Precedes(a, b)
    <3>1. Precedes(b, c) \/ b = c
      BY <1>3
    <3>2. Precedes(a, c)
      BY <1>6, <2>1, <3>1
    <3>3. QED BY <1>1, <1>4, <2>1, <3>2
  <2>2. CASE a = b
    BY <1>1, <2>2
  <2>3. QED BY <1>1, <2>1, <2>2
<1>8. QED BY <1>5, <1>7

\* A comparison by one member and then by another keeps the laws of both.
Then(r, q) == IF r /= Compared!Equivalent THEN r ELSE q

LEMMA ThenLaws ==
  ASSUME NEW r1, NEW q1, NEW w1, NEW r2, NEW q2, NEW w2,
         Chain(r1, q1, w1), Chain(r2, q2, w2)
  PROVE  Chain(Then(r1, r2), Then(q1, q2), Then(w1, w2))
BY FourResults DEF Chain, Then

LEMMA ThenFlips ==
  ASSUME NEW r, NEW q, r \in Results
  PROVE  Compared!Flip(Then(r, q)) = Then(Compared!Flip(r), Compared!Flip(q))
<1>1. Compared!Flip(r) = Compared!Equivalent <=> r = Compared!Equivalent
  BY FourResults, Flips DEF Results
<1>2. QED BY <1>1 DEF Then

\* What is to show of a class, for three operands.
PairRight(p, q) ==
  /\ Compared!Spaceship(p, q) \in Results
  /\ Compared!Spaceship(q, p) = Compared!Flip(Compared!Spaceship(p, q))
  /\ Compared!Equal(p, q) = (Compared!Spaceship(p, q) = Compared!Equivalent)
  /\ Compared!Equal(q, p) = (Compared!Spaceship(q, p) = Compared!Equivalent)

LEMMA LawfulIf ==
  ASSUME Compared!Comparable(x, y) => PairRight(x, y),
         Compared!Chained => Chain(Compared!Spaceship(x, y), Compared!Spaceship(y, z), Compared!Spaceship(x, z))
  PROVE  Compared!Lawful
<1>1. ASSUME Compared!Comparable(x, y)
      PROVE  LET r == Compared!Rewritten(x, y) IN
             /\ r.eq <=> Compared!Spaceship(x, y) = Compared!Equivalent
             /\ Compared!Cardinality({o \in {"eq", "lt", "gt"} : r[o]})
                  = (IF Compared!Spaceship(x, y) = Compared!Unordered THEN 0 ELSE 1)
             /\ Compared!Spaceship(y, x) = Compared!Flip(Compared!Spaceship(x, y))
             /\ Compared!Equal(y, x) = Compared!Equal(x, y)
  <2> DEFINE r == Compared!Rewritten(x, y)
             c == Compared!Spaceship(x, y)
             true == {o \in {"eq", "lt", "gt"} : r[o]}
  <2>1. PairRight(x, y)
    BY <1>1
  <2>2. /\ r["eq"] = Compared!Equal(x, y)
        /\ r["lt"] = (c = Compared!Less) /\ r["gt"] = (c = Compared!Greater)
    BY DEF Compared!Rewritten
  <2>3. r["eq"] = (c = Compared!Equivalent) /\ c \in Results /\ r.eq = r["eq"]
    BY <2>1, <2>2 DEF PairRight
  <2> HIDE DEF r, c
  <2>4. true = IF c = Compared!Equivalent THEN {"eq"} ELSE IF c = Compared!Less THEN {"lt"}
               ELSE IF c = Compared!Greater THEN {"gt"} ELSE {}
    BY <2>2, <2>3, FourResults DEF Results
  <2>5. Cardinality(true) = IF c = Compared!Unordered THEN 0 ELSE 1
    <3> HIDE DEF true
    <3>1. CASE c = Compared!Unordered
      BY <2>4, <3>1, FourResults, FS_EmptySet
    <3>2. CASE c /= Compared!Unordered
      <4>1. \E o : true = {o}
        BY <2>3, <2>4, <3>2 DEF Results
      <4>2. QED BY <3>2, <4>1, FS_Singleton
    <3>3. QED BY <3>1, <3>2
  <2>6. Compared!Cardinality(true) = Cardinality(true)
    BY DEF Compared!Cardinality, Cardinality
  <2>7. Compared!Spaceship(y, x) = Compared!Flip(Compared!Spaceship(x, y))
    BY <2>1 DEF PairRight
  <2>8. Compared!Spaceship(y, x) = Compared!Equivalent <=> Compared!Spaceship(x, y) = Compared!Equivalent
    BY <2>1, <2>7, FourResults, Flips DEF PairRight, Results
  <2>9. Compared!Equal(y, x) = Compared!Equal(x, y)
    BY <2>1, <2>8 DEF PairRight
  <2>10. r.eq <=> c = Compared!Equivalent
    BY <2>3
  <2>11. QED BY <2>5, <2>6, <2>7, <2>9, <2>10 DEF r, c
<1>2. ASSUME Compared!Chained
      PROVE  /\ Compared!Rewritten(x, y).le /\ Compared!Rewritten(y, z).le => Compared!Rewritten(x, z).le
             /\ Compared!Rewritten(x, y).le /\ Compared!Rewritten(y, z).lt => Compared!Rewritten(x, z).lt
  <2>1. \A p, q : /\ Compared!Rewritten(p, q).le <=> Compared!Spaceship(p, q) \in {Compared!Less, Compared!Equivalent}
                  /\ Compared!Rewritten(p, q).lt <=> Compared!Spaceship(p, q) = Compared!Less
    BY DEF Compared!Rewritten
  <2>2. Chain(Compared!Spaceship(x, y), Compared!Spaceship(y, z), Compared!Spaceship(x, z))
    BY <1>2
  <2>3. QED BY <2>1, <2>2, FourResults DEF Chain
<1>3. QED BY <1>1, <1>2 DEF Compared!Lawful

-----------------------------------------------------------------------------
IntNans == [v : Int] \cup {[none |-> Compared!Nan]}

LEMMA IntNanValues ==
  ASSUME NEW a \in IntNans
  PROVE  Compared!IsNan(a) \/ (~Compared!IsNan(a) /\ a.v \in Int)
<1>1. CASE a \in [v : Int]
  <2>1. DOMAIN a = {"v"} /\ a.v \in Int
    BY <1>1
  <2>2. QED BY <2>1 DEF Compared!IsNan
<1>2. CASE a = [none |-> Compared!Nan]
  <2>1. DOMAIN a = {"none"}
    BY <1>2
  <2>2. QED BY <2>1 DEF Compared!IsNan
<1>3. QED BY <1>1, <1>2 DEF IntNans

LEMMA IntNanLaws ==
  ASSUME NEW a \in IntNans, NEW b \in IntNans, NEW c \in IntNans
  PROVE  /\ Compared!IntNanCompare(a, b) \in Results
         /\ Compared!IntNanCompare(b, a) = Compared!Flip(Compared!IntNanCompare(a, b))
         /\ Compared!IntNanCompare(a, b) = Compared!Unordered <=> Compared!IsNan(a) \/ Compared!IsNan(b)
         /\ Compared!IntNanEqual(a, b) <=> Compared!IntNanCompare(a, b) = Compared!Equivalent
         /\ Chain(Compared!IntNanCompare(a, b), Compared!IntNanCompare(b, c), Compared!IntNanCompare(a, c))
<1>1. /\ ~Compared!IsNan(a) => a.v \in Int
      /\ ~Compared!IsNan(b) => b.v \in Int
      /\ ~Compared!IsNan(c) => c.v \in Int
  BY IntNanValues
<1>2. ASSUME ~Compared!IsNan(a), ~Compared!IsNan(b)
      PROVE  /\ Compared!IntNanCompare(a, b) \in Results \ {Compared!Unordered}
             /\ Compared!IntNanCompare(b, a) = Compared!Flip(Compared!IntNanCompare(a, b))
             /\ Compared!IntNanEqual(a, b) <=> Compared!IntNanCompare(a, b) = Compared!Equivalent
  <2>1. a.v \in Int /\ b.v \in Int
    BY <1>1, <1>2
  <2>2. /\ Compared!ThreeWay(a.v, b.v) \in {Compared!Less, Compared!Equivalent, Compared!Greater}
        /\ Compared!ThreeWay(a.v, b.v) = Compared!Equivalent <=> a.v = b.v
    BY <2>1, ThreeWayOfInts
  <2>3. Compared!ThreeWay(b.v, a.v) = Compared!Flip(Compared!ThreeWay(a.v, b.v))
    BY <2>1, ThreeWayLaws
  <2>4. /\ Compared!IntNanCompare(a, b) = Compared!ThreeWay(a.v, b.v)
        /\ Compared!IntNanCompare(b, a) = Compared!ThreeWay(b.v, a.v)
        /\ Compared!IntNanEqual(a, b) <=> a.v = b.v
    BY <1>2 DEF Compared!IntNanCompare, Compared!IntNanEqual
  <2>5. Compared!ThreeWay(a.v, b.v) \in Results \ {Compared!Unordered}
    BY <2>2, FourResults DEF Results
  <2>6. QED BY <2>2, <2>3, <2>4, <2>5
<1>3. ASSUME Compared!IsNan(a) \/ Compared!IsNan(b)
      PROVE  /\ Compared!IntNanCompare(a, b) = Compared!Unordered
             /\ Compared!IntNanCompare(b, a) = Compared!Unordered
             /\ ~Compared!IntNanEqual(a, b)
  BY <1>3 DEF Compared!IntNanCompare, Compared!IntNanEqual
<1>4. Chain(Compared!IntNanCompare(a, b), Compared!IntNanCompare(b, c), Compared!IntNanCompare(a, c))
  <2>1. CASE ~Compared!IsNan(a) /\ ~Compared!IsNan(b) /\ ~Compared!IsNan(c)
    BY <1>1, <2>1, ThreeWayLaws DEF Compared!IntNanCompare
  <2>2. CASE Compared!IsNan(a) \/ Compared!IsNan(b) \/ Compared!IsNan(c)
    <3>1. \/ Compared!IntNanCompare(a, b) = Compared!Unordered
          \/ Compared!IntNanCompare(b, c) = Compared!Unordered
      BY <2>2 DEF Compared!IntNanCompare
    <3>2. QED BY <3>1, FourResults DEF Chain
  <2>3. QED BY <2>1, <2>2
<1>5. Compared!Unordered \in Results
  BY DEF Results
<1>6. QED BY <1>2, <1>3, <1>4, <1>5, FourResults, Flips

\* Operands of a family whose classes compare with Op, exchanged or not.
LEMMA IntNanOperand ==
  ASSUME NEW p \in Compared!Operands("IntNan")
  PROVE  p.val \in IntNans
<1>1. PICK v \in IntNans : \E t \in {"IntNan", "int"} : p = [type |-> t, val |-> v]
  BY ComputationsAssumption DEF ComputationsAssumption, Compared!Operands, Compared!Operand, IntNans
<1>2. QED BY <1>1

LEMMA IntNanPair ==
  ASSUME family = "IntNan", NEW p \in Compared!Operands(family), NEW q \in Compared!Operands(family),
         Compared!Comparable(p, q)
  PROVE  /\ PairRight(p, q)
         /\ Compared!Spaceship(p, q) = Compared!IntNanCompare(p.val, q.val)
<1>1. p.val \in IntNans /\ q.val \in IntNans
  BY IntNanOperand
<1> DEFINE r == Compared!IntNanCompare(p.val, q.val)
           w == Compared!IntNanCompare(q.val, p.val)
<1>2. /\ r \in Results /\ w = Compared!Flip(r) /\ r = Compared!Flip(w)
      /\ Compared!IntNanEqual(p.val, q.val) <=> r = Compared!Equivalent
      /\ Compared!IntNanEqual(q.val, p.val) <=> w = Compared!Equivalent
  BY <1>1, IntNanLaws
<1>3. Compared!Spaceship(p, q) = r /\ Compared!Spaceship(q, p) = w
  BY <1>2 DEF Compared!Spaceship, Compared!Defined, Compared!Comparable
<1>4. /\ Compared!DefinedEqual(p, q) = Compared!IntNanEqual(p.val, q.val)
      /\ Compared!DefinedEqual(q, p) = Compared!IntNanEqual(q.val, p.val)
  BY DEF Compared!DefinedEqual
<1>5. Compared!IntNanEqual(p.val, q.val) <=> Compared!IntNanEqual(q.val, p.val)
  BY DEF Compared!IntNanEqual
<1>6. /\ Compared!IntNanEqual(p.val, q.val) = (r = Compared!Equivalent)
      /\ Compared!IntNanEqual(q.val, p.val) = (w = Compared!Equivalent)
      /\ Compared!IntNanEqual(p.val, q.val) = Compared!IntNanEqual(q.val, p.val)
  BY <1>2, <1>5 DEF Compared!IntNanEqual
<1> HIDE DEF r, w
<1>7. /\ Compared!Equal(p, q) = (r = Compared!Equivalent)
      /\ Compared!Equal(q, p) = (w = Compared!Equivalent)
  BY <1>4, <1>6 DEF Compared!Equal
<1>8. PairRight(p, q)
  BY <1>2, <1>3, <1>7 DEF PairRight
<1>9. QED BY <1>3, <1>8 DEF r

LEMMA IntNanLawful ==
  ASSUME family = "IntNan", x \in Compared!Operands(family), y \in Compared!Operands(family),
         z \in Compared!Operands(family)
  PROVE  Compared!Lawful /\ Compared!OnlyNan
<1>1. x.val \in IntNans /\ y.val \in IntNans /\ z.val \in IntNans
  BY IntNanOperand
<1>2. Compared!Comparable(x, y) =>
        PairRight(x, y) /\ Compared!Spaceship(x, y) = Compared!IntNanCompare(x.val, y.val)
  BY IntNanPair
<1>3. Compared!Chained => Chain(Compared!Spaceship(x, y), Compared!Spaceship(y, z), Compared!Spaceship(x, z))
  <2> SUFFICES ASSUME Compared!Chained
               PROVE  Chain(Compared!Spaceship(x, y), Compared!Spaceship(y, z), Compared!Spaceship(x, z))
    OBVIOUS
  <2>1. /\ Compared!Spaceship(x, y) = Compared!IntNanCompare(x.val, y.val)
        /\ Compared!Spaceship(y, z) = Compared!IntNanCompare(y.val, z.val)
        /\ Compared!Spaceship(x, z) = Compared!IntNanCompare(x.val, z.val)
    BY IntNanPair DEF Compared!Chained
  <2>2. QED BY <1>1, <2>1, IntNanLaws
<1>4. Compared!Lawful
  BY <1>2, <1>3, LawfulIf
<1>5. Compared!Comparable(x, y) =>
        (Compared!Spaceship(x, y) = Compared!Unordered <=> Compared!IsNan(x.val) \/ Compared!IsNan(y.val))
  BY <1>1, <1>2, IntNanLaws
<1>6. QED BY <1>4, <1>5 DEF Compared!OnlyNan

-----------------------------------------------------------------------------
Lowered(r) == [k \in DOMAIN r |-> Compared!Lower(r[k])]

LEMMA StringOperand ==
  ASSUME NEW p \in Compared!Operands("CIString")
  PROVE  Lowered(p.val) \in Seq(Int)
<1>1. PICK v \in Compared!Strings : \E t \in {"CIString", "char"} : p = [type |-> t, val |-> v]
  BY DEF Compared!Operands, Compared!Operand
<1>2. PICK n \in 0 .. MaxString : v \in [1 .. n -> Letters]
  BY DEF Compared!Strings
<1>3. n \in Nat /\ Letters \subseteq Int
  BY ComputationsAssumption DEF ComputationsAssumption
<1>4. \A k \in 1 .. n : v[k] \in Int
  BY <1>2, <1>3
<1>5. \A k \in 1 .. n : Compared!Lower(v[k]) \in Int
  BY <1>4 DEF Compared!Lower
<1>6. Lowered(v) = [k \in 1 .. n |-> Compared!Lower(v[k])]
  BY <1>2 DEF Lowered
<1>7. Lowered(v) \in Seq(Int)
  BY <1>3, <1>5, <1>6
<1>8. p.val = v
  BY <1>1
<1>9. QED BY <1>7, <1>8

LEMMA CaseInsensitive ==
  ASSUME NEW a, NEW b
  PROVE  Compared!case_insensitive_compare(a, b) = Compared!Lexicographic(Lowered(a), Lowered(b))
BY DEF Compared!case_insensitive_compare, Lowered

LEMMA StringPair ==
  ASSUME family = "CIString", NEW p \in Compared!Operands(family), NEW q \in Compared!Operands(family),
         Compared!Comparable(p, q)
  PROVE  /\ PairRight(p, q) /\ Compared!Spaceship(p, q) /= Compared!Unordered
         /\ Compared!Spaceship(p, q) = Compared!Lexicographic(Lowered(p.val), Lowered(q.val))
<1> DEFINE a == Lowered(p.val)
           b == Lowered(q.val)
           r == Compared!Lexicographic(a, b)
           w == Compared!Lexicographic(b, a)
<1>1. a \in Seq(Int) /\ b \in Seq(Int)
  BY StringOperand
<1>2. /\ Compared!Defined(p, q) = r /\ Compared!Defined(q, p) = w
      /\ Compared!DefinedEqual(p, q) = (Compared!Defined(p, q) = Compared!Equivalent)
      /\ Compared!DefinedEqual(q, p) = (Compared!Defined(q, p) = Compared!Equivalent)
  BY CaseInsensitive DEF Compared!Defined, Compared!DefinedEqual
<1> HIDE DEF a, b
<1>3. /\ r \in {Compared!Less, Compared!Equivalent, Compared!Greater}
      /\ r = Compared!Equivalent <=> a = b
  BY ONLY <1>1, LexicographicMeans
<1>4. w = Compared!Equivalent <=> b = a
  BY ONLY <1>1, LexicographicMeans
<1>5. w = Compared!Flip(r) /\ r = Compared!Flip(w)
  BY ONLY <1>1, LexicographicLaws
<1> HIDE DEF r, w
<1>6. Compared!Spaceship(p, q) = r /\ Compared!Spaceship(q, p) = w
  BY <1>2, <1>5 DEF Compared!Spaceship, Compared!Comparable
<1>7. (r = Compared!Equivalent) = (w = Compared!Equivalent)
  BY <1>3, <1>4
<1>8. /\ Compared!Equal(p, q) = (r = Compared!Equivalent)
      /\ Compared!Equal(q, p) = (w = Compared!Equivalent)
  BY <1>2, <1>7 DEF Compared!Equal
<1>9. r \in Results /\ r /= Compared!Unordered
  BY <1>3, FourResults DEF Results
<1>10. PairRight(p, q)
  BY <1>5, <1>6, <1>8, <1>9 DEF PairRight
<1>11. QED BY <1>6, <1>9, <1>10 DEF r, a, b

\* compare-cistring-by-hand.cpp and the operators that the compiler rewrites
\* agree.
LEMMA ByHandIsRewritten ==
  ASSUME family = "CIString", NEW p \in Compared!Operands(family), NEW q \in Compared!Operands(family),
         Compared!Comparable(p, q)
  PROVE  Compared!Rewritten(p, q) = Compared!ByHand(p, q)
<1> DEFINE r == Compared!Spaceship(p, q)
           w == Compared!case_insensitive_compare(q.val, p.val)
<1>1. PairRight(p, q) /\ r = Compared!case_insensitive_compare(p.val, q.val) /\ r /= Compared!Unordered
  BY StringPair, CaseInsensitive
<1>2. Lowered(p.val) \in Seq(Int) /\ Lowered(q.val) \in Seq(Int)
  BY StringOperand
<1>3. w = Compared!Flip(r)
  BY <1>1, <1>2, LexicographicLaws, CaseInsensitive
<1> HIDE DEF r, w
<1>4. r \in {Compared!Less, Compared!Equivalent, Compared!Greater} /\ Compared!Equal(p, q) = (r = Compared!Equivalent)
  BY <1>1 DEF PairRight, Results, r
<1>5. /\ Compared!HandEqual(p, q) = (r = Compared!Equivalent)
      /\ Compared!HandLess(p, q) = (r = Compared!Less)
      /\ Compared!HandLess(q, p) = (w = Compared!Less)
  BY <1>1 DEF Compared!HandEqual, Compared!HandLess, w
<1>6. /\ (w = Compared!Less) = (r = Compared!Greater)
      /\ (~(w = Compared!Less)) = (r \in {Compared!Less, Compared!Equivalent})
      /\ (~(r = Compared!Less)) = (r \in {Compared!Greater, Compared!Equivalent})
  BY <1>3, <1>4, FourResults, Flips
<1>7. Compared!Rewritten(p, q) =
        [eq |-> r = Compared!Equivalent, ne |-> ~(r = Compared!Equivalent),
         lt |-> r = Compared!Less, gt |-> r = Compared!Greater,
         le |-> r \in {Compared!Less, Compared!Equivalent}, ge |-> r \in {Compared!Greater, Compared!Equivalent}]
  BY <1>4, Zenon DEF Compared!Rewritten, r
<1>8. Compared!ByHand(p, q) =
        [eq |-> r = Compared!Equivalent, ne |-> ~(r = Compared!Equivalent),
         lt |-> r = Compared!Less, gt |-> w = Compared!Less,
         le |-> ~(w = Compared!Less), ge |-> ~(r = Compared!Less)]
  BY <1>5, Zenon DEF Compared!ByHand
<1>9. QED BY ONLY <1>6, <1>7, <1>8, Zenon

LEMMA StringLawful ==
  ASSUME family = "CIString", x \in Compared!Operands(family), y \in Compared!Operands(family),
         z \in Compared!Operands(family)
  PROVE  Compared!Lawful /\ Compared!OnlyNan
<1>1. Lowered(x.val) \in Seq(Int) /\ Lowered(y.val) \in Seq(Int) /\ Lowered(z.val) \in Seq(Int)
  BY StringOperand
<1>2. Compared!Comparable(x, y) => PairRight(x, y) /\ Compared!Spaceship(x, y) /= Compared!Unordered
  BY StringPair
<1>3. Compared!Chained => Chain(Compared!Spaceship(x, y), Compared!Spaceship(y, z), Compared!Spaceship(x, z))
  <2> SUFFICES ASSUME Compared!Chained
               PROVE  Chain(Compared!Spaceship(x, y), Compared!Spaceship(y, z), Compared!Spaceship(x, z))
    OBVIOUS
  <2>1. /\ Compared!Spaceship(x, y) = Compared!Lexicographic(Lowered(x.val), Lowered(y.val))
        /\ Compared!Spaceship(y, z) = Compared!Lexicographic(Lowered(y.val), Lowered(z.val))
        /\ Compared!Spaceship(x, z) = Compared!Lexicographic(Lowered(x.val), Lowered(z.val))
    BY StringPair DEF Compared!Chained
  <2>2. QED BY <1>1, <2>1, LexicographicLaws
<1>4. Compared!Lawful
  BY <1>2, <1>3, LawfulIf
<1>5. Compared!Comparable(x, y) => Compared!Rewritten(x, y) = Compared!ByHand(x, y)
  BY ByHandIsRewritten
<1>6. QED BY <1>2, <1>4, <1>5 DEF Compared!OnlyNan

-----------------------------------------------------------------------------
As == [a : Int, b : Seq(Int), c : Int] \cup [a : Int, b : Seq(Int), nan : {Compared!Nan}]

IsNanA(v) == "nan" \in DOMAIN v

LEMMA AValues ==
  ASSUME NEW v \in As
  PROVE  /\ v.a \in Int /\ v.b \in Seq(Int)
         /\ ~IsNanA(v) => v \in [a : Int, b : Seq(Int), c : Int] /\ v.c \in Int /\ "c" \in DOMAIN v
         /\ IsNanA(v) => "c" \notin DOMAIN v
<1>1. CASE v \in [a : Int, b : Seq(Int), c : Int]
  <2>1. DOMAIN v = {"a", "b", "c"} /\ v.a \in Int /\ v.b \in Seq(Int) /\ v.c \in Int
    BY <1>1
  <2>2. QED BY <1>1, <2>1 DEF IsNanA
<1>2. CASE v \in [a : Int, b : Seq(Int), nan : {Compared!Nan}]
  <2>1. DOMAIN v = {"a", "b", "nan"} /\ v.a \in Int /\ v.b \in Seq(Int)
    BY <1>2
  <2>2. QED BY <2>1 DEF IsNanA
<1>3. QED BY <1>1, <1>2 DEF As

LEMMA DoubleLaws ==
  ASSUME NEW a \in As, NEW b \in As, NEW c \in As
  PROVE  /\ Compared!DoubleCompare(a, b) \in Results
         /\ Compared!DoubleCompare(b, a) = Compared!Flip(Compared!DoubleCompare(a, b))
         /\ Compared!DoubleCompare(a, b) = Compared!Unordered <=> IsNanA(a) \/ IsNanA(b)
         /\ Compared!DoubleCompare(a, b) = Compared!Equivalent <=> ~IsNanA(a) /\ ~IsNanA(b) /\ a.c = b.c
         /\ Chain(Compared!DoubleCompare(a, b), Compared!DoubleCompare(b, c), Compared!DoubleCompare(a, c))
<1>1. (~IsNanA(a) => a.c \in Int) /\ (~IsNanA(b) => b.c \in Int) /\ (~IsNanA(c) => c.c \in Int)
  BY AValues
<1>2. ASSUME ~IsNanA(a), ~IsNanA(b)
      PROVE  /\ Compared!DoubleCompare(a, b) \in Results \ {Compared!Unordered}
             /\ Compared!DoubleCompare(b, a) = Compared!Flip(Compared!DoubleCompare(a, b))
             /\ Compared!DoubleCompare(a, b) = Compared!Equivalent <=> a.c = b.c
  <2>1. a.c \in Int /\ b.c \in Int
    BY <1>1, <1>2
  <2>2. /\ Compared!ThreeWay(a.c, b.c) \in {Compared!Less, Compared!Equivalent, Compared!Greater}
        /\ Compared!ThreeWay(a.c, b.c) = Compared!Equivalent <=> a.c = b.c
    BY <2>1, ThreeWayOfInts
  <2>3. Compared!ThreeWay(b.c, a.c) = Compared!Flip(Compared!ThreeWay(a.c, b.c))
    BY <2>1, ThreeWayLaws
  <2>4. /\ Compared!DoubleCompare(a, b) = Compared!ThreeWay(a.c, b.c)
        /\ Compared!DoubleCompare(b, a) = Compared!ThreeWay(b.c, a.c)
    BY <1>2 DEF Compared!DoubleCompare, IsNanA
  <2>5. Compared!ThreeWay(a.c, b.c) \in Results \ {Compared!Unordered}
    BY <2>2, FourResults DEF Results
  <2>6. QED BY <2>2, <2>3, <2>4, <2>5
<1>3. ASSUME IsNanA(a) \/ IsNanA(b)
      PROVE  Compared!DoubleCompare(a, b) = Compared!Unordered /\ Compared!DoubleCompare(b, a) = Compared!Unordered
  BY <1>3 DEF Compared!DoubleCompare, IsNanA
<1>4. Chain(Compared!DoubleCompare(a, b), Compared!DoubleCompare(b, c), Compared!DoubleCompare(a, c))
  <2>1. CASE ~IsNanA(a) /\ ~IsNanA(b) /\ ~IsNanA(c)
    BY <1>1, <2>1, ThreeWayLaws DEF Compared!DoubleCompare, IsNanA
  <2>2. CASE IsNanA(a) \/ IsNanA(b) \/ IsNanA(c)
    <3>1. \/ Compared!DoubleCompare(a, b) = Compared!Unordered
          \/ Compared!DoubleCompare(b, c) = Compared!Unordered
      BY <2>2 DEF Compared!DoubleCompare, IsNanA
    <3>2. QED BY <3>1, FourResults DEF Chain
  <2>3. QED BY <2>1, <2>2
<1>5. Compared!Unordered \in Results
  BY DEF Results
<1>6. QED BY <1>2, <1>3, <1>4, <1>5, FourResults, Flips

\* A::operator<=> goes through b, then c, then a.
LEMMA ACompareIs ==
  ASSUME NEW a, NEW b
  PROVE  Compared!ACompare(a, b) =
           Then(Compared!Lexicographic(a.b, b.b), Then(Compared!DoubleCompare(a, b), Compared!ThreeWay(a.a, b.a)))
BY DEF Compared!ACompare, Then

LEMMA ALaws ==
  ASSUME NEW a \in As, NEW b \in As, NEW c \in As
  PROVE  /\ Compared!ACompare(a, b) \in Results
         /\ Compared!ACompare(b, a) = Compared!Flip(Compared!ACompare(a, b))
         /\ ~IsNanA(a) /\ ~IsNanA(b) => Compared!ACompare(a, b) /= Compared!Unordered
         /\ Compared!AEqual(a, b) <=> Compared!ACompare(a, b) = Compared!Equivalent
         /\ Chain(Compared!ACompare(a, b), Compared!ACompare(b, c), Compared!ACompare(a, c))
<1> DEFINE r1 == Compared!Lexicographic(a.b, b.b)
           r2 == Compared!DoubleCompare(a, b)
           r3 == Compared!ThreeWay(a.a, b.a)
<1>1. a.a \in Int /\ b.a \in Int /\ c.a \in Int /\ a.b \in Seq(Int) /\ b.b \in Seq(Int) /\ c.b \in Seq(Int)
  BY AValues
<1>2. /\ r1 \in {Compared!Less, Compared!Equivalent, Compared!Greater}
      /\ r1 = Compared!Equivalent <=> a.b = b.b
  BY <1>1, LexicographicMeans
<1>3. /\ r2 \in Results
      /\ r2 = Compared!Unordered <=> IsNanA(a) \/ IsNanA(b)
      /\ r2 = Compared!Equivalent <=> ~IsNanA(a) /\ ~IsNanA(b) /\ a.c = b.c
  BY DoubleLaws
<1>4. /\ r3 \in {Compared!Less, Compared!Equivalent, Compared!Greater}
      /\ r3 = Compared!Equivalent <=> a.a = b.a
  BY <1>1, ThreeWayOfInts
<1>5. Compared!ACompare(a, b) = Then(r1, Then(r2, r3))
  BY ACompareIs
<1>6. Compared!ACompare(b, a) =
        Then(Compared!Flip(r1), Then(Compared!Flip(r2), Compared!Flip(r3)))
  <2>1. /\ Compared!Lexicographic(b.b, a.b) = Compared!Flip(r1)
        /\ Compared!DoubleCompare(b, a) = Compared!Flip(r2)
        /\ Compared!ThreeWay(b.a, a.a) = Compared!Flip(r3)
    BY <1>1, LexicographicLaws, DoubleLaws, ThreeWayLaws
  <2>2. QED BY <2>1, ACompareIs
<1>7. Chain(Compared!ACompare(a, b), Compared!ACompare(b, c), Compared!ACompare(a, c))
  <2>1. Chain(Compared!Lexicographic(a.b, b.b), Compared!Lexicographic(b.b, c.b), Compared!Lexicographic(a.b, c.b))
    BY <1>1, LexicographicLaws
  <2>2. Chain(Compared!DoubleCompare(a, b), Compared!DoubleCompare(b, c), Compared!DoubleCompare(a, c))
    BY DoubleLaws
  <2>3. Chain(Compared!ThreeWay(a.a, b.a), Compared!ThreeWay(b.a, c.a), Compared!ThreeWay(a.a, c.a))
    BY <1>1, ThreeWayLaws
  <2>4. Chain(Then(Compared!DoubleCompare(a, b), Compared!ThreeWay(a.a, b.a)),
              Then(Compared!DoubleCompare(b, c), Compared!ThreeWay(b.a, c.a)),
              Then(Compared!DoubleCompare(a, c), Compared!ThreeWay(a.a, c.a)))
    BY <2>2, <2>3, ThenLaws
  <2>5. QED BY <2>1, <2>4, ThenLaws, ACompareIs
<1> HIDE DEF r1, r2, r3
<1>8. r1 \in Results /\ r2 \in Results /\ r3 \in Results
  BY <1>2, <1>3, <1>4 DEF Results
<1>9. Compared!ACompare(a, b) \in Results
  BY <1>5, <1>8 DEF Then
<1>10. Compared!ACompare(b, a) = Compared!Flip(Compared!ACompare(a, b))
  <2>1. Compared!Flip(Then(r2, r3)) = Then(Compared!Flip(r2), Compared!Flip(r3))
    BY <1>8, ThenFlips
  <2>2. Compared!Flip(Then(r1, Then(r2, r3))) = Then(Compared!Flip(r1), Compared!Flip(Then(r2, r3)))
    BY <1>8, ThenFlips
  <2>3. QED BY <1>5, <1>6, <2>1, <2>2
<1>11. ~IsNanA(a) /\ ~IsNanA(b) => Compared!ACompare(a, b) /= Compared!Unordered
  BY <1>2, <1>3, <1>4, <1>5, FourResults DEF Then
<1>12. Compared!ACompare(a, b) = Compared!Equivalent <=>
         a.b = b.b /\ ~IsNanA(a) /\ ~IsNanA(b) /\ a.c = b.c /\ a.a = b.a
  BY <1>2, <1>3, <1>4, <1>5 DEF Then
<1>13. Compared!AEqual(a, b) <=> ~IsNanA(a) /\ ~IsNanA(b) /\ a.a = b.a /\ a.b = b.b /\ a.c = b.c
  <2>1. Compared!AEqual(a, b) <=> ~IsNanA(a) /\ a = b
    BY DEF Compared!AEqual, IsNanA
  <2>2. ASSUME ~IsNanA(a), ~IsNanA(b), a.a = b.a, a.b = b.b, a.c = b.c PROVE a = b
    <3>1. a \in [a : Int, b : Seq(Int), c : Int] /\ b \in [a : Int, b : Seq(Int), c : Int]
      BY <2>2, AValues
    <3>2. a = [a |-> a.a, b |-> a.b, c |-> a.c] /\ b = [a |-> b.a, b |-> b.b, c |-> b.c]
      BY <3>1
    <3>3. QED BY <2>2, <3>2
  <2>3. QED BY <2>1, <2>2
<1>14. QED BY <1>7, <1>9, <1>10, <1>11, <1>12, <1>13

LEMMA AOperand ==
  ASSUME NEW p \in Compared!Operands("A")
  PROVE  p.val \in As /\ p.type = "A"
<1>1. Ints \subseteq Int /\ 97 \in Int
  BY ComputationsAssumption DEF ComputationsAssumption
<1>2. {<<>>, <<97>>} \subseteq Seq(Int) /\ {0, 1} \subseteq Int
  OBVIOUS
<1>3. PICK v \in Compared!A \cup [a : Ints, b : {<<>>, <<97>>}, nan : {Compared!Nan}] :
        p = [type |-> "A", val |-> v]
  BY DEF Compared!Operands, Compared!Operand
<1>4. v \in As
  <2>1. CASE v \in Compared!A
    <3>1. v \in [a : Int, b : Seq(Int), c : Int]
      BY <1>1, <1>2, <2>1 DEF Compared!A
    <3>2. QED BY <3>1 DEF As
  <2>2. CASE v \in [a : Ints, b : {<<>>, <<97>>}, nan : {Compared!Nan}]
    <3>1. v \in [a : Int, b : Seq(Int), nan : {Compared!Nan}]
      BY <1>1, <1>2, <2>2
    <3>2. QED BY <3>1 DEF As
  <2>3. QED BY <1>3, <2>1, <2>2
<1>5. QED BY <1>3, <1>4

LEMMA APair ==
  ASSUME family = "A", NEW p \in Compared!Operands(family), NEW q \in Compared!Operands(family)
  PROVE  PairRight(p, q) /\ Compared!Spaceship(p, q) = Compared!ACompare(p.val, q.val)
<1>1. p.val \in As /\ q.val \in As /\ Compared!Member(p) /\ Compared!Member(q)
  BY AOperand DEF Compared!Member
<1> DEFINE r == Compared!ACompare(p.val, q.val)
           w == Compared!ACompare(q.val, p.val)
<1>2. /\ r \in Results /\ w = Compared!Flip(r)
      /\ Compared!AEqual(p.val, q.val) <=> r = Compared!Equivalent
      /\ Compared!AEqual(q.val, p.val) <=> w = Compared!Equivalent
  BY <1>1, ALaws
<1>3. Compared!Spaceship(p, q) = r /\ Compared!Spaceship(q, p) = w
  BY <1>1 DEF Compared!Spaceship, Compared!Defined
<1>4. /\ Compared!Equal(p, q) = Compared!AEqual(p.val, q.val)
      /\ Compared!Equal(q, p) = Compared!AEqual(q.val, p.val)
  BY <1>1 DEF Compared!Equal, Compared!DefinedEqual
<1>5. /\ Compared!AEqual(p.val, q.val) = (r = Compared!Equivalent)
      /\ Compared!AEqual(q.val, p.val) = (w = Compared!Equivalent)
  BY <1>2 DEF Compared!AEqual
<1> HIDE DEF r, w
<1>6. PairRight(p, q)
  BY <1>2, <1>3, <1>4, <1>5 DEF PairRight
<1>7. QED BY <1>3, <1>6 DEF r

\* <=> = default of generate_compare_on_struct.cpp finds equal what == does.
LEMMA GeneratedAgrees ==
  ASSUME NEW a \in As, NEW b \in As, ~IsNanA(a), ~IsNanA(b), a.c = b.c
  PROVE  Compared!GeneratedCompare(a, b) = Compared!Equivalent <=> Compared!AEqual(a, b)
<1>1. a.a \in Int /\ b.a \in Int /\ a.b \in Seq(Int) /\ b.b \in Seq(Int)
  BY AValues
<1>2. Compared!AEqual(a, b) <=> Compared!ACompare(a, b) = Compared!Equivalent
  BY ALaws
<1>3. Compared!DoubleCompare(a, b) = Compared!Equivalent
  BY DoubleLaws
<1>4. Compared!Lexicographic(a.b, b.b) = Compared!Equivalent <=> a.b = b.b
  BY <1>1, LexicographicMeans
<1>5. Compared!ThreeWay(a.a, b.a) = Compared!Equivalent <=> a.a = b.a
  BY <1>1, ThreeWayOfInts
<1>6. Compared!ACompare(a, b) = Compared!Equivalent <=> a.b = b.b /\ a.a = b.a
  BY <1>3, <1>4, <1>5, ACompareIs DEF Then
<1>7. Compared!GeneratedCompare(a, b) = Compared!Equivalent <=> a.b = b.b /\ a.a = b.a
  BY <1>4, <1>5 DEF Compared!GeneratedCompare
<1>8. QED BY <1>2, <1>6, <1>7

LEMMA ALawful ==
  ASSUME family = "A", x \in Compared!Operands(family), y \in Compared!Operands(family),
         z \in Compared!Operands(family)
  PROVE  Compared!Lawful /\ Compared!OnlyNan
<1>1. x.val \in As /\ y.val \in As /\ z.val \in As
  BY AOperand
<1>2. PairRight(x, y) /\ Compared!Spaceship(x, y) = Compared!ACompare(x.val, y.val)
  BY APair
<1>3. Chain(Compared!Spaceship(x, y), Compared!Spaceship(y, z), Compared!Spaceship(x, z))
  <2>1. /\ Compared!Spaceship(y, z) = Compared!ACompare(y.val, z.val)
        /\ Compared!Spaceship(x, z) = Compared!ACompare(x.val, z.val)
    BY APair
  <2>2. QED BY <1>1, <1>2, <2>1, ALaws
<1>4. Compared!Lawful
  BY <1>2, <1>3, LawfulIf
<1>5. ASSUME "c" \in DOMAIN x.val \cap DOMAIN y.val
      PROVE  /\ Compared!Spaceship(x, y) /= Compared!Unordered
             /\ x.val.c = y.val.c =>
                  (Compared!GeneratedCompare(x.val, y.val) = Compared!Equivalent <=> Compared!Equal(x, y))
  <2>1. ~IsNanA(x.val) /\ ~IsNanA(y.val)
    BY <1>1, <1>5, AValues
  <2>2. Compared!Spaceship(x, y) /= Compared!Unordered
    BY <1>1, <1>2, <2>1, ALaws
  <2>3. Compared!Equal(x, y) <=> Compared!AEqual(x.val, y.val)
    BY <1>1, <1>2, ALaws DEF PairRight
  <2>4. QED BY <1>1, <2>1, <2>2, <2>3, GeneratedAgrees
<1>6. QED BY <1>4, <1>5 DEF Compared!OnlyNan

-----------------------------------------------------------------------------
\* A conversion to unsigned int adds the number of its values to what is
\* negative.
LEMMA Modulo ==
  ASSUME NEW M \in Nat \ {0}, NEW v \in Int, -M <= v, v < M
  PROVE  v % M = IF v < 0 THEN v + M ELSE v
<1>1. v % M \in Int /\ v % M >= 0 /\ v % M < M /\ v \div M \in Int /\ v = M * (v \div M) + (v % M)
  <2>1. v % M \in Int /\ v % M >= 0
    OBVIOUS
  <2>2. v % M < M
    OBVIOUS
  <2>3. v \div M \in Int
    OBVIOUS
  <2>4. v = M * (v \div M) + (v % M)
    OBVIOUS
  <2>5. QED BY <2>1, <2>2, <2>3, <2>4
<1> DEFINE q == v \div M
           r == v % M
<1>2. q \in Int /\ r \in Int /\ 0 <= r /\ r < M /\ v = M * q + r
  BY <1>1
<1> HIDE DEF q, r
<1>3. M * q < M /\ -2 * M < M * q
  BY <1>2
<1>4. q < 1
  <2>1. q >= 1 => M * q >= M
    BY <1>2
  <2>2. QED BY <1>2, <1>3, <2>1
<1>5. q > -2
  <2>1. q <= -2 => M * q <= M * (-2)
    BY <1>2
  <2>2. M * (-2) = -2 * M
    OBVIOUS
  <2>3. QED BY <1>2, <1>3, <2>1, <2>2
<1>6. q = 0 \/ q = -1
  BY <1>2, <1>4, <1>5
<1>7. CASE q = 0
  BY <1>2, <1>7 DEF r
<1>8. CASE q = -1
  BY <1>2, <1>8 DEF r
<1>9. QED BY <1>6, <1>7, <1>8

LEMMA IntegerOperand ==
  ASSUME NEW p \in Compared!Operands("integers")
  PROVE  /\ p.type \in {"int", "unsigned"} /\ p.val \in Int
         /\ p.type = "int" => -Half <= p.val /\ p.val < Half
         /\ p.type = "unsigned" => 0 <= p.val /\ p.val < 2 * Half
<1>1. Half \in Int
  BY ComputationsAssumption DEF ComputationsAssumption
<1>2. CASE \E v \in -Half .. Half - 1 : p = [type |-> "int", val |-> v]
  <2>1. PICK v \in -Half .. Half - 1 : p = [type |-> "int", val |-> v]
    BY <1>2
  <2>2. v \in Int /\ -Half <= v /\ v < Half
    BY <1>1
  <2>3. p.type = "int" /\ p.val = v
    BY <2>1
  <2>4. QED BY <2>2, <2>3
<1>3. CASE \E v \in 0 .. 2 * Half - 1 : p = [type |-> "unsigned", val |-> v]
  <2>1. PICK v \in 0 .. 2 * Half - 1 : p = [type |-> "unsigned", val |-> v]
    BY <1>3
  <2>2. v \in Int /\ 0 <= v /\ v < 2 * Half
    BY <1>1
  <2>3. p.type = "unsigned" /\ p.val = v
    BY <2>1
  <2>4. QED BY <2>2, <2>3
<1>4. QED BY <1>2, <1>3 DEF Compared!Operands, Compared!Operand

LEMMA IntegersLawful ==
  ASSUME family = "integers", x \in Compared!Operands(family), y \in Compared!Operands(family)
  PROVE  Compared!ConversionBites
<1> DEFINE M == 2 * Half
           wrong == Compared!NaiveLess(x, y) /= Compared!cmp_less(x, y)
           negative == x.type /= y.type /\ (x.val < 0 \/ y.val < 0)
<1>1. Half \in Nat \ {0} /\ M \in Nat \ {0}
  BY ComputationsAssumption DEF ComputationsAssumption
<1>2. /\ x.type \in {"int", "unsigned"} /\ x.val \in Int
      /\ x.type = "int" => -Half <= x.val /\ x.val < Half
      /\ x.type = "unsigned" => 0 <= x.val /\ x.val < M
  BY IntegerOperand
<1>3. /\ y.type \in {"int", "unsigned"} /\ y.val \in Int
      /\ y.type = "int" => -Half <= y.val /\ y.val < Half
      /\ y.type = "unsigned" => 0 <= y.val /\ y.val < M
  BY IntegerOperand
<1>4. -M <= x.val /\ x.val < M /\ -M <= y.val /\ y.val < M
  BY <1>1, <1>2, <1>3
<1>5. /\ x.val % M = IF x.val < 0 THEN x.val + M ELSE x.val
      /\ y.val % M = IF y.val < 0 THEN y.val + M ELSE y.val
  <2> HIDE DEF M
  <2>1. QED BY <1>1, <1>2, <1>3, <1>4, Modulo
<1>6. /\ Compared!Converted(x, y) = IF x.type /= y.type THEN x.val % M ELSE x.val
      /\ Compared!Converted(y, x) = IF x.type /= y.type THEN y.val % M ELSE y.val
  BY DEF Compared!Converted
<1>7. wrong <=> ~((Compared!Converted(x, y) < Compared!Converted(y, x)) <=> (x.val < y.val))
  BY DEF Compared!NaiveLess, Compared!cmp_less
<1>8. wrong => negative
  <2> SUFFICES ASSUME ~negative PROVE ~wrong
    BY Zenon
  <2>1. Compared!Converted(x, y) = x.val /\ Compared!Converted(y, x) = y.val
    BY <1>2, <1>3, <1>5, <1>6
  <2>2. QED BY <1>7, <2>1
<1>9. negative /\ x.val < Half /\ y.val < Half => wrong
  <2> SUFFICES ASSUME negative, x.val < Half, y.val < Half PROVE wrong
    OBVIOUS
  <2>1. x.val < 0 \/ y.val < 0
    OBVIOUS
  <2>2. CASE x.val < 0
    <3>1. x.type = "int" /\ y.type = "unsigned" /\ y.val >= 0
      BY <1>2, <1>3, <2>2
    <3>2. Compared!Converted(x, y) = x.val + M /\ Compared!Converted(y, x) = y.val
      BY <1>2, <1>3, <1>5, <1>6, <2>2, <3>1
    <3>3. x.val + M >= Half
      BY <1>1, <1>2, <3>1
    <3>4. ~(x.val + M < y.val) /\ x.val < y.val
      BY <1>1, <1>2, <1>3, <2>2, <3>1, <3>3
    <3>5. QED BY <1>7, <3>2, <3>4
  <2>3. CASE y.val < 0
    <3>1. y.type = "int" /\ x.type = "unsigned" /\ x.val >= 0
      BY <1>2, <1>3, <2>3
    <3>2. Compared!Converted(y, x) = y.val + M /\ Compared!Converted(x, y) = x.val
      BY <1>2, <1>3, <1>5, <1>6, <2>3, <3>1
    <3>3. y.val + M >= Half
      BY <1>1, <1>3, <3>1
    <3>4. x.val < y.val + M /\ ~(x.val < y.val)
      BY <1>1, <1>2, <1>3, <2>3, <3>1, <3>3
    <3>5. QED BY <1>7, <3>2, <3>4
  <2>4. QED BY <2>1, <2>2, <2>3
<1>10. QED BY <1>8, <1>9 DEF Compared!ConversionBites

-----------------------------------------------------------------------------
\* src/spaceship/: the classes that define == and <=> have the laws of an order,
\* for all their values, and < of an int and an unsigned int is wrong where the
\* conversion says so, for words of any width.
THEOREM OrdersAlwaysLawful == ComputeSpec => []OrdersLawful
<1> DEFINE Inv ==
             demo = "orders" =>
               /\ family \in {"IntNan", "A", "CIString", "integers"}
               /\ x \in Compared!Operands(family) /\ y \in Compared!Operands(family)
               /\ z \in Compared!Operands(family)
<1>1. ComputeInit => Inv
  BY DEF ComputeInit, Compared!Init
<1>2. Inv /\ [ComputeNext]_computeVars => Inv'
  <2> SUFFICES ASSUME Inv, [ComputeNext]_computeVars, demo' = "orders" PROVE Inv'
    OBVIOUS
  <2>1. demo' = demo /\ UNCHANGED orderVars
    BY DEF ComputeNext, InFrames, InRandom, InWindow, InWords, InMemory, Recursive, computeVars
  <2>2. family' = family /\ x' = x /\ y' = y /\ z' = z
    BY <2>1 DEF orderVars
  <2>3. QED BY <2>1, <2>2 DEF Compared!Operands
<1>3. Inv => OrdersLawful
  <2> SUFFICES ASSUME Inv, demo = "orders" PROVE Compared!OrdersLawful
    BY DEF OrdersLawful
  <2>1. CASE family = "IntNan"
    BY <2>1, IntNanLawful DEF Compared!OrdersLawful
  <2>2. CASE family = "A"
    BY <2>2, ALawful DEF Compared!OrdersLawful
  <2>3. CASE family = "CIString"
    BY <2>3, StringLawful DEF Compared!OrdersLawful
  <2>4. CASE family = "integers"
    BY <2>4, IntegersLawful DEF Compared!OrdersLawful
  <2>5. QED BY <2>1, <2>2, <2>3, <2>4
<1> HIDE DEF Inv
<1>4. QED BY <1>1, <1>2, <1>3, PTL DEF ComputeSpec
-----------------------------------------------------------------------------
\* The iterator at rank r, its engine just behind it.
At(r) == [m_rank |-> r, m_engine |-> r, m_current |-> r]

LEMMA WordLarge == Word \in Nat /\ MaxRank \in Nat /\ MaxMove \in Nat /\ 0 < MaxRank /\ MaxRank < Word
BY ComputationsAssumption DEF ComputationsAssumption

LEMMA NoWrap ==
  ASSUME NEW v \in Nat, v < Word
  PROVE  v % Word = v
<1>1. Word \in Nat \ {0} /\ v \in Int /\ -Word <= v /\ ~(v < 0)
  BY WordLarge
<1>2. v % Word = IF v < 0 THEN v + Word ELSE v
  BY ONLY <1>1, v < Word, Modulo
<1>3. QED BY <1>1, <1>2

\* Two fields of an iterator are assigned.
Assign(i, r, e) == [i EXCEPT !.m_rank = r, !.m_engine = e]

LEMMA TwoFields ==
  ASSUME NEW r, NEW e, NEW c, NEW r1, NEW e1
  PROVE  Assign([m_rank |-> r, m_engine |-> e, m_current |-> c], r1, e1) =
           [m_rank |-> r1, m_engine |-> e1, m_current |-> c]
<1> DEFINE f == [[m_rank |-> r, m_engine |-> e, m_current |-> c] EXCEPT !.m_rank = r1, !.m_engine = e1]
           g == [m_rank |-> r1, m_engine |-> e1, m_current |-> c]
<1>1. DOMAIN f = {"m_rank", "m_engine", "m_current"} /\ DOMAIN g = {"m_rank", "m_engine", "m_current"}
  OBVIOUS
<1>2. f.m_rank = g.m_rank
  OBVIOUS
<1>3. f.m_engine = g.m_engine
  OBVIOUS
<1>4. f.m_current = g.m_current
  OBVIOUS
<1>5. f = [k \in DOMAIN f |-> f[k]] /\ g = [k \in DOMAIN g |-> g[k]]
  OBVIOUS
<1> HIDE DEF f, g
<1>6. \A k \in {"m_rank", "m_engine", "m_current"} : f[k] = g[k]
  BY <1>2, <1>3, <1>4
<1>7. /\ f = [k \in {"m_rank", "m_engine", "m_current"} |-> f[k]]
      /\ g = [k \in {"m_rank", "m_engine", "m_current"} |-> g[k]]
  BY <1>1, <1>5
<1>8. f = g
  BY ONLY <1>6, <1>7
<1>9. QED BY <1>8 DEF f, g, Assign

LEMMA ForceUpdateAt ==
  ASSUME NEW r \in Int, NEW e, NEW c
  PROVE  Random!force_update([m_rank |-> r, m_engine |-> e, m_current |-> c]) =
           [m_rank |-> r, m_engine |-> ((r - 1) % Word) + 1, m_current |-> ((r - 1) % Word) + 1]
<1> DEFINE i == [m_rank |-> r, m_engine |-> e, m_current |-> c]
<1>1. Assign(i, r - 1, (r - 1) % Word) =
        [m_rank |-> r - 1, m_engine |-> (r - 1) % Word, m_current |-> c]
  BY TwoFields
<1>2. i.m_rank = r
  OBVIOUS
<1>3. Random!force_update(i) = Random!update([m_rank |-> r - 1, m_engine |-> (r - 1) % Word, m_current |-> c])
  <2> HIDE DEF i
  <2>1. Random!force_update(i) = Random!update(Assign(i, i.m_rank - 1, (i.m_rank - 1) % Word))
    BY DEF Random!force_update, Assign
  <2>2. QED BY <1>1, <1>2, <2>1
<1>4. QED BY <1>3 DEF Random!update

\* One step forwards or backwards.
LEMMA StepAt ==
  ASSUME NEW r \in 1 .. MaxRank
  PROVE  /\ Random!update(At(r)) = At(r + 1)
         /\ Random!ReverseThrows(At(r)) <=> r = 1
         /\ r > 1 => Random!reverse_update(At(r)) = At(r - 1)
<1>1. Random!update(At(r)) = At(r + 1)
  BY WordLarge DEF Random!update, At
<1>2. Random!ReverseThrows(At(r)) <=> r = 1
  BY WordLarge DEF Random!ReverseThrows, At
<1>3. ASSUME r > 1 PROVE Random!reverse_update(At(r)) = At(r - 1)
  <2>1. r \in Nat /\ (r - 1) - 1 \in Nat /\ (r - 1) - 1 < Word
    BY <1>3, WordLarge
  <2>2. ((r - 1) - 1) % Word = (r - 1) - 1
    BY <2>1, NoWrap
  <2>3. [At(r) EXCEPT !.m_rank = @ - 1] = [m_rank |-> r - 1, m_engine |-> r, m_current |-> r]
    BY DEF At
  <2>4. Random!reverse_update(At(r)) =
          [m_rank |-> r - 1, m_engine |-> (((r - 1) - 1) % Word) + 1, m_current |-> (((r - 1) - 1) % Word) + 1]
    BY <2>1, <2>3, ForceUpdateAt DEF Random!reverse_update
  <2>5. QED BY <2>1, <2>2, <2>4 DEF At
<1>4. QED BY <1>1, <1>2, <1>3

\* A jump leads where it should, but to rank 0.
LEMMA JumpAt ==
  ASSUME NEW r \in 1 .. MaxRank, NEW n \in Int, 0 <= r + n, r + n <= MaxRank
  PROVE  /\ Random!Jump(At(r), n).m_rank = r + n
         /\ r + n > 0 => Random!Jump(At(r), n) = At(r + n)
<1>1. r \in Int /\ 0 < r /\ r <= MaxRank
  BY WordLarge
<1>2. CASE n > 0
  <2> DEFINE m == r + n - 1
  <2>1. m \in Int /\ m + 1 = r + n
    BY <1>1
  <2>2. Random!JumpForward(At(r), n) = Random!update(Assign(At(r), m, m))
    BY DEF At, Assign, Random!JumpForward
  <2> HIDE DEF m
  <2>3. Assign(At(r), m, m) = [m_rank |-> m, m_engine |-> m, m_current |-> r]
    BY TwoFields DEF At
  <2>4. Random!Jump(At(r), n) = Random!update([m_rank |-> m, m_engine |-> m, m_current |-> r])
    BY <1>2, <2>2, <2>3 DEF Random!Jump
  <2>5. Random!Jump(At(r), n) = At(r + n)
    BY <2>1, <2>4 DEF Random!update, At
  <2>6. QED BY <2>5 DEF At
<1>3. CASE n < 0
  <2>1. [At(r) EXCEPT !.m_rank = @ + n] = [m_rank |-> r + n, m_engine |-> r, m_current |-> r]
    BY DEF At
  <2>2. Random!Jump(At(r), n) =
          [m_rank |-> r + n, m_engine |-> (((r + n) - 1) % Word) + 1, m_current |-> (((r + n) - 1) % Word) + 1]
    BY <1>1, <1>3, <2>1, ForceUpdateAt DEF Random!Jump
  <2>3. ASSUME r + n > 0 PROVE Random!Jump(At(r), n) = At(r + n)
    <3>1. (r + n) - 1 \in Nat /\ (r + n) - 1 < Word
      BY <1>1, <2>3, WordLarge
    <3>2. ((r + n) - 1) % Word = (r + n) - 1
      BY <3>1, NoWrap
    <3>3. QED BY <1>1, <2>2, <3>2 DEF At
  <2>4. QED BY <2>2, <2>3
<1>4. CASE n = 0
  <2>1. Random!Jump(At(r), n) = At(r) /\ r + n = r
    BY <1>1, <1>4 DEF Random!Jump
  <2>2. QED BY <1>1, <2>1 DEF At
<1>5. QED BY <1>2, <1>3, <1>4

\* The iterator after k steps of a walk in the direction of n.
Walked(r, n, k) == At(IF n > 0 THEN r + k ELSE IF k < r THEN r - k ELSE 1)

IsWalk(walk1, i, n) ==
  walk1 = [k \in Nat |->
    IF k = 0 THEN i
    ELSE LET j == walk1[k - 1] IN
         IF n > 0 THEN Random!update(j)
         ELSE IF Random!ReverseThrows(j) THEN j ELSE Random!reverse_update(j)]

\* There is one such walk.
LEMMA WalkIs ==
  ASSUME NEW r \in 1 .. MaxRank, NEW n \in Int, NEW walk1
  PROVE  IsWalk(walk1, At(r), n) <=> walk1 = [k \in Nat |-> Walked(r, n, k)]
<1> DEFINE w == [k \in Nat |-> Walked(r, n, k)]
           next(j) == IF n > 0 THEN Random!update(j)
                      ELSE IF Random!ReverseThrows(j) THEN j ELSE Random!reverse_update(j)
<1>1. r \in Nat /\ 0 < r /\ r <= MaxRank
  BY WordLarge
<1>2. Walked(r, n, 0) = At(r)
  BY <1>1 DEF Walked
<1>3. \A k \in Nat \ {0} : Walked(r, n, k) = next(Walked(r, n, k - 1))
  <2> TAKE k \in Nat \ {0}
  <2>1. CASE n > 0
    <3>1. Walked(r, n, k) = At(r + k) /\ Walked(r, n, k - 1) = At(r + (k - 1))
      BY <2>1 DEF Walked
    <3>2. Random!update(At(r + (k - 1))) = At(r + k)
      BY <1>1 DEF Random!update, At
    <3>3. QED BY <2>1, <3>1, <3>2
  <2>2. CASE ~(n > 0)
    <3>1. CASE k < r
      <4>1. Walked(r, n, k) = At(r - k) /\ Walked(r, n, k - 1) = At(r - (k - 1))
        BY <1>1, <2>2, <3>1 DEF Walked
      <4>2. r - (k - 1) \in 1 .. MaxRank /\ r - (k - 1) > 1 /\ (r - (k - 1)) - 1 = r - k
        BY <1>1, <3>1, WordLarge
      <4>3. next(At(r - (k - 1))) = At(r - k)
        BY <2>2, <4>2, StepAt
      <4>4. QED BY <4>1, <4>3
    <3>2. CASE ~(k < r)
      <4>1. Walked(r, n, k) = At(1) /\ Walked(r, n, k - 1) = At(1)
        <5>1. k - 1 < r => r - (k - 1) = 1
          BY <1>1, <3>2
        <5>2. QED BY <2>2, <3>2, <5>1 DEF Walked
      <4>2. 1 \in 1 .. MaxRank
        BY <1>1, WordLarge
      <4>3. next(At(1)) = At(1)
        BY <2>2, <4>2, StepAt
      <4>4. QED BY <4>1, <4>3
    <3>3. QED BY <3>1, <3>2
  <2>3. QED BY <2>1, <2>2
<1> DEFINE v == [k \in Nat |-> IF k = 0 THEN At(r) ELSE next(w[k - 1])]
<1>4. w = v
  <2>1. \A k \in Nat : w[k] = v[k]
    <3> TAKE k \in Nat
    <3>1. CASE k = 0
      BY <1>2, <3>1
    <3>2. CASE k /= 0
      <4>1. k - 1 \in Nat /\ k \in Nat \ {0}
        BY <3>2
      <4>2. w[k - 1] = Walked(r, n, k - 1) /\ w[k] = Walked(r, n, k)
        BY <4>1
      <4> HIDE DEF w, next
      <4>3. v[k] = next(w[k - 1])
        BY <3>2
      <4>4. QED BY <1>3, <4>1, <4>2, <4>3
    <3>3. QED BY <3>1, <3>2
  <2> HIDE DEF next
  <2>2. w = [k \in Nat |-> w[k]] /\ v = [k \in Nat |-> v[k]]
    OBVIOUS
  <2> HIDE DEF w, v
  <2>3. QED BY <2>1, <2>2
<1>5. ASSUME walk1 = w PROVE IsWalk(walk1, At(r), n)
  BY <1>4, <1>5, Zenon DEF IsWalk
<1>6. ASSUME IsWalk(walk1, At(r), n) PROVE walk1 = w
  <2>1. walk1 = [k \in Nat |-> IF k = 0 THEN At(r) ELSE next(walk1[k - 1])]
    BY <1>6, Zenon DEF IsWalk
  <2> HIDE DEF next
  <2>2. walk1[0] = At(r) /\ \A k \in Nat \ {0} : walk1[k] = next(walk1[k - 1])
    <3>1. \A k \in Nat : walk1[k] = IF k = 0 THEN At(r) ELSE next(walk1[k - 1])
      BY <2>1
    <3>2. QED BY <3>1
  <2> DEFINE bad == {k \in Nat : walk1[k] /= Walked(r, n, k)}
  <2>3. bad = {}
    <3> SUFFICES ASSUME bad /= {} PROVE FALSE
      OBVIOUS
    <3>1. bad \in SUBSET Nat
      OBVIOUS
    <3> HIDE DEF bad
    <3>2. PICK m \in bad : \A j \in bad : m <= j
      BY <3>1, LeastNat
    <3>3. m \in Nat /\ walk1[m] /= Walked(r, n, m)
      BY <3>2 DEF bad
    <3>4. m /= 0
      BY <1>2, <2>2, <3>3
    <3>5. m - 1 \in Nat /\ m \in Nat \ {0} /\ ~(m <= m - 1)
      BY <3>3, <3>4
    <3>6. m - 1 \notin bad
      BY <3>2, <3>5
    <3>7. walk1[m - 1] = Walked(r, n, m - 1)
      BY <3>5, <3>6 DEF bad
    <3>8. walk1[m] = Walked(r, n, m)
      BY <1>3, <2>2, <3>5, <3>7
    <3>9. QED BY <3>3, <3>8
  <2>4. \A k \in Nat : walk1[k] = Walked(r, n, k)
    BY <2>3
  <2>5. walk1 = [k \in Nat |-> walk1[k]]
    BY <2>1
  <2>6. QED BY <2>4, <2>5
<1>7. QED BY <1>5, <1>6

LEMMA StepsAre ==
  ASSUME NEW r \in 1 .. MaxRank, NEW n \in Int
  PROVE  Random!Steps(At(r), n) = Walked(r, n, IF n < 0 THEN -n ELSE n)
<1> DEFINE m == IF n < 0 THEN -n ELSE n
           w == [k \in Nat |-> Walked(r, n, k)]
<1>1. m \in Nat
  OBVIOUS
<1>2. Random!Steps(At(r), n) = (CHOOSE walk1 : IsWalk(walk1, At(r), n))[m]
  BY Zenon DEF Random!Steps, IsWalk
<1>3. (CHOOSE walk1 : IsWalk(walk1, At(r), n)) = w
  <2> HIDE DEF w
  <2>1. \A walk1 : IsWalk(walk1, At(r), n) <=> walk1 = w
    BY WalkIs DEF w
  <2>2. QED BY <2>1, Zenon
<1>4. w[m] = Walked(r, n, m)
  BY <1>1
<1>5. QED BY <1>2, <1>3, <1>4

-----------------------------------------------------------------------------
\* The elements from the one after position p up to position q.
Between(p, q) == [k \in 1 .. q - p |-> p + k]

LEMMA BaseBetween ==
  ASSUME size \in Nat, NEW p \in 0 .. size, NEW q \in p .. size
  PROVE  SubSeq(Window!Base, p + 1, q) = Between(p, q)
<1>1. Window!Base \in Seq(Int) /\ Len(Window!Base) = size
  BY DEF Window!Base
<1>2. p + 1 \in 1 .. size + 1 /\ q \in p .. size /\ q - (p + 1) + 1 = q - p /\ q \in Int /\ p \in Int
  OBVIOUS
<1>3. SubSeq(Window!Base, p + 1, q) = [k \in 1 .. q - p |-> Window!Base[p + 1 + k - 1]]
  BY <1>2
<1>4. \A k \in 1 .. q - p : Window!Base[p + 1 + k - 1] = p + k
  BY <1>2 DEF Window!Base
<1>5. QED BY <1>3, <1>4 DEF Between

LEMMA BetweenJoin ==
  ASSUME NEW p \in Nat, NEW q \in Nat, NEW r \in Nat, p <= q, q <= r
  PROVE  Between(p, q) \o Between(q, r) = Between(p, r)
<1>1. Between(p, q) \in Seq(Int) /\ Len(Between(p, q)) = q - p /\ q - p \in Nat
  BY DEF Between
<1>2. Between(q, r) \in Seq(Int) /\ Len(Between(q, r)) = r - q /\ r - q \in Nat
  BY DEF Between
<1>3. Between(p, r) \in Seq(Int) /\ Len(Between(p, r)) = r - p
  BY DEF Between
<1> DEFINE u == Between(p, q) \o Between(q, r)
<1>4. /\ u \in Seq(Int) /\ Len(u) = (q - p) + (r - q)
      /\ \A k \in 1 .. (q - p) + (r - q) :
           u[k] = IF k <= q - p THEN Between(p, q)[k] ELSE Between(q, r)[k - (q - p)]
  <2> DEFINE v == Between(p, q)
             w == Between(q, r)
  <2>1. v \in Seq(Int) /\ w \in Seq(Int) /\ Len(v) = q - p /\ Len(w) = r - q
    BY <1>1, <1>2
  <2> HIDE DEF v, w
  <2>2. /\ v \o w \in Seq(Int) /\ Len(v \o w) = Len(v) + Len(w)
        /\ \A k \in 1 .. Len(v) + Len(w) : (v \o w)[k] = IF k <= Len(v) THEN v[k] ELSE w[k - Len(v)]
    BY ONLY <2>1, ConcatProperties
  <2>3. /\ v \o w \in Seq(Int) /\ Len(v \o w) = (q - p) + (r - q)
        /\ \A k \in 1 .. (q - p) + (r - q) : (v \o w)[k] = IF k <= q - p THEN v[k] ELSE w[k - (q - p)]
    BY ONLY <2>1, <2>2
  <2>4. QED BY <2>3 DEF v, w
<1> HIDE DEF u
<1>5. \A k \in 1 .. r - p : u[k] = p + k
  <2> TAKE k \in 1 .. r - p
  <2>1. CASE k <= q - p
    <3>1. k \in 1 .. q - p /\ k \in 1 .. (q - p) + (r - q)
      BY <2>1
    <3>2. QED BY <1>4, <2>1, <3>1 DEF Between
  <2>2. CASE ~(k <= q - p)
    <3>1. k - (q - p) \in 1 .. r - q /\ q + (k - (q - p)) = p + k /\ k \in 1 .. (q - p) + (r - q)
      BY <2>2
    <3>2. Between(q, r)[k - (q - p)] = q + (k - (q - p))
      BY <3>1 DEF Between
    <3>3. QED BY <1>4, <2>2, <3>1, <3>2
  <2>3. QED BY <2>1, <2>2
<1>6. \A k \in 1 .. r - p : Between(p, r)[k] = p + k
  BY DEF Between
<1>7. Len(u) = r - p /\ u \in Seq(Int)
  BY <1>4
<1>8. u = Between(p, r)
  BY <1>3, <1>5, <1>6, <1>7
<1>9. QED BY <1>8 DEF u

WindowInv ==
  /\ size \in Nat /\ m_n \in Nat \ {0}
  /\ m_current \in 0 .. size /\ m_next \in m_current .. size
  /\ m_acc = Between(m_current, m_next)
  /\ walk \in {"forward", "backward", "mixed"}
  /\ walk = "forward" => shown = Between(0, m_next)
  /\ walk = "backward" => shown = Between(m_current, size)
  /\ m_next - m_current = m_n
       \/ (m_next - m_current < m_n /\ (m_current = 0 \/ m_next = size))
  /\ m_current < size => m_current < m_next

LEMMA WindowInit ==
  ASSUME Window!Init PROVE WindowInv
<1>1. size \in Nat /\ m_n \in Nat \ {0}
  BY ComputationsAssumption DEF ComputationsAssumption, Window!Init
<1>2. /\ m_current \in 0 .. size /\ m_next \in m_current .. size
      /\ m_next - m_current = m_n \/ (m_next - m_current < m_n /\ m_next = size)
      /\ m_current < size => m_current < m_next
  BY <1>1 DEF Window!Init
<1>3. m_acc = Between(m_current, m_next)
  BY <1>1, <1>2, BaseBetween DEF Window!Init
<1>4. CASE m_current = 0 /\ walk = "forward"
  BY <1>1, <1>2, <1>3, <1>4 DEF Window!Init, WindowInv
<1>5. CASE m_current = size /\ walk = "backward"
  <2>1. shown = <<>> /\ Between(size, size) = <<>>
    BY <1>1, <1>5 DEF Window!Init, Between
  <2>2. QED BY <1>1, <1>2, <1>3, <1>5, <2>1 DEF WindowInv
<1>6. QED BY <1>4, <1>5 DEF Window!Init

LEMMA WindowForward ==
  ASSUME WindowInv, Window!Increment PROVE WindowInv'
<1>1. /\ size' = size /\ m_n' = m_n /\ m_current' = m_next /\ m_current /= size
      /\ m_next' = IF m_next + m_n <= size THEN m_next + m_n ELSE size
      /\ m_acc' = SubSeq(Window!Base, m_next + 1, m_next')
      /\ IF walk = "forward" THEN shown' = shown \o m_acc' /\ walk' = walk
         ELSE shown' = <<>> /\ walk' = "mixed"
  BY DEF Window!Increment, Window!Lookup
<1>2. /\ size \in Nat /\ m_n \in Nat \ {0} /\ m_current \in 0 .. size /\ m_next \in m_current .. size
      /\ walk \in {"forward", "backward", "mixed"}
      /\ walk = "forward" => shown = Between(0, m_next)
  BY DEF WindowInv
<1>3. /\ m_next \in 0 .. size /\ m_next' \in m_next .. size
      /\ m_next' - m_next = m_n \/ (m_next' - m_next < m_n /\ m_next' = size)
      /\ m_next < size => m_next < m_next'
  BY <1>1, <1>2
<1>4. m_acc' = Between(m_next, m_next')
  BY <1>1, <1>2, <1>3, BaseBetween
<1>5. walk = "forward" => shown' = Between(0, m_next')
  <2>1. 0 \in Nat /\ m_next \in Nat /\ m_next' \in Nat /\ 0 <= m_next /\ m_next <= m_next'
    BY <1>2, <1>3
  <2>2. Between(0, m_next) \o Between(m_next, m_next') = Between(0, m_next')
    BY ONLY <2>1, BetweenJoin
  <2>3. QED BY <1>1, <1>2, <1>4, <2>2
<1>6. walk' = IF walk = "forward" THEN "forward" ELSE "mixed"
  BY <1>1
<1>7. QED BY <1>1, <1>2, <1>3, <1>4, <1>5, <1>6 DEF WindowInv

LEMMA WindowBackward ==
  ASSUME WindowInv, Window!Decrement PROVE WindowInv'
<1>1. /\ size' = size /\ m_n' = m_n /\ m_next' = m_current /\ m_current /= 0
      /\ m_current' = IF m_current > m_n THEN m_current - m_n ELSE 0
      /\ m_acc' = SubSeq(Window!Base, m_current' + 1, m_next')
      /\ IF walk = "backward" THEN shown' = m_acc' \o shown /\ walk' = walk
         ELSE shown' = <<>> /\ walk' = "mixed"
  BY DEF Window!Decrement
<1>2. /\ size \in Nat /\ m_n \in Nat \ {0} /\ m_current \in 0 .. size
      /\ walk \in {"forward", "backward", "mixed"}
      /\ walk = "backward" => shown = Between(m_current, size)
  BY DEF WindowInv
<1>3. /\ m_current' \in 0 .. size /\ m_current \in m_current' .. size /\ m_current' < m_current
      /\ m_current - m_current' = m_n \/ (m_current - m_current' < m_n /\ m_current' = 0)
  BY <1>1, <1>2
<1>4. m_acc' = Between(m_current', m_current)
  BY <1>1, <1>2, <1>3, BaseBetween
<1>5. walk = "backward" => shown' = Between(m_current', size)
  <2>1. /\ m_current' \in Nat /\ m_current \in Nat /\ size \in Nat
        /\ m_current' <= m_current /\ m_current <= size
    BY <1>2, <1>3
  <2>2. Between(m_current', m_current) \o Between(m_current, size) = Between(m_current', size)
    BY ONLY <2>1, BetweenJoin
  <2>3. QED BY <1>1, <1>2, <1>4, <2>2
<1>6. walk' = IF walk = "backward" THEN "backward" ELSE "mixed"
  BY <1>1
<1>7. QED BY <1>1, <1>2, <1>3, <1>4, <1>5, <1>6 DEF WindowInv

LEMMA WindowMeans ==
  ASSUME WindowInv PROVE Window!WindowsTile
<1>1. size \in Nat /\ m_current \in 0 .. size /\ m_next \in m_current .. size
  BY DEF WindowInv
<1>2. /\ 0 \in 0 .. size /\ m_next \in 0 .. size /\ size \in m_current .. size
  BY <1>1
<1>3. SubSeq(Window!Base, m_current + 1, m_next) = Between(m_current, m_next)
  BY <1>1, BaseBetween
<1>4. SubSeq(Window!Base, 1, m_next) = Between(0, m_next)
  <2>1. SubSeq(Window!Base, 0 + 1, m_next) = Between(0, m_next)
    BY <1>1, <1>2, BaseBetween
  <2>2. QED BY <2>1
<1>5. SubSeq(Window!Base, m_current + 1, size) = Between(m_current, size)
  BY <1>1, <1>2, BaseBetween
<1>6. QED BY <1>3, <1>4, <1>5 DEF WindowInv, Window!WindowsTile

-----------------------------------------------------------------------------
\* Both iterators are at the same rank, until one of them has thrown.
RandomInv ==
  \/ thrown = {} /\ \E r \in 1 .. MaxRank : i1 = At(r) /\ i2 = At(r)
  \/ thrown /= {} /\ Random!ShowsRank /\ Random!JumpsAgree

LEMMA RandomInit == Random!Init => RandomInv
<1> SUFFICES ASSUME Random!Init PROVE RandomInv
  OBVIOUS
<1>1. 1 \in 1 .. MaxRank
  BY WordLarge
<1>2. Random!Begin = At(1)
  BY DEF Random!Begin, Random!update, At
<1>3. QED BY <1>1, <1>2 DEF Random!Init, RandomInv

\* Where a walk of n steps ends, and whether it throws.
LEMMA WalkEnds ==
  ASSUME NEW r \in 1 .. MaxRank, NEW n \in Int
  PROVE  /\ Random!Steps(At(r), n) = At(IF 0 < r + n THEN r + n ELSE 1)
         /\ Random!StepsThrow(At(r), n) <=> r + n <= 0
<1>1. r \in Nat /\ 0 < r /\ r <= MaxRank
  BY WordLarge
<1>2. ASSUME NEW k \in Int
      PROVE  Random!Steps(At(r), k) = At(IF 0 < r + k THEN r + k ELSE 1)
  <2>1. Random!Steps(At(r), k) = Walked(r, k, IF k < 0 THEN -k ELSE k)
    BY <1>2, StepsAre
  <2>2. CASE k > 0
    BY <1>1, <2>1, <2>2 DEF Walked
  <2>3. CASE k = 0
    <3>1. ~(k > 0) /\ ~(k < 0) /\ k < r /\ r - k = r /\ 0 < r + k /\ r + k = r
      BY <1>1, <2>3
    <3>2. QED BY <2>1, <3>1 DEF Walked
  <2>4. CASE k < 0
    <3>1. ~(k > 0) /\ (-k < r <=> 0 < r + k) /\ r - (-k) = r + k
      BY <1>1, <2>4
    <3>2. QED BY <2>1, <2>4, <3>1 DEF Walked
  <2>5. QED BY <2>2, <2>3, <2>4
<1>3. Random!Steps(At(r), n) = At(IF 0 < r + n THEN r + n ELSE 1)
  BY <1>2
<1>4. CASE n < 0
  <2>1. Random!Steps(At(r), n + 1) = At(IF 0 < r + (n + 1) THEN r + (n + 1) ELSE 1)
    BY <1>2
  <2> DEFINE e == IF 0 < r + (n + 1) THEN r + (n + 1) ELSE 1
  <2>2. e \in 1 .. MaxRank /\ (e = 1 <=> r + n <= 0)
    BY <1>1, <1>4, WordLarge
  <2> HIDE DEF e
  <2>3. Random!ReverseThrows(At(e)) <=> e = 1
    BY <2>2, StepAt
  <2>4. Random!Steps(At(r), n + 1) = At(e)
    BY <2>1 DEF e
  <2>5. QED BY <1>3, <1>4, <2>2, <2>3, <2>4 DEF Random!StepsThrow
<1>5. CASE ~(n < 0)
  <2>1. ~(r + n <= 0)
    BY <1>1, <1>5
  <2>2. QED BY <1>3, <1>5, <2>1 DEF Random!StepsThrow
<1>6. QED BY <1>4, <1>5

LEMMA RandomStep ==
  ASSUME RandomInv, Random!Next PROVE RandomInv'
<1>1. ASSUME NEW n \in -MaxMove .. MaxMove, Random!Move(n) PROVE RandomInv'
  <2>1. /\ thrown = {} /\ i2.m_rank > 0 /\ i2.m_rank + n <= MaxRank
        /\ i1' = Random!Steps(i1, n)
        /\ i2' = IF Random!JumpThrows(i2, n) THEN i2 ELSE Random!Jump(i2, n)
        /\ thrown' = (IF Random!StepsThrow(i1, n) THEN {1} ELSE {})
                       \cup (IF Random!JumpThrows(i2, n) THEN {2} ELSE {})
    BY <1>1 DEF Random!Move
  <2>2. PICK r \in 1 .. MaxRank : i1 = At(r) /\ i2 = At(r)
    BY <2>1 DEF RandomInv
  <2>3. n \in Int /\ r \in Int /\ 0 < r /\ r <= MaxRank /\ r + n <= MaxRank
    BY <2>1, <2>2, WordLarge DEF At
  <2>4. i1' = At(IF 0 < r + n THEN r + n ELSE 1) /\ (Random!StepsThrow(i1, n) <=> r + n <= 0)
    BY <2>1, <2>2, <2>3, WalkEnds
  <2>5. Random!JumpThrows(i2, n) <=> r + n < 0
    BY <2>2, <2>3 DEF Random!JumpThrows, At
  <2>6. CASE 0 < r + n
    <3>1. ~(r + n <= 0) /\ ~(r + n < 0) /\ 0 <= r + n /\ r + n \in 1 .. MaxRank
      BY <2>3, <2>6, WordLarge
    <3>2. i2' = Random!Jump(At(r), n) /\ thrown' = {} /\ i1' = At(r + n)
      BY <2>1, <2>2, <2>4, <2>5, <2>6, <3>1
    <3>3. i2' = At(r + n)
      BY <2>3, <2>6, <3>1, <3>2, JumpAt
    <3>4. QED BY <3>1, <3>2, <3>3 DEF RandomInv
  <2>7. CASE r + n = 0
    <3>1. r + n <= 0 /\ ~(r + n < 0) /\ ~(0 < r + n)
      BY <2>7
    <3>2. i2' = Random!Jump(At(r), n) /\ thrown' = {1} /\ i1' = At(1)
      BY <2>1, <2>2, <2>4, <2>5, <3>1
    <3>3. i2'.m_rank = 0
      BY <2>3, <2>7, <3>2, JumpAt
    <3>4. Random!ShowsRank'
      BY <3>2, <3>3 DEF Random!ShowsRank, At
    <3>5. QED BY <3>2, <3>3, <3>4 DEF RandomInv, Random!JumpsAgree
  <2>8. CASE r + n < 0
    <3>1. r + n <= 0 /\ ~(0 < r + n)
      BY <2>3, <2>8
    <3>2. i2' = At(r) /\ thrown' = {1, 2} /\ i1' = At(1)
      BY <2>1, <2>2, <2>4, <2>5, <2>8, <3>1
    <3>3. Random!ShowsRank'
      BY <3>2 DEF Random!ShowsRank, At
    <3>4. QED BY <3>2, <3>3 DEF RandomInv, Random!JumpsAgree, Random!FastMove
  <2>9. QED BY <2>3, <2>6, <2>7, <2>8
<1>2. CASE Random!Ended
  <2>1. thrown' = thrown /\ i1' = i1 /\ i2' = i2
    BY <1>2 DEF Random!Ended, Random!vars
  <2>2. QED BY <2>1 DEF RandomInv, Random!ShowsRank, Random!JumpsAgree, Random!FastMove
<1>3. QED BY <1>1, <1>2 DEF Random!Next

\* custom_rnd_view.hpp: whatever moves a client makes, both iterators show the
\* number of their rank, and jumps lead where steps lead, but to rank 0.
\* custom_window_fold_view.hpp: a walk in one direction shows every element
\* once, and an iterator that turns shows the window it is at.
THEOREM IteratorsAlwaysRight == ComputeSpec => []IteratorsRight
<1> DEFINE Inv == (demo = "random" => RandomInv) /\ (demo = "window" => WindowInv)
<1>1. ComputeInit => Inv
  BY RandomInit, WindowInit DEF ComputeInit
<1>2. Inv /\ [ComputeNext]_computeVars => Inv'
  <2> SUFFICES ASSUME Inv, [ComputeNext]_computeVars PROVE Inv'
    OBVIOUS
  <2>1. CASE InRandom(Random!Next)
    <3>1. demo = "random" /\ demo' = "random" /\ Random!Next
      BY <2>1 DEF InRandom
    <3>2. QED BY <3>1, RandomStep
  <2>2. CASE InWindow(Window!Next)
    <3>1. demo = "window" /\ demo' = "window" /\ Window!Next /\ WindowInv
      BY <2>2 DEF InWindow
    <3>2. ASSUME Window!Nothing PROVE WindowInv'
      <4>1. /\ size' = size /\ m_n' = m_n /\ m_current' = m_current /\ m_next' = m_next
            /\ m_acc' = m_acc /\ walk' = walk /\ shown' = shown
        BY <3>2 DEF Window!Nothing, Window!vars
      <4>2. QED BY <3>1, <4>1 DEF WindowInv
    <3>3. QED BY <3>1, <3>2, WindowForward, WindowBackward DEF Window!Next
  <2>3. ASSUME UNCHANGED <<demo, rndVars, windowVars>> PROVE Inv'
    <3>1. demo' = demo /\ i1' = i1 /\ i2' = i2 /\ thrown' = thrown
      BY <2>3 DEF rndVars
    <3>2. /\ size' = size /\ m_n' = m_n /\ m_current' = m_current /\ m_next' = m_next
          /\ m_acc' = m_acc /\ walk' = walk /\ shown' = shown
      BY <2>3 DEF windowVars
    <3>3. RandomInv => RandomInv'
      BY <3>1 DEF RandomInv, Random!ShowsRank, Random!JumpsAgree, Random!FastMove
    <3>4. WindowInv => WindowInv'
      BY <3>2 DEF WindowInv
    <3>5. QED BY <3>1, <3>3, <3>4
  <2>4. CASE InFrames(Next)
    BY <2>3, <2>4 DEF InFrames
  <2>5. CASE InWords(WordCounts!Next)
    BY <2>3, <2>5 DEF InWords
  <2>6. CASE InMemory(Memories!Next)
    BY <2>3, <2>6 DEF InMemory
  <2>7. CASE UNCHANGED computeVars
    BY <2>3, <2>7 DEF computeVars
  <2>8. QED BY <2>1, <2>2, <2>4, <2>5, <2>6, <2>7 DEF ComputeNext
<1>3. Inv => IteratorsRight
  <2>1. RandomInv => Random!ShowsRank /\ Random!JumpsAgree
    BY DEF RandomInv, Random!ShowsRank, Random!JumpsAgree, Random!FastMove, At
  <2>2. WindowInv => Window!WindowsTile
    BY WindowMeans
  <2>3. QED BY <2>1, <2>2 DEF IteratorsRight
<1> HIDE DEF Inv
<1>4. QED BY <1>1, <1>2, <1>3, PTL DEF ComputeSpec

-----------------------------------------------------------------------------
\* The test that runs, as the record that it is.
LEMMA TestIs ==
  /\ test = "std_string_in_vector" => Memories!T = Memories!Test("new", "new", 32, 53, Items, 200000, "null")
  /\ test = "std_string_in_pmr_vector" => Memories!T = Memories!Test("pool", "new", 32, 53, Items, 200000, "null")
  /\ test = "pmr_string_in_pmr_vector" => Memories!T = Memories!Test("pool", "pool", 40, 53, Items, 200000, "null")
  /\ test = "introspection" => Memories!T = Memories!Test("pool", "none", 1, 0, 5, 96, "new")
  /\ test = "PMRList" => Memories!T = Memories!Test("none", "pool", 0, 24, 20, 2048, "new")
  /\ test = "standardList" => Memories!T = Memories!Test("none", "new", 0, 24, 20, 2048, "new")
  /\ test = "PMRVector" => Memories!T = Memories!Test("pool", "none", 4, 0, 20, 2048, "new")
  /\ test = "standardVector" => Memories!T = Memories!Test("new", "none", 4, 0, 20, 2048, "new")
<1> USE DEF Memories!T, Memories!StringTests, Memories!Introspection, Memories!Benchmarks, Memories!test_body
<1>1. CASE test \in DOMAIN Memories!StringTests
  BY <1>1
<1>2. CASE test \in DOMAIN Memories!Benchmarks
  BY <1>2
<1>3. CASE test \notin DOMAIN Memories!StringTests \cup DOMAIN Memories!Benchmarks
  BY <1>3
<1>4. QED BY <1>1, <1>2, <1>3

\* The names of the tests.
LEMMA TestsAre ==
  Memories!Tests = {"std_string_in_vector", "std_string_in_pmr_vector", "pmr_string_in_pmr_vector",
                    "introspection", "PMRList", "standardList", "PMRVector", "standardVector"}
BY DEF Memories!Tests, Memories!StringTests, Memories!Benchmarks

\* The first place that is aligned is less than `align` away.
LEMMA AlignedIs ==
  ASSUME NEW place \in Nat
  PROVE  /\ Memories!Aligned(place, 1) = place
         /\ Memories!Aligned(place, 4) \in place .. place + 3
         /\ Memories!Aligned(place, 8) \in place .. place + 7
BY DEF Memories!Aligned

\* Less than twice n: once more when n + 1 is more than a storage for n.
Below(n) == {c \in Memories!Doubles : c < 2 * n}

\* There are finitely many.
LEMMA BelowIs ==
  ASSUME NEW n \in Nat
  PROVE  IsFiniteSet(Below(n)) /\ Cardinality(Below(n)) \in Nat
         /\ Memories!Cardinality(Below(n)) = Cardinality(Below(n))
<1>1. Below(n) \subseteq 1 .. 1024
  <2>1. \A c \in Memories!Doubles : c \in 1 .. 1024
    BY DEF Memories!Doubles
  <2>2. \A c \in Below(n) : c \in Memories!Doubles
    BY DEF Below
  <2>3. QED BY <2>1, <2>2
<1>2. IsFiniteSet(1 .. 1024)
  <2>1. \A top \in Int : IsFiniteSet(1 .. top)
    BY FS_Interval
  <2>2. 1024 \in Int
    OBVIOUS
  <2>3. QED BY ONLY <2>1, <2>2, Zenon
<1>3. IsFiniteSet(Below(n))
  BY <1>1, <1>2, FS_Subset
<1>4. Cardinality(Below(n)) \in Nat
  BY <1>3, FS_CardinalityType
<1>5. Memories!Cardinality(Below(n)) = Cardinality(Below(n))
  BY DEF Memories!Cardinality, Cardinality
<1>6. QED BY <1>3, <1>4, <1>5

\* No storage for an empty vector.
LEMMA BelowNone == Cardinality(Below(0)) = 0
<1>1. Below(0) = {}
  BY DEF Below, Memories!Doubles
<1>2. QED BY <1>1, FS_EmptySet

\* An insert into a full vector takes one more storage,
LEMMA BelowMore ==
  ASSUME NEW n \in Nat, n = 0 \/ n \in Memories!Doubles, n <= 512
  PROVE  Cardinality(Below(n + 1)) = Cardinality(Below(n)) + 1
<1>1. CASE n = 0
  <2>1. Below(0) = {}
    BY DEF Below, Memories!Doubles
  <2>2. 1 \in Memories!Doubles /\ \A c \in Memories!Doubles : c < 2 * 1 <=> c = 1
    BY DEF Memories!Doubles
  <2>3. Below(0 + 1) = Below(0) \cup {1} /\ 1 \notin Below(0)
    BY <2>1, <2>2 DEF Below
  <2>4. QED BY <1>1, <2>3, BelowIs, FS_AddElement
<1>2. CASE n \in Memories!Doubles
  <2>1. 2 * n \in Memories!Doubles
    BY <1>2 DEF Memories!Doubles
  <2>2. \A c \in Memories!Doubles : c < 2 * (n + 1) <=> c < 2 * n \/ c = 2 * n
    BY <1>2 DEF Memories!Doubles
  <2>3. Below(n + 1) = Below(n) \cup {2 * n} /\ 2 * n \notin Below(n)
    BY <2>1, <2>2 DEF Below
  <2>4. QED BY <2>3, BelowIs, FS_AddElement
<1>3. QED BY <1>1, <1>2

\* any other insert none.
LEMMA BelowSame ==
  ASSUME NEW n \in Nat, NEW c \in Memories!Doubles, n < c, c < 2 * n
  PROVE  Cardinality(Below(n + 1)) = Cardinality(Below(n))
<1>1. \A d \in Memories!Doubles : d /= 2 * n /\ d /= 2 * n + 1
  BY DEF Memories!Doubles
<1>2. \A d \in Memories!Doubles : d < 2 * (n + 1) <=> d < 2 * n
  BY <1>1 DEF Memories!Doubles
<1>3. Below(n + 1) = Below(n)
  BY <1>2 DEF Below
<1>4. QED BY <1>3

\* The capacity of a vector that doubles.
Doubling ==
  \/ me_size = 0 /\ capacity = 0
  \/ capacity \in Memories!Doubles /\ me_size <= capacity /\ capacity < 2 * me_size

Shape ==
  /\ me_size \in 0 .. Memories!T.items
  /\ IF Memories!T.outer = "none" THEN capacity = 0
     ELSE IF Memories!AtOnce THEN capacity = me_size /\ me_size \in {0, Memories!T.items}
     ELSE Doubling

\* No storage of the vector has been bigger than 64 times an element, no
\* string with what lies before it than 60 bytes.
Filled ==
  /\ test = "std_string_in_pmr_vector" => used <= 71 * capacity
  /\ test = "pmr_string_in_pmr_vector" => used <= 87 * capacity + 53 * me_size
  /\ test = "PMRList" => used <= 31 * me_size
  /\ test = "PMRVector" => used <= 7 * me_size
  /\ Memories!T.outer = "pool" => data \in Int /\ data + capacity * Memories!T.element <= used

\* NewCounted, with the storages as a set.
AllCounted ==
  LET own == IF Memories!T.inner = "new" THEN me_size ELSE 0
      new == Memories!T.outer = "new" IN
  /\ status.numAlloc = own + (IF new THEN Memories!Storages ELSE 0)
  /\ status.sumSize = Memories!T.text * own + (IF new THEN Memories!Storage ELSE 0)

\* An insert into a vector that doubles, and the storages it has had.
LEMMA VectorGrows ==
  ASSUME me_size \in Nat, me_size < 1000, Doubling, me_size' = me_size + 1,
         capacity' = IF me_size = capacity THEN IF capacity = 0 THEN 1 ELSE 2 * capacity ELSE capacity
  PROVE  /\ Doubling' /\ capacity \in 0 .. 1024 /\ capacity' \in 1 .. 1024
         /\ Cardinality(Below(me_size')) = Cardinality(Below(me_size)) + (IF me_size = capacity THEN 1 ELSE 0)
<1>1. capacity \in 0 .. 1024
  BY DEF Doubling, Memories!Doubles
<1>2. CASE me_size = capacity
  <2>1. me_size <= 512 /\ (me_size = 0 \/ me_size \in Memories!Doubles)
    BY <1>2 DEF Doubling, Memories!Doubles
  <2>2. Doubling' /\ capacity' \in 1 .. 1024
    BY <1>2, <2>1 DEF Doubling, Memories!Doubles
  <2>3. Cardinality(Below(me_size + 1)) = Cardinality(Below(me_size)) + 1
    BY <2>1, BelowMore
  <2>4. QED BY <1>1, <1>2, <2>2, <2>3
<1>3. CASE me_size /= capacity
  <2>1. capacity \in Memories!Doubles /\ me_size < capacity /\ capacity < 2 * me_size
    BY <1>1, <1>3 DEF Doubling
  <2>2. Cardinality(Below(me_size + 1)) = Cardinality(Below(me_size))
    BY <2>1, BelowSame
  <2>3. Cardinality(Below(me_size)) \in Nat
    BY BelowIs
  <2>4. Doubling' /\ capacity' \in 1 .. 1024
    BY <1>1, <1>3, <2>1 DEF Doubling
  <2>5. QED BY <1>1, <1>3, <2>2, <2>3, <2>4
<1>4. QED BY <1>2, <1>3

\* What the storage of a vector is.
LEMMA StorageIs ==
  ASSUME me_size \in Nat
  PROVE  /\ Memories!T.outer /= "none" /\ ~Memories!AtOnce => Memories!Storages = Cardinality(Below(me_size))
         /\ Memories!AtOnce /\ Memories!T.outer /= "none" => Memories!Storages = IF me_size = 0 THEN 0 ELSE 1
<1>1. Memories!Cardinality({c \in Memories!Doubles : c < 2 * me_size}) = Cardinality(Below(me_size))
  BY BelowIs DEF Below
<1>2. QED BY <1>1, BelowNone DEF Memories!Storages

MemoryTypes ==
  /\ used \in Nat /\ capacity \in Nat /\ refused \in BOOLEAN /\ status \in [numAlloc : Nat, sumSize : Nat]

\* An insert takes a new storage, and memory of the element from new.
Grows == Memories!T.outer /= "none" /\ me_size = capacity
Own == IF Memories!T.inner = "new" THEN 1 ELSE 0

\* What an insert does to a container that takes from new.
LEMMA EmplaceNew ==
  ASSUME test \in {"std_string_in_vector", "standardList", "standardVector"}, MemoryTypes, ~refused, Memories!Emplace
  PROVE  /\ refused' = FALSE /\ used' = used
         /\ status'.numAlloc = status.numAlloc + (IF Grows THEN 1 ELSE 0) + Own
         /\ status'.sumSize = status.sumSize + (IF Grows THEN Memories!Grown * Memories!T.element ELSE 0)
                                + Memories!T.text * Own
         /\ status' \in [numAlloc : Nat, sumSize : Nat]
<1> DEFINE grows == Grows
           own == Own
           a == status.numAlloc
           b == status.sumSize
           storage == Memories!Grown * Memories!T.element
           a1 == IF grows THEN a + 1 ELSE a
           b1 == IF grows THEN b + storage ELSE b
           m == IF grows THEN Memories!allocate(Memories!Before, storage) ELSE Memories!Before
           n == IF Memories!T.inner = "new" THEN Memories!allocate(m, Memories!T.text) ELSE m
<1>1. Memories!Before = [used |-> used, status |-> [numAlloc |-> a, sumSize |-> b], refused |-> FALSE]
  BY DEF MemoryTypes, Memories!Before
<1>2. Memories!T.outer \in {"new", "none"} /\ Memories!T.inner \in {"new", "none"}
  BY TestIs DEF Memories!Test
<1>3. used' = n.used /\ status' = n.status /\ refused' = n.refused
  BY <1>2 DEF Memories!Emplace, Memories!Take, Grows
<1>4. a \in Nat /\ b \in Nat /\ Memories!T.text \in Nat /\ Memories!T.element \in {0, 4, 32}
  BY TestIs DEF MemoryTypes, Memories!Test
<1>5. Memories!Grown \in Nat
  BY TestIs, ComputationsAssumption DEF Memories!Grown, Memories!Test, MemoryTypes, ComputationsAssumption
<1>6. storage \in Nat
  BY <1>4, <1>5
<1> HIDE DEF a, b, storage
<1>7. a1 \in Nat /\ b1 \in Nat
  BY <1>4, <1>6
<1>8. m = [used |-> used, status |-> [numAlloc |-> a1, sumSize |-> b1], refused |-> FALSE]
  <2>1. CASE grows
    <3>1. m = Memories!allocate(Memories!Before, storage)
      BY <2>1
    <3>2. m = [used |-> used, status |-> [numAlloc |-> a + 1, sumSize |-> b + storage], refused |-> FALSE]
      BY ONLY <1>1, <3>1 DEF Memories!allocate
    <3>3. QED BY <2>1, <3>2
  <2>2. CASE ~grows
    BY <1>1, <2>2
  <2>3. QED BY <2>1, <2>2
<1>9. a1 = a + (IF grows THEN 1 ELSE 0) /\ b1 = b + (IF grows THEN storage ELSE 0)
  BY <1>4, <1>6
<1> HIDE DEF m, a1, b1
<1>10. CASE Memories!T.inner = "new"
  <2>1. n = Memories!allocate(m, Memories!T.text)
    BY <1>10
  <2>2. n = [used |-> used, status |-> [numAlloc |-> a1 + 1, sumSize |-> b1 + Memories!T.text], refused |-> FALSE]
    BY ONLY <1>8, <2>1 DEF Memories!allocate
  <2>3. used' = used /\ refused' = FALSE /\ status' = [numAlloc |-> a1 + 1, sumSize |-> b1 + Memories!T.text]
    BY ONLY <1>3, <2>2
  <2>4. own = 1
    BY <1>10 DEF Own
  <2>5. QED BY ONLY <1>4, <1>7, <1>9, <2>3, <2>4 DEF a, b, storage
<1>11. CASE Memories!T.inner /= "new"
  <2>1. n = m
    BY <1>11
  <2>2. used' = used /\ refused' = FALSE /\ status' = [numAlloc |-> a1, sumSize |-> b1]
    BY ONLY <1>3, <1>8, <2>1
  <2>3. own = 0
    BY <1>11 DEF Own
  <2>4. QED BY ONLY <1>4, <1>7, <1>9, <2>2, <2>3 DEF a, b, storage
<1>12. QED BY <1>10, <1>11

\* A storage that is aligned for its elements.
Align == IF Memories!T.element % 8 = 0 THEN 8 ELSE Memories!T.element
TextAlign == IF Memories!T.text = 24 THEN 8 ELSE 1

\* What is used with the storage, and with the memory of the element too.
First == IF Grows THEN Memories!Aligned(used, Align) + Memories!Grown * Memories!T.element ELSE used
Second == IF Memories!T.inner = "pool" THEN Memories!Aligned(First, TextAlign) + Memories!T.text ELSE First

\* A container of which something comes from the buffer, as long as it fits.
LEMMA EmplacePool ==
  ASSUME test \in {"std_string_in_pmr_vector", "pmr_string_in_pmr_vector", "introspection", "PMRList", "PMRVector"},
         MemoryTypes, ~refused, Memories!Emplace,
         First \in Nat, Second \in Nat, First <= Memories!T.buffer, Second <= Memories!T.buffer
  PROVE  /\ refused' = FALSE /\ used' = Second
         /\ status' = IF Memories!T.inner = "new"
                      THEN [numAlloc |-> status.numAlloc + 1, sumSize |-> status.sumSize + Memories!T.text]
                      ELSE status
         /\ data' = IF Grows THEN First - Memories!Grown * Memories!T.element ELSE data
<1> DEFINE grows == Grows
           first == First
           second == Second
           storage == Memories!Grown * Memories!T.element
           m == IF grows THEN Memories!Monotonic(Memories!Before, storage, Align) ELSE Memories!Before
           n == CASE Memories!T.inner = "new" -> Memories!allocate(m, Memories!T.text)
                  [] Memories!T.inner = "pool" -> Memories!Monotonic(m, Memories!T.text, TextAlign)
                  [] Memories!T.inner = "none" -> m
<1>1. Memories!Before = [used |-> used, status |-> status, refused |-> FALSE]
  BY DEF MemoryTypes, Memories!Before
<1>2. Memories!T.outer \in {"pool", "none"} /\ Memories!T.inner \in {"new", "pool", "none"}
  BY TestIs DEF Memories!Test
<1>3. /\ used' = n.used /\ status' = n.status /\ refused' = n.refused
      /\ data' = IF grows THEN m.used - storage ELSE data
  BY <1>2 DEF Memories!Emplace, Memories!Take, Align, TextAlign, Grows
<1> HIDE DEF storage
<1>4. m = [used |-> first, status |-> status, refused |-> FALSE]
  <2>1. CASE grows
    <3>1. m = Memories!Monotonic(Memories!Before, storage, Align)
      BY <2>1
    <3>2. first = Memories!Aligned(used, Align) + storage
      BY <2>1 DEF storage, First
    <3>3. Memories!Before.used = used
      BY <1>1
    <3>4. m = [Memories!Before EXCEPT !.used = first]
      BY ONLY <3>1, <3>2, <3>3, first <= Memories!T.buffer DEF Memories!Monotonic
    <3>5. QED BY ONLY <1>1, <3>4
  <2>2. CASE ~grows
    BY <1>1, <2>2 DEF First
  <2>3. QED BY <2>1, <2>2
<1> HIDE DEF m
<1>5. m.used = first
  BY <1>4
<1>6. CASE Memories!T.inner = "new"
  <2>1. n = Memories!allocate(m, Memories!T.text) /\ second = first
    BY <1>6 DEF Second
  <2>2. n = [used |-> first, status |-> [numAlloc |-> status.numAlloc + 1, sumSize |-> status.sumSize + Memories!T.text],
             refused |-> FALSE]
    BY ONLY <1>4, <2>1, MemoryTypes DEF Memories!allocate, MemoryTypes
  <2>3. QED BY <1>3, <1>5, <1>6, <2>1, <2>2 DEF storage
<1>7. CASE Memories!T.inner = "pool"
  <2>1. n = Memories!Monotonic(m, Memories!T.text, TextAlign)
    BY <1>7
  <2>2. second = Memories!Aligned(first, TextAlign) + Memories!T.text
    BY <1>7 DEF Second
  <2>3. n = [m EXCEPT !.used = second]
    BY ONLY <1>5, <2>1, <2>2, second <= Memories!T.buffer DEF Memories!Monotonic
  <2>4. n = [used |-> second, status |-> status, refused |-> FALSE]
    BY ONLY <1>4, <2>3
  <2>5. QED BY <1>3, <1>5, <1>7, <2>4 DEF storage
<1>8. CASE Memories!T.inner = "none"
  <2>1. n = m /\ second = first
    BY <1>8 DEF Second
  <2>2. QED BY <1>3, <1>4, <1>5, <1>8, <2>1 DEF storage
<1>9. QED BY <1>2, <1>6, <1>7, <1>8

VectorInv == test \in Memories!Tests => Shape /\ ~refused /\ Filled /\ AllCounted

\* What an insert does to the vector itself.
LEMMA InsertIs ==
  ASSUME test \in Memories!Tests, Memories!Emplace
  PROVE  /\ test' = test /\ Memories!T' = Memories!T /\ Memories!AtOnce' = Memories!AtOnce
         /\ me_size < Memories!T.items
         /\ capacity' = IF Memories!T.outer /= "none" /\ me_size = capacity THEN Memories!Grown ELSE capacity
         /\ ~refused' => me_size' = IF Memories!AtOnce THEN Memories!T.items ELSE me_size + 1
<1>1. test' = test
  BY DEF Memories!Emplace
<1>2. Memories!T' = Memories!T /\ Memories!AtOnce' = Memories!AtOnce
  BY <1>1 DEF Memories!T, Memories!AtOnce
<1>3. /\ me_size < Memories!T.items
      /\ capacity' = IF Memories!T.outer /= "none" /\ me_size = capacity THEN Memories!Grown ELSE capacity
  BY DEF Memories!Emplace
<1>4. ~refused' => me_size' = IF Memories!AtOnce THEN Memories!T.items ELSE me_size + 1
  BY DEF Memories!Emplace
<1>5. QED BY <1>1, <1>2, <1>3, <1>4

\* The vectors that double.
LEMMA DoublingGrows ==
  ASSUME test \in {"std_string_in_vector", "std_string_in_pmr_vector", "pmr_string_in_pmr_vector", "introspection"},
         Shape, Memories!Emplace, ~refused'
  PROVE  /\ Shape' /\ Doubling /\ Doubling' /\ capacity \in 0 .. 1024 /\ capacity' \in 1 .. 1024
         /\ me_size \in 0 .. 999 /\ me_size' = me_size + 1
         /\ Memories!Grown = IF capacity = 0 THEN 1 ELSE 2 * capacity
         /\ capacity' = IF me_size = capacity THEN Memories!Grown ELSE capacity
         /\ Memories!Storages = Cardinality(Below(me_size)) /\ Memories!Storages' = Cardinality(Below(me_size'))
         /\ Memories!Storages' = Memories!Storages + (IF me_size = capacity THEN 1 ELSE 0)
         /\ Memories!Storages \in Nat
         /\ Memories!Storage = IF capacity = 0 THEN 0 ELSE Memories!T.element * (2 * capacity - 1)
         /\ Memories!Storage' = Memories!T.element * (2 * capacity' - 1)
<1> USE ComputationsAssumption DEF ComputationsAssumption
<1>1. test \in Memories!Tests /\ Memories!T.outer \in {"new", "pool"} /\ ~Memories!AtOnce /\ Memories!T.items \in 0 .. 1000
  BY TestIs, TestsAre DEF Memories!Test, Memories!AtOnce
<1>2. Doubling /\ me_size \in 0 .. Memories!T.items
  BY <1>1 DEF Shape
<1>3. /\ Memories!T' = Memories!T /\ Memories!AtOnce' = Memories!AtOnce
      /\ me_size < Memories!T.items
      /\ capacity' = IF me_size = capacity THEN Memories!Grown ELSE capacity
      /\ me_size' = me_size + 1
  BY <1>1, InsertIs
<1>4. Memories!Grown = IF capacity = 0 THEN 1 ELSE 2 * capacity
  BY <1>1 DEF Memories!Grown
<1>5. /\ Doubling' /\ capacity \in 0 .. 1024 /\ capacity' \in 1 .. 1024
      /\ Cardinality(Below(me_size')) = Cardinality(Below(me_size)) + (IF me_size = capacity THEN 1 ELSE 0)
  <2>1. me_size \in Nat /\ me_size < 1000
    BY <1>1, <1>2, <1>3
  <2>2. capacity' = IF me_size = capacity THEN IF capacity = 0 THEN 1 ELSE 2 * capacity ELSE capacity
    BY <1>3, <1>4
  <2>3. QED BY <1>2, <1>3, <2>1, <2>2, VectorGrows
<1>6. Shape'
  <2>1. me_size' \in 0 .. Memories!T'.items
    BY <1>1, <1>2, <1>3
  <2>2. Memories!T'.outer /= "none" /\ ~Memories!AtOnce'
    BY <1>1, <1>3
  <2>3. QED BY <1>5, <2>1, <2>2 DEF Shape
<1>7. Memories!Storages = Cardinality(Below(me_size))
  BY <1>1, <1>2, StorageIs
<1>8. Memories!Storages' = Cardinality(Below(me_size'))
  <2>1. Memories!T'.outer /= "none" /\ me_size' \in Nat /\ me_size' /= 0 /\ ~Memories!AtOnce'
    BY <1>1, <1>2, <1>3
  <2>2. Memories!Storages' = Memories!Cardinality({c \in Memories!Doubles : c < 2 * me_size'})
    BY <2>1 DEF Memories!Storages, Memories!Doubles
  <2>3. Memories!Cardinality(Below(me_size')) = Cardinality(Below(me_size'))
    BY <2>1, BelowIs
  <2>4. QED BY <2>2, <2>3 DEF Below
<1>9. /\ Memories!Storage = IF capacity = 0 THEN 0 ELSE Memories!T.element * (2 * capacity - 1)
      /\ Memories!Storage' = Memories!T.element * (2 * capacity' - 1)
  <2>1. Memories!Storage' = IF capacity' = 0 THEN 0 ELSE Memories!T'.element * (IF Memories!AtOnce' THEN capacity' ELSE 2 * capacity' - 1)
    BY DEF Memories!Storage
  <2>2. Memories!T'.element = Memories!T.element /\ ~Memories!AtOnce' /\ capacity' /= 0
    BY <1>1, <1>3, <1>5
  <2>3. QED BY <1>1, <2>1, <2>2 DEF Memories!Storage
<1>10. Memories!Storages \in Nat
  BY <1>2, <1>7, BelowIs
<1>11. Memories!Storages' = Memories!Storages + (IF me_size = capacity THEN 1 ELSE 0)
  BY <1>5, <1>7, <1>8
<1>12. me_size \in 0 .. 999 /\ me_size' = me_size + 1
  BY <1>1, <1>2, <1>3
<1>13. QED BY ONLY <1>2, <1>3, <1>4, <1>5, <1>6, <1>7, <1>8, <1>9, <1>10, <1>11, <1>12

\* The conjuncts of what an insert preserves.
Kept == VectorInv /\ MemoryTypes

\* The counters, by how many storages and elements come from new.
LEMMA AllCountedIs ==
  AllCounted <=> /\ status.numAlloc = (IF Memories!T.inner = "new" THEN me_size ELSE 0)
                                   + (IF Memories!T.outer = "new" THEN Memories!Storages ELSE 0)
              /\ status.sumSize = Memories!T.text * (IF Memories!T.inner = "new" THEN me_size ELSE 0)
                                   + (IF Memories!T.outer = "new" THEN Memories!Storage ELSE 0)
BY DEF AllCounted

\* Vector and strings come from new.
LEMMA PlainVectorKept ==
  ASSUME test = "std_string_in_vector", Kept, Memories!Emplace PROVE Kept'
<1> DEFINE g == me_size = capacity
<1>1. test \in Memories!Tests /\ Memories!T = Memories!Test("new", "new", 32, 53, Items, 200000, "null")
  BY TestIs, TestsAre
<1>2. test' = test /\ Memories!T' = Memories!T
  BY <1>1, InsertIs
<1>3. Shape /\ ~refused /\ Filled /\ AllCounted /\ MemoryTypes
  BY <1>1 DEF Kept, VectorInv
<1>4. /\ refused' = FALSE /\ used' = used
      /\ status'.numAlloc = status.numAlloc + (IF Grows THEN 1 ELSE 0) + Own
      /\ status'.sumSize = status.sumSize + (IF Grows THEN Memories!Grown * Memories!T.element ELSE 0)
                                + Memories!T.text * Own
      /\ status' \in [numAlloc : Nat, sumSize : Nat]
  BY <1>3, EmplaceNew
<1>5. /\ Memories!T.element = 32 /\ Memories!T.text = 53 /\ (Grows <=> g) /\ Own = 1
      /\ Memories!T.outer = "new" /\ Memories!T.inner = "new"
  BY <1>1 DEF Grows, Own, Memories!Test
<1>6. /\ Shape' /\ Doubling /\ capacity \in 0 .. 1024 /\ capacity' \in 1 .. 1024
      /\ me_size \in 0 .. 999 /\ me_size' = me_size + 1
      /\ Memories!Grown = IF capacity = 0 THEN 1 ELSE 2 * capacity
      /\ capacity' = IF g THEN Memories!Grown ELSE capacity
      /\ Memories!Storages' = Memories!Storages + (IF g THEN 1 ELSE 0)
      /\ Memories!Storages \in Nat
      /\ Memories!Storage = IF capacity = 0 THEN 0 ELSE Memories!T.element * (2 * capacity - 1)
      /\ Memories!Storage' = Memories!T.element * (2 * capacity' - 1)
  BY <1>3, <1>4, DoublingGrows
<1>7. /\ status.numAlloc = me_size + Memories!Storages
      /\ status.sumSize = 53 * me_size + Memories!Storage
  BY ONLY <1>3, <1>5, AllCountedIs
<1>8. /\ Memories!Storage = IF capacity = 0 THEN 0 ELSE 32 * (2 * capacity - 1)
      /\ Memories!Storage' = 32 * (2 * capacity' - 1)
  BY ONLY <1>5, <1>6
<1>9. Memories!Storage' = Memories!Storage + (IF g THEN Memories!Grown * 32 ELSE 0)
  <2>1. ~g => capacity > 0
    BY ONLY <1>6 DEF Doubling, Memories!Doubles
  <2>2. QED BY ONLY <1>6, <1>8, <2>1
<1>10. /\ status'.numAlloc = status.numAlloc + (IF g THEN 1 ELSE 0) + 1
       /\ status'.sumSize = status.sumSize + (IF g THEN Memories!Grown * 32 ELSE 0) + 53
  BY ONLY <1>4, <1>5
<1>11. /\ status'.numAlloc = me_size' + Memories!Storages'
       /\ status'.sumSize = 53 * me_size' + Memories!Storage'
  <2>1. Memories!Storage \in Nat /\ Memories!Grown \in Nat
    BY ONLY <1>6, <1>8
  <2>2. status'.numAlloc = me_size' + Memories!Storages'
    BY ONLY <1>6, <1>7, <1>10
  <2>3. status'.sumSize = 53 * me_size' + Memories!Storage'
    BY ONLY <1>6, <1>7, <1>9, <1>10, <2>1
  <2>4. QED BY <2>2, <2>3
<1>12. AllCounted'
  BY ONLY <1>2, <1>5, <1>11 DEF AllCounted
<1>13. Filled'
  BY ONLY test = "std_string_in_vector", <1>2, <1>5 DEF Filled
<1>14. MemoryTypes'
  <2>1. used' \in Nat /\ refused' \in BOOLEAN
    BY ONLY <1>3, <1>4 DEF MemoryTypes
  <2>2. capacity' \in Nat
    BY ONLY <1>6
  <2>3. QED BY ONLY <1>4, <2>1, <2>2 DEF MemoryTypes
<1>15. QED BY ONLY <1>4, <1>6, <1>12, <1>13, <1>14 DEF Kept, VectorInv

\* What is to be shown of an insert.
LEMMA KeptIs ==
  ASSUME Shape', refused' = FALSE, Filled', AllCounted', used' \in Nat, capacity' \in Nat,
         NEW n \in Nat, NEW b \in Nat, status' = [numAlloc |-> n, sumSize |-> b]
  PROVE  Kept'
<1>1. refused' \in BOOLEAN
  BY ONLY refused' = FALSE
<1>2. status' \in [numAlloc : Nat, sumSize : Nat]
  OBVIOUS
<1>3. MemoryTypes'
  BY ONLY <1>1, <1>2, used' \in Nat, capacity' \in Nat DEF MemoryTypes
<1>4. QED BY ONLY <1>3, Shape', refused' = FALSE, Filled', AllCounted' DEF Kept, VectorInv

\* How large the storages of a vector that doubles are.
LEMMA StorageSize ==
  ASSUME Doubling, me_size \in 0 .. 999,
         capacity' = (IF me_size = capacity THEN Memories!Grown ELSE capacity),
         Memories!Grown = IF capacity = 0 THEN 1 ELSE 2 * capacity
  PROVE  /\ capacity \in 0 .. 1024 /\ capacity' \in 1 .. 1024 /\ Memories!Grown \in 1 .. 2048
         /\ me_size /= capacity => capacity > 0
<1>1. capacity \in 0 .. 1024 /\ (me_size = capacity => capacity <= 512)
  BY DEF Doubling, Memories!Doubles
<1>2. me_size /= capacity => capacity > 0
  BY DEF Doubling, Memories!Doubles
<1>3. QED BY <1>1, <1>2

\* The vector is in the buffer, its strings are not: a storage of 32 bytes an
\* element comes behind the smaller ones, each with up to 7 bytes before it.
LEMMA PmrVectorKept ==
  ASSUME test = "std_string_in_pmr_vector", Kept, Memories!Emplace PROVE Kept'
<1> DEFINE g == me_size = capacity
           K == Memories!Grown
<1>1. test \in Memories!Tests /\ Memories!T = Memories!Test("pool", "new", 32, 53, Items, 200000, "null")
  BY TestIs, TestsAre
<1>2. /\ test' = test /\ Memories!T' = Memories!T /\ ~Memories!AtOnce
      /\ capacity' = IF Grows THEN K ELSE capacity
      /\ me_size < Memories!T.items
  BY <1>1, InsertIs DEF Memories!AtOnce, Grows
<1>3. Shape /\ ~refused /\ Filled /\ AllCounted /\ MemoryTypes
  BY <1>1 DEF Kept, VectorInv
<1>4. /\ Memories!T.element = 32 /\ Memories!T.text = 53 /\ (Grows <=> g) /\ Align = 8
      /\ Memories!T.outer = "pool" /\ Memories!T.inner = "new"
      /\ Memories!T.buffer = 200000 /\ Memories!T.items \in 0 .. 1000
  BY <1>1, ComputationsAssumption DEF Grows, Align, Memories!Test, ComputationsAssumption
<1>5. Doubling /\ me_size \in 0 .. 999
  BY ONLY <1>2, <1>3, <1>4 DEF Shape
<1>6. used \in Nat /\ capacity \in Nat /\ status.numAlloc \in Nat /\ status.sumSize \in Nat
  BY <1>3 DEF MemoryTypes
<1>7. used <= 71 * capacity /\ data \in Int /\ data + capacity * 32 <= used
  BY ONLY test = "std_string_in_pmr_vector", <1>3, <1>4 DEF Filled
<1>8. K = IF capacity = 0 THEN 1 ELSE 2 * capacity
  BY <1>2 DEF Memories!Grown
<1>9. Memories!Aligned(used, 8) \in Nat /\ Memories!Aligned(used, 8) <= used + 7
  BY <1>6, AlignedIs
<1>10. capacity \in 0 .. 1024 /\ capacity' \in 1 .. 1024 /\ K \in 1 .. 2048 /\ (~g => capacity > 0)
  BY <1>2, <1>4, <1>5, <1>8, StorageSize
<1>11. First = IF g THEN Memories!Aligned(used, 8) + K * 32 ELSE used
  BY ONLY <1>4 DEF First
<1>12. Second = First
  BY ONLY <1>4 DEF Second
<1>13. First \in Nat /\ First <= 71 * capacity' /\ First <= 200000
  BY ONLY <1>2, <1>4, <1>6, <1>7, <1>8, <1>9, <1>10, <1>11
<1>14. /\ refused' = FALSE /\ used' = First
       /\ status' = [numAlloc |-> status.numAlloc + 1, sumSize |-> status.sumSize + 53]
       /\ data' = IF g THEN First - K * 32 ELSE data
  <2>1. /\ refused' = FALSE /\ used' = Second
        /\ status' = IF Memories!T.inner = "new"
                     THEN [numAlloc |-> status.numAlloc + 1, sumSize |-> status.sumSize + Memories!T.text]
                     ELSE status
        /\ data' = IF Grows THEN First - K * Memories!T.element ELSE data
    BY <1>3, <1>4, <1>12, <1>13, EmplacePool
  <2>2. QED BY ONLY <1>4, <1>12, <2>1
<1>15. Shape' /\ me_size' = me_size + 1
  BY <1>3, <1>14, DoublingGrows
<1>16. status.numAlloc = me_size /\ status.sumSize = 53 * me_size
  BY ONLY <1>3, <1>4, <1>5 DEF AllCounted
<1>17. status'.numAlloc = me_size' /\ status'.sumSize = 53 * me_size'
  BY ONLY <1>5, <1>14, <1>15, <1>16
<1>18. AllCounted'
  BY ONLY <1>2, <1>4, <1>5, <1>15, <1>17 DEF AllCounted
<1>19. data' \in Int /\ data' + capacity' * 32 <= used'
  <2>1. CASE g
    BY ONLY <1>2, <1>4, <1>10, <1>13, <1>14, <2>1
  <2>2. CASE ~g
    BY ONLY <1>2, <1>4, <1>7, <1>11, <1>14, <2>2
  <2>3. QED BY <2>1, <2>2
<1>20. Filled'
  BY ONLY test = "std_string_in_pmr_vector", <1>2, <1>4, <1>13, <1>14, <1>19 DEF Filled
<1>21. used' \in Nat /\ capacity' \in Nat /\ status.numAlloc + 1 \in Nat /\ status.sumSize + 53 \in Nat
  BY ONLY <1>6, <1>10, <1>13, <1>14
<1>22. QED BY <1>14, <1>15, <1>18, <1>20, <1>21, KeptIs

\* The strings are in the buffer, too.
LEMMA PmrStringsKept ==
  ASSUME test = "pmr_string_in_pmr_vector", Kept, Memories!Emplace PROVE Kept'
<1> DEFINE g == me_size = capacity
           K == Memories!Grown
<1>1. test \in Memories!Tests /\ Memories!T = Memories!Test("pool", "pool", 40, 53, Items, 200000, "null")
  BY TestIs, TestsAre
<1>2. /\ test' = test /\ Memories!T' = Memories!T /\ ~Memories!AtOnce
      /\ capacity' = IF Grows THEN K ELSE capacity
      /\ me_size < Memories!T.items
  BY <1>1, InsertIs DEF Memories!AtOnce, Grows
<1>3. Shape /\ ~refused /\ Filled /\ AllCounted /\ MemoryTypes
  BY <1>1 DEF Kept, VectorInv
<1>4. /\ Memories!T.element = 40 /\ Memories!T.text = 53 /\ (Grows <=> g) /\ Align = 8 /\ TextAlign = 1
      /\ Memories!T.outer = "pool" /\ Memories!T.inner = "pool"
      /\ Memories!T.buffer = 200000 /\ Memories!T.items \in 0 .. 1000
  BY <1>1, ComputationsAssumption DEF Grows, Align, TextAlign, Memories!Test, ComputationsAssumption
<1>5. Doubling /\ me_size \in 0 .. 999
  BY ONLY <1>2, <1>3, <1>4 DEF Shape
<1>6. used \in Nat /\ capacity \in Nat /\ status.numAlloc \in Nat /\ status.sumSize \in Nat
      /\ status = [numAlloc |-> status.numAlloc, sumSize |-> status.sumSize]
  BY <1>3 DEF MemoryTypes
<1>7. used <= 87 * capacity + 53 * me_size /\ data \in Int /\ data + capacity * 40 <= used
  BY ONLY test = "pmr_string_in_pmr_vector", <1>3, <1>4 DEF Filled
<1>8. K = IF capacity = 0 THEN 1 ELSE 2 * capacity
  BY <1>2 DEF Memories!Grown
<1>9. Memories!Aligned(used, 8) \in Nat /\ Memories!Aligned(used, 8) <= used + 7
  BY <1>6, AlignedIs
<1>10. capacity \in 0 .. 1024 /\ capacity' \in 1 .. 1024 /\ K \in 1 .. 2048 /\ (~g => capacity > 0)
  BY <1>2, <1>4, <1>5, <1>8, StorageSize
<1>11. First = IF g THEN Memories!Aligned(used, 8) + K * 40 ELSE used
  BY ONLY <1>4 DEF First
<1>12. First \in Nat /\ First <= 87 * capacity' + 53 * me_size
  <2> DEFINE k == 53 * me_size
             a == Memories!Aligned(used, 8)
  <2>1. k \in Nat /\ used <= 87 * capacity + k /\ a \in Nat /\ a <= used + 7
    BY ONLY <1>5, <1>7, <1>9
  <2> HIDE DEF k, a
  <2>2. CASE g
    <3>1. First = a + K * 40 /\ capacity' = K
      BY ONLY <1>2, <1>4, <1>11, <2>2 DEF a
    <3>2. First \in Nat /\ First <= 87 * K + k
      BY ONLY <1>6, <1>8, <1>10, <2>1, <3>1
    <3>3. QED BY <3>1, <3>2 DEF k
  <2>3. CASE ~g
    <3>1. First = used /\ capacity' = capacity
      BY ONLY <1>2, <1>4, <1>11, <2>3
    <3>2. QED BY <1>6, <1>7, <3>1
  <2>4. QED BY <2>2, <2>3
<1>13. Second = First + 53
  <2>1. Memories!Aligned(First, 1) = First
    BY <1>12, AlignedIs
  <2>2. QED BY ONLY <1>4, <2>1 DEF Second
<1>14. Second \in Nat /\ Second <= 87 * capacity' + 53 * (me_size + 1) /\ First <= 200000 /\ Second <= 200000
  <2>1. PICK c : capacity' = c
    OBVIOUS
  <2>2. c \in Nat /\ c <= 1024 /\ First <= 87 * c + 53 * me_size
    BY ONLY <1>10, <1>12, <2>1
  <2>3. Second \in Nat /\ Second <= 87 * c + 53 * (me_size + 1) /\ First <= 200000 /\ Second <= 200000
    BY ONLY <1>5, <1>12, <1>13, <2>2
  <2>4. QED BY ONLY <2>1, <2>3
<1>15. refused' = FALSE /\ used' = Second /\ status' = status /\ data' = IF g THEN First - K * 40 ELSE data
  <2>1. /\ refused' = FALSE /\ used' = Second
        /\ status' = IF Memories!T.inner = "new"
                     THEN [numAlloc |-> status.numAlloc + 1, sumSize |-> status.sumSize + Memories!T.text]
                     ELSE status
        /\ data' = IF Grows THEN First - K * Memories!T.element ELSE data
    BY <1>3, <1>4, <1>12, <1>14, EmplacePool
  <2>2. QED BY ONLY <1>4, <2>1
<1>16. Shape' /\ me_size' = me_size + 1
  BY <1>3, <1>15, DoublingGrows
<1>17. AllCounted'
  BY ONLY <1>2, <1>3, <1>4, <1>15 DEF AllCounted
<1>18. data' \in Int /\ data' + capacity' * 40 <= used'
  <2>1. CASE g
    BY ONLY <1>2, <1>4, <1>10, <1>12, <1>13, <1>15, <2>1
  <2>2. CASE ~g
    BY ONLY <1>2, <1>4, <1>6, <1>7, <1>11, <1>13, <1>15, <2>2
  <2>3. QED BY <2>1, <2>2
<1>19. Filled'
  <2>1. used' <= 87 * capacity' + 53 * me_size'
    BY ONLY <1>14, <1>15, <1>16
  <2>2. QED BY ONLY test = "pmr_string_in_pmr_vector", <1>2, <1>4, <1>18, <2>1 DEF Filled
<1>20. used' \in Nat /\ capacity' \in Nat
  BY ONLY <1>10, <1>14, <1>15
<1>21. status' = [numAlloc |-> status.numAlloc, sumSize |-> status.sumSize]
  BY ONLY <1>6, <1>15
<1>22. QED BY <1>6, <1>15, <1>16, <1>17, <1>19, <1>20, <1>21, KeptIs

\* introspection.cpp: what is used, and where the vector is.
Introspected ==
  test = "introspection" =>
    used = (IF capacity = 0 THEN 0 ELSE 2 * capacity - 1) /\ data = capacity - 1

\* The insert of introspection.cpp.
LEMMA IntrospectionKept ==
  ASSUME test = "introspection", Kept, Introspected, Memories!Emplace
  PROVE  /\ Kept' /\ Introspected' /\ test' = test /\ me_size \in 0 .. 4 /\ me_size' = me_size + 1
         /\ Doubling' /\ capacity \in {0, 1, 2, 4, 8}
<1> DEFINE g == me_size = capacity
           K == Memories!Grown
<1>1. test \in Memories!Tests /\ Memories!T = Memories!Test("pool", "none", 1, 0, 5, 96, "new")
  BY TestIs, TestsAre
<1>2. /\ test' = test /\ Memories!T' = Memories!T /\ ~Memories!AtOnce
      /\ capacity' = IF Grows THEN K ELSE capacity
      /\ me_size < Memories!T.items
  BY <1>1, InsertIs DEF Memories!AtOnce, Grows
<1>3. Shape /\ ~refused /\ Filled /\ AllCounted /\ MemoryTypes
  BY <1>1 DEF Kept, VectorInv
<1>4. /\ Memories!T.element = 1 /\ Memories!T.text = 0 /\ (Grows <=> g) /\ Align = 1
      /\ Memories!T.outer = "pool" /\ Memories!T.inner = "none"
      /\ Memories!T.buffer = 96 /\ Memories!T.items = 5
  BY <1>1 DEF Grows, Align, Memories!Test
<1>5. Doubling /\ me_size \in 0 .. 4
  BY ONLY <1>2, <1>3, <1>4 DEF Shape
<1>6. used \in Nat /\ capacity \in Nat /\ status.numAlloc \in Nat /\ status.sumSize \in Nat
      /\ status = [numAlloc |-> status.numAlloc, sumSize |-> status.sumSize]
  BY <1>3 DEF MemoryTypes
<1>7. used = (IF capacity = 0 THEN 0 ELSE 2 * capacity - 1) /\ data = capacity - 1
  BY DEF Introspected
<1>8. K = IF capacity = 0 THEN 1 ELSE 2 * capacity
  BY <1>2 DEF Memories!Grown
<1>9. Memories!Aligned(used, 1) = used
  BY <1>6, AlignedIs
<1>10. capacity \in {0, 1, 2, 4, 8} /\ (~g => capacity > 0)
  BY ONLY <1>5 DEF Doubling, Memories!Doubles
<1>11. capacity' \in 1 .. 8 /\ K \in 1 .. 16
  BY ONLY <1>2, <1>4, <1>5, <1>8, <1>10
<1>12. First = IF g THEN used + K ELSE used
  <2>1. K * 1 = K
    BY <1>11
  <2>2. QED BY ONLY <1>4, <1>9, <2>1 DEF First
<1>13. Second = First
  BY ONLY <1>4 DEF Second
<1>14. First \in Nat /\ First = 2 * capacity' - 1 /\ First <= 96
  BY ONLY <1>2, <1>4, <1>7, <1>8, <1>10, <1>11, <1>12
<1>15. refused' = FALSE /\ used' = First /\ status' = status /\ data' = IF g THEN First - K * 1 ELSE data
  <2>1. /\ refused' = FALSE /\ used' = Second
        /\ status' = IF Memories!T.inner = "new"
                     THEN [numAlloc |-> status.numAlloc + 1, sumSize |-> status.sumSize + Memories!T.text]
                     ELSE status
        /\ data' = IF Grows THEN First - K * Memories!T.element ELSE data
    BY <1>3, <1>4, <1>13, <1>14, EmplacePool
  <2>2. QED BY ONLY <1>4, <1>13, <2>1
<1>25. used' = First
  BY <1>15
<1>26. PICK c : capacity' = c
  OBVIOUS
<1>27. c \in Nat /\ c > 0 /\ used' = 2 * c - 1
  BY ONLY <1>11, <1>14, <1>25, <1>26
<1>16. Shape' /\ me_size' = me_size + 1 /\ Doubling'
  BY <1>3, <1>15, DoublingGrows
<1>17. AllCounted'
  BY ONLY <1>2, <1>3, <1>4, <1>15 DEF AllCounted
<1>18. data' = capacity' - 1
  BY ONLY <1>2, <1>4, <1>7, <1>10, <1>11, <1>14, <1>15
<1>19. Introspected'
  BY ONLY <1>18, <1>26, <1>27 DEF Introspected
<1>20. Filled'
  <2>1. data' \in Int /\ data' + capacity' * 1 <= used'
    BY ONLY <1>18, <1>26, <1>27
  <2>2. QED BY ONLY test = "introspection", <1>2, <1>4, <2>1 DEF Filled
<1>21. used' \in Nat /\ capacity' \in Nat
  BY ONLY <1>26, <1>27
<1>22. status' = [numAlloc |-> status.numAlloc, sumSize |-> status.sumSize]
  BY ONLY <1>6, <1>15
<1>23. Kept'
  BY <1>6, <1>15, <1>16, <1>17, <1>20, <1>21, <1>22, KeptIs
<1>24. QED BY <1>2, <1>5, <1>10, <1>16, <1>19, <1>23

\* The lists: no storage, a node for each element.
LEMMA ListKept ==
  ASSUME test \in {"standardList", "PMRList"}, Kept, Memories!Emplace PROVE Kept'
<1>1. /\ test \in Memories!Tests
      /\ test = "standardList" => Memories!T = Memories!Test("none", "new", 0, 24, 20, 2048, "new")
      /\ test = "PMRList" => Memories!T = Memories!Test("none", "pool", 0, 24, 20, 2048, "new")
  BY TestIs, TestsAre
<1>2. /\ test' = test /\ Memories!T' = Memories!T /\ ~Memories!AtOnce
      /\ capacity' = IF Memories!T.outer /= "none" /\ me_size = capacity THEN Memories!Grown ELSE capacity
      /\ me_size < Memories!T.items /\ (~refused' => me_size' = me_size + 1)
  BY <1>1, InsertIs DEF Memories!AtOnce
<1>3. Shape /\ ~refused /\ Filled /\ AllCounted /\ MemoryTypes
  BY <1>1 DEF Kept, VectorInv
<1>4. /\ Memories!T.text = 24 /\ ~Grows /\ TextAlign = 8 /\ Memories!T.outer = "none"
      /\ Memories!T.buffer = 2048 /\ Memories!T.items = 20
      /\ Memories!T.inner = (IF test = "standardList" THEN "new" ELSE "pool")
  BY <1>1 DEF Grows, TextAlign, Memories!Test
<1>5. me_size \in 0 .. 19 /\ capacity = 0 /\ capacity' = 0
  BY ONLY <1>2, <1>3, <1>4 DEF Shape
<1>6. used \in Nat /\ status.numAlloc \in Nat /\ status.sumSize \in Nat
      /\ status = [numAlloc |-> status.numAlloc, sumSize |-> status.sumSize]
  BY <1>3 DEF MemoryTypes
<1>7. CASE test = "standardList"
  <2>1. /\ refused' = FALSE /\ used' = used
        /\ status'.numAlloc = status.numAlloc + (IF Grows THEN 1 ELSE 0) + Own
        /\ status'.sumSize = status.sumSize + (IF Grows THEN Memories!Grown * Memories!T.element ELSE 0)
                                + Memories!T.text * Own
        /\ status' \in [numAlloc : Nat, sumSize : Nat]
    BY <1>3, <1>7, EmplaceNew
  <2>2. Own = 1 /\ Memories!T.inner = "new"
    BY <1>4, <1>7 DEF Own
  <2>3. status'.numAlloc = status.numAlloc + 1 /\ status'.sumSize = status.sumSize + 24
    BY ONLY <1>4, <1>6, <2>1, <2>2
  <2>4. status.numAlloc = me_size /\ status.sumSize = 24 * me_size
    BY ONLY <1>3, <1>4, <1>5, <2>2 DEF AllCounted
  <2>5. me_size' = me_size + 1
    BY <1>2, <2>1
  <2>6. Shape'
    BY ONLY <1>2, <1>4, <1>5, <2>5 DEF Shape
  <2>7. status'.numAlloc = me_size' /\ status'.sumSize = 24 * me_size'
    BY ONLY <1>5, <2>3, <2>4, <2>5
  <2>8. AllCounted'
    BY ONLY <1>2, <1>4, <1>5, <2>2, <2>5, <2>7 DEF AllCounted
  <2>9. Filled'
    BY ONLY <1>2, <1>4, <1>7 DEF Filled
  <2>10. used' \in Nat /\ capacity' \in Nat
    BY ONLY <1>5, <1>6, <2>1
  <2>11. PICK n \in Nat, b \in Nat : status' = [numAlloc |-> n, sumSize |-> b]
    BY <2>1
  <2>12. QED BY <2>1, <2>6, <2>8, <2>9, <2>10, <2>11, KeptIs
<1>8. CASE test = "PMRList"
  <2>1. used <= 31 * me_size
    BY ONLY <1>3, <1>8 DEF Filled
  <2>2. Memories!Aligned(used, 8) \in Nat /\ Memories!Aligned(used, 8) <= used + 7
    BY <1>6, AlignedIs
  <2>3. First = used
    BY ONLY <1>4 DEF First
  <2>4. Second = Memories!Aligned(used, 8) + 24
    BY ONLY <1>4, <1>8, <2>3 DEF Second
  <2>5. First \in Nat /\ First <= 2048 /\ Second \in Nat /\ Second <= 31 * (me_size + 1) /\ Second <= 2048
    BY ONLY <1>5, <1>6, <2>1, <2>2, <2>3, <2>4
  <2>6. /\ refused' = FALSE /\ used' = Second
        /\ status' = IF Memories!T.inner = "new"
                     THEN [numAlloc |-> status.numAlloc + 1, sumSize |-> status.sumSize + Memories!T.text]
                     ELSE status
    BY <1>3, <1>4, <1>8, <2>5, EmplacePool
  <2>7. Memories!T.inner = "pool" /\ status' = status
    BY <1>4, <1>8, <2>6
  <2>8. me_size' = me_size + 1
    BY <1>2, <2>6
  <2>9. Shape'
    BY ONLY <1>2, <1>4, <1>5, <2>8 DEF Shape
  <2>10. AllCounted'
    BY ONLY <1>2, <1>3, <1>4, <2>7 DEF AllCounted
  <2>11. used' <= 31 * me_size'
    BY ONLY <2>5, <2>6, <2>8
  <2>12. Filled'
    BY ONLY <1>2, <1>4, <1>8, <2>11 DEF Filled
  <2>13. used' = Second
    BY <2>6
  <2>14. used' \in Nat /\ capacity' \in Nat
    BY ONLY <1>5, <2>5, <2>13
  <2>15. status' = [numAlloc |-> status.numAlloc, sumSize |-> status.sumSize]
    BY ONLY <1>6, <2>7
  <2>16. QED BY <1>6, <2>6, <2>9, <2>10, <2>12, <2>14, <2>15, KeptIs
<1>9. QED BY <1>7, <1>8

\* The vectors that get their twenty elements at once.
LEMMA AtOnceKept ==
  ASSUME test \in {"standardVector", "PMRVector"}, Kept, Memories!Emplace PROVE Kept'
<1>1. /\ test \in Memories!Tests
      /\ test = "standardVector" => Memories!T = Memories!Test("new", "none", 4, 0, 20, 2048, "new")
      /\ test = "PMRVector" => Memories!T = Memories!Test("pool", "none", 4, 0, 20, 2048, "new")
  BY TestIs, TestsAre
<1>2. /\ test' = test /\ Memories!T' = Memories!T /\ Memories!AtOnce /\ Memories!AtOnce'
      /\ capacity' = IF Memories!T.outer /= "none" /\ me_size = capacity THEN Memories!Grown ELSE capacity
      /\ me_size < Memories!T.items /\ (~refused' => me_size' = Memories!T.items)
  BY <1>1, InsertIs DEF Memories!AtOnce
<1>3. Shape /\ ~refused /\ Filled /\ AllCounted /\ MemoryTypes
  BY <1>1 DEF Kept, VectorInv
<1>4. /\ Memories!T.text = 0 /\ Memories!T.element = 4 /\ Memories!T.inner = "none" /\ Align = 4
      /\ Memories!T.buffer = 2048 /\ Memories!T.items = 20
      /\ Memories!T.outer = (IF test = "standardVector" THEN "new" ELSE "pool") /\ Memories!T.outer /= "none"
  BY <1>1 DEF Align, Memories!Test
<1>5. me_size = 0 /\ capacity = 0
  BY ONLY <1>2, <1>3, <1>4 DEF Shape
<1>6. Grows /\ Memories!Grown = 20 /\ capacity' = 20
  BY ONLY <1>2, <1>4, <1>5 DEF Grows, Memories!Grown
<1>7. used \in Nat /\ status.numAlloc \in Nat /\ status.sumSize \in Nat
      /\ status = [numAlloc |-> status.numAlloc, sumSize |-> status.sumSize]
  BY <1>3 DEF MemoryTypes
<1>8. ~refused' => Shape' /\ Memories!Storages' = 1 /\ Memories!Storage' = 80
  <2>1. ~refused' => me_size' = 20
    BY <1>2, <1>4
  <2>2. ~refused' => Shape'
    BY ONLY <1>2, <1>4, <1>6, <2>1 DEF Shape
  <2>3. ~refused' => Memories!Storages' = 1 /\ Memories!Storage' = 80
    BY ONLY <1>2, <1>4, <1>6, <2>1 DEF Memories!Storages, Memories!Storage
  <2>4. QED BY <2>2, <2>3
<1>9. CASE test = "standardVector"
  <2>1. /\ refused' = FALSE /\ used' = used
        /\ status'.numAlloc = status.numAlloc + (IF Grows THEN 1 ELSE 0) + Own
        /\ status'.sumSize = status.sumSize + (IF Grows THEN Memories!Grown * Memories!T.element ELSE 0)
                                + Memories!T.text * Own
        /\ status' \in [numAlloc : Nat, sumSize : Nat]
    BY <1>3, <1>9, EmplaceNew
  <2>2. Own = 0
    BY <1>4 DEF Own
  <2>3. status'.numAlloc = status.numAlloc + 1 /\ status'.sumSize = status.sumSize + 80
    BY ONLY <1>4, <1>6, <1>7, <2>1, <2>2
  <2>4. status.numAlloc = 0 /\ status.sumSize = 0
    <3>1. Memories!Storages = 0 /\ Memories!Storage = 0
      BY ONLY <1>5 DEF Memories!Storages, Memories!Storage
    <3>2. QED BY ONLY <1>3, <1>4, <3>1 DEF AllCounted
  <2>5. status'.numAlloc = 1 /\ status'.sumSize = 80
    BY ONLY <2>3, <2>4
  <2>6. AllCounted'
    <3>1. Memories!Storages' = 1 /\ Memories!Storage' = 80
      BY <1>8, <2>1
    <3>2. Memories!T'.inner = "none" /\ Memories!T'.outer = "new" /\ Memories!T'.text = 0
      BY <1>2, <1>4, <1>9
    <3>3. QED BY ONLY <2>5, <3>1, <3>2 DEF AllCounted
  <2>7. Filled'
    BY ONLY <1>2, <1>4, <1>9 DEF Filled
  <2>8. used' \in Nat /\ capacity' \in Nat
    BY ONLY <1>6, <1>7, <2>1
  <2>9. PICK n \in Nat, b \in Nat : status' = [numAlloc |-> n, sumSize |-> b]
    BY <2>1
  <2>10. QED BY <1>8, <2>1, <2>6, <2>7, <2>8, <2>9, KeptIs
<1>10. CASE test = "PMRVector"
  <2>1. used = 0
    BY ONLY <1>3, <1>5, <1>7, <1>10 DEF Filled
  <2>2. Memories!Aligned(used, 4) \in Nat /\ Memories!Aligned(used, 4) <= 3
    <3>1. Memories!Aligned(used, 4) \in used .. used + 3
      BY <1>7, AlignedIs
    <3>2. QED BY ONLY <2>1, <3>1
  <2>3. First = Memories!Aligned(used, 4) + 80
    BY ONLY <1>4, <1>6 DEF First
  <2>4. Second = First
    BY ONLY <1>4 DEF Second
  <2>5. First \in Nat /\ First <= 83 /\ First <= 2048
    BY ONLY <2>2, <2>3
  <2>6. /\ refused' = FALSE /\ used' = Second
        /\ status' = IF Memories!T.inner = "new"
                     THEN [numAlloc |-> status.numAlloc + 1, sumSize |-> status.sumSize + Memories!T.text]
                     ELSE status
        /\ data' = IF Grows THEN First - Memories!Grown * Memories!T.element ELSE data
    BY <1>3, <1>4, <1>10, <2>4, <2>5, EmplacePool
  <2>7. used' = First /\ status' = status /\ data' = First - 80
    BY ONLY <1>4, <1>6, <2>4, <2>6
  <2>8. me_size' = 20
    BY <1>2, <1>4, <2>6
  <2>9. AllCounted'
    BY ONLY <1>2, <1>3, <1>4, <1>10, <2>7 DEF AllCounted
  <2>10. data' \in Int /\ data' + capacity' * 4 <= used'
    BY ONLY <1>6, <2>5, <2>7
  <2>11. used' <= 7 * me_size'
    BY ONLY <2>5, <2>7, <2>8
  <2>12. Filled'
    BY ONLY <1>2, <1>4, <1>10, <2>10, <2>11 DEF Filled
  <2>13. used' \in Nat /\ capacity' \in Nat
    BY ONLY <1>6, <2>5, <2>7
  <2>14. status' = [numAlloc |-> status.numAlloc, sumSize |-> status.sumSize]
    BY ONLY <1>7, <2>7
  <2>15. Shape' /\ refused' = FALSE
    BY <1>8, <2>6
  <2>16. QED BY <1>7, <2>15, <2>9, <2>12, <2>13, <2>14, KeptIs
<1>11. QED BY <1>9, <1>10

\* Where the vector of introspection.cpp was before the insert that made it n long.
Last(n) == IF n <= 1 THEN -1 ELSE IF n = 2 THEN 0 ELSE IF n = 3 THEN 1 ELSE 3

\* The hint is asked before the first insert and after each; it remembers where
\* the vector was when it was asked.
HintsInv ==
  test = "introspection" =>
    /\ hints \in Seq(BOOLEAN) /\ Len(hints) \in {me_size, me_size + 1}
    /\ \A k \in 1 .. Len(hints) : hints[k] <=> k \in {2, 3, 4, 6}
    /\ memo = IF Len(hints) = me_size THEN Last(me_size) ELSE data
    /\ data \in Int

\* pool--unittest.cpp: a collection grows by one with each turn until it has
\* ten elements.
CollectionsInv ==
  test = "collections" =>
    /\ me_turn \in Nat /\ sizes \in [Memories!Collection -> Nat]
    /\ \A n \in Memories!Collection : resource[n] = "new"
    /\ resource = [n \in Memories!Collection |-> resource[n]]
    /\ \A n \in Memories!Collection : sizes[n] >= 9 \/ sizes[n] >= me_turn - 1

MemoryInv == Kept /\ Introspected /\ HintsInv /\ CollectionsInv

\* pool--unittest.cpp is none of the tests with a vector or a list.
LEMMA CollectionsApart == test = "collections" => test \notin Memories!Tests
BY TestsAre

\* The invariant holds when a program begins,
LEMMA MemoryInit == Memories!Init => MemoryInv
<1> SUFFICES ASSUME Memories!Init PROVE MemoryInv
  OBVIOUS
<1>1. /\ test \in Memories!Tests \cup {"collections"}
      /\ me_size = 0 /\ capacity = 0 /\ data = -1 /\ used = 0
      /\ status = [numAlloc |-> 0, sumSize |-> 0] /\ refused = FALSE /\ memo = -1 /\ hints = << >>
      /\ sizes = [n \in Memories!Collection |-> 0] /\ resource = [n \in Memories!Collection |-> "new"]
      /\ me_turn = 0
  BY DEF Memories!Init, Memories!None
<1>2. MemoryTypes
  <2>1. refused \in BOOLEAN
    BY <1>1
  <2>2. status \in [numAlloc : Nat, sumSize : Nat]
    BY <1>1
  <2>3. QED BY ONLY <1>1, <2>1, <2>2 DEF MemoryTypes
<1>3. ASSUME test \in Memories!Tests PROVE Shape /\ ~refused /\ Filled /\ AllCounted
  <2>1. Memories!T.items \in Nat /\ Memories!T.text \in Nat /\ Memories!T.element \in Nat
    BY <1>3, TestIs, TestsAre, ComputationsAssumption DEF Memories!Test, ComputationsAssumption
  <2>2. Shape
    <3>1. Doubling /\ capacity = me_size /\ me_size \in {0, Memories!T.items} /\ capacity = 0
      <4>1. me_size = 0 /\ capacity = 0
        BY <1>1
      <4>2. QED BY ONLY <4>1 DEF Doubling
    <3>2. me_size \in 0 .. Memories!T.items
      BY ONLY <1>1, <2>1
    <3>3. QED BY ONLY <3>1, <3>2 DEF Shape
  <2>3. Filled
    BY ONLY <1>1, <2>1 DEF Filled
  <2>4. Memories!Storages = 0 /\ Memories!Storage = 0
    BY ONLY <1>1 DEF Memories!Storages, Memories!Storage
  <2>5. status.numAlloc = 0 /\ status.sumSize = 0
    BY <1>1
  <2>6. AllCounted
    BY ONLY <1>1, <2>1, <2>4, <2>5 DEF AllCounted
  <2>7. QED BY <1>1, <2>2, <2>3, <2>6
<1>4. Introspected
  BY <1>1 DEF Introspected
<1>5. HintsInv
  <2>1. Len(hints) = 0 /\ hints \in Seq(BOOLEAN)
    BY <1>1
  <2>2. Last(me_size) = -1
    BY ONLY <1>1 DEF Last
  <2>3. \A k \in 1 .. Len(hints) : hints[k] <=> k \in {2, 3, 4, 6}
    BY ONLY <2>1
  <2>4. QED BY ONLY <1>1, <2>1, <2>2, <2>3 DEF HintsInv
<1>6. CollectionsInv
  BY ONLY <1>1 DEF CollectionsInv
<1>7. QED BY <1>2, <1>3, <1>4, <1>5, <1>6 DEF MemoryInv, Kept, VectorInv

\* an insert keeps it, whatever the test,
LEMMA EmplaceKept ==
  ASSUME MemoryInv, Memories!Emplace PROVE MemoryInv'
<1>1. test \in Memories!Tests /\ test' = test /\ UNCHANGED <<memo, hints, sizes, resource, me_turn>>
  BY DEF Memories!Emplace
<1>2. test /= "collections" /\ CollectionsInv'
  BY <1>1, CollectionsApart DEF CollectionsInv
<1>3. CASE test = "introspection"
  <2>1. /\ Kept' /\ Introspected' /\ me_size \in 0 .. 4 /\ me_size' = me_size + 1
        /\ Doubling' /\ capacity \in {0, 1, 2, 4, 8}
    BY <1>3, IntrospectionKept DEF MemoryInv
  <2>2. Len(hints) > me_size
    BY <1>3 DEF Memories!Emplace
  <2>3. hints \in Seq(BOOLEAN) /\ Len(hints) = me_size + 1 /\ memo = data /\ data = capacity - 1
        /\ \A k \in 1 .. Len(hints) : hints[k] <=> k \in {2, 3, 4, 6}
    BY <1>3, <2>1, <2>2 DEF MemoryInv, HintsInv, Introspected
  <2>4. Doubling
    <3>1. Shape /\ Memories!T.outer /= "none" /\ ~Memories!AtOnce
      BY <1>1, <1>3, TestIs DEF MemoryInv, Kept, VectorInv, Memories!Test, Memories!AtOnce
    <3>2. QED BY ONLY <3>1 DEF Shape
  <2>5. memo = Last(me_size + 1)
    BY ONLY <2>1, <2>3, <2>4 DEF Last, Doubling, Memories!Doubles
  <2>6. data' = capacity' - 1 /\ capacity' \in Int
    BY <1>1, <1>3, <2>1 DEF Introspected, Kept, MemoryTypes
  <2>7. data' \in Int
    BY ONLY <2>6
  <2>8. HintsInv'
    BY ONLY <1>1, <1>3, <2>1, <2>3, <2>5, <2>7 DEF HintsInv
  <2>9. QED BY <1>2, <2>1, <2>8 DEF MemoryInv
<1>4. CASE test /= "introspection"
  <2>1. Kept'
    BY <1>1, <1>4, TestsAre, PlainVectorKept, PmrVectorKept, PmrStringsKept, ListKept, AtOnceKept DEF MemoryInv
  <2>2. Introspected' /\ HintsInv'
    BY <1>1, <1>4 DEF Introspected, HintsInv
  <2>3. QED BY <1>2, <2>1, <2>2 DEF MemoryInv
<1>5. QED BY <1>3, <1>4

\* so does the hint,
LEMMA HintKept ==
  ASSUME MemoryInv, Memories!Hint PROVE MemoryInv'
<1> DEFINE moved == me_size > 0 /\ memo /= data
<1>1. /\ test = "introspection" /\ Len(hints) = me_size /\ hints' = Append(hints, moved)
      /\ memo' = IF moved THEN data ELSE memo
      /\ UNCHANGED <<test, me_size, capacity, data, used, status, refused, sizes, resource, me_turn>>
  BY DEF Memories!Hint
<1>2. /\ Memories!T = Memories!Test("pool", "none", 1, 0, 5, 96, "new") /\ test \in Memories!Tests
      /\ ~Memories!AtOnce
  BY <1>1, TestIs, TestsAre DEF Memories!AtOnce
<1>3. Memories!T.outer = "pool" /\ Memories!T.items = 5
  BY <1>2 DEF Memories!Test
<1>4. Shape /\ ~refused /\ data = capacity - 1
  BY <1>1, <1>2 DEF MemoryInv, Kept, VectorInv, Introspected
<1>5. Doubling /\ me_size \in 0 .. 5
  BY ONLY <1>2, <1>3, <1>4 DEF Shape
<1>6. hints \in Seq(BOOLEAN) /\ memo = Last(me_size) /\ \A k \in 1 .. Len(hints) : hints[k] <=> k \in {2, 3, 4, 6}
  BY <1>1 DEF MemoryInv, HintsInv
<1>7. moved <=> me_size + 1 \in {2, 3, 4, 6}
  BY ONLY <1>4, <1>5, <1>6 DEF Last, Doubling, Memories!Doubles
<1>8. me_size = 0 => memo = data
  BY ONLY <1>4, <1>5, <1>6 DEF Last, Doubling, Memories!Doubles
<1>9. memo' = data
  BY ONLY <1>1, <1>5, <1>8
<1>10. moved \in BOOLEAN
  OBVIOUS
<1> HIDE DEF moved
<1>11. /\ hints' \in Seq(BOOLEAN) /\ Len(hints') = me_size + 1
       /\ \A k \in 1 .. me_size : hints'[k] = hints[k]
       /\ hints'[me_size + 1] = moved
  BY ONLY <1>1, <1>5, <1>6, <1>10
<1>12. \A k \in 1 .. Len(hints') : hints'[k] <=> k \in {2, 3, 4, 6}
  <2>1. ASSUME NEW k \in 1 .. me_size + 1
        PROVE  hints'[k] <=> k \in {2, 3, 4, 6}
    <3>1. CASE k = me_size + 1
      BY ONLY <1>7, <1>11, <3>1
    <3>2. CASE k /= me_size + 1
      <4>1. k \in 1 .. me_size
        BY ONLY <1>5, <3>2
      <4>2. QED BY ONLY <1>1, <1>6, <1>11, <4>1
    <3>3. QED BY <3>1, <3>2
  <2>2. Len(hints') = me_size + 1
    BY <1>11
  <2>3. QED BY ONLY <2>1, <2>2
<1>13. data' = data /\ data \in Int /\ me_size' = me_size
  BY <1>1 DEF MemoryInv, HintsInv
<1>14. HintsInv'
  BY ONLY <1>5, <1>9, <1>11, <1>12, <1>13 DEF HintsInv
<1>15. Kept' /\ Introspected' /\ CollectionsInv'
  <2>1. Memories!T' = Memories!T /\ Memories!AtOnce' = Memories!AtOnce
    BY <1>1 DEF Memories!T, Memories!AtOnce
  <2>2. Memories!Storages' = Memories!Storages /\ Memories!Storage' = Memories!Storage
    BY ONLY <1>1, <2>1 DEF Memories!Storages, Memories!Storage
  <2>3. AllCounted => AllCounted'
    BY ONLY <1>1, <2>1, <2>2 DEF AllCounted
  <2>4. (Shape => Shape') /\ (Filled => Filled')
    BY ONLY <1>1, <2>1 DEF Shape, Filled, Doubling
  <2>5. MemoryTypes => MemoryTypes'
    BY ONLY <1>1 DEF MemoryTypes
  <2>6. Kept'
    BY <1>1, <1>2, <2>3, <2>4, <2>5 DEF MemoryInv, Kept, VectorInv
  <2>7. Introspected'
    BY <1>1 DEF MemoryInv, Introspected
  <2>8. CollectionsInv'
    BY <1>1, <1>2, CollectionsApart DEF CollectionsInv
  <2>9. QED BY <2>6, <2>7, <2>8
<1>16. QED BY <1>14, <1>15 DEF MemoryInv

\* The steps of pool--unittest.cpp.
LEMMA BuildKept ==
  ASSUME MemoryInv, Memories!Build PROVE MemoryInv'
<1>1. /\ test = "collections" /\ test' = test /\ sizes' = sizes /\ me_turn = 0 /\ me_turn' = 1
      /\ resource' = [n \in Memories!Collection |-> Memories!Assigned(resource[n], "pool 0")]
      /\ UNCHANGED <<capacity, used, status, refused>>
  BY DEF Memories!Build
<1>2. test' \notin Memories!Tests
  BY <1>1, CollectionsApart
<1>3. Kept'
  <2>1. MemoryTypes'
    BY <1>1 DEF MemoryInv, Kept, MemoryTypes
  <2>2. VectorInv'
    BY <1>2 DEF VectorInv, Memories!Tests, Memories!StringTests, Memories!Benchmarks
  <2>3. QED BY <2>1, <2>2 DEF Kept
<1>4. Introspected' /\ HintsInv'
  BY <1>1 DEF Introspected, HintsInv
<1>5. CollectionsInv'
  <2>1. sizes \in [Memories!Collection -> Nat] /\ \A n \in Memories!Collection : resource[n] = "new"
    BY <1>1 DEF MemoryInv, CollectionsInv
  <2>2. \A n \in Memories!Collection : resource'[n] = "new"
    BY <1>1, <2>1 DEF Memories!Assigned
  <2>3. resource' = [n \in Memories!Collection |-> resource'[n]]
    BY <1>1
  <2>4. \A n \in Memories!Collection : sizes'[n] >= me_turn' - 1
    <3>1. me_turn' = 1 /\ sizes' = sizes
      BY <1>1
    <3>2. \A n \in Memories!Collection : sizes[n] >= 1 - 1
      BY ONLY <2>1
    <3>3. QED BY ONLY <3>1, <3>2
  <2>5. QED BY ONLY <1>1, <2>1, <2>2, <2>3, <2>4 DEF CollectionsInv, Memories!Collection
<1>6. QED BY <1>3, <1>4, <1>5 DEF MemoryInv

LEMMA TurnKept ==
  ASSUME MemoryInv, Memories!Turn PROVE MemoryInv'
<1>1. /\ test = "collections" /\ test' = test /\ resource' = resource /\ me_turn \in 1 .. Turns /\ me_turn' = me_turn + 1
      /\ UNCHANGED <<capacity, used, status, refused>>
  BY DEF Memories!Turn
<1>2. test' \notin Memories!Tests
  BY <1>1, CollectionsApart
<1>3. Kept'
  <2>1. MemoryTypes'
    BY <1>1 DEF MemoryInv, Kept, MemoryTypes
  <2>2. VectorInv'
    BY <1>2 DEF VectorInv, Memories!Tests, Memories!StringTests, Memories!Benchmarks
  <2>3. QED BY <2>1, <2>2 DEF Kept
<1>4. Introspected' /\ HintsInv'
  BY <1>1 DEF Introspected, HintsInv
<1>5. CollectionsInv'
  <2>1. /\ sizes \in [Memories!Collection -> Nat] /\ \A n \in Memories!Collection : resource[n] = "new"
        /\ resource = [n \in Memories!Collection |-> resource[n]] /\ me_turn \in Nat
        /\ \A n \in Memories!Collection : sizes[n] >= 9 \/ sizes[n] >= me_turn - 1
    BY <1>1 DEF MemoryInv, CollectionsInv
  <2>2. PICK erased \in SUBSET {n \in Memories!Collection : Memories!MayErase(n)} :
           sizes' = [n \in Memories!Collection |-> IF n \in erased THEN sizes[n] - 1 ELSE sizes[n] + 1]
    BY DEF Memories!Turn
  <2>3. ASSUME NEW n \in Memories!Collection
        PROVE  sizes'[n] \in Nat /\ (sizes'[n] >= 9 \/ sizes'[n] >= me_turn' - 1)
    <3>1. sizes[n] \in Nat /\ (sizes[n] >= 9 \/ sizes[n] >= me_turn - 1)
      BY <2>1
    <3>2. CASE n \in erased
      <4>1. sizes'[n] = sizes[n] - 1 /\ sizes[n] >= 10
        BY <2>2, <3>2 DEF Memories!MayErase
      <4>2. QED BY <3>1, <4>1
    <3>3. CASE n \notin erased
      <4>1. sizes'[n] = sizes[n] + 1
        BY <2>2, <3>3
      <4>2. QED BY <1>1, <2>1, <3>1, <4>1
    <3>4. QED BY <3>2, <3>3
  <2>4. sizes' \in [Memories!Collection -> Nat]
    BY <2>2, <2>3
  <2>5. me_turn' \in Nat
    BY <1>1, <2>1
  <2>6. QED BY ONLY <1>1, <2>1, <2>3, <2>4, <2>5 DEF CollectionsInv, Memories!Collection
<1>6. QED BY <1>3, <1>4, <1>5 DEF MemoryInv

\* All steps.
LEMMA MemoryKept ==
  ASSUME MemoryInv, [Memories!Next]_memoryVars PROVE MemoryInv'
<1>1. CASE Memories!Emplace
  BY <1>1, EmplaceKept
<1>2. CASE Memories!Hint
  BY <1>2, HintKept
<1>3. CASE Memories!Build
  BY <1>3, BuildKept
<1>4. CASE Memories!Turn
  BY <1>4, TurnKept
<1>5. CASE UNCHANGED memoryVars
  <2>1. /\ test' = test /\ me_size' = me_size /\ capacity' = capacity /\ data' = data /\ used' = used
        /\ status' = status /\ refused' = refused /\ memo' = memo /\ hints' = hints
        /\ sizes' = sizes /\ resource' = resource /\ me_turn' = me_turn
    BY <1>5 DEF memoryVars
  <2>2. Memories!T' = Memories!T /\ Memories!AtOnce' = Memories!AtOnce
    BY <2>1 DEF Memories!T, Memories!AtOnce
  <2>3. Memories!Storages' = Memories!Storages /\ Memories!Storage' = Memories!Storage
    BY ONLY <2>1, <2>2 DEF Memories!Storages, Memories!Storage
  <2>4. AllCounted => AllCounted'
    BY ONLY <2>1, <2>2, <2>3 DEF AllCounted
  <2>5. (Shape => Shape') /\ (Filled => Filled')
    BY ONLY <2>1, <2>2 DEF Shape, Filled, Doubling
  <2>6. MemoryTypes => MemoryTypes'
    BY ONLY <2>1 DEF MemoryTypes
  <2>7. Kept'
    BY <2>1, <2>4, <2>5, <2>6
    DEF MemoryInv, Kept, VectorInv, Memories!Tests, Memories!StringTests, Memories!Benchmarks
  <2>8. Introspected'
    BY ONLY <2>1, MemoryInv DEF MemoryInv, Introspected
  <2>9. HintsInv'
    BY ONLY <2>1, MemoryInv DEF MemoryInv, HintsInv
  <2>10. CollectionsInv'
    BY ONLY <2>1, MemoryInv DEF MemoryInv, CollectionsInv, Memories!Collection
  <2>11. QED BY <2>7, <2>8, <2>9, <2>10 DEF MemoryInv
<1>6. CASE Memories!Ended
  <2>1. UNCHANGED memoryVars
    BY <1>6 DEF Memories!Ended, Memories!vars, memoryVars
  <2>2. QED BY <1>5, <2>1
<1>7. QED BY <1>1, <1>2, <1>3, <1>4, <1>5, <1>6 DEF Memories!Next

\* How much of the buffer has been taken at most.
LEMMA BufferLarge ==
  ASSUME MemoryInv, test \in Memories!Tests, Memories!T.outer = "pool"
  PROVE  /\ me_size <= capacity /\ (capacity < 2 * me_size \/ me_size = 0)
         /\ data + capacity * Memories!T.element <= used /\ used <= Memories!T.buffer
<1>1. Shape /\ Filled /\ MemoryTypes
  BY DEF MemoryInv, Kept, VectorInv
<1>2. data + capacity * Memories!T.element <= used
  BY <1>1 DEF Filled
<1>3. test \in {"std_string_in_pmr_vector", "pmr_string_in_pmr_vector", "introspection", "PMRVector"}
  BY TestIs, TestsAre DEF Memories!Test
<1>4. used \in Nat /\ capacity \in Nat
  BY <1>1 DEF MemoryTypes
<1>5. Memories!T.items \in 0 .. 1000
  BY <1>3, TestIs, ComputationsAssumption DEF Memories!Test, ComputationsAssumption
<1>6. me_size \in 0 .. Memories!T.items
  BY <1>1 DEF Shape
<1>7. CASE test = "PMRVector"
  <2>1. Memories!AtOnce /\ Memories!T.items = 20 /\ Memories!T.buffer = 2048
    BY <1>7, TestIs DEF Memories!AtOnce, Memories!Test
  <2>2. capacity = me_size
    BY <1>1, <2>1, Memories!T.outer = "pool" DEF Shape
  <2>3. used <= 7 * me_size
    BY <1>1, <1>7 DEF Filled
  <2>4. QED BY ONLY <1>2, <1>4, <1>6, <2>1, <2>2, <2>3
<1>8. CASE test /= "PMRVector"
  <2>1. ~Memories!AtOnce
    BY <1>3, <1>8 DEF Memories!AtOnce
  <2>2. Doubling
    BY <1>1, <2>1, Memories!T.outer = "pool" DEF Shape
  <2>3. me_size <= capacity /\ (capacity < 2 * me_size \/ me_size = 0) /\ capacity <= 1024
    BY ONLY <1>4, <1>5, <1>6, <2>2 DEF Doubling, Memories!Doubles
  <2>4. used <= Memories!T.buffer
    <3>1. CASE test = "std_string_in_pmr_vector"
      <4>1. used <= 71 * capacity /\ Memories!T.buffer = 200000
        BY <1>1, <3>1, TestIs DEF Filled, Memories!Test
      <4>2. QED BY ONLY <1>4, <2>3, <4>1
    <3>2. CASE test = "pmr_string_in_pmr_vector"
      <4>1. used <= 87 * capacity + 53 * me_size /\ Memories!T.buffer = 200000
        BY <1>1, <3>2, TestIs DEF Filled, Memories!Test
      <4>2. QED BY ONLY <1>4, <1>5, <1>6, <2>3, <4>1
    <3>3. CASE test = "introspection"
      <4>1. used = (IF capacity = 0 THEN 0 ELSE 2 * capacity - 1)
        BY <3>3 DEF MemoryInv, Introspected
      <4>2. Memories!T.buffer = 96 /\ Memories!T.items = 5
        BY <3>3, TestIs DEF Memories!Test
      <4>3. capacity <= 8
        BY ONLY <1>4, <1>6, <2>2, <4>2 DEF Doubling, Memories!Doubles
      <4>4. QED BY ONLY <1>4, <4>1, <4>2, <4>3
    <3>4. QED BY <1>3, <1>8, <3>1, <3>2, <3>3
  <2>5. QED BY <1>2, <2>3, <2>4
<1>9. QED BY <1>7, <1>8

\* What the invariant says of the buffers, counters, hints and pools.
LEMMA MemoryMeans == MemoryInv => Memories!MemoryRight
<1> SUFFICES ASSUME MemoryInv PROVE Memories!MemoryRight
  OBVIOUS
<1>1. Memories!NewCounted
  <2>1. test \in Memories!Tests => AllCounted
    BY DEF MemoryInv, Kept, VectorInv
  <2>2. QED BY ONLY <2>1 DEF AllCounted, Memories!NewCounted
<1>2. Memories!BufferFits
  <2>1. test \in Memories!Tests => ~refused
    BY DEF MemoryInv, Kept, VectorInv
  <2>2. QED BY <2>1, BufferLarge DEF Memories!BufferFits
<1>3. Memories!HintsTell
  <2> SUFFICES ASSUME test = "introspection", NEW k \in 1 .. Len(hints)
               PROVE  hints[k] <=> k = 2 \/ k - 2 \in Memories!Doubles
    BY DEF Memories!HintsTell
  <2>1. hints[k] <=> k \in {2, 3, 4, 6}
    BY DEF MemoryInv, HintsInv
  <2>2. Shape /\ Memories!T.items = 5 /\ Len(hints) \in {me_size, me_size + 1}
    BY TestIs, TestsAre DEF MemoryInv, Kept, VectorInv, HintsInv, Memories!Test
  <2>3. me_size \in 0 .. 5
    BY ONLY <2>2 DEF Shape
  <2>4. k \in 1 .. 6
    BY ONLY <2>2, <2>3, k \in 1 .. Len(hints)
  <2>5. k \in {2, 3, 4, 6} <=> k = 2 \/ k - 2 \in Memories!Doubles
    BY ONLY <2>4 DEF Memories!Doubles
  <2>6. QED BY ONLY <2>1, <2>5
<1>4. Memories!PoolsIdle
  <2> SUFFICES ASSUME test = "collections" PROVE Memories!PoolsIdle
    BY DEF Memories!PoolsIdle
  <2>1. \A n \in Memories!Collection : resource[n] = "new"
    BY DEF MemoryInv, CollectionsInv
  <2>2. ASSUME me_turn > Turns, NEW n \in Memories!Collection
        PROVE  Memories!Jumps(n) > 0 /\ \A j \in Memories!MiddleOfJumps(n) : j \in 0 .. Memories!Jumps(n) - 1
    <3>1. sizes[n] \in Nat /\ (sizes[n] >= 9 \/ sizes[n] >= me_turn - 1) /\ me_turn \in Nat
      BY <2>2 DEF MemoryInv, CollectionsInv
    <3>2. Turns \in Nat /\ 1 < Turns
      BY ComputationsAssumption DEF ComputationsAssumption
    <3>3. Memories!Jumps(n) \in Nat /\ Memories!Jumps(n) > 0
      BY <2>2, <3>1, <3>2 DEF Memories!Jumps
    <3> HIDE DEF Memories!Jumps
    <3>4. QED BY ONLY <3>3 DEF Memories!MiddleOfJumps
  <2>3. QED BY <2>1, <2>2 DEF Memories!PoolsIdle
<1>5. QED BY <1>1, <1>2, <1>3, <1>4 DEF Memories!MemoryRight

\* src/pmr/: TrackNew counts what is taken from new and nothing else, no buffer
\* is ever too small, the hint tells the inserts that move the vector, and the
\* pools of pool--unittest.cpp stay idle, for up to a thousand elements and any
\* number of collections and turns.
THEOREM MemoryAlwaysRight == ComputeSpec => []MemoryRight
<1>1. ComputeInit => MemoryInv
  BY MemoryInit DEF ComputeInit
<1>2. MemoryInv /\ [ComputeNext]_computeVars => MemoryInv'
  <2> SUFFICES ASSUME MemoryInv, [ComputeNext]_computeVars PROVE MemoryInv'
    OBVIOUS
  <2>1. [Memories!Next]_memoryVars
    BY DEF ComputeNext, InFrames, InRandom, InWindow, InWords, InMemory, computeVars
  <2>2. QED BY <2>1, MemoryKept
<1>3. MemoryInv => MemoryRight
  BY MemoryMeans DEF MemoryRight
<1>4. QED BY <1>1, <1>2, <1>3, PTL DEF ComputeSpec
=============================================================================
