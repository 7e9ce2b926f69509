----------------------- MODULE ProducerConsumerProofs ----------------------
(***************************************************************************)
(* Proofs about ConcurrentQueue, for any finitely many threads, any values *)
(* and every capacity, and whatever order its clients call push and pop    *)
(* in; then about ProducerConsumer, whose threads are such clients: about  *)
(* the stop values that its joiner gives to the consumers, and about what  *)
(* its calls push and pop.                                                 *)
(***************************************************************************)
EXTENDS ProducerConsumer, TLAPS, FiniteSetTheorems, SequenceTheorems

Label == {"out"} \cup Pushing \cup Popping

\* The threads that f has at one of the points L.
At(f, L) == {t \in Thread : f[t] \in L}

\* While a thread of f is at `sleeps`, n others at most are owed a wakeup: as
\* many are at the points `hope`, from where they will give one or need none.
Woken(f, n, sleeps, hope) == At(f, {sleeps}) /= {} => n <= Cardinality(At(f, hope))

\* Who takes an item, or will notify somebody who does; who fills a place.
Takes == {"push_notify", "pop_lock", "pop_pred"}
Fills == {"pop_notify", "push_lock", "push_pred"}

\* ConsumersWoken and ProducersWoken in one form.
WokenInv ==
  /\ Woken(pc, Len(m_queue), "pop_wait", Takes)
  /\ Woken(pc, CAPACITY - Len(m_queue), "push_wait", Fills)

Inv == QueueTypeOK /\ QueueMutex /\ WokenInv

\* 1 if l is one of the points L.
Count(l, L) == IF l \in L THEN 1 ELSE 0

-----------------------------------------------------------------------------
\* One thread goes from f[t] to l.
LEMMA OneMoves ==
  ASSUME IsFiniteSet(Thread), NEW f \in [Thread -> Label], NEW t \in Thread, NEW l, NEW L
  PROVE  LET g == [f EXCEPT ![t] = l] IN
         /\ Cardinality(At(f, L)) \in Nat
         /\ Cardinality(At(g, L)) = Cardinality(At(f, L)) + Count(l, L) - Count(f[t], L)
<1> DEFINE g == [f EXCEPT ![t] = l]
           rest == At(f, L) \ {t}
<1>1. IsFiniteSet(At(f, L)) /\ IsFiniteSet(rest)
  BY FS_Subset DEF At
<1>2. Cardinality(At(f, L)) \in Nat /\ Cardinality(rest) \in Nat
  BY <1>1, FS_CardinalityType
<1>3. Cardinality(rest) = Cardinality(At(f, L)) - Count(f[t], L)
  <2>1. t \in At(f, L) <=> f[t] \in L
    BY DEF At
  <2>2. QED BY <1>1, <1>2, <2>1, FS_RemoveElement DEF Count
<1>4. Cardinality(At(g, L)) = Cardinality(rest) + Count(l, L)
  <2>1. CASE l \in L
    <3>1. At(g, L) = rest \cup {t} /\ t \notin rest
      BY <2>1 DEF At
    <3>2. QED BY <1>1, <2>1, <3>1, FS_AddElement DEF Count
  <2>2. CASE l \notin L
    <3>1. At(g, L) = rest
      BY <2>2 DEF At
    <3>2. Count(l, L) = 0
      BY <2>2 DEF Count
    <3> HIDE DEF g, rest
    <3>3. QED BY <1>2, <3>1, <3>2
  <2>3. QED BY <2>1, <2>2
<1>5. QED BY <1>2, <1>3, <1>4 DEF Count

\* A thread that goes to sleep finds nothing to wait for; one that leaves the
\* points of hope has dealt with what it was counted for.
LEMMA WokenMove ==
  ASSUME IsFiniteSet(Thread), NEW f \in [Thread -> Label], NEW t \in Thread, NEW l,
         NEW sleeps, NEW hope, NEW n \in Int, NEW m \in Int,
         Woken(f, n, sleeps, hope),
         l = sleeps => m <= 0,
         m <= n + Count(l, hope) - Count(f[t], hope)
  PROVE  Woken([f EXCEPT ![t] = l], m, sleeps, hope)
<1> DEFINE g == [f EXCEPT ![t] = l]
<1>1. /\ Cardinality(At(f, hope)) \in Nat
      /\ Cardinality(At(g, hope)) = Cardinality(At(f, hope)) + Count(l, hope) - Count(f[t], hope)
  BY OneMoves
<1>2. Cardinality(At(g, hope)) \in Nat
  BY FS_Subset, FS_CardinalityType DEF At
<1>3. At(g, {sleeps}) /= {} => l = sleeps \/ At(f, {sleeps}) /= {}
  BY DEF At
<1>4. CASE l = sleeps
  BY <1>2, <1>4 DEF Woken
<1>5. CASE At(f, {sleeps}) /= {}
  <2>1. n <= Cardinality(At(f, hope))
    BY <1>5 DEF Woken
  <2>2. Count(l, hope) \in {0, 1} /\ Count(f[t], hope) \in {0, 1}
    BY DEF Count
  <2>3. m <= Cardinality(At(g, hope))
    BY <1>1, <2>1, <2>2
  <2>4. QED BY <2>3 DEF Woken
<1>6. QED BY <1>3, <1>4, <1>5 DEF Woken

\* notify_one: if somebody sleeps then the one that is woken will take over
\* what the notifier was counted for, and if nobody does there is no debt.
LEMMA WokenNotify ==
  ASSUME IsFiniteSet(Thread), NEW f \in [Thread -> Label], NEW t \in Thread,
         NEW sleeps, NEW hope, NEW wake \in Label, NEW n \in Int,
         Woken(f, n, sleeps, hope), f[t] \in hope, sleeps \notin hope, "out" \notin hope,
         wake \in hope, sleeps /= "out", sleeps /= wake,
         NEW g,
         IF At(f, {sleeps}) = {} THEN g = [f EXCEPT ![t] = "out"]
         ELSE \E u \in At(f, {sleeps}) : g = [f EXCEPT ![t] = "out", ![u] = wake]
  PROVE  Woken(g, n, sleeps, hope)
<1>1. CASE At(f, {sleeps}) = {}
  BY <1>1 DEF Woken, At
<1>2. ASSUME NEW u \in At(f, {sleeps}), g = [f EXCEPT ![t] = "out", ![u] = wake]
      PROVE  Woken(g, n, sleeps, hope)
  <2> DEFINE h == [f EXCEPT ![u] = wake]
  <2>1. u \in Thread /\ f[u] = sleeps /\ u /= t
    BY DEF At
  <2>2. h \in [Thread -> Label] /\ h[t] = f[t] /\ g = [h EXCEPT ![t] = "out"]
    BY <1>2, <2>1
  <2>3. n + 1 \in Int /\ n + 1 <= n + Count(wake, hope) - Count(f[u], hope)
    BY <2>1 DEF Count
  <2>4. Woken(h, n + 1, sleeps, hope)
    BY <2>1, <2>3, WokenMove
  <2>5. n <= (n + 1) + Count("out", hope) - Count(h[t], hope)
    BY <2>2 DEF Count
  <2> HIDE DEF h
  <2>6. Woken([h EXCEPT ![t] = "out"], n, sleeps, hope)
    BY <2>2, <2>3, <2>4, <2>5, WokenMove
  <2>7. QED BY <2>2, <2>6
<1>3. QED BY <1>1, <1>2

\* The notification of the threads that wait for something else.
LEMMA WokenOther ==
  ASSUME IsFiniteSet(Thread), NEW f \in [Thread -> Label], NEW t \in Thread,
         NEW sleeps, NEW hope, NEW other, NEW wake \in Label, NEW n \in Int,
         Woken(f, n, sleeps, hope), f[t] \notin hope, other \notin hope, "out" \notin hope,
         wake \notin hope, sleeps /= "out", sleeps /= wake, f[t] /= other,
         NEW g,
         IF At(f, {other}) = {} THEN g = [f EXCEPT ![t] = "out"]
         ELSE \E u \in At(f, {other}) : g = [f EXCEPT ![t] = "out", ![u] = wake]
  PROVE  Woken(g, n, sleeps, hope)
<1>1. At(g, hope) = At(f, hope) /\ At(g, {sleeps}) \subseteq At(f, {sleeps})
  BY DEF At
<1>2. QED BY <1>1 DEF Woken

-----------------------------------------------------------------------------
\* The invariant of the queue in the form that the steps are proved with.
LEMMA WokenForm ==
  ASSUME IsFiniteSet(Thread)
  PROVE  (ConsumersWoken /\ ProducersWoken) <=> WokenInv
<1>1. /\ AwakePopper \cup NotifiesEmpty = At(pc, Takes) /\ AwakePopper \cap NotifiesEmpty = {}
      /\ AwakePusher \cup NotifiesFull = At(pc, Fills) /\ AwakePusher \cap NotifiesFull = {}
      /\ WaitEmpty = At(pc, {"pop_wait"}) /\ WaitFull = At(pc, {"push_wait"})
  BY DEF AwakePopper, NotifiesEmpty, AwakePusher, NotifiesFull, At, Takes, Fills, WaitEmpty, WaitFull
<1>2. /\ IsFiniteSet(AwakePopper) /\ IsFiniteSet(NotifiesEmpty)
      /\ IsFiniteSet(AwakePusher) /\ IsFiniteSet(NotifiesFull)
  BY FS_Subset DEF AwakePopper, NotifiesEmpty, AwakePusher, NotifiesFull
<1>3. /\ Cardinality(AwakePopper) \in Nat /\ Cardinality(NotifiesEmpty) \in Nat
      /\ Cardinality(AwakePusher) \in Nat /\ Cardinality(NotifiesFull) \in Nat
  BY <1>2, FS_CardinalityType
<1>4. Cardinality({}) = 0
  BY FS_EmptySet
<1>5. Cardinality(At(pc, Takes)) = Cardinality(AwakePopper) + Cardinality(NotifiesEmpty) - Cardinality({})
  BY <1>1, <1>2, FS_Union
<1>6. Cardinality(At(pc, Fills)) = Cardinality(AwakePusher) + Cardinality(NotifiesFull) - Cardinality({})
  BY <1>1, <1>2, FS_Union
<1>7. /\ Cardinality(At(pc, Takes)) = Cardinality(NotifiesEmpty) + Cardinality(AwakePopper)
      /\ Cardinality(At(pc, Fills)) = Cardinality(NotifiesFull) + Cardinality(AwakePusher)
  BY <1>3, <1>4, <1>5, <1>6
<1>8. QED BY <1>1, <1>7 DEF ConsumersWoken, ProducersWoken, WokenInv, Woken

LEMMA InitInv == QueueAssumption /\ QueueInit => Inv
<1> SUFFICES ASSUME QueueAssumption, QueueInit PROVE Inv
  OBVIOUS
<1> USE DEF QueueInit, QueueAssumption
<1>1. QueueTypeOK
  BY DEF QueueTypeOK, Pushing, Popping
<1>2. QueueMutex
  BY DEF QueueMutex
<1>3. WokenInv
  BY DEF WokenInv, Woken, At
<1>4. QED BY <1>1, <1>2, <1>3 DEF Inv

\* A step in which t goes to l and the queue stays as it is, or changes with
\* what t is counted for.
LEMMA WokenStep ==
  ASSUME QueueAssumption, Inv, NEW t \in Thread, NEW l, Goto(t, l), m_queue' \in Seq(Value),
         l = "pop_wait" => Len(m_queue') = 0,
         l = "push_wait" => CAPACITY - Len(m_queue') <= 0,
         Len(m_queue') <= Len(m_queue) + Count(l, Takes) - Count(pc[t], Takes),
         Len(m_queue) <= Len(m_queue') + Count(l, Fills) - Count(pc[t], Fills)
  PROVE  WokenInv'
<1>1. /\ Len(m_queue) \in Nat /\ Len(m_queue') \in Nat
      /\ IsFiniteSet(Thread) /\ CAPACITY \in Nat
  BY LenProperties DEF QueueAssumption, Inv, QueueTypeOK
<1>2. pc \in [Thread -> Label]
  BY DEF Inv, QueueTypeOK, Label
<1>3. Woken([pc EXCEPT ![t] = l], Len(m_queue'), "pop_wait", Takes)
  <2>1. Woken(pc, Len(m_queue), "pop_wait", Takes)
    BY DEF Inv, WokenInv
  <2>2. Len(m_queue) \in Int /\ Len(m_queue') \in Int /\ (l = "pop_wait" => Len(m_queue') <= 0)
    BY <1>1
  <2>3. QED BY ONLY <1>1, <1>2, <2>1, <2>2, t \in Thread, WokenMove,
          Len(m_queue') <= Len(m_queue) + Count(l, Takes) - Count(pc[t], Takes)
<1>4. Woken([pc EXCEPT ![t] = l], CAPACITY - Len(m_queue'), "push_wait", Fills)
  <2>1. Woken(pc, CAPACITY - Len(m_queue), "push_wait", Fills)
    BY DEF Inv, WokenInv
  <2>2. CAPACITY - Len(m_queue) \in Int /\ CAPACITY - Len(m_queue') \in Int
    BY <1>1
  <2>3. Count(l, Fills) \in Int /\ Count(pc[t], Fills) \in Int
    BY DEF Count
  <2>4. CAPACITY - Len(m_queue') <= CAPACITY - Len(m_queue) + Count(l, Fills) - Count(pc[t], Fills)
    BY <1>1, <2>3
  <2>5. QED BY <1>1, <1>2, <2>1, <2>2, <2>4, WokenMove
<1>5. pc' = [pc EXCEPT ![t] = l]
  BY DEF Goto
<1>6. QED BY <1>3, <1>4, <1>5 DEF WokenInv, Woken, At

\* Every call, every step of push and of pop, and every wakeup.
LEMMA NextInv == QueueAssumption /\ Inv /\ [QueueNext]_queue => Inv'
<1> SUFFICES ASSUME QueueAssumption, Inv, [QueueNext]_queue PROVE Inv'
  OBVIOUS
<1>1. /\ QueueTypeOK /\ QueueMutex /\ WokenInv
      /\ NoThread \notin Thread /\ IsFiniteSet(Thread) /\ CAPACITY \in Nat
      /\ m_queue \in Seq(Value) /\ Len(m_queue) \in Nat /\ Len(m_queue) <= CAPACITY
      /\ pc \in [Thread -> Label]
  BY LenProperties DEF Inv, QueueAssumption, QueueTypeOK, Label
<1>2. ASSUME NEW t \in Thread, NEW v \in Value, CallPush(t, v) PROVE Inv'
  <2> USE <1>1, <1>2 DEF CallPush
  <2>1. QueueTypeOK'
    BY DEF QueueTypeOK, Pushing, Popping, Goto
  <2>2. QueueMutex'
    BY DEF QueueMutex, QueueTypeOK, Goto
  <2>3. WokenInv'
    BY WokenStep DEF Takes, Fills, Count
  <2>4. QED BY <2>1, <2>2, <2>3 DEF Inv
<1>3. ASSUME NEW t \in Thread, CallPop(t) PROVE Inv'
  <2> USE <1>1, <1>3 DEF CallPop
  <2>1. QueueTypeOK'
    BY DEF QueueTypeOK, Pushing, Popping, Goto
  <2>2. QueueMutex'
    BY DEF QueueMutex, QueueTypeOK, Goto
  <2>3. WokenInv'
    BY WokenStep DEF Takes, Fills, Count
  <2>4. QED BY <2>1, <2>2, <2>3 DEF Inv
<1>4. ASSUME NEW t \in Thread, PushLock(t) PROVE Inv'
  <2> USE <1>1, <1>4 DEF PushLock
  <2>1. QueueTypeOK'
    BY DEF QueueTypeOK, Pushing, Popping, Goto, Acquire
  <2>2. QueueMutex'
    BY DEF QueueMutex, QueueTypeOK, Goto, Acquire
  <2>3. WokenInv'
    BY WokenStep DEF Takes, Fills, Count
  <2>4. QED BY <2>1, <2>2, <2>3 DEF Inv
<1>5. ASSUME NEW t \in Thread, PushSleep(t) PROVE Inv'
  <2> USE <1>1, <1>5 DEF PushSleep
  <2>1. QueueTypeOK'
    BY DEF QueueTypeOK, Pushing, Popping, Goto, Release, HasRoom
  <2>2. QueueMutex'
    BY DEF QueueMutex, QueueTypeOK, Goto, Release, HasRoom
  <2>3. WokenInv'
    <3>1. CAPACITY - Len(m_queue) <= 0
      BY DEF HasRoom
    <3>2. Woken(pc', CAPACITY - Len(m_queue), "push_wait", Fills)
      <4>1. CAPACITY - Len(m_queue) \in Int /\ Cardinality(At(pc', Fills)) \in Nat
        BY FS_Subset, FS_CardinalityType DEF At
      <4>2. QED BY <3>1, <4>1 DEF Woken
    <3>3. Woken(pc', Len(m_queue), "pop_wait", Takes)
      <4>1. Woken(pc, Len(m_queue), "pop_wait", Takes) /\ Len(m_queue) \in Int
        BY DEF WokenInv
      <4>2. Len(m_queue) <= Len(m_queue) + Count("push_wait", Takes) - Count(pc[t], Takes)
        BY DEF Count, Takes
      <4>3. Woken([pc EXCEPT ![t] = "push_wait"], Len(m_queue), "pop_wait", Takes)
        BY <4>1, <4>2, WokenMove
      <4>4. QED BY <4>3 DEF Goto
    <3>4. QED BY <3>2, <3>3 DEF WokenInv, Woken, At
  <2>4. QED BY <2>1, <2>2, <2>3 DEF Inv
<1>6. ASSUME NEW t \in Thread, PushItem(t) PROVE Inv'
  <2> USE <1>1, <1>6 DEF PushItem
  <2>1. item[t] \in Value /\ m_queue \in Seq(Value)
    BY DEF QueueTypeOK, Pushing
  <2>2. m_queue' \in Seq(Value) /\ Len(m_queue') = Len(m_queue) + 1
    BY <2>1
  <2>3. QueueTypeOK'
    BY <2>2 DEF QueueTypeOK, Pushing, Popping, Goto, Release, HasRoom
  <2>4. QueueMutex'
    BY DEF QueueMutex, QueueTypeOK, Goto, Release, HasRoom
  <2>5. WokenInv'
    BY <2>2, WokenStep DEF Takes, Fills, Count
  <2>6. QED BY <2>3, <2>4, <2>5 DEF Inv
<1>7. ASSUME NEW t \in Thread, PushNotify(t) PROVE Inv'
  <2> USE <1>1, <1>7 DEF PushNotify
  <2>1. IF At(pc, {"pop_wait"}) = {} THEN pc' = [pc EXCEPT ![t] = "out"]
        ELSE \E u \in At(pc, {"pop_wait"}) : pc' = [pc EXCEPT ![t] = "out", ![u] = "pop_lock"]
    BY DEF NotifyOne, Goto, WaitEmpty, At
  <2>2. pc' \in [Thread -> Label]
    BY <2>1 DEF Label, Pushing, Popping, At
  <2>3. \A s \in Thread : \/ pc'[s] = pc[s]
                          \/ s = t /\ pc'[s] = "out"
                          \/ pc[s] = "pop_wait" /\ pc'[s] = "pop_lock"
    BY <2>1 DEF At
  <2>4. pc'[t] = "out"
    BY <2>1 DEF At
  <2>5. QueueTypeOK'
    BY <2>2, <2>3, <2>4 DEF QueueTypeOK, Label, Pushing, Popping
  <2>6. QueueMutex'
    BY <2>3, <2>4 DEF QueueMutex
  <2>7. Woken(pc', Len(m_queue), "pop_wait", Takes)
    <3>1. Woken(pc, Len(m_queue), "pop_wait", Takes) /\ Len(m_queue) \in Int
      BY DEF WokenInv
    <3>2. pc[t] \in Takes /\ "pop_wait" \notin Takes /\ "out" \notin Takes /\ "pop_lock" \in Takes \cap Label
      BY DEF Takes, Label, Pushing, Popping
    <3>3. QED BY <2>1, <3>1, <3>2, WokenNotify
  <2>8. Woken(pc', CAPACITY - Len(m_queue), "push_wait", Fills)
    <3>1. Woken(pc, CAPACITY - Len(m_queue), "push_wait", Fills) /\ CAPACITY - Len(m_queue) \in Int
      BY DEF WokenInv
    <3>2. /\ pc[t] \notin Fills /\ "pop_wait" \notin Fills /\ "out" \notin Fills
          /\ "pop_lock" \in Label \ Fills /\ pc[t] /= "pop_wait"
      BY DEF Fills, Label, Pushing, Popping
    <3>3. QED BY <2>1, <3>1, <3>2, WokenOther
  <2>9. QED BY <2>5, <2>6, <2>7, <2>8 DEF Inv, WokenInv, Woken, At
<1>8. ASSUME NEW t \in Thread, PopLock(t) PROVE Inv'
  <2> USE <1>1, <1>8 DEF PopLock
  <2>1. QueueTypeOK'
    BY DEF QueueTypeOK, Pushing, Popping, Goto, Acquire
  <2>2. QueueMutex'
    BY DEF QueueMutex, QueueTypeOK, Goto, Acquire
  <2>3. WokenInv'
    BY WokenStep DEF Takes, Fills, Count
  <2>4. QED BY <2>1, <2>2, <2>3 DEF Inv
<1>9. ASSUME NEW t \in Thread, PopSleep(t) PROVE Inv'
  <2> USE <1>1, <1>9 DEF PopSleep
  <2>1. QueueTypeOK'
    BY DEF QueueTypeOK, Pushing, Popping, Goto, Release
  <2>2. QueueMutex'
    BY DEF QueueMutex, QueueTypeOK, Goto, Release
  <2>3. WokenInv'
    <3>1. Woken(pc', 0, "pop_wait", Takes)
      <4>1. Cardinality(At(pc', Takes)) \in Nat
        BY FS_Subset, FS_CardinalityType DEF At
      <4>2. QED BY <4>1 DEF Woken
    <3>2. Woken(pc', CAPACITY - Len(m_queue), "push_wait", Fills)
      <4>1. Woken(pc, CAPACITY - Len(m_queue), "push_wait", Fills) /\ CAPACITY - Len(m_queue) \in Int
        BY DEF WokenInv
      <4>2. CAPACITY - Len(m_queue) <= CAPACITY - Len(m_queue) + Count("pop_wait", Fills) - Count(pc[t], Fills)
        BY DEF Count, Fills
      <4>3. Woken([pc EXCEPT ![t] = "pop_wait"], CAPACITY - Len(m_queue), "push_wait", Fills)
        BY <4>1, <4>2, WokenMove
      <4>4. QED BY <4>3 DEF Goto
    <3>3. QED BY <3>1, <3>2 DEF WokenInv, Woken, At
  <2>4. QED BY <2>1, <2>2, <2>3 DEF Inv
<1>10. ASSUME NEW t \in Thread, PopItem(t) PROVE Inv'
  <2> USE <1>1, <1>10 DEF PopItem
  <2>1. Head(m_queue) \in Value /\ m_queue' \in Seq(Value) /\ Len(m_queue') = Len(m_queue) - 1
    BY HeadTailProperties DEF QueueTypeOK
  <2>2. QueueTypeOK'
    BY <2>1 DEF QueueTypeOK, Pushing, Popping, Goto, Release
  <2>3. QueueMutex'
    BY DEF QueueMutex, QueueTypeOK, Goto, Release
  <2>4. WokenInv'
    BY <2>1, WokenStep DEF Takes, Fills, Count
  <2>5. QED BY <2>2, <2>3, <2>4 DEF Inv
<1>11. ASSUME NEW t \in Thread, PopNotify(t) PROVE Inv'
  <2> USE <1>1, <1>11 DEF PopNotify
  <2>1. IF At(pc, {"push_wait"}) = {} THEN pc' = [pc EXCEPT ![t] = "out"]
        ELSE \E u \in At(pc, {"push_wait"}) : pc' = [pc EXCEPT ![t] = "out", ![u] = "push_lock"]
    BY DEF NotifyOne, Goto, WaitFull, At
  <2>2. pc' \in [Thread -> Label]
    BY <2>1 DEF Label, Pushing, Popping, At
  <2>3. \A s \in Thread : \/ pc'[s] = pc[s]
                          \/ s = t /\ pc'[s] = "out"
                          \/ pc[s] = "push_wait" /\ pc'[s] = "push_lock"
    BY <2>1 DEF At
  <2>4. pc'[t] = "out"
    BY <2>1 DEF At
  <2>5. QueueTypeOK'
    BY <2>2, <2>3, <2>4 DEF QueueTypeOK, Label, Pushing, Popping
  <2>6. QueueMutex'
    BY <2>3, <2>4 DEF QueueMutex
  <2>7. Woken(pc', CAPACITY - Len(m_queue), "push_wait", Fills)
    <3>1. Woken(pc, CAPACITY - Len(m_queue), "push_wait", Fills) /\ CAPACITY - Len(m_queue) \in Int
      BY DEF WokenInv
    <3>2. pc[t] \in Fills /\ "push_wait" \notin Fills /\ "out" \notin Fills /\ "push_lock" \in Fills \cap Label
      BY DEF Fills, Label, Pushing, Popping
    <3>3. QED BY <2>1, <3>1, <3>2, WokenNotify
  <2>8. Woken(pc', Len(m_queue), "pop_wait", Takes)
    <3>1. Woken(pc, Len(m_queue), "pop_wait", Takes) /\ Len(m_queue) \in Int
      BY DEF WokenInv
    <3>2. /\ pc[t] \notin Takes /\ "push_wait" \notin Takes /\ "out" \notin Takes
          /\ "push_lock" \in Label \ Takes /\ pc[t] /= "push_wait"
      BY DEF Takes, Label, Pushing, Popping
    <3>3. QED BY <2>1, <3>1, <3>2, WokenOther
  <2>9. QED BY <2>5, <2>6, <2>7, <2>8 DEF Inv, WokenInv, Woken, At
<1>12. ASSUME NEW t \in Thread, SpuriousWake(t) PROVE Inv'
  <2> USE <1>1, <1>12 DEF SpuriousWake
  <2>1. QueueTypeOK'
    BY DEF QueueTypeOK, Pushing, Popping, Goto
  <2>2. QueueMutex'
    BY DEF QueueMutex, QueueTypeOK, Goto
  <2>3. WokenInv'
    BY WokenStep DEF Takes, Fills, Count
  <2>4. QED BY <2>1, <2>2, <2>3 DEF Inv
<1>13. CASE UNCHANGED queue
  BY <1>1, <1>13 DEF Inv, queue, QueueTypeOK, QueueMutex, WokenInv, Woken, At
<1>14. QED
  BY <1>2, <1>3, <1>4, <1>5, <1>6, <1>7, <1>8, <1>9, <1>10, <1>11, <1>12, <1>13
  DEF QueueNext, PushStep, PopStep

\* The queue's invariant for any threads, values and capacity: it never holds
\* more than CAPACITY items, one thread at a time is inside the lock, and
\* neither notify_one, though each comes after the unlock, loses a wakeup.
THEOREM QueueCorrect == QueueSpec => []QueueInv
<1>1. QueueInit => Inv
  BY InitInv, QueueAssumption
<1>2. Inv /\ [QueueNext]_queue => Inv'
  BY NextInv, QueueAssumption
<1>3. Inv => QueueInv
  BY WokenForm, QueueAssumption DEF Inv, QueueInv, QueueAssumption
<1>4. QED BY <1>1, <1>2, <1>3, PTL DEF QueueSpec

-----------------------------------------------------------------------------
Received == [t \in Thread |-> IF pc[t] = "pop_notify" THEN item[t] ELSE NoValue]

\* A thread that no pop has given an item, before and after.
LEMMA SameReceived ==
  ASSUME NEW t \in Thread, UNCHANGED m_queue,
         \A s \in Thread : pc[s] = "pop_notify" <=> pc'[s] = "pop_notify",
         \A s \in Thread : pc[s] = "pop_notify" => item'[s] = item[s]
  PROVE  UNCHANGED Channel!vars
BY DEF Channel!vars

LEMMA ChannelStep == QueueAssumption /\ Inv /\ [QueueNext]_queue => [Channel!Next]_(Channel!vars)
<1> SUFFICES ASSUME QueueAssumption, Inv, [QueueNext]_queue PROVE [Channel!Next]_(Channel!vars)
  OBVIOUS
<1> USE DEF QueueAssumption, Inv, QueueTypeOK
<1>1. ASSUME NEW t \in Thread, NEW v \in Value, CallPush(t, v) PROVE UNCHANGED Channel!vars
  BY <1>1, SameReceived DEF CallPush, Goto
<1>2. ASSUME NEW t \in Thread,
             CallPop(t) \/ PushLock(t) \/ PushSleep(t) \/ PopLock(t) \/ PopSleep(t) \/ SpuriousWake(t)
      PROVE  UNCHANGED Channel!vars
  BY <1>2, SameReceived DEF CallPop, PushLock, PushSleep, PopLock, PopSleep, SpuriousWake, Goto
<1>3. ASSUME NEW t \in Thread, PushNotify(t) PROVE UNCHANGED Channel!vars
  <2> USE <1>3 DEF PushNotify, NotifyOne, Goto, WaitEmpty
  <2>1. \A s \in Thread : pc[s] = "pop_notify" <=> pc'[s] = "pop_notify"
    OBVIOUS
  <2>2. QED BY <2>1, SameReceived
<1>4. ASSUME NEW t \in Thread, PushItem(t) PROVE Channel!Next
  <2> USE <1>4 DEF PushItem, Goto, HasRoom
  <2>1. item[t] \in Value
    BY DEF Pushing
  <2>2. Received' = Received
    BY DEF Received
  <2>3. Channel!Send(item[t])
    BY <2>2 DEF Channel!Send, Received
  <2>4. QED BY <2>1, <2>3 DEF Channel!Next
<1>5. ASSUME NEW t \in Thread, PopItem(t) PROVE Channel!Next
  <2> USE <1>5 DEF PopItem, Goto
  <2>1. Received[t] = NoValue /\ Received' = [Received EXCEPT ![t] = Head(m_queue)]
    BY DEF Received
  <2>2. Channel!Receive(t)
    BY <2>1 DEF Channel!Receive, Received
  <2>3. QED BY <2>2 DEF Channel!Next
<1>6. ASSUME NEW t \in Thread, PopNotify(t) PROVE Channel!Next
  <2> USE <1>6 DEF PopNotify, NotifyOne, Goto, WaitFull
  <2>1. Received[t] = item[t] /\ item[t] \in Value /\ item[t] /= NoValue
    BY DEF Received
  <2>2. \A s \in Thread : pc'[s] = "pop_notify" <=> (pc[s] = "pop_notify" /\ s /= t)
    OBVIOUS
  <2>3. Received' = [Received EXCEPT ![t] = NoValue]
    BY <2>2 DEF Received
  <2>4. Channel!Return(t)
    BY <2>1, <2>3 DEF Channel!Return, Received
  <2>5. QED BY <2>4 DEF Channel!Next
<1>7. CASE UNCHANGED queue
  BY <1>7 DEF queue, Channel!vars
<1>8. QED
  BY <1>1, <1>2, <1>3, <1>4, <1>5, <1>6, <1>7 DEF QueueNext, PushStep, PopStep

\* The queue is a bounded FIFO channel, whatever its threads and its capacity:
\* a pop returns the oldest item that was pushed and not popped.
THEOREM QueueIsChannel == QueueSpec => ImplementsChannel
<1>1. QueueInit => Channel!Init
  BY DEF QueueInit, Channel!Init
<1>2. QueueInit => Inv
  BY InitInv, QueueAssumption
<1>3. Inv /\ [QueueNext]_queue => Inv'
  BY NextInv, QueueAssumption
<1>4. Inv /\ [QueueNext]_queue => [Channel!Next]_(Channel!vars)
  BY ChannelStep, QueueAssumption
<1>5. QED BY <1>1, <1>2, <1>3, <1>4, PTL DEF QueueSpec, ImplementsChannel, Channel!Spec

-----------------------------------------------------------------------------
\* Every step of the test, timely or not, is a step of the queue for one of
\* its clients, or none.
LEMMA ClientStep == [Next]_vars \/ [NextInTime]_vars => [QueueNext]_queue
<1> SUFFICES ASSUME [Next]_vars \/ [NextInTime]_vars PROVE [QueueNext]_queue
  OBVIOUS
<1> USE DEF ClientAssumption
<1>1. ASSUME NEW t \in Thread, ThreadStep(t) PROVE [QueueNext]_queue
  <2>1. CASE InQueue(t)
    BY <2>1 DEF InQueue, QueueNext, PushStep, PopStep
  <2>2. CASE t \in Producer /\ (Produce(t) \/ Produced(t))
    BY <2>2 DEF Produce, Produced, QueueNext, PushStep
  <2>3. CASE t \in Consumer /\ (Consume(t) \/ Consumed(t))
    BY <2>3 DEF Consume, Consumed, QueueNext, PopStep
  <2>4. CASE t = Joiner /\ JoinerStep
    <3>1. CASE StopConsumer \/ StopPushed
      BY <2>4, <3>1, ClientAssumption DEF StopConsumer, StopPushed, QueueNext, PushStep
    <3>2. CASE JoinProducers \/ JoinConsumers \/ Complete
      BY <3>2 DEF JoinProducers, JoinConsumers, Complete
    <3>3. QED BY <2>4, <3>1, <3>2 DEF JoinerStep
  <2>5. QED BY <1>1, <2>1, <2>2, <2>3, <2>4 DEF ThreadStep
<1>2. ASSUME Spurious PROVE [QueueNext]_queue
  BY <1>2 DEF Spurious, QueueNext
<1>3. ASSUME TestCompletes \/ TestTimesOut \/ Ended \/ UNCHANGED vars PROVE [QueueNext]_queue
  BY <1>3 DEF TestCompletes, TestTimesOut, Ended, vars
<1>4. QED BY <1>1, <1>2, <1>3 DEF Next, NextInTime, Threads

\* The producers, the consumers and the joiner use the queue as its clients
\* may, on a machine that is fast enough and on one that is not.
THEOREM UsesQueue == Spec \/ SpecInTime => QueueSpec
<1>1. Init => QueueInit
  BY DEF Init
<1>2. QED BY <1>1, ClientStep, PTL DEF Spec, SpecInTime, QueueSpec

\* In the test the queue holds what it can, and no producer or consumer is
\* left asleep beside a place or an item that nobody will tell it of.
THEOREM TestQueueCorrect == Spec \/ SpecInTime => []QueueInv
BY UsesQueue, QueueCorrect, PTL

\* What the consumers get is what was pushed, in order.
THEOREM TestQueueIsChannel == Spec \/ SpecInTime => ImplementsChannel
BY UsesQueue, QueueIsChannel, PTL

-----------------------------------------------------------------------------
\* Where the clients are in the queue, and what they hold there.
Places ==
  /\ \A p \in Producer :
       /\ pc[p] \in {"out"} \cup Pushing
       /\ pc[p] /= "out" => run[p] = "run" /\ item[p] >= 0
  /\ \A c \in Consumer :
       /\ pc[c] \in {"out"} \cup Popping
       /\ pc[c] /= "out" => run[c] = "run"
  /\ pc[Joiner] \in {"out"} \cup Pushing
  /\ pc[Joiner] /= "out" =>
       joining = "stop" /\ item[Joiner] = -1 /\ stops < Cardinality(Consumer)

\* How far the joiner is.
Joined ==
  /\ run \in [Producer \cup Consumer -> {"run", "done"}]
  /\ joining \in {"producers", "stop", "consumers", "complete", "done"} /\ stops \in Nat
  /\ IF joining = "producers" THEN stops = 0 ELSE \A p \in Producer : run[p] = "done"
  /\ joining \in {"consumers", "complete", "done"} => stops = Cardinality(Consumer) /\ stops > 0
  /\ joining \in {"complete", "done"} => \A c \in Consumer : run[c] = "done"

\* The consumers that have taken a stop, and the stops that have been given.
Stopped == {c \in Consumer : run[c] = "done" \/ (pc[c] = "pop_notify" /\ item[c] < 0)}
Given == stops + Count(pc[Joiner], {"push_notify"})

\* The queue holds k values, and stops behind them; every stop is in it or has
\* been taken, and none has been taken before the last value.
StopsFrom(k) ==
  /\ \A i \in 1 .. Len(m_queue) : IF i <= k THEN m_queue[i] >= 0 ELSE m_queue[i] = -1
  /\ Len(m_queue) - k + Cardinality(Stopped) = Given
  /\ Stopped /= {} => k = 0

StopInv == Places /\ Joined /\ \E k \in 0 .. Len(m_queue) : StopsFrom(k)
-----------------------------------------------------------------------------
LEMMA StopInit == QueueAssumption /\ Init => StopInv
<1> SUFFICES ASSUME QueueAssumption, Init PROVE StopInv
  OBVIOUS
<1> USE ClientAssumption DEF Init, QueueInit
<1>1. Places /\ Joined
  BY DEF Places, Joined, ClientAssumption
<1>2. StopsFrom(0)
  <2>1. Stopped = {}
    BY DEF Stopped, ClientAssumption
  <2>2. Given = 0
    BY DEF Given, Count, ClientAssumption
  <2>3. QED BY <2>1, <2>2, FS_EmptySet DEF StopsFrom
<1>3. QED BY <1>1, <1>2 DEF StopInv

\* What the steps need to know of the state before.
LEMMA StopFacts ==
  ASSUME QueueAssumption, QueueTypeOK
  PROVE  /\ Producer \subseteq Thread /\ Consumer \subseteq Thread /\ Joiner \in Thread
         /\ Producer \cap Consumer = {} /\ Joiner \notin Producer /\ Joiner \notin Consumer
         /\ IsFiniteSet(Consumer) /\ Cardinality(Consumer) \in Nat
         /\ IsFiniteSet(Stopped) /\ Cardinality(Stopped) \in Nat
         /\ m_queue \in Seq(Value) /\ Len(m_queue) \in Nat /\ Value \subseteq Int
<1>1. Consumer \subseteq Thread /\ Stopped \subseteq Consumer
  BY ClientAssumption DEF ClientAssumption, Stopped
<1>2. IsFiniteSet(Consumer) /\ IsFiniteSet(Stopped)
  BY <1>1, FS_Subset DEF QueueAssumption
<1>3. QED
  BY <1>1, <1>2, FS_CardinalityType, ClientAssumption, LenProperties
     DEF ClientAssumption, QueueTypeOK

\* A step that neither gives nor takes a stop.
LEMMA StopsStay ==
  ASSUME StopInv, UNCHANGED <<m_queue, stops>>, Stopped' = Stopped,
         pc'[Joiner] = "push_notify" <=> pc[Joiner] = "push_notify"
  PROVE  (\E k \in 0 .. Len(m_queue) : StopsFrom(k))'
<1>1. PICK k \in 0 .. Len(m_queue) : StopsFrom(k)
  BY DEF StopInv
<1>2. Given' = Given
  BY DEF Given, Count
<1>3. StopsFrom(k)'
  BY <1>1, <1>2 DEF StopsFrom
<1>4. QED BY <1>1, <1>3

\* A thread waits for the mutex, for room or for an item.
LEMMA StopWaits ==
  ASSUME QueueAssumption, QueueTypeOK, StopInv, UNCHANGED client, NEW t \in Thread,
         PushLock(t) \/ PushSleep(t) \/ PopLock(t) \/ PopSleep(t) \/ SpuriousWake(t)
  PROVE  StopInv'
<1> USE DEF client, Goto
<1>1. /\ UNCHANGED <<m_queue, item, run, joining, stops>>
      /\ \E l \in Pushing \cup Popping :
           /\ pc' = [pc EXCEPT ![t] = l] /\ pc[t] /= "out"
           /\ (pc[t] \in Pushing /\ l \in Pushing) \/ (pc[t] \in Popping /\ l \in Popping)
           /\ {pc[t], l} \cap {"push_notify", "pop_notify"} = {}
  BY DEF PushLock, PushSleep, PopLock, PopSleep, SpuriousWake, Pushing, Popping
<1>2. PICK l \in Pushing \cup Popping :
        /\ pc' = [pc EXCEPT ![t] = l] /\ pc[t] /= "out" /\ l /= "out"
        /\ (pc[t] \in Pushing /\ l \in Pushing) \/ (pc[t] \in Popping /\ l \in Popping)
        /\ pc[t] \notin {"push_notify", "pop_notify"} /\ l \notin {"push_notify", "pop_notify"}
  BY <1>1 DEF Pushing, Popping
<1>3. \A s \in Thread :
        /\ pc'[s] \in Pushing <=> pc[s] \in Pushing
        /\ pc'[s] \in Popping <=> pc[s] \in Popping
        /\ pc'[s] = "out" <=> pc[s] = "out"
        /\ pc'[s] = "push_notify" <=> pc[s] = "push_notify"
        /\ pc'[s] = "pop_notify" <=> pc[s] = "pop_notify"
  BY <1>2 DEF QueueTypeOK, Pushing, Popping
<1>4. Places'
  BY <1>1, <1>3, StopFacts DEF StopInv, Places
<1>5. Joined'
  BY <1>1 DEF StopInv, Joined
<1>6. Stopped' = Stopped
  BY <1>1, <1>3, StopFacts DEF Stopped
<1>7. QED BY <1>1, <1>3, <1>4, <1>5, <1>6, StopsStay, StopFacts DEF StopInv

\* A thread calls push or pop.
LEMMA StopCalls ==
  ASSUME QueueAssumption, QueueTypeOK, StopInv
  PROVE  /\ \A p \in Producer : Produce(p) => StopInv'
         /\ \A c \in Consumer : Consume(c) => StopInv'
         /\ StopConsumer => StopInv'
<1> USE StopFacts DEF client, Goto, QueueTypeOK, Pushing, Popping
<1>1. ASSUME NEW p \in Producer, Produce(p) PROVE StopInv'
  <2>1. PICK v \in Value : v >= 0 /\ CallPush(p, v)
    BY <1>1 DEF Produce
  <2> USE <1>1, <2>1 DEF Produce, CallPush
  <2>2. Places' /\ Joined'
    BY DEF StopInv, Places, Joined
  <2>3. Stopped' = Stopped
    BY DEF Stopped
  <2>4. QED BY <2>2, <2>3, StopsStay DEF StopInv
<1>2. ASSUME NEW c \in Consumer, Consume(c) PROVE StopInv'
  <2> USE <1>2 DEF Consume, CallPop
  <2>1. Places' /\ Joined'
    BY DEF StopInv, Places, Joined
  <2>2. Stopped' = Stopped
    BY DEF Stopped
  <2>3. QED BY <2>1, <2>2, StopsStay DEF StopInv
<1>3. ASSUME StopConsumer PROVE StopInv'
  <2> USE <1>3 DEF StopConsumer, CallPush, StopsWanted
  <2>1. Places' /\ Joined'
    BY ClientAssumption DEF StopInv, Places, Joined, ClientAssumption
  <2>2. Stopped' = Stopped
    BY DEF Stopped
  <2>3. QED BY <2>1, <2>2, StopsStay DEF StopInv
<1>4. QED BY <1>1, <1>2, <1>3

\* A value, or a stop, goes to the end of the queue.
LEMMA StopPushes ==
  ASSUME QueueAssumption, QueueTypeOK, StopInv, UNCHANGED client, NEW t \in Thread, PushItem(t)
  PROVE  StopInv'
<1> USE StopFacts DEF client, Goto, QueueTypeOK, Pushing, Popping
<1> USE DEF PushItem
<1>1. t \in Producer \/ t = Joiner
  BY ClientAssumption DEF StopInv, Places, ClientAssumption
<1>2. Places' /\ Joined'
  BY <1>1 DEF StopInv, Places, Joined
<1>3. Stopped' = Stopped
  BY DEF Stopped
<1>4. item[t] \in Int /\ Len(m_queue') = Len(m_queue) + 1
  BY DEF QueueTypeOK
<1>5. \A i \in 1 .. Len(m_queue') :
        m_queue'[i] = IF i <= Len(m_queue) THEN m_queue[i] ELSE item[t]
  BY <1>4
<1>6. PICK k \in 0 .. Len(m_queue) : StopsFrom(k)
  BY DEF StopInv
<1>7. CASE t = Joiner
  <2>1. item[t] = -1
    BY <1>7 DEF StopInv, Places
  <2>2. Given \in Int /\ Given' = Given + 1
    BY <1>7 DEF Given, Count, StopInv, Joined
  <2>3. StopsFrom(k)'
    <3>1. \A i \in 1 .. Len(m_queue') : IF i <= k THEN m_queue'[i] >= 0 ELSE m_queue'[i] = -1
      <4>1. /\ \A i \in 1 .. Len(m_queue) : IF i <= k THEN m_queue[i] >= 0 ELSE m_queue[i] = -1
            /\ k \in 0 .. Len(m_queue) /\ Len(m_queue) \in Nat
        BY <1>6 DEF StopsFrom
      <4>2. QED BY ONLY <1>4, <1>5, <2>1, <4>1
    <3>2. Len(m_queue') - k + Cardinality(Stopped') = Given'
      <4>1. Len(m_queue) - k + Cardinality(Stopped) = Given
        BY <1>6 DEF StopsFrom
      <4>2. Len(m_queue) \in Int /\ Cardinality(Stopped) \in Int /\ k \in Int
        OBVIOUS
      <4> HIDE DEF PushItem
      <4>3. Len(m_queue) + 1 - k + Cardinality(Stopped) = Given + 1
        BY <4>1, <4>2
      <4>4. QED BY <1>3, <1>4, <2>2, <4>3
    <3>3. QED BY <1>3, <1>6, <3>1, <3>2 DEF StopsFrom
  <2>4. QED BY <1>2, <1>4, <2>3 DEF StopInv
<1>8. CASE t \in Producer
  <2>1. item[t] >= 0 /\ run[t] = "run"
    BY <1>8 DEF StopInv, Places
  <2>2. joining = "producers" /\ stops = 0 /\ pc[Joiner] = "out" /\ pc'[Joiner] = "out"
    BY <1>8, <2>1 DEF StopInv, Joined, Places
  <2>3. Given = 0 /\ Given' = 0
    BY <2>2 DEF Given, Count
  <2>4. k = Len(m_queue) /\ Stopped = {}
    BY <1>6, <2>3, FS_EmptySet DEF StopsFrom
  <2>5. StopsFrom(k + 1)'
    <3>1. \A i \in 1 .. Len(m_queue') : i <= k + 1 /\ m_queue'[i] >= 0
      BY <1>4, <1>5, <1>6, <2>1, <2>4 DEF StopsFrom
    <3>2. Len(m_queue') - (k + 1) + Cardinality(Stopped') = Given'
      BY <1>3, <1>4, <2>3, <2>4, FS_EmptySet
    <3>3. QED BY <1>3, <2>4, <3>1, <3>2 DEF StopsFrom
  <2>6. QED BY <1>2, <1>4, <2>5 DEF StopInv
<1>9. QED BY <1>1, <1>7, <1>8

\* A consumer takes the oldest item.
LEMMA StopPops ==
  ASSUME QueueAssumption, QueueTypeOK, StopInv, UNCHANGED client, NEW c \in Thread, PopItem(c)
  PROVE  StopInv'
<1> USE StopFacts DEF client, Goto, QueueTypeOK, Pushing, Popping
<1> USE DEF PopItem
<1>1. c \in Consumer
  BY ClientAssumption DEF StopInv, Places, ClientAssumption
<1>2. Places' /\ Joined'
  BY <1>1 DEF StopInv, Places, Joined
<1>3. /\ Len(m_queue) > 0 /\ m_queue[1] \in Int /\ item'[c] = m_queue[1]
      /\ Len(m_queue') = Len(m_queue) - 1
      /\ \A i \in 1 .. Len(m_queue') : m_queue'[i] = m_queue[i + 1]
  BY EmptySeq, HeadTailProperties
<1>4. PICK k \in 0 .. Len(m_queue) : StopsFrom(k)
  BY DEF StopInv
<1>5. c \notin Stopped /\ \A d \in Consumer \ {c} : d \in Stopped' <=> d \in Stopped
  BY <1>1 DEF Stopped, StopInv, Places
<1>6. Given' = Given /\ Given \in Int
  BY <1>1 DEF Given, Count, StopInv, Joined
<1>7. CASE k > 0
  <2>1. m_queue[1] >= 0 /\ Stopped = {}
    BY <1>3, <1>4, <1>7 DEF StopsFrom
  <2>2. Stopped' = Stopped
    BY <1>1, <1>3, <1>5, <2>1 DEF Stopped, StopInv, Places
  <2>3. StopsFrom(k - 1)'
    <3>1. \A i \in 1 .. Len(m_queue') : IF i <= k - 1 THEN m_queue'[i] >= 0 ELSE m_queue'[i] = -1
      BY <1>3, <1>4 DEF StopsFrom
    <3>2. Len(m_queue') - (k - 1) + Cardinality(Stopped') = Given'
      BY <1>3, <1>4, <1>6, <2>2 DEF StopsFrom
    <3>3. QED BY <2>1, <2>2, <3>1, <3>2 DEF StopsFrom
  <2>4. QED BY <1>2, <1>3, <1>7, <2>3 DEF StopInv
<1>8. CASE k = 0
  <2>1. m_queue[1] = -1
    BY <1>3, <1>4, <1>8 DEF StopsFrom
  <2>2. Stopped' = Stopped \cup {c}
    BY <1>1, <1>3, <1>5, <2>1 DEF Stopped
  <2>3. Cardinality(Stopped') = Cardinality(Stopped) + 1
    BY <1>5, <2>2, FS_AddElement
  <2>4. StopsFrom(0)'
    <3>1. \A i \in 1 .. Len(m_queue') : m_queue'[i] = -1
      BY <1>3, <1>4, <1>8 DEF StopsFrom
    <3>2. Len(m_queue') - 0 + Cardinality(Stopped') = Given'
      BY <1>3, <1>4, <1>6, <1>8, <2>3 DEF StopsFrom
    <3>3. QED BY <1>3, <3>1, <3>2 DEF StopsFrom
  <2>5. QED BY <1>2, <1>3, <2>4 DEF StopInv
<1>9. QED BY <1>4, <1>7, <1>8

\* notify_one may let a sleeper go for the mutex; the caller returns.
LEMMA NotifyMoves ==
  ASSUME QueueAssumption, QueueTypeOK, NEW t \in Thread, PushNotify(t) \/ PopNotify(t)
  PROVE  /\ UNCHANGED m_queue /\ item' = [item EXCEPT ![t] = NoValue]
         /\ pc'[t] = "out"
         /\ \A s \in Thread \ {t} :
              \/ pc'[s] = pc[s]
              \/ pc[s] = "pop_wait" /\ pc'[s] = "pop_lock"
              \/ pc[s] = "push_wait" /\ pc'[s] = "push_lock"
BY DEF PushNotify, PopNotify, NotifyOne, Goto, WaitEmpty, WaitFull, QueueTypeOK

\* A call returns.
LEMMA CallsReturn ==
  ASSUME QueueAssumption, QueueTypeOK, StopInv
  PROVE  /\ \A p \in Producer : Produced(p) => StopInv'
         /\ \A c \in Consumer : Consumed(c) => StopInv'
         /\ StopPushed => StopInv'
<1> USE StopFacts DEF QueueTypeOK, Pushing, Popping
<1>1. ASSUME NEW p \in Producer, Produced(p) PROVE StopInv'
  <2>1. pc[p] = "push_notify" /\ UNCHANGED <<joining, stops>>
        /\ run' = [run EXCEPT ![p] = IF item[p] /= 0 THEN "run" ELSE "done"]
    BY <1>1 DEF Produced, PushNotify
  <2>2. /\ UNCHANGED m_queue /\ item' = [item EXCEPT ![p] = NoValue]
        /\ pc'[p] = "out"
        /\ \A s \in Thread \ {p} :
             \/ pc'[s] = pc[s]
             \/ pc[s] = "pop_wait" /\ pc'[s] = "pop_lock"
             \/ pc[s] = "push_wait" /\ pc'[s] = "push_lock"
    <3>1. PushNotify(p) /\ p \in Thread
      BY <1>1 DEF Produced
    <3>2. QED BY <3>1, NotifyMoves
  <2>3. /\ run \in [Producer \cup Consumer -> {"run", "done"}]
        /\ \A t \in Thread \ {p} : item'[t] = item[t]
        /\ \A t \in (Producer \cup Consumer) \ {p} : run'[t] = run[t]
    BY <2>1, <2>2 DEF StopInv, Joined
  <2>4. Places'
    <3>1. \A q \in Producer \ {p} :
            (pc[q] \in {"out"} \cup Pushing /\ (pc[q] /= "out" => run[q] = "run" /\ item[q] >= 0))'
      BY <2>2, <2>3 DEF StopInv, Places
    <3>2. \A c \in Consumer : (pc[c] \in {"out"} \cup Popping /\ (pc[c] /= "out" => run[c] = "run"))'
      BY <2>2, <2>3 DEF StopInv, Places
    <3>3. /\ (pc[Joiner] \in {"out"} \cup Pushing)'
          /\ (pc[Joiner] /= "out" => joining = "stop" /\ item[Joiner] = -1 /\ stops < Cardinality(Consumer))'
      BY <2>1, <2>2, <2>3 DEF StopInv, Places
    <3>4. QED BY <2>2, <3>1, <3>2, <3>3 DEF Places
  <2>5. Joined'
    <3>1. joining = "producers" /\ stops = 0
      BY <2>1 DEF StopInv, Joined, Places
    <3>2. run' \in [Producer \cup Consumer -> {"run", "done"}]
      BY <2>1, <2>3
    <3>3. QED BY <2>1, <3>1, <3>2 DEF Joined
  <2>6. Stopped' = Stopped
    BY <2>2, <2>3 DEF Stopped
  <2>7. pc'[Joiner] = "push_notify" <=> pc[Joiner] = "push_notify"
    BY <2>2
  <2>8. QED BY <2>1, <2>2, <2>4, <2>5, <2>6, <2>7, StopsStay DEF StopInv
<1>2. ASSUME NEW c \in Consumer, Consumed(c) PROVE StopInv'
  <2>1. pc[c] = "pop_notify" /\ item[c] \in Int /\ UNCHANGED <<joining, stops>>
        /\ run' = [run EXCEPT ![c] = IF GoesOn(item[c]) THEN "run" ELSE "done"]
    BY <1>2 DEF Consumed, PopNotify
  <2>2. /\ UNCHANGED m_queue /\ item' = [item EXCEPT ![c] = NoValue]
        /\ pc'[c] = "out"
        /\ \A s \in Thread \ {c} :
             \/ pc'[s] = pc[s]
             \/ pc[s] = "pop_wait" /\ pc'[s] = "pop_lock"
             \/ pc[s] = "push_wait" /\ pc'[s] = "push_lock"
    <3>1. PopNotify(c) /\ c \in Thread
      BY <1>2 DEF Consumed
    <3>2. QED BY <3>1, NotifyMoves
  <2>3. /\ run \in [Producer \cup Consumer -> {"run", "done"}]
        /\ \A t \in Thread \ {c} : item'[t] = item[t]
        /\ \A t \in (Producer \cup Consumer) \ {c} : run'[t] = run[t]
    BY <2>1, <2>2 DEF StopInv, Joined
  <2>4. Places'
    <3>1. \A q \in Producer :
            (pc[q] \in {"out"} \cup Pushing /\ (pc[q] /= "out" => run[q] = "run" /\ item[q] >= 0))'
      BY <2>2, <2>3 DEF StopInv, Places
    <3>2. \A d \in Consumer \ {c} :
            (pc[d] \in {"out"} \cup Popping /\ (pc[d] /= "out" => run[d] = "run"))'
      BY <2>2, <2>3 DEF StopInv, Places
    <3>3. /\ (pc[Joiner] \in {"out"} \cup Pushing)'
          /\ (pc[Joiner] /= "out" => joining = "stop" /\ item[Joiner] = -1 /\ stops < Cardinality(Consumer))'
      BY <2>1, <2>2, <2>3 DEF StopInv, Places
    <3>4. QED BY <2>2, <3>1, <3>2, <3>3 DEF Places
  <2>5. Joined'
    <3>1. run[c] = "run"
      BY <2>1 DEF StopInv, Places
    <3>2. ~(joining \in {"complete", "done"})
      BY <3>1 DEF StopInv, Joined
    <3>3. run' \in [Producer \cup Consumer -> {"run", "done"}] /\ \A q \in Producer : run'[q] = run[q]
      BY <2>1, <2>3
    <3>4. QED BY <2>1, <3>2, <3>3 DEF StopInv, Joined
  <2>6. Stopped' = Stopped
    <3>1. c \in Stopped <=> c \in Stopped'
      BY <2>1, <2>2, <2>3 DEF Stopped, StopInv, Places, GoesOn
    <3>2. \A d \in Consumer \ {c} : d \in Stopped <=> d \in Stopped'
      BY <2>2, <2>3 DEF Stopped
    <3>3. QED BY <3>1, <3>2 DEF Stopped
  <2>7. pc'[Joiner] = "push_notify" <=> pc[Joiner] = "push_notify"
    BY <2>2
  <2>8. QED BY <2>1, <2>2, <2>4, <2>5, <2>6, <2>7, StopsStay DEF StopInv
<1>3. ASSUME StopPushed PROVE StopInv'
  <2> USE <1>3, NotifyMoves DEF StopPushed, StopsWanted
  <2>1. pc[Joiner] = "push_notify" /\ pc'[Joiner] = "out"
    BY DEF PushNotify
  <2>2. joining = "stop" /\ stops \in Nat /\ stops < Cardinality(Consumer) /\ stops' = stops + 1
    BY <2>1 DEF StopInv, Places, Joined
  <2>3. Places'
    BY <2>1, <2>2 DEF StopInv, Places, Joined
  <2>4. Joined'
    BY <2>2 DEF StopInv, Joined
  <2>5. Stopped' = Stopped
    BY DEF Stopped
  <2>6. Given' = Given
    BY <2>1, <2>2 DEF Given, Count
  <2>7. \A k \in 0 .. Len(m_queue) : StopsFrom(k) => StopsFrom(k)'
    BY <2>5, <2>6 DEF StopsFrom
  <2>8. QED BY <2>3, <2>4, <2>7 DEF StopInv
<1>4. QED BY <1>1, <1>2, <1>3

LEMMA StopStep ==
  QueueAssumption /\ QueueTypeOK /\ StopInv /\ ([Next]_vars \/ [NextInTime]_vars) => StopInv'
<1> SUFFICES ASSUME QueueAssumption, QueueTypeOK, StopInv, [Next]_vars \/ [NextInTime]_vars
             PROVE  StopInv'
  OBVIOUS
<1>1. ASSUME NEW t \in Thread, InQueue(t) PROVE StopInv'
  BY <1>1, StopWaits, StopPushes, StopPops DEF InQueue
<1>2. ASSUME JoinProducers \/ JoinConsumers \/ Complete \/ TestCompletes \/ TestTimesOut
               \/ Ended \/ UNCHANGED vars
      PROVE  StopInv'
  <2> USE <1>2 DEF JoinProducers, JoinConsumers, Complete, TestCompletes, TestTimesOut, Ended, vars,
               client, queue
  <2>1. UNCHANGED <<m_queue, pc, item, run, stops>>
    OBVIOUS
  <2>2. \/ UNCHANGED joining
        \/ joining = "producers" /\ joining' = "stop" /\ \A p \in Producer : run[p] = "done"
        \/ joining = "consumers" /\ joining' = "complete" /\ \A c \in Consumer : run[c] = "done"
        \/ joining = "complete" /\ joining' = "done"
    OBVIOUS
  <2>3. Places'
    BY <2>1, <2>2 DEF StopInv, Places
  <2>4. Joined'
    BY <2>1, <2>2 DEF StopInv, Joined
  <2>5. Stopped' = Stopped
    BY <2>1 DEF Stopped
  <2>6. QED BY <2>1, <2>3, <2>4, <2>5, StopsStay DEF StopInv
<1>3. ASSUME NEW t \in Thread, ThreadStep(t) PROVE StopInv'
  <2>1. CASE t = Joiner /\ JoinerStep
    BY <1>2, <2>1, StopCalls, CallsReturn DEF JoinerStep
  <2>2. CASE t \in Producer /\ (Produce(t) \/ Produced(t))
    BY <2>2, StopCalls, CallsReturn
  <2>3. CASE t \in Consumer /\ (Consume(t) \/ Consumed(t))
    BY <2>3, StopCalls, CallsReturn
  <2>4. QED BY <1>1, <1>3, <2>1, <2>2, <2>3 DEF ThreadStep
<1>4. ASSUME Spurious PROVE StopInv'
  BY <1>4, StopWaits DEF Spurious
<1>5. QED BY <1>2, <1>3, <1>4 DEF Next, NextInTime, Threads

LEMMA StopMeans == QueueAssumption /\ QueueTypeOK /\ StopInv => OneStopEach
<1> SUFFICES ASSUME QueueAssumption, QueueTypeOK, StopInv PROVE OneStopEach
  OBVIOUS
<1> USE StopFacts
<1>1. PICK k \in 0 .. Len(m_queue) : StopsFrom(k)
  BY DEF StopInv
<1>2. ASSUME NEW c \in Consumer, run[c] = "done"
      PROVE  /\ \A p \in Producer : run[p] = "done"
             /\ \A i \in 1 .. Len(m_queue) : m_queue[i] = -1
  <2>1. c \in Stopped
    BY <1>2 DEF Stopped
  <2>2. Cardinality(Stopped) /= 0
    BY <2>1, FS_EmptySet
  <2>3. k = 0
    BY <1>1, <2>1 DEF StopsFrom
  <2>4. Given > 0
    BY <1>1, <2>2, <2>3 DEF StopsFrom
  <2>5. joining /= "producers"
    BY <2>4 DEF Given, Count, StopInv, Joined, Places
  <2>6. \A i \in 1 .. Len(m_queue) : m_queue[i] = -1
    BY <1>1, <2>3 DEF StopsFrom
  <2>7. QED BY <2>5, <2>6 DEF StopInv, Joined
<1>3. ASSUME joining \in {"complete", "done"}
      PROVE  m_queue = << >> /\ stops = Cardinality(Consumer)
  <2>1. stops = Cardinality(Consumer) /\ stops > 0 /\ Stopped = Consumer
    BY <1>3 DEF StopInv, Joined, Stopped
  <2>2. Given = stops
    BY <1>3, <2>1 DEF Given, Count, StopInv, Places
  <2>3. k = 0
    <3>1. Cardinality(Stopped) /= 0
      BY <2>1
    <3>2. Stopped /= {}
      BY <3>1, FS_EmptySet
    <3>3. QED BY <1>1, <3>2 DEF StopsFrom
  <2>4. Len(m_queue) = 0
    BY <1>1, <2>1, <2>2, <2>3 DEF StopsFrom
  <2>5. QED BY <2>1, <2>4, EmptySeq
<1>4. QED BY <1>2, <1>3 DEF OneStopEach

-----------------------------------------------------------------------------
\* The threads that have pushed or popped an item and not yet notified.
PushLeaves == {t \in Thread : pc[t] = "push_notify"}
PopLeaves == {t \in Thread : pc[t] = "pop_notify"}

\* What has been pushed is what has been popped and what the queue holds, the
\* calls that have not notified yet included.
Balance ==
  Cardinality(Returned(Producer)) + stops + Cardinality(PushLeaves)
    = Cardinality(Returned(Consumer)) + Cardinality(PopLeaves) + Len(m_queue)

BalanceInv ==
  /\ m_count \in [Producer \cup Consumer -> Nat]
  /\ IsFiniteSet(Returned(Producer)) /\ IsFiniteSet(Returned(Consumer))
  /\ Balance

\* What the counting needs: everything is finite.
LEMMA BalanceFacts ==
  ASSUME QueueAssumption, QueueTypeOK, StopInv, BalanceInv
  PROVE  /\ Cardinality(Returned(Producer)) \in Nat /\ Cardinality(Returned(Consumer)) \in Nat
         /\ IsFiniteSet(PushLeaves) /\ Cardinality(PushLeaves) \in Nat
         /\ IsFiniteSet(PopLeaves) /\ Cardinality(PopLeaves) \in Nat
         /\ stops \in Nat /\ Len(m_queue) \in Nat
<1>1. IsFiniteSet(PushLeaves) /\ IsFiniteSet(PopLeaves)
  BY FS_Subset DEF PushLeaves, PopLeaves, QueueAssumption
<1>2. QED BY <1>1, FS_CardinalityType, StopFacts DEF BalanceInv, StopInv, Joined

\* A step that nothing of the balance notices.
LEMMA BalanceStays ==
  ASSUME BalanceInv, UNCHANGED <<m_count, stops>>, Len(m_queue') = Len(m_queue),
         \A t \in Thread : /\ pc'[t] = "push_notify" <=> pc[t] = "push_notify"
                           /\ pc'[t] = "pop_notify" <=> pc[t] = "pop_notify"
  PROVE  BalanceInv'
<1>1. PushLeaves' = PushLeaves /\ PopLeaves' = PopLeaves
  BY DEF PushLeaves, PopLeaves
<1>2. Returned(Producer)' = Returned(Producer) /\ Returned(Consumer)' = Returned(Consumer)
  BY DEF Returned
<1>3. QED BY <1>1, <1>2 DEF BalanceInv, Balance

\* One more call has returned.
LEMMA OneReturned ==
  ASSUME NEW S, S \subseteq Producer \cup Consumer, m_count \in [Producer \cup Consumer -> Nat],
         IsFiniteSet(Returned(S)), NEW t \in S, m_count' = [m_count EXCEPT ![t] = @ + 1]
  PROVE  /\ IsFiniteSet(Returned(S)')
         /\ Cardinality(Returned(S)') = Cardinality(Returned(S)) + 1
<1>1. m_count[t] \in Nat /\ m_count'[t] = m_count[t] + 1
  OBVIOUS
<1>2. 1 .. m_count'[t] = (1 .. m_count[t]) \cup {m_count[t] + 1}
  BY <1>1
<1>3. Returned(S)' = Returned(S) \cup {<<t, m_count[t] + 1>>}
  <2>1. ASSUME NEW x \in Returned(S)' PROVE x \in Returned(S) \cup {<<t, m_count[t] + 1>>}
    <3>1. PICK u \in S : x \in {u} \X (1 .. m_count'[u])
      BY DEF Returned
    <3>2. CASE u = t
      BY <1>2, <3>1, <3>2 DEF Returned
    <3>3. CASE u /= t
      <4>1. m_count'[u] = m_count[u]
        BY <3>3
      <4>2. QED BY <3>1, <4>1 DEF Returned
    <3>4. QED BY <3>2, <3>3
  <2>2. ASSUME NEW x \in Returned(S) PROVE x \in Returned(S)'
    <3>1. PICK u \in S : x \in {u} \X (1 .. m_count[u])
      BY DEF Returned
    <3>2. 1 .. m_count[u] \subseteq 1 .. m_count'[u]
      BY <1>2
    <3>3. x \in {u} \X (1 .. m_count'[u])
      BY <3>1, <3>2
    <3>4. QED BY <3>3 DEF Returned
  <2>3. <<t, m_count[t] + 1>> \in Returned(S)'
    <3>1. <<t, m_count[t] + 1>> \in {t} \X (1 .. m_count'[t])
      BY <1>2
    <3>2. QED BY <3>1 DEF Returned
  <2>4. QED BY <2>1, <2>2, <2>3
<1>4. <<t, m_count[t] + 1>> \notin Returned(S)
  <2>1. ASSUME NEW u \in S, <<t, m_count[t] + 1>> \in {u} \X (1 .. m_count[u]) PROVE FALSE
    <3>1. u = t /\ m_count[t] + 1 \in 1 .. m_count[t]
      BY <2>1
    <3>2. QED BY <1>1, <3>1
  <2>2. QED BY <2>1 DEF Returned
<1>5. QED BY <1>3, <1>4, FS_AddElement

LEMMA OthersReturned ==
  ASSUME NEW S, NEW t, t \notin S, S \subseteq Producer \cup Consumer,
         m_count \in [Producer \cup Consumer -> Nat], m_count' = [m_count EXCEPT ![t] = @ + 1]
  PROVE  Returned(S)' = Returned(S)
<1>1. \A u \in S : m_count'[u] = m_count[u]
  OBVIOUS
<1>2. QED BY <1>1 DEF Returned

LEMMA BalanceInit == QueueAssumption /\ Init => BalanceInv
<1> SUFFICES ASSUME QueueAssumption, Init PROVE BalanceInv
  OBVIOUS
<1> USE DEF Init, QueueInit
<1>1. PushLeaves = {} /\ PopLeaves = {}
  BY DEF PushLeaves, PopLeaves
<1>2. Returned(Producer) = {} /\ Returned(Consumer) = {}
  <2>1. \A t \in Producer \cup Consumer : m_count[t] = 0
    OBVIOUS
  <2>2. 1 .. 0 = {}
    OBVIOUS
  <2>3. QED BY <2>1, <2>2 DEF Returned
<1>3. QED BY <1>1, <1>2, FS_EmptySet DEF BalanceInv, Balance

\* An item comes in or goes out: the call is counted instead, or the item.
LEMMA BalanceItem ==
  ASSUME QueueAssumption, QueueTypeOK, StopInv, BalanceInv, UNCHANGED client,
         NEW t \in Thread, PushItem(t) \/ PopItem(t)
  PROVE  BalanceInv'
<1> USE BalanceFacts DEF client
<1> Balance /\ stops' = stops /\ m_count' = m_count
  BY DEF BalanceInv
<1>1. Returned(Producer)' = Returned(Producer) /\ Returned(Consumer)' = Returned(Consumer)
  BY DEF Returned
<1>2. CASE PushItem(t)
  <2>1. /\ t \notin PushLeaves /\ PushLeaves' = PushLeaves \cup {t}
        /\ PopLeaves' = PopLeaves
    BY <1>2 DEF PushItem, Goto, PushLeaves, PopLeaves, QueueTypeOK
  <2>2. Len(m_queue') = Len(m_queue) + 1
    BY <1>2 DEF PushItem, QueueTypeOK, Pushing
  <2>3. Cardinality(PushLeaves') = Cardinality(PushLeaves) + 1
    BY <2>1, FS_AddElement
  <2>4. Balance'
    BY <1>1, <2>1, <2>2, <2>3 DEF Balance
  <2>5. QED BY <1>1, <2>4 DEF BalanceInv
<1>3. CASE PopItem(t)
  <2>1. /\ t \notin PopLeaves /\ PopLeaves' = PopLeaves \cup {t}
        /\ PushLeaves' = PushLeaves
    BY <1>3 DEF PopItem, Goto, PushLeaves, PopLeaves, QueueTypeOK
  <2>2. Len(m_queue') = Len(m_queue) - 1
    BY <1>3, HeadTailProperties DEF PopItem, QueueTypeOK
  <2>3. Cardinality(PopLeaves') = Cardinality(PopLeaves) + 1
    BY <2>1, FS_AddElement
  <2>4. Balance'
    BY <1>1, <2>1, <2>2, <2>3 DEF Balance
  <2>5. QED BY <1>1, <2>4 DEF BalanceInv
<1>4. QED BY <1>2, <1>3

\* A call returns and is counted.
LEMMA BalanceReturns ==
  ASSUME QueueAssumption, QueueTypeOK, StopInv, BalanceInv
  PROVE  /\ \A p \in Producer : Produced(p) => BalanceInv'
         /\ \A c \in Consumer : Consumed(c) => BalanceInv'
         /\ StopPushed => BalanceInv'
<1> USE BalanceFacts, StopFacts
<1>1. ASSUME NEW t \in Thread, PushNotify(t)
      PROVE  /\ PushLeaves' = PushLeaves \ {t} /\ t \in PushLeaves
             /\ PopLeaves' = PopLeaves /\ UNCHANGED m_queue
             /\ Cardinality(PushLeaves') = Cardinality(PushLeaves) - 1
  <2>1. pc[t] = "push_notify"
    BY <1>1 DEF PushNotify
  <2>2. /\ PushLeaves' = PushLeaves \ {t} /\ t \in PushLeaves
        /\ PopLeaves' = PopLeaves /\ UNCHANGED m_queue
    BY <1>1, <2>1, NotifyMoves DEF PushLeaves, PopLeaves
  <2>3. QED BY <2>2, FS_RemoveElement
<1>2. ASSUME NEW p \in Producer, Produced(p) PROVE BalanceInv'
  <2>1. PushNotify(p) /\ m_count' = [m_count EXCEPT ![p] = @ + 1] /\ UNCHANGED stops
    BY <1>2 DEF Produced
  <2>2. m_count' \in [Producer \cup Consumer -> Nat]
    BY <2>1 DEF BalanceInv
  <2>3. /\ IsFiniteSet(Returned(Producer)')
        /\ Cardinality(Returned(Producer)') = Cardinality(Returned(Producer)) + 1
    BY <2>1, OneReturned DEF BalanceInv
  <2>4. Returned(Consumer)' = Returned(Consumer)
    BY <2>1, OthersReturned DEF BalanceInv
  <2>5. Balance'
    BY <1>1, <2>1, <2>3, <2>4 DEF Balance, BalanceInv
  <2>6. QED BY <2>2, <2>3, <2>4, <2>5 DEF BalanceInv
<1>3. ASSUME NEW c \in Consumer, Consumed(c) PROVE BalanceInv'
  <2>1. PopNotify(c) /\ m_count' = [m_count EXCEPT ![c] = @ + 1] /\ UNCHANGED stops
    BY <1>3 DEF Consumed
  <2>2. m_count' \in [Producer \cup Consumer -> Nat]
    BY <2>1 DEF BalanceInv
  <2>3. /\ IsFiniteSet(Returned(Consumer)')
        /\ Cardinality(Returned(Consumer)') = Cardinality(Returned(Consumer)) + 1
    BY <2>1, OneReturned DEF BalanceInv
  <2>4. Returned(Producer)' = Returned(Producer)
    BY <2>1, OthersReturned DEF BalanceInv
  <2>5. pc[c] = "pop_notify"
    BY <2>1 DEF PopNotify
  <2>6. /\ PopLeaves' = PopLeaves \ {c} /\ c \in PopLeaves
        /\ PushLeaves' = PushLeaves /\ UNCHANGED m_queue
    BY <2>1, <2>5, NotifyMoves DEF PushLeaves, PopLeaves
  <2>7. Cardinality(PopLeaves') = Cardinality(PopLeaves) - 1
    BY <2>6, FS_RemoveElement
  <2>8. Balance'
    BY <2>1, <2>3, <2>4, <2>6, <2>7 DEF Balance, BalanceInv
  <2>9. QED BY <2>2, <2>3, <2>4, <2>8 DEF BalanceInv
<1>4. ASSUME StopPushed PROVE BalanceInv'
  <2>1. PushNotify(Joiner) /\ UNCHANGED m_count /\ stops' = stops + 1
    BY <1>4 DEF StopPushed
  <2>2. Returned(Producer)' = Returned(Producer) /\ Returned(Consumer)' = Returned(Consumer)
    BY <2>1 DEF Returned
  <2>3. Balance'
    BY <1>1, <2>1, <2>2 DEF Balance, BalanceInv
  <2>4. QED BY <2>1, <2>2, <2>3 DEF BalanceInv
<1>5. QED BY <1>2, <1>3, <1>4

LEMMA BalanceStep ==
  QueueAssumption /\ QueueTypeOK /\ StopInv /\ BalanceInv /\ ([Next]_vars \/ [NextInTime]_vars)
    => BalanceInv'
<1> SUFFICES ASSUME QueueAssumption, QueueTypeOK, StopInv, BalanceInv, [Next]_vars \/ [NextInTime]_vars
             PROVE  BalanceInv'
  OBVIOUS
<1>1. ASSUME NEW t \in Thread, UNCHANGED client,
             \/ PushLock(t) \/ PushSleep(t) \/ PopLock(t) \/ PopSleep(t) \/ SpuriousWake(t)
             \/ CallPop(t) \/ \E v \in Value : CallPush(t, v)
      PROVE  BalanceInv'
  BY <1>1, BalanceStays DEF client, Goto, QueueTypeOK, PushLock, PushSleep, PopLock, PopSleep,
    SpuriousWake, CallPop, CallPush
<1>2. ASSUME NEW t \in Thread, InQueue(t) PROVE BalanceInv'
  BY <1>1, <1>2, BalanceItem DEF InQueue
<1>3. ASSUME JoinProducers \/ JoinConsumers \/ Complete \/ TestCompletes \/ TestTimesOut
               \/ Ended \/ UNCHANGED vars
      PROVE  BalanceInv'
  BY <1>3, BalanceStays DEF JoinProducers, JoinConsumers, Complete, TestCompletes, TestTimesOut, Ended,
    vars, client, queue
<1>4. ASSUME NEW t \in Thread, ThreadStep(t) PROVE BalanceInv'
  <2>1. CASE t = Joiner /\ JoinerStep
    <3>1. CASE StopConsumer
      <4>1. -1 \in Value
        BY ClientAssumption DEF ClientAssumption
      <4>2. QED BY <1>1, <2>1, <3>1, <4>1 DEF StopConsumer
    <3>2. QED BY <1>3, <2>1, <3>1, BalanceReturns DEF JoinerStep
  <2>2. CASE t \in Producer /\ (Produce(t) \/ Produced(t))
    BY <1>1, <2>2, BalanceReturns DEF Produce
  <2>3. CASE t \in Consumer /\ (Consume(t) \/ Consumed(t))
    BY <1>1, <2>3, BalanceReturns DEF Consume
  <2>4. QED BY <1>2, <1>4, <2>1, <2>2, <2>3 DEF ThreadStep
<1>5. ASSUME Spurious PROVE BalanceInv'
  BY <1>1, <1>5 DEF Spurious
<1>6. QED BY <1>3, <1>4, <1>5 DEF Next, NextInTime, Threads

LEMMA BalanceMeans == StopInv /\ BalanceInv => CountsBalance
<1> SUFFICES ASSUME StopInv, BalanceInv PROVE CountsBalance
  OBVIOUS
<1>1. /\ {t \in Producer \cup {Joiner} : pc[t] = "push_notify"} = PushLeaves
      /\ {t \in Consumer : pc[t] = "pop_notify"} = PopLeaves
  BY ClientAssumption DEF ClientAssumption, PushLeaves, PopLeaves, StopInv, Places, Pushing, Popping
<1>2. QED BY <1>1 DEF CountsBalance, BalanceInv, Balance

\* For any producers, consumers, values and capacity, with the timeout and
\* without: a consumer takes a stop only when the producers are done and only
\* stops are left, and when the consumers are joined none is left over; and
\* every value is popped once.
THEOREM EverythingPopped == Spec \/ SpecInTime => []AllPopped
<1>1. Init => StopInv /\ BalanceInv
  BY StopInit, BalanceInit, QueueAssumption
<1>2. QueueTypeOK /\ StopInv /\ BalanceInv /\ ([Next]_vars \/ [NextInTime]_vars) => StopInv' /\ BalanceInv'
  BY StopStep, BalanceStep, QueueAssumption
<1>3. QueueTypeOK /\ StopInv /\ BalanceInv => AllPopped
  BY StopMeans, BalanceMeans, QueueAssumption DEF AllPopped
<1>4. QueueInv => QueueTypeOK
  BY DEF QueueInv
<1>5. QED BY <1>1, <1>2, <1>3, <1>4, TestQueueCorrect, PTL DEF Spec, SpecInTime
=============================================================================
