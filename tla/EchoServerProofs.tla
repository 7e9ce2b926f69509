-------------------------- MODULE EchoServerProofs -------------------------
(***************************************************************************)
(* Proofs about EchoServer, for any number of streams and of workers, any  *)
(* number of reads and any size of the buffer.                             *)
(***************************************************************************)
EXTENDS EchoServer, TLAPS, FiniteSetTheorems, SequenceTheorems

Points == Inside \cup {"idle", "leave"}

TypeInv ==
  /\ at \in [Thread -> [h : Handle \cup {Stream[1]}, point : Points]]
  /\ accepted \in Seq(Job)
  /\ frame \in [Handle -> {"none", "alive", "destroyed"}]
  /\ build \in {"gcc", "clang"}
  /\ context \in [Handle -> BOOLEAN] /\ finalled \in [Handle -> BOOLEAN]
  /\ ncount \in [Handle -> 0 .. Word - 1] /\ n \in [Handle -> 0 .. Word - 1]
  /\ written \in [Handle -> Seq(Nat)]

\* A thread that uses a frame which the owner cannot destroy.
InCoroutine(t) == at[t].point \in Inside /\ ~IsLate(t)

Active(h) == frame[h] = "alive" /\ ~finalled[h]

\* OneResumer and FramesLive without counting.
ResumerInv ==
  /\ \A t \in Thread : InCoroutine(t) => at[t].h \in Handle /\ Active(at[t].h)
  /\ \A i \in DOMAIN accepted : Active(accepted[i].h)
  /\ \A t, u \in Thread :
       InCoroutine(t) /\ InCoroutine(u) /\ at[t].h = at[u].h => t = u
  /\ \A i, j \in DOMAIN accepted : accepted[i].h = accepted[j].h => i = j
  /\ \A t \in Thread, i \in DOMAIN accepted :
       InCoroutine(t) => at[t].h /= accepted[i].h
  /\ \A h \in Handle : Active(h) =>
       \/ \E t \in Thread : InCoroutine(t) /\ at[t].h = h
       \/ \E i \in DOMAIN accepted : accepted[i].h = h

\* A thread in final_suspend() of a coroutine that is done.
LateInv ==
  /\ \A t \in Thread : IsLate(t) => at[t].h \in Handle /\ finalled[at[t].h]
  /\ \A t, u \in Thread : IsLate(t) /\ IsLate(u) /\ at[t].h = at[u].h => t = u

\* How much a coroutine has read and written when it is at p, or when the job
\* that will resume it begins at p.
Counts(h, p) ==
  /\ ncount[h] + Len(written[h]) =
       IF p \in {"start", "read"} THEN NCount ELSE NCount - 1
  /\ p \in {"start", "read", "write_job", "write"} => ncount[h] > 0
  /\ p \in {"got", "write_job", "write", "final", "final_suspend"} => n[h] = ncount[h]
  /\ p \in {"final", "final_suspend"} => ncount[h] = 0

Progress(h, p) == Counts(h, p) /\ (p /= "start" => context[h])

ProgressInv ==
  /\ \A t \in Thread : InCoroutine(t) => Progress(at[t].h, at[t].point)
  /\ \A i \in DOMAIN accepted : Progress(accepted[i].h, accepted[i].kind)
  /\ \A h \in Handle :
       /\ frame[h] = "none" => ~finalled[h] /\ ncount[h] = NCount /\ written[h] = << >>
       /\ finalled[h] => context[h] /\ Len(written[h]) = NCount - 1
       /\ \A i \in 1 .. Len(written[h]) : written[h][i] = NCount - i

Inv == TypeInv /\ ResumerInv /\ LateInv /\ ProgressInv
-----------------------------------------------------------------------------
LEMMA InitInv == Init => Inv
<1> SUFFICES ASSUME Init PROVE Inv
  OBVIOUS
<1> USE EchoAssumption DEF Init, Idle, Inside, Word
<1>1. TypeInv
  BY DEF TypeInv, Points
<1>2. ResumerInv
  BY DEF ResumerInv, InCoroutine, Active
<1>3. LateInv
  BY DEF LateInv, IsLate, At
<1>4. ProgressInv
  BY DEF ProgressInv, InCoroutine
<1> QED BY <1>1, <1>2, <1>3, <1>4 DEF Inv

\* No thread comes to final_suspend() of a coroutine that is done.
LEMMA LateKept ==
  ASSUME Inv, \A t \in Thread : IsLate(t)' => IsLate(t) /\ at'[t].h = at[t].h,
         \A h \in Handle : finalled[h] => finalled'[h]
  PROVE  LateInv'
BY DEF Inv, LateInv

\* A thread that stays inside its coroutine.
LEMMA MovesOn ==
  ASSUME Inv, NEW t \in Thread, InCoroutine(t), NEW p \in Inside,
         p = "final_suspend" => build /= "gcc",
         Goto(t, at[t].h, p), UNCHANGED <<build, frame, finalled, accepted>>
  PROVE  ResumerInv' /\ LateInv'
<1>1. \A u \in Thread : at'[u].h = at[u].h /\ (InCoroutine(u)' <=> InCoroutine(u))
                           /\ (IsLate(u)' <=> IsLate(u))
  BY DEF Inv, TypeInv, InCoroutine, IsLate, At, Goto
<1>2. \A g : Active(g)' <=> Active(g)
  BY DEF Active
<1>3. LateInv'
  BY <1>1, LateKept
<1> QED BY <1>1, <1>2, <1>3 DEF Inv, ResumerInv

\* A thread that has put the job in the queue which will resume its coroutine.
LEMMA HandsOver ==
  ASSUME Inv, NEW t \in Thread, InCoroutine(t), NEW j \in Job, j.h = at[t].h,
         Goto(t, at[t].h, "leave"), accepted' = Append(accepted, j),
         UNCHANGED <<build, frame, finalled>>
  PROVE  ResumerInv' /\ LateInv'
<1>1. ~InCoroutine(t)' /\ ~IsLate(t)' /\ \A u \in Thread : u /= t => at'[u] = at[u]
  BY DEF Inv, TypeInv, InCoroutine, IsLate, At, Goto, Inside
<1>2. /\ Len(accepted) \in Nat /\ DOMAIN accepted = 1 .. Len(accepted)
      /\ DOMAIN accepted' = 1 .. Len(accepted) + 1
      /\ accepted'[Len(accepted) + 1] = j
      /\ \A i \in DOMAIN accepted : accepted'[i] = accepted[i]
  BY DEF Inv, TypeInv
<1>3. \A g : Active(g)' <=> Active(g)
  BY DEF Active
<1>4. \A u \in Thread : InCoroutine(u)' <=> u /= t /\ InCoroutine(u)
  BY <1>1 DEF InCoroutine, IsLate, At
<1>5. LateInv'
  BY <1>1, LateKept DEF IsLate, At
<1> HIDE DEF Goto
<1> QED BY <1>1, <1>2, <1>3, <1>4, <1>5 DEF Inv, ResumerInv

\* What t does to its coroutine is not seen in the others.
LEMMA Progresses ==
  ASSUME Inv, NEW t \in Thread, InCoroutine(t), at'[t].h = at[t].h,
         \A u \in Thread : u /= t => at'[u] = at[u],
         \A g \in Handle : g /= at[t].h =>
           /\ context'[g] = context[g] /\ ncount'[g] = ncount[g] /\ n'[g] = n[g]
           /\ written'[g] = written[g] /\ finalled'[g] = finalled[g],
         UNCHANGED <<build, frame>>,
         InCoroutine(t)' => Progress(at[t].h, at[t].point)',
         \A i \in DOMAIN accepted' :
            \/ i \in DOMAIN accepted /\ accepted'[i] = accepted[i]
            \/ accepted'[i].h = at[t].h /\ Progress(accepted[i].h, accepted[i].kind)',
         finalled'[at[t].h] => context'[at[t].h] /\ Len(written'[at[t].h]) = NCount - 1,
         \A i \in 1 .. Len(written'[at[t].h]) : written'[at[t].h][i] = NCount - i
  PROVE  ProgressInv'
<1>1. at[t].h \in Handle /\ Active(at[t].h)
  BY DEF Inv, ResumerInv
<1>2. ASSUME NEW u \in Thread, u /= t, InCoroutine(u)'
      PROVE  Progress(at[u].h, at[u].point)'
  <2>1. InCoroutine(u) /\ at[u].h /= at[t].h /\ at[u].h \in Handle
    BY <1>2 DEF InCoroutine, IsLate, At, Inv, ResumerInv
  <2>2. Progress(at[u].h, at[u].point)
    BY <2>1 DEF Inv, ProgressInv
  <2> QED BY <1>2, <2>1, <2>2 DEF Progress, Counts
<1>3. ASSUME NEW i \in DOMAIN accepted, accepted'[i] = accepted[i]
      PROVE  Progress(accepted[i].h, accepted[i].kind)'
  <2>1. accepted[i] \in Job
    BY DEF Inv, TypeInv
  <2>2. accepted[i].h /= at[t].h /\ accepted[i].h \in Handle
    BY <2>1 DEF Inv, ResumerInv, Job
  <2>3. Progress(accepted[i].h, accepted[i].kind)
    BY DEF Inv, ProgressInv
  <2> QED BY <1>3, <2>2, <2>3 DEF Progress, Counts
<1>4. ASSUME NEW g \in Handle
      PROVE  /\ frame'[g] = "none" =>
                  ~finalled'[g] /\ ncount'[g] = NCount /\ written'[g] = << >>
             /\ finalled'[g] => context'[g] /\ Len(written'[g]) = NCount - 1
             /\ \A i \in 1 .. Len(written'[g]) : written'[g][i] = NCount - i
  BY <1>1 DEF Inv, ProgressInv, Active
<1> QED BY <1>2, <1>3, <1>4 DEF ProgressInv
\* A step of t that leaves the frames, the queue and the other coroutines alone,
\* and after which t is at p of its coroutine.
LEMMA StepOn ==
  ASSUME Inv, NEW t \in Thread, InCoroutine(t), NEW p \in Inside,
         p = "final_suspend" => build /= "gcc",
         Goto(t, at[t].h, p), UNCHANGED <<build, frame, finalled, accepted>>,
         \A g \in Handle : g /= at[t].h =>
           /\ context'[g] = context[g] /\ ncount'[g] = ncount[g]
           /\ n'[g] = n[g] /\ written'[g] = written[g],
         \A h \in Handle : h = at[t].h => Progress(h, p)',
         \A i \in 1 .. Len(written'[at[t].h]) : written'[at[t].h][i] = NCount - i
  PROVE  ResumerInv' /\ LateInv' /\ ProgressInv'
<1>1. at'[t].h = at[t].h /\ at'[t].point = p
      /\ \A u \in Thread : u /= t => at'[u] = at[u]
  BY DEF Goto, Inv, TypeInv
<1>2. at[t].h \in Handle /\ ~finalled'[at[t].h]
  BY DEF Inv, ResumerInv, Active
<1>3. Progress(at[t].h, at[t].point)'
  BY <1>1, <1>2 DEF Progress, Counts
<1>4. ProgressInv'
  BY <1>1, <1>2, <1>3, Progresses
<1>5. QED BY <1>4, MovesOn

\* A step after which the coroutine of t is done: t leaves it, or is late.
LEMMA Finishes ==
  ASSUME Inv, NEW t \in Thread, InCoroutine(t), NEW h \in Handle, h = at[t].h,
         NEW p \in {"final_suspend", "leave"}, Goto(t, h, p),
         p = "final_suspend" => build = "gcc",
         at[t].point \in {"final", "final_suspend"},
         finalled' = [finalled EXCEPT ![h] = TRUE],
         UNCHANGED <<build, frame, context, ncount, n, written, accepted>>
  PROVE  Inv'
<1>1. /\ at'[t].h = at[t].h /\ at'[t].point = p
      /\ \A u \in Thread : u /= t => at'[u] = at[u]
  BY DEF Inv, TypeInv, Goto
<1>2. /\ ~InCoroutine(t)'
      /\ \A u \in Thread : u /= t => (IsLate(u)' <=> IsLate(u))
  BY <1>1 DEF InCoroutine, IsLate, At, Inside
<1>3. \A u \in Thread : InCoroutine(u)' <=> u /= t /\ InCoroutine(u)
  BY <1>1, <1>2 DEF InCoroutine
<1>4. \A g \in Handle : Active(g)' <=> g /= h /\ Active(g)
  BY DEF Inv, TypeInv, Active
<1>5. Active(h) /\ Progress(h, at[t].point)
  BY DEF Inv, ResumerInv, ProgressInv
<1>6. \A i \in DOMAIN accepted : accepted[i].h \in Handle /\ accepted[i].h /= h
  <2>1. \A i \in DOMAIN accepted : accepted[i] \in Job
    BY DEF Inv, TypeInv
  <2> QED BY <2>1 DEF Inv, ResumerInv, Job
<1>7. ResumerInv'
  BY <1>1, <1>3, <1>4, <1>6 DEF Inv, ResumerInv
<1>8. finalled'[h] /\ \A g \in Handle : g /= h => finalled'[g] = finalled[g]
  BY DEF Inv, TypeInv
<1>9. LateInv'
  <2>1. \A u \in Thread : u /= t /\ IsLate(u) => at[u].h /= h
    BY <1>5 DEF Inv, LateInv, Active
  <2>2. \A g \in Handle : finalled[g] => finalled'[g]
    BY <1>8
  <2> QED BY <1>1, <1>2, <1>8, <2>1, <2>2 DEF Inv, LateInv
<1>10. context'[h] /\ Len(written'[h]) = NCount - 1
  <2>1. Len(written[h]) \in Nat /\ ncount[h] \in 0 .. 15 /\ NCount \in 1 .. 15
    BY EchoAssumption DEF Inv, TypeInv, Word
  <2> QED BY <1>5, <2>1 DEF Progress, Counts
<1>11. \A i \in 1 .. Len(written[h]) : written[h][i] = NCount - i
  BY DEF Inv, ProgressInv
<1>12. ProgressInv'
  BY <1>1, <1>2, <1>8, <1>10, <1>11, Progresses
<1>13. at' \in [Thread -> [h : Handle \cup {Stream[1]}, point : Points]]
  BY DEF Inv, TypeInv, Points, Goto, Inside
<1> QED BY <1>7, <1>9, <1>12, <1>13 DEF Inv, TypeInv

LEMMA ResumedStep ==
  ASSUME Inv, NEW t \in Thread, Resumed(t), ~IsLate(t)
  PROVE  Inv'
<1>1. InCoroutine(t)
  BY DEF Resumed, Schedule, ReadSuspend, ReadAsync, ReadSync, Generate, AfterRead,
         WriteAsync, WriteSync, Write, CoReturn, FinalSuspend, At, InCoroutine, Inside
<1>2. PICK h \in Handle : h = at[t].h
  BY <1>1 DEF Inv, ResumerInv
<1>3. Progress(h, at[t].point) /\ Active(h)
  BY <1>1, <1>2 DEF Inv, ProgressInv, ResumerInv
<1>4. \A i \in 1 .. Len(written[h]) : written[h][i] = NCount - i
  BY DEF Inv, ProgressInv
<1>5. Len(written[h]) \in Nat /\ ncount[h] \in 0 .. 15 /\ n[h] \in 0 .. 15
  BY DEF Inv, TypeInv, Word
<1>6. ncount[h] \in Nat /\ n[h] \in Nat /\ NCount \in Nat
  BY <1>5, EchoAssumption DEF Word
<1> USE EchoAssumption DEF At, pool, loop, Word
<1>7. CASE Schedule(t)
  <2> USE <1>7 DEF Schedule, coro
  <2>1. PICK p \in Inside : p = "read" /\ Goto(t, h, p)
    BY <1>2 DEF Inside
  <2>2. \A g \in Handle : g /= h =>
          /\ context'[g] = context[g] /\ ncount'[g] = ncount[g]
          /\ n'[g] = n[g] /\ written'[g] = written[g]
    BY <1>2 DEF Inv, TypeInv
  <2>3. Progress(h, p)'
    BY <1>2, <1>3, <1>5, <2>1 DEF Inv, TypeInv, Progress, Counts
  <2>4. \A i \in 1 .. Len(written'[h]) : written'[h][i] = NCount - i
    BY <1>2, <1>3, <1>4, <1>5 DEF Inv, TypeInv
  <2>5. ResumerInv' /\ LateInv' /\ ProgressInv'
    BY <1>1, <1>2, <2>1, <2>2, <2>3, <2>4, StepOn
  <2>6. TypeInv'
    BY <1>2, <2>1 DEF Inv, TypeInv, Points, Goto
  <2> QED BY <2>5, <2>6 DEF Inv
<1>8. CASE ReadSuspend(t)
  <2>1. PICK p \in Inside : p = "read_job" /\ Goto(t, h, p)
    BY <1>2, <1>8 DEF ReadSuspend, Inside
  <2>2. /\ at[t].point = "read"
        /\ ncount' = [ncount EXCEPT ![h] = (@ + 15) % 16]
        /\ n' = [n EXCEPT ![h] = BufSize]
        /\ UNCHANGED <<build, frame, context, finalled, written, accepted>>
    BY <1>2, <1>8 DEF ReadSuspend
  <2>3. \A x \in 0 .. 15 : (x + 15) % 16 \in 0 .. 15 /\ (x > 0 => (x + 15) % 16 = x - 1)
    OBVIOUS
  <2>4. Counts(h, "read")
    BY <1>3, <2>2 DEF Progress
  <2>5. ncount'[h] = ncount[h] - 1 /\ ncount[h] > 0
    <3>1. ncount[h] > 0 /\ ncount'[h] = (ncount[h] + 15) % 16
      BY <2>2, <2>4 DEF Counts, Inv, TypeInv
    <3> QED BY <1>5, <2>3, <3>1
  <2>6. Progress(h, p)'
    <3>1. written'[h] = written[h] /\ Len(written[h]) \in Nat
      BY <2>2 DEF Inv, TypeInv
    <3>2. ncount[h] + Len(written[h]) = NCount /\ ncount'[h] + Len(written'[h]) = NCount - 1
      BY <1>5, <1>6, <2>4, <2>5, <3>1 DEF Counts
    <3>3. Counts(h, "read_job")'
      BY <3>2 DEF Counts
    <3> QED BY <1>3, <2>1, <2>2, <3>3 DEF Progress
  <2>7. \A g \in Handle : g /= h =>
          /\ context'[g] = context[g] /\ ncount'[g] = ncount[g]
          /\ n'[g] = n[g] /\ written'[g] = written[g]
    BY <2>2 DEF Inv, TypeInv
  <2>8. ResumerInv' /\ LateInv' /\ ProgressInv'
    BY <1>1, <1>2, <1>4, <2>1, <2>2, <2>6, <2>7, StepOn
  <2>9. at' \in [Thread -> [h : Handle \cup {Stream[1]}, point : Points]]
    BY <1>2, <2>1 DEF Inv, TypeInv, Points, Goto
  <2>10. ncount' \in [Handle -> 0 .. 15] /\ n' \in [Handle -> 0 .. 15]
    BY <1>5, <2>2, <2>3 DEF Inv, TypeInv
  <2> QED BY <2>2, <2>8, <2>9, <2>10 DEF Inv, TypeInv
<1>9. CASE ReadSync(t)
  <2> USE <1>9 DEF ReadSync, coro
  <2>1. PICK p \in Inside : p = "got" /\ Goto(t, h, p)
    BY <1>2 DEF Inside
  <2>2. \A g \in Handle : g /= h =>
          /\ context'[g] = context[g] /\ ncount'[g] = ncount[g]
          /\ n'[g] = n[g] /\ written'[g] = written[g]
    BY <1>2 DEF Inv, TypeInv
  <2>3. Progress(h, p)'
    BY <1>2, <1>3, <1>5, <2>1 DEF Inv, TypeInv, Progress, Counts
  <2>4. \A i \in 1 .. Len(written'[h]) : written'[h][i] = NCount - i
    BY <1>2, <1>3, <1>4, <1>5 DEF Inv, TypeInv
  <2>5. ResumerInv' /\ LateInv' /\ ProgressInv'
    BY <1>1, <1>2, <2>1, <2>2, <2>3, <2>4, StepOn
  <2>6. TypeInv'
    BY <1>2, <2>1 DEF Inv, TypeInv, Points, Goto
  <2> QED BY <2>5, <2>6 DEF Inv
<1>10. CASE Generate(t)
  <2> USE <1>10 DEF Generate, coro
  <2>1. PICK p \in Inside : p = "got" /\ Goto(t, h, p)
    BY <1>2 DEF Inside
  <2>2. \A g \in Handle : g /= h =>
          /\ context'[g] = context[g] /\ ncount'[g] = ncount[g]
          /\ n'[g] = n[g] /\ written'[g] = written[g]
    BY <1>2 DEF Inv, TypeInv
  <2>3. Progress(h, p)'
    BY <1>2, <1>3, <1>5, <2>1 DEF Inv, TypeInv, Progress, Counts
  <2>4. \A i \in 1 .. Len(written'[h]) : written'[h][i] = NCount - i
    BY <1>2, <1>3, <1>4, <1>5 DEF Inv, TypeInv
  <2>5. ResumerInv' /\ LateInv' /\ ProgressInv'
    BY <1>1, <1>2, <2>1, <2>2, <2>3, <2>4, StepOn
  <2>6. TypeInv'
    BY <1>2, <2>1 DEF Inv, TypeInv, Points, Goto
  <2> QED BY <2>5, <2>6 DEF Inv
<1>11. CASE AfterRead(t)
  <2> USE <1>11 DEF AfterRead, coro
  <2>1. PICK p \in Inside :
          p = (IF n[h] = 0 THEN "final" ELSE "write_job") /\ Goto(t, h, p)
    BY <1>2 DEF Inside
  <2>2. \A g \in Handle : g /= h =>
          /\ context'[g] = context[g] /\ ncount'[g] = ncount[g]
          /\ n'[g] = n[g] /\ written'[g] = written[g]
    BY <1>2 DEF Inv, TypeInv
  <2>3. Progress(h, p)'
    BY <1>2, <1>3, <1>5, <2>1 DEF Inv, TypeInv, Progress, Counts
  <2>4. \A i \in 1 .. Len(written'[h]) : written'[h][i] = NCount - i
    BY <1>2, <1>3, <1>4, <1>5 DEF Inv, TypeInv
  <2>5. ResumerInv' /\ LateInv' /\ ProgressInv'
    BY <1>1, <1>2, <2>1, <2>2, <2>3, <2>4, StepOn
  <2>6. TypeInv'
    BY <1>2, <2>1 DEF Inv, TypeInv, Points, Goto
  <2> QED BY <2>5, <2>6 DEF Inv
<1>12. CASE WriteSync(t)
  <2> USE <1>12 DEF WriteSync, coro
  <2>1. PICK p \in Inside : p = "write" /\ Goto(t, h, p)
    BY <1>2 DEF Inside
  <2>2. \A g \in Handle : g /= h =>
          /\ context'[g] = context[g] /\ ncount'[g] = ncount[g]
          /\ n'[g] = n[g] /\ written'[g] = written[g]
    BY <1>2 DEF Inv, TypeInv
  <2>3. Progress(h, p)'
    BY <1>2, <1>3, <1>5, <2>1 DEF Inv, TypeInv, Progress, Counts
  <2>4. \A i \in 1 .. Len(written'[h]) : written'[h][i] = NCount - i
    BY <1>2, <1>3, <1>4, <1>5 DEF Inv, TypeInv
  <2>5. ResumerInv' /\ LateInv' /\ ProgressInv'
    BY <1>1, <1>2, <2>1, <2>2, <2>3, <2>4, StepOn
  <2>6. TypeInv'
    BY <1>2, <2>1 DEF Inv, TypeInv, Points, Goto
  <2> QED BY <2>5, <2>6 DEF Inv
<1>13. CASE Write(t)
  <2>1. PICK p \in Inside : p = "read" /\ Goto(t, h, p)
    BY <1>2, <1>13 DEF Write, Inside
  <2>2. /\ at[t].point = "write"
        /\ written' = [written EXCEPT ![h] = Append(@, n[h])]
        /\ UNCHANGED <<build, frame, context, finalled, ncount, n, accepted>>
    BY <1>2, <1>13 DEF Write
  <2>3. n[h] \in Nat /\ written[h] \in Seq(Nat) /\ written'[h] = Append(written[h], n[h])
    <3>1. n \in [Handle -> 0 .. 15] /\ written \in [Handle -> Seq(Nat)]
      BY DEF Inv, TypeInv
    <3>2. n[h] \in 0 .. 15 /\ written[h] \in Seq(Nat)
      BY ONLY <3>1, h \in Handle, Zenon
    <3>3. n[h] \in Nat
      BY <3>2
    <3>4. written'[h] = Append(written[h], n[h])
      BY <2>2, <3>1, Zenon
    <3> QED BY <3>2, <3>3, <3>4
  <2>4. Len(written'[h]) = Len(written[h]) + 1
        /\ \A i \in 1 .. Len(written[h]) + 1 : written'[h][i] =
             IF i = Len(written[h]) + 1 THEN n[h] ELSE written[h][i]
    BY <2>3
  <2>5. Counts(h, "write")
    BY <1>3, <2>2 DEF Progress
  <2>6. n[h] = ncount[h] /\ ncount[h] > 0 /\ n[h] + Len(written[h]) + 1 = NCount
    BY <1>5, <1>6, <2>5 DEF Counts
  <2>7. Progress(h, p)'
    <3>1. ncount'[h] = ncount[h] /\ ncount[h] + Len(written[h]) + 1 = NCount
      BY <2>2, <2>6
    <3>2. ncount'[h] + Len(written'[h]) = NCount
      BY <1>5, <1>6, <2>4, <3>1
    <3>3. Counts(h, "read")'
      BY <2>6, <3>1, <3>2 DEF Counts
    <3> QED BY <1>3, <2>1, <2>2, <3>3 DEF Progress
  <2>8. \A i \in 1 .. Len(written'[h]) : written'[h][i] = NCount - i
    <3>1. \A x, y \in Nat : x + y + 1 = NCount => x = NCount - (y + 1)
      BY <1>6
    <3>2. n[h] = NCount - (Len(written[h]) + 1)
      BY <1>5, <1>6, <2>6, <3>1
    <3>3. TAKE i \in 1 .. Len(written'[h])
    <3>4. i \in 1 .. Len(written[h]) + 1
      BY <2>4
    <3>5. CASE i = Len(written[h]) + 1
      BY <2>4, <3>2, <3>5
    <3>6. CASE i /= Len(written[h]) + 1
      <4>1. i \in 1 .. Len(written[h])
        BY <2>3, <3>4, <3>6
      <4>2. written[h][i] = NCount - i
        BY <1>4, <4>1
      <4> QED BY <2>4, <3>4, <3>6, <4>2
    <3> QED BY <3>5, <3>6
  <2>9. \A g \in Handle : g /= h =>
          /\ context'[g] = context[g] /\ ncount'[g] = ncount[g]
          /\ n'[g] = n[g] /\ written'[g] = written[g]
    BY <2>2 DEF Inv, TypeInv
  <2>10. ResumerInv' /\ LateInv' /\ ProgressInv'
    BY <1>1, <1>2, <2>1, <2>2, <2>7, <2>8, <2>9, StepOn
  <2>11. at' \in [Thread -> [h : Handle \cup {Stream[1]}, point : Points]]
    BY <1>2, <2>1 DEF Inv, TypeInv, Points, Goto
  <2>12. written' \in [Handle -> Seq(Nat)]
    <3>1. Append(written[h], n[h]) \in Seq(Nat)
      BY <2>3
    <3> QED BY <2>2, <3>1 DEF Inv, TypeInv
  <2> QED BY <2>2, <2>10, <2>11, <2>12 DEF Inv, TypeInv
<1>14. CASE ReadAsync(t)
  <2> DEFINE j == [h |-> h, kind |-> "generate", left |-> ncount[h]]
  <2>1. /\ Goto(t, h, "leave") /\ accepted' = Append(accepted, j)
        /\ UNCHANGED <<build, frame, context, finalled, ncount, n, written>>
    BY <1>2, <1>14 DEF ReadAsync, Pool!Accept, coro
  <2>2. j \in Job /\ j.h = at[t].h
    BY <1>2, <1>5 DEF Job
  <2>3. Progress(h, "generate")'
    BY <1>3, <1>14, <2>1, <1>2 DEF ReadAsync, Progress, Counts
  <2> HIDE DEF j
  <2>4. ResumerInv' /\ LateInv'
    BY <1>1, <1>2, <2>1, <2>2, HandsOver
  <2>5. /\ at'[t].h = at[t].h /\ ~InCoroutine(t)'
        /\ \A u \in Thread : u /= t => at'[u] = at[u]
    BY <1>2, <2>1 DEF Inv, TypeInv, Goto, InCoroutine, IsLate, At, Inside
  <2>6. \A i \in DOMAIN accepted' :
          (i \in DOMAIN accepted /\ accepted'[i] = accepted[i]) \/ accepted'[i] = j
    BY <2>1, <2>2 DEF Inv, TypeInv
  <2>7. \A i \in DOMAIN accepted' : accepted'[i] = j =>
          accepted'[i].h = at[t].h /\ Progress(accepted[i].h, accepted[i].kind)'
    BY <1>2, <2>2, <2>3 DEF j
  <2>8. ProgressInv'
    BY <1>1, <1>2, <1>3, <1>4, <2>1, <2>5, <2>6, <2>7, Progresses DEF Active
  <2>9. at' \in [Thread -> [h : Handle \cup {Stream[1]}, point : Points]]
    BY <1>2, <2>1 DEF Inv, TypeInv, Points, Goto
  <2>10. accepted' \in Seq(Job)
    BY <2>1, <2>2 DEF Inv, TypeInv
  <2> QED BY <2>1, <2>4, <2>8, <2>9, <2>10 DEF Inv, TypeInv
<1>15. CASE WriteAsync(t)
  <2> DEFINE j == [h |-> h, kind |-> "write", left |-> ncount[h]]
  <2>1. /\ Goto(t, h, "leave") /\ accepted' = Append(accepted, j)
        /\ UNCHANGED <<build, frame, context, finalled, ncount, n, written>>
    BY <1>2, <1>15 DEF WriteAsync, Pool!Accept, coro
  <2>2. j \in Job /\ j.h = at[t].h
    BY <1>2, <1>5 DEF Job
  <2>3. Progress(h, "write")'
    BY <1>3, <1>15, <2>1, <1>2 DEF WriteAsync, Progress, Counts
  <2> HIDE DEF j
  <2>4. ResumerInv' /\ LateInv'
    BY <1>1, <1>2, <2>1, <2>2, HandsOver
  <2>5. /\ at'[t].h = at[t].h /\ ~InCoroutine(t)'
        /\ \A u \in Thread : u /= t => at'[u] = at[u]
    BY <1>2, <2>1 DEF Inv, TypeInv, Goto, InCoroutine, IsLate, At, Inside
  <2>6. \A i \in DOMAIN accepted' :
          (i \in DOMAIN accepted /\ accepted'[i] = accepted[i]) \/ accepted'[i] = j
    BY <2>1, <2>2 DEF Inv, TypeInv
  <2>7. \A i \in DOMAIN accepted' : accepted'[i] = j =>
          accepted'[i].h = at[t].h /\ Progress(accepted[i].h, accepted[i].kind)'
    BY <1>2, <2>2, <2>3 DEF j
  <2>8. ProgressInv'
    BY <1>1, <1>2, <1>3, <1>4, <2>1, <2>5, <2>6, <2>7, Progresses DEF Active
  <2>9. at' \in [Thread -> [h : Handle \cup {Stream[1]}, point : Points]]
    BY <1>2, <2>1 DEF Inv, TypeInv, Points, Goto
  <2>10. accepted' \in Seq(Job)
    BY <2>1, <2>2 DEF Inv, TypeInv
  <2> QED BY <2>1, <2>4, <2>8, <2>9, <2>10 DEF Inv, TypeInv
<1>16. CASE CoReturn(t) /\ build /= "gcc"
  <2>1. PICK p \in Inside : p = "final_suspend" /\ Goto(t, h, p)
    BY <1>2, <1>16 DEF CoReturn, Inside
  <2>2. at[t].point = "final"
        /\ UNCHANGED <<build, frame, context, finalled, ncount, n, written, accepted>>
    BY <1>16 DEF CoReturn
  <2>3. Progress(h, p)'
    BY <1>3, <2>1, <2>2 DEF Progress, Counts
  <2>4. ResumerInv' /\ LateInv' /\ ProgressInv'
    BY <1>1, <1>2, <1>4, <1>16, <2>1, <2>2, <2>3, StepOn
  <2>5. at' \in [Thread -> [h : Handle \cup {Stream[1]}, point : Points]]
    BY <1>2, <2>1 DEF Inv, TypeInv, Points, Goto
  <2> QED BY <2>2, <2>4, <2>5 DEF Inv, TypeInv
<1>17. CASE (CoReturn(t) /\ build = "gcc") \/ FinalSuspend(t)
  <2>1. PICK p \in {"final_suspend", "leave"} :
          Goto(t, h, p) /\ (p = "final_suspend" => build = "gcc")
    BY <1>2, <1>17 DEF CoReturn, FinalSuspend
  <2>2. /\ at[t].point \in {"final", "final_suspend"}
        /\ finalled' = [finalled EXCEPT ![h] = TRUE]
        /\ UNCHANGED <<build, frame, context, ncount, n, written, accepted>>
    BY <1>2, <1>17 DEF CoReturn, FinalSuspend
  <2> QED BY <1>1, <1>2, <2>1, <2>2, Finishes
<1> QED
  BY <1>7, <1>8, <1>9, <1>10, <1>11, <1>12, <1>13, <1>14, <1>15, <1>16, <1>17 DEF Resumed

-----------------------------------------------------------------------------
\* A step that all this does not see.
LEMMA Unseen ==
  ASSUME Inv, UNCHANGED <<at, coro, accepted>>
  PROVE  Inv'
<1>1. TypeInv'
  BY DEF Inv, TypeInv, coro
<1>2. ResumerInv'
  BY DEF Inv, ResumerInv, InCoroutine, IsLate, At, Active, coro
<1>3. LateInv'
  BY DEF Inv, LateInv, IsLate, At, coro
<1>4. ProgressInv'
  BY DEF Inv, ProgressInv, InCoroutine, IsLate, At, Progress, Counts, coro
<1> QED BY <1>1, <1>2, <1>3, <1>4 DEF Inv

\* A thread that is outside every coroutine afterwards, and was so, or late.
LEMMA Quiet ==
  ASSUME Inv, at' \in [Thread -> [h : Handle \cup {Stream[1]}, point : Points]],
         \A t \in Thread :
           at'[t] = at[t] \/ (~InCoroutine(t) /\ at'[t].point \in {"idle", "leave"}),
         UNCHANGED <<coro, accepted>>
  PROVE  Inv'
<1> USE DEF coro
<1>1. TypeInv'
  BY DEF Inv, TypeInv
<1>2. \A t \in Thread : /\ InCoroutine(t)' <=> InCoroutine(t)
                        /\ IsLate(t)' => IsLate(t) /\ at'[t] = at[t]
  BY DEF InCoroutine, IsLate, At, Inside
<1>3. \A t \in Thread : InCoroutine(t) => at'[t] = at[t]
  OBVIOUS
<1>4. \A g : Active(g)' <=> Active(g)
  BY DEF Active
<1>5. ResumerInv'
  BY <1>2, <1>3, <1>4 DEF Inv, ResumerInv
<1>6. ProgressInv'
  BY <1>2, <1>3 DEF Inv, ProgressInv, Progress, Counts
<1>7. LateInv'
  BY <1>2, LateKept
<1> QED BY <1>1, <1>5, <1>6, <1>7 DEF Inv

\* A late thread leaves final_suspend(): only now the coroutine is suspended.
LEMMA LateStep ==
  ASSUME Inv, NEW t \in Thread, Resumed(t), IsLate(t)
  PROVE  Inv'
<1>1. FinalSuspend(t)
  BY DEF Resumed, Schedule, ReadSuspend, ReadAsync, ReadSync, Generate, AfterRead,
         WriteAsync, WriteSync, Write, CoReturn, At, IsLate
<1>2. at[t].h \in Handle /\ finalled[at[t].h]
  BY DEF Inv, LateInv
<1>3. UNCHANGED <<coro, accepted>>
  BY <1>1, <1>2 DEF FinalSuspend, Inv, TypeInv, coro, pool
<1>4. at' = [at EXCEPT ![t] = [h |-> at[t].h, point |-> "leave"]]
  BY <1>1 DEF FinalSuspend, Goto
<1>5. at' \in [Thread -> [h : Handle \cup {Stream[1]}, point : Points]]
  BY <1>2, <1>4 DEF Inv, TypeInv, Points
<1>6. /\ at'[t].point = "leave" /\ ~InCoroutine(t)
      /\ \A u \in Thread : u /= t => at'[u] = at[u]
  BY <1>4 DEF Inv, TypeInv, InCoroutine
<1> QED BY <1>3, <1>5, <1>6, Quiet

LEMMA StartStep ==
  ASSUME Inv, NEW w \in Worker, StartJob(w)
  PROVE  Inv'
<1> DEFINE j == Head(accepted)
<1>1. /\ w \in Thread /\ at[w].point = "idle" /\ accepted /= << >>
      /\ accepted' = Tail(accepted) /\ Goto(w, j.h, j.kind) /\ UNCHANGED coro
  BY DEF StartJob, Pool!Start, At, Thread
<1>2. /\ j \in Job /\ j = accepted[1] /\ Tail(accepted) \in Seq(Job)
      /\ DOMAIN accepted = 1 .. Len(accepted) /\ Len(accepted) \in Nat \ {0}
      /\ DOMAIN accepted' = 1 .. Len(accepted) - 1
      /\ \A i \in DOMAIN accepted' : accepted'[i] = accepted[i + 1]
  BY <1>1 DEF Inv, TypeInv
<1> HIDE DEF j
<1>3. j.h \in Handle /\ j.kind \in Inside
  BY <1>2 DEF Job, Inside
<1>4. /\ at'[w].h = j.h /\ at'[w].point = j.kind
      /\ \A u \in Thread : u /= w => at'[u] = at[u]
  BY <1>1 DEF Inv, TypeInv, Goto
<1>5. ~InCoroutine(w) /\ InCoroutine(w)'
      /\ \A u \in Thread : u /= w => (InCoroutine(u)' <=> InCoroutine(u))
  BY <1>1, <1>2, <1>3, <1>4 DEF InCoroutine, IsLate, At, Inside, Job, coro
<1>6. \A g : Active(g)' <=> Active(g)
  BY <1>1 DEF Active, coro
<1>7. ResumerInv'
  <2>1. \A t \in Thread : InCoroutine(t)' => at'[t].h \in Handle /\ Active(at[t].h)'
    BY <1>2, <1>3, <1>4, <1>5, <1>6 DEF Inv, ResumerInv
  <2>2. \A i \in DOMAIN accepted' : Active(accepted[i].h)'
    BY <1>2, <1>6 DEF Inv, ResumerInv
  <2>3. \A t, u \in Thread :
          InCoroutine(t)' /\ InCoroutine(u)' /\ at'[t].h = at'[u].h => t = u
    BY <1>2, <1>4, <1>5 DEF Inv, ResumerInv
  <2>4. \A i, k \in DOMAIN accepted' : accepted'[i].h = accepted'[k].h => i = k
    BY <1>2 DEF Inv, ResumerInv
  <2>5. \A t \in Thread, i \in DOMAIN accepted' :
          InCoroutine(t)' => at'[t].h /= accepted'[i].h
    BY <1>2, <1>4, <1>5 DEF Inv, ResumerInv
  <2>6. ASSUME NEW h \in Handle, Active(h)
        PROVE  \/ \E t \in Thread : InCoroutine(t)' /\ at'[t].h = h
               \/ \E i \in DOMAIN accepted' : accepted'[i].h = h
    <3>1. CASE \E t \in Thread : InCoroutine(t) /\ at[t].h = h
      BY <3>1, <1>4, <1>5
    <3>2. ASSUME NEW i \in DOMAIN accepted, accepted[i].h = h, i /= 1
          PROVE  \E k \in DOMAIN accepted' : accepted'[k].h = h
      <4>1. i - 1 \in DOMAIN accepted' /\ accepted'[i - 1] = accepted[i]
        BY <1>2, <3>2
      <4> QED BY <3>2, <4>1
    <3>3. CASE accepted[1].h = h
      BY <1>1, <1>2, <1>4, <1>5, <3>3
    <3> QED BY <2>6, <3>1, <3>2, <3>3 DEF Inv, ResumerInv
  <2> QED BY <2>1, <2>2, <2>3, <2>4, <2>5, <2>6, <1>6 DEF ResumerInv
<1>8. ProgressInv'
  <2>1. \A g, p : Progress(g, p)' <=> Progress(g, p)
    BY <1>1 DEF Progress, Counts, coro
  <2>2. Progress(j.h, j.kind)
    BY <1>2 DEF Inv, ProgressInv
  <2>3. ASSUME NEW t \in Thread, InCoroutine(t)' PROVE Progress(at[t].h, at[t].point)'
    <3>1. CASE t = w
      BY <1>1, <1>4, <2>2, <3>1 DEF Progress, Counts, coro
    <3>2. CASE t /= w
      BY <1>1, <1>4, <1>5, <2>3, <3>2 DEF Progress, Counts, coro, Inv, ProgressInv
    <3> QED BY <3>1, <3>2
  <2>4. ASSUME NEW i \in DOMAIN accepted' PROVE Progress(accepted[i].h, accepted[i].kind)'
    BY <1>1, <1>2 DEF Progress, Counts, coro, Inv, ProgressInv
  <2> QED BY <1>1, <2>3, <2>4 DEF Inv, ProgressInv, coro
<1>9. TypeInv'
  <2>1. at' \in [Thread -> [h : Handle \cup {Stream[1]}, point : Points]]
    BY <1>1, <1>3 DEF Inv, TypeInv, Goto, Points
  <2> QED BY <1>1, <1>2, <2>1 DEF Inv, TypeInv, coro
<1>10. LateInv'
  BY <1>1, <1>2, <1>4, LateKept DEF IsLate, At, Job, coro
<1> QED BY <1>7, <1>8, <1>9, <1>10 DEF Inv

LEMMA OwnerKeeps ==
  ASSUME Inv, OwnerStep
  PROVE  Inv'
<1>1. CASE Create
  <2>1. PICK h \in Handle :
          /\ at[Main].point = "idle" /\ frame[h] = "none"
          /\ frame' = [frame EXCEPT ![h] = "alive"] /\ Goto(Main, h, "start")
          /\ UNCHANGED <<build, context, finalled, ncount, n, written, accepted>>
    BY <1>1 DEF Create, At, Handle, Range, pool
  <2>2. /\ Main \in Thread /\ at'[Main].h = h /\ at'[Main].point = "start"
        /\ \A u \in Thread : u /= Main => at'[u] = at[u]
    BY <2>1 DEF Inv, TypeInv, Goto, Thread
  <2>3. ~InCoroutine(Main) /\ InCoroutine(Main)'
        /\ \A u \in Thread : u /= Main => (InCoroutine(u)' <=> InCoroutine(u))
    BY <2>1, <2>2 DEF InCoroutine, IsLate, At, Inside
  <2>4. /\ ~Active(h) /\ Active(h)'
        /\ \A g \in Handle : g /= h => (Active(g)' <=> Active(g))
    BY <2>1 DEF Inv, TypeInv, ProgressInv, Active
  <2>5. \A i \in DOMAIN accepted : accepted[i].h \in Handle /\ accepted[i].h /= h
    <3>1. \A i \in DOMAIN accepted : accepted[i] \in Job
      BY DEF Inv, TypeInv
    <3> QED BY <2>4, <3>1 DEF Inv, ResumerInv, Job
  <2>6. ResumerInv'
    BY <2>1, <2>2, <2>3, <2>4, <2>5 DEF Inv, ResumerInv
  <2>7. Progress(h, "start")'
    BY <2>1, EchoAssumption DEF Inv, ProgressInv, Progress, Counts
  <2>8. ProgressInv'
    <3>1. ASSUME NEW t \in Thread, InCoroutine(t)' PROVE Progress(at[t].h, at[t].point)'
      <4>1. CASE t = Main
        BY <2>1, <2>2, <2>7, <4>1 DEF Progress, Counts
      <4>2. CASE t /= Main
        BY <2>1, <2>2, <2>3, <3>1, <4>2 DEF Progress, Counts, Inv, ProgressInv
      <4> QED BY <4>1, <4>2
    <3>2. ASSUME NEW i \in DOMAIN accepted'
          PROVE  Progress(accepted[i].h, accepted[i].kind)'
      BY <2>1, <3>2 DEF Progress, Counts, Inv, ProgressInv
    <3>3. \A g \in Handle : frame'[g] = "none" => frame[g] = "none"
      BY <2>1 DEF Inv, TypeInv
    <3> QED BY <2>1, <3>1, <3>2, <3>3 DEF Inv, ProgressInv
  <2>9. TypeInv'
    BY <2>1 DEF Inv, TypeInv, Goto, Points, Inside
  <2>10. LateInv'
    BY <2>1, <2>2, LateKept DEF IsLate, At
  <2> QED BY <2>6, <2>8, <2>9, <2>10 DEF Inv
<1>2. CASE KeepTask
  <2>1. at[Main].point = "leave" /\ at' = [at EXCEPT ![Main] = Idle]
        /\ UNCHANGED <<coro, accepted>>
    BY <1>2 DEF KeepTask, At, pool
  <2>2. Idle \in [h : Handle \cup {Stream[1]}, point : Points] /\ Idle.point = "idle"
    BY DEF Idle, Points
  <2>3. at' \in [Thread -> [h : Handle \cup {Stream[1]}, point : Points]]
    BY <2>1, <2>2 DEF Inv, TypeInv
  <2>4. \A t \in Thread :
        at'[t] = at[t] \/ (~InCoroutine(t) /\ at'[t].point \in {"idle", "leave"})
    <3>1. \A t \in Thread : at'[t] = IF t = Main THEN Idle ELSE at[t]
      BY <2>1 DEF Inv, TypeInv
    <3>2. at'[Main].point = "idle" /\ at[Main].point = "leave"
      BY <2>1, <2>2, <3>1 DEF Thread
    <3>3. ~InCoroutine(Main)
      BY <3>2 DEF InCoroutine, Inside
    <3> QED BY <3>1, <3>2, <3>3
  <2> QED BY <2>1, <2>3, <2>4, Quiet
<1>3. CASE PollErase
  <2>1. PICK g : finalled[g] /\ frame' = [frame EXCEPT ![g] = "destroyed"]
    BY <1>3 DEF PollErase
  <2>2. UNCHANGED <<at, build, context, finalled, ncount, n, written, accepted>>
    BY <1>3 DEF PollErase, pool
  <2>3. \A h \in Handle :
          (Active(h)' <=> Active(h)) /\ (frame'[h] = "none" => frame[h] = "none")
    BY <2>1, <2>2 DEF Inv, TypeInv, Active
  <2>4. \A t : (InCoroutine(t)' <=> InCoroutine(t)) /\ (IsLate(t)' <=> IsLate(t))
    BY <2>2 DEF InCoroutine, IsLate, At
  <2>5. \A i \in DOMAIN accepted : accepted[i].h \in Handle
    <3>1. \A i \in DOMAIN accepted : accepted[i] \in Job
      BY DEF Inv, TypeInv
    <3> QED BY <3>1 DEF Job
  <2>6. ResumerInv'
    BY <2>2, <2>3, <2>4, <2>5 DEF Inv, ResumerInv
  <2>7. ProgressInv'
    BY <2>2, <2>3, <2>4 DEF Inv, ProgressInv, Progress, Counts
  <2>8. TypeInv'
    BY <2>1, <2>2 DEF Inv, TypeInv
  <2>9. LateInv'
    BY <2>2, <2>4, LateKept
  <2> QED BY <2>6, <2>7, <2>8, <2>9 DEF Inv
<1>4. CASE PollNext \/ PollAgain \/ DestroyPool
  <2>1. UNCHANGED <<at, coro, accepted>>
    BY <1>4 DEF PollNext, PollAgain, DestroyPool, Pool!Close, pool
  <2> QED BY <2>1, Unseen
<1> QED BY <1>1, <1>2, <1>3, <1>4 DEF OwnerStep

LEMMA EndStep ==
  ASSUME Inv, NEW w \in Worker, EndJob(w)
  PROVE  Inv'
<1>1. /\ at[w].point = "leave" /\ at' = [at EXCEPT ![w] = Idle]
      /\ UNCHANGED <<coro, accepted>>
  BY DEF EndJob, At, Pool!Finish
<1>2. Idle \in [h : Handle \cup {Stream[1]}, point : Points] /\ Idle.point = "idle"
  BY DEF Idle, Points
<1>3. at' \in [Thread -> [h : Handle \cup {Stream[1]}, point : Points]]
  BY <1>1, <1>2 DEF Inv, TypeInv
<1>4. \A t \in Thread :
        at'[t] = at[t] \/ (~InCoroutine(t) /\ at'[t].point \in {"idle", "leave"})
  <2>1. \A t \in Thread : at'[t] = IF t = w THEN Idle ELSE at[t]
    BY <1>1 DEF Inv, TypeInv
  <2>2. at'[w].point = "idle" /\ at[w].point = "leave"
    BY <1>1, <1>2, <2>1 DEF Thread
  <2>3. ~InCoroutine(w)
    BY <2>2 DEF InCoroutine, Inside
  <2> QED BY <2>1, <2>2, <2>3
<1> QED BY <1>1, <1>3, <1>4, Quiet

LEMMA InvHolds == Spec => []Inv
<1>1. Inv /\ [Next]_vars => Inv'
  <2> SUFFICES ASSUME Inv, [Next]_vars PROVE Inv'
    OBVIOUS
  <2>1. CASE \E t \in Thread : Resumed(t)
    BY <2>1, ResumedStep, LateStep
  <2>2. CASE \E w \in Worker : WorkerStep(w)
    BY <2>2, StartStep, EndStep DEF WorkerStep
  <2>3. CASE OwnerStep
    BY <2>3, OwnerKeeps
  <2>4. CASE UNCHANGED vars
    <3>1. UNCHANGED <<at, coro, accepted>>
      BY <2>4 DEF vars, pool
    <3> QED BY <3>1, Unseen
  <2> QED BY <2>1, <2>2, <2>3, <2>4 DEF Next, Terminated
<1> QED BY <1>1, InitInv, PTL DEF Spec

-----------------------------------------------------------------------------
LEMMA UsedByOne == Inv => FramesSafe
<1> SUFFICES ASSUME Inv PROVE FramesSafe
  OBVIOUS
<1>1. ASSUME NEW h \in Handle, Active(h) PROVE \E u : Users(h) = {u}
  <2>1. \A t \in Thread : at[t].h = h /\ at[t].point \in Inside => InCoroutine(t)
    BY <1>1 DEF InCoroutine, Inv, LateInv, Active
  <2>2. CASE \E t \in Thread : InCoroutine(t) /\ at[t].h = h
    <3>1. PICK t \in Thread : InCoroutine(t) /\ at[t].h = h
      BY <2>2
    <3>2. Users(h) = {t}
      BY <2>1, <3>1 DEF Users, Inv, ResumerInv, InCoroutine
    <3> QED BY <3>2
  <2>3. CASE \E i \in DOMAIN accepted : accepted[i].h = h
    <3>1. PICK i \in DOMAIN accepted : accepted[i].h = h
      BY <2>3
    <3>2. Users(h) = {i}
      BY <2>1, <3>1 DEF Users, Inv, ResumerInv
    <3> QED BY <3>2
  <2> QED BY <1>1, <2>2, <2>3 DEF Inv, ResumerInv
<1>2. ASSUME NEW h \in Handle, ~Active(h) PROVE Users(h) = Late(h)
  <2>1. \A t \in Thread : at[t].h = h => ~InCoroutine(t)
    BY <1>2 DEF Inv, ResumerInv
  <2>2. \A i \in DOMAIN accepted : accepted[i].h /= h
    BY <1>2 DEF Inv, ResumerInv
  <2>3. \A t \in Thread : IsLate(t) => at[t].point \in Inside
    BY DEF IsLate, At, Inside
  <2> QED BY <2>1, <2>2, <2>3 DEF Users, Late, InCoroutine
<1>3. ASSUME NEW h \in Handle PROVE Cardinality(Late(h)) <= 1
  <2>1. CASE Late(h) = {}
    BY <2>1, FS_EmptySet
  <2>2. CASE Late(h) /= {}
    <3>1. PICK t \in Thread : t \in Late(h)
      BY <2>2 DEF Late
    <3>2. Late(h) = {t}
      BY <3>1 DEF Late, Inv, LateInv
    <3> QED BY <3>2, FS_Singleton
  <2> QED BY <2>1, <2>2
<1>4. FramesLive
  BY <1>2 DEF FramesLive, Active
<1>5. OneResumer
  BY <1>1, <1>2, <1>3, FS_Singleton DEF OneResumer, Active
<1> QED BY <1>4, <1>5 DEF FramesSafe

\* For any streams and workers, a destroyed frame is not used, but by the thread
\* in final_suspend() in a build where done() is true by then; and a coroutine
\* that is not done is run by one thread or will be resumed by one job.
THEOREM FramesAlwaysSafe == Spec => []FramesSafe
BY InvHolds, UsedByOne, PTL

LEMMA EchoedSo == Inv => Echoed
<1> SUFFICES ASSUME Inv PROVE Echoed
  OBVIOUS
<1>1. ASSUME NEW t \in Thread, At(t, "read") PROVE ncount[at[t].h] \in 1 .. BufSize
  <2>1. InCoroutine(t)
    BY <1>1 DEF At, InCoroutine, IsLate, Inside
  <2>2. PICK h \in Handle : h = at[t].h /\ Progress(h, "read")
    BY <1>1, <2>1 DEF At, Inv, ResumerInv, ProgressInv
  <2>3. ncount[h] \in Nat /\ Len(written[h]) \in Nat
    BY DEF Inv, TypeInv
  <2> QED BY <2>2, <2>3, EchoAssumption DEF Progress, Counts, Word
<1>2. ASSUME NEW h \in Handle, finalled[h]
      PROVE  written[h] = [i \in 1 .. NCount - 1 |-> NCount - i]
  <2>1. written[h] \in Seq(Nat) /\ Len(written[h]) = NCount - 1
        /\ \A i \in 1 .. Len(written[h]) : written[h][i] = NCount - i
    BY <1>2 DEF Inv, TypeInv, ProgressInv
  <2> QED BY <2>1
<1>3. ASSUME NEW t \in Thread, At(t, "final_suspend") PROVE context[at[t].h]
  <2>1. CASE IsLate(t)
    BY <2>1 DEF Inv, LateInv, ProgressInv
  <2>2. CASE ~IsLate(t)
    <3>1. InCoroutine(t)
      BY <1>3, <2>2 DEF At, InCoroutine, Inside
    <3> QED BY <1>3, <3>1 DEF At, Inv, ProgressInv, Progress
  <2> QED BY <2>1, <2>2
<1> QED BY <1>1, <1>2, <1>3 DEF Echoed

\* For any streams, workers and number of reads, ncount never wraps, and what a
\* done coroutine has written is all that its source gave, in order.
THEOREM AlwaysEchoed == Spec => []Echoed
BY InvHolds, EchoedSo, PTL

-----------------------------------------------------------------------------
LEMMA StreamsBegin == Init => \A h \in Handle : Echoing(h)!Init
<1> SUFFICES ASSUME Init, NEW h \in Handle PROVE Echoing(h)!Init
  OBVIOUS
<1>1. written[h] = << >> /\ frame[h] = "none" /\ ~finalled[h]
  BY DEF Init
<1>2. Len(<< >>) = 0
  OBVIOUS
<1>3. NCount \in 1 .. 15
  BY EchoAssumption DEF Word
<1> QED BY <1>1, <1>2, <1>3 DEF Echoing!Init, PhaseOf

\* A stream only sees what is written, and the two ends of its frame.
LEMMA StreamUnseen ==
  ASSUME NEW h \in Handle, written'[h] = written[h], PhaseOf(h)' = PhaseOf(h)
  PROVE  UNCHANGED Echoing(h)!vars
BY DEF Echoing!vars

LEMMA StreamStep ==
  ASSUME Inv, [Next]_vars, NEW h \in Handle
  PROVE  [Echoing(h)!Next]_(Echoing(h)!vars)
<1> USE DEF PhaseOf
<1> DEFINE left == NCount - 1 - Len(written[h])
<1>1. /\ written \in [Handle -> Seq(Nat)] /\ frame \in [Handle -> {"none", "alive", "destroyed"}]
      /\ finalled \in [Handle -> BOOLEAN] /\ ncount \in [Handle -> 0 .. Word - 1]
      /\ NCount \in 1 .. Word - 1 /\ Word = 16
  BY EchoAssumption DEF Inv, TypeInv, Word
<1>2. Len(written[h]) \in Nat /\ ncount[h] \in Nat
  <2>1. written[h] \in Seq(Nat) /\ ncount[h] \in 0 .. 15
    BY <1>1
  <2> QED BY <2>1, LenProperties
<1>3. ASSUME NEW t \in Thread, Write(t), at[t].h = h PROVE Echoing(h)!Next
  <2>1. frame[h] = "alive" /\ ~finalled[h] /\ Progress(h, "write")
    BY <1>3 DEF Write, At, IsLate, Inv, ResumerInv, ProgressInv, InCoroutine, Inside, Active
  <2>2. ncount[h] + Len(written[h]) = NCount - 1 /\ ncount[h] > 0
    BY <2>1 DEF Progress, Counts
  <2>3. n[h] \in Nat
    BY DEF Inv, TypeInv
  <2>4. written'[h] = Append(written[h], n[h]) /\ UNCHANGED <<frame, finalled>>
    BY <1>1, <1>3 DEF Write
  <2>5. Len(written'[h]) = Len(written[h]) + 1
    BY <1>1, <2>3, <2>4
  <2>6. left > 0 /\ left' = left - 1
    BY <1>1, <1>2, <2>2, <2>5
  <2> QED BY <2>1, <2>4, <2>6 DEF Echoing!Next, Echoing!Echo
<1>4. ASSUME NEW t \in Thread, CoReturn(t) \/ FinalSuspend(t), at[t].h = h
      PROVE  [Echoing(h)!Next]_(Echoing(h)!vars)
  <2>1. UNCHANGED <<frame, written>> /\ (finalled'[h] = finalled[h] \/ finalled'[h] = TRUE)
    BY <1>1, <1>4 DEF CoReturn, FinalSuspend
  <2>2. CASE finalled'[h] = finalled[h]
    BY <2>1, <2>2, StreamUnseen
  <2>3. CASE finalled'[h] /\ ~finalled[h]
    <3>1. ~IsLate(t)
      BY <1>4, <2>3 DEF Inv, LateInv
    <3>2. InCoroutine(t) /\ at[t].point \in {"final", "final_suspend"}
      BY <1>4, <3>1 DEF CoReturn, FinalSuspend, At, InCoroutine, Inside
    <3>3. frame[h] = "alive" /\ Counts(h, at[t].point)
      BY <1>4, <3>2 DEF Inv, ResumerInv, ProgressInv, Active, Progress
    <3>4. ncount[h] + Len(written[h]) = NCount - 1 /\ ncount[h] = 0
      BY <3>2, <3>3 DEF Counts
    <3>5. left = 0
      BY <1>1, <1>2, <3>4
    <3> QED BY <2>1, <2>3, <3>3, <3>5 DEF Echoing!Next, Echoing!Finish
  <2> QED BY <1>1, <2>1, <2>2, <2>3
<1>5. CASE PollErase
  <2>1. UNCHANGED <<written, finalled>> /\ finalled[tasks[pos]]
        /\ frame' = [frame EXCEPT ![tasks[pos]] = "destroyed"]
    BY <1>5 DEF PollErase
  <2>2. CASE tasks[pos] = h /\ frame[h] /= "destroyed"
    BY <1>1, <2>1, <2>2 DEF Echoing!Next, Echoing!Destroy
  <2>3. CASE ~(tasks[pos] = h /\ frame[h] /= "destroyed")
    BY <1>1, <2>1, <2>3, StreamUnseen
  <2> QED BY <2>2, <2>3
<1>6. CASE Create
  <2>1. UNCHANGED <<written, finalled>>
    BY <1>6 DEF Create
  <2>2. PICK i \in DOMAIN Stream : frame[Stream[i]] = "none" /\ frame' = [frame EXCEPT ![Stream[i]] = "alive"]
    BY <1>6 DEF Create
  <2> QED BY <1>1, <2>1, <2>2, StreamUnseen
<1>7. ASSUME NEW t \in Thread, Resumed(t), ~(Write(t) /\ at[t].h = h),
             ~((CoReturn(t) \/ FinalSuspend(t)) /\ at[t].h = h)
      PROVE  written'[h] = written[h] /\ frame' = frame /\ finalled'[h] = finalled[h]
  <2>1. CASE Write(t)
    BY <1>1, <1>7, <2>1 DEF Write
  <2>2. CASE CoReturn(t) \/ FinalSuspend(t)
    BY <1>1, <1>7, <2>2 DEF CoReturn, FinalSuspend
  <2>3. CASE ~Write(t) /\ ~CoReturn(t) /\ ~FinalSuspend(t)
    BY <1>7, <2>3 DEF Resumed, Schedule, ReadSuspend, ReadAsync, ReadSync, Generate, AfterRead, WriteAsync,
                      WriteSync, coro
  <2> QED BY <2>1, <2>2, <2>3
<1>8. CASE (\E w \in Worker : WorkerStep(w)) \/ KeepTask \/ PollNext \/ PollAgain \/ DestroyPool \/ Terminated
           \/ UNCHANGED vars
  <2>1. UNCHANGED <<written, frame, finalled>>
    BY <1>8 DEF WorkerStep, StartJob, EndJob, KeepTask, PollNext, PollAgain, DestroyPool, Terminated, vars, coro
  <2> QED BY <2>1, StreamUnseen
<1> QED BY <1>3, <1>4, <1>5, <1>6, <1>7, <1>8, StreamUnseen DEF Next, OwnerStep

\* For any streams, workers and number of reads: each stream, seen alone, is the
\* sequential program of EchoStream, which echoes its pieces one after the other,
\* is done after the last one, and is destroyed after that.
THEOREM StreamsImplemented == Spec => ImplementsStreams
<1>1. Inv /\ [Next]_vars => [\A h \in Handle : [Echoing(h)!Next]_(Echoing(h)!vars)]_vars
  BY StreamStep
<1> QED BY <1>1, StreamsBegin, InvHolds, PTL DEF Spec, ImplementsStreams
=============================================================================
