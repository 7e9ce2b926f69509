-------------------------- MODULE CoroutinesProofs --------------------------
(***************************************************************************)
(* Proofs about the programs of MCCoroutines: the owners of frames, for    *)
(* any client objects and frames; the coroutines that change threads; the  *)
(* pipeline, for any limit, factor and addend; and the bodies, for any     *)
(* first value, sequence of starts, number of rounds and shape of the      *)
(* containers.                                                             *)
(***************************************************************************)
EXTENDS MCCoroutines, SequenceTheorems, WellFoundedInduction, TLAPS

LEMMA StepOfOne ==
  ASSUME [MCNext]_demoVars
  PROVE  /\ [Next]_vars /\ [Detached!Next]_resumeVars /\ [Pipeline!Next]_pipelineVars
         /\ [Bodies!Next]_bodyVars /\ UNCHANGED demo
BY DEF MCNext, InOwners, InDetached, InPipeline, InBodies, demoVars

-----------------------------------------------------------------------------
TypeOK ==
  /\ class \in Classes
  /\ handle \in [Object -> Frame \cup {Null, NoObject}]
  /\ frame \in [Frame -> {"free", "suspended", "final"}]

\* The two parts of SoleOwner. Neither is inductive without the other: a
\* second owner appears when a frame is allocated that a dangling handle
\* points to, and a handle dangles when one of two owners destroys the frame.
OneOwner == \A o, p \in Object : Owned(o) /\ handle[p] = handle[o] => p = o
OwnedLive == \A o \in Object : Owned(o) => frame[handle[o]] /= "free"

OwnersInv == TypeOK /\ OneOwner /\ OwnedLive /\ NoLeak

-----------------------------------------------------------------------------
LEMMA InitOwners == Init => OwnersInv
BY DEF Init, OwnersInv, TypeOK, OneOwner, OwnedLive, NoLeak, Owned, Alive

LEMMA NextOwners ==
  ASSUME OwnersInv, [Next]_vars
  PROVE  OwnersInv'
<1>0. Null \notin Frame /\ NoObject \notin Frame /\ Null /= NoObject
  BY CoroutinesAssumption DEF CoroutinesAssumption
<1> USE <1>0 DEF OwnersInv, TypeOK, Alive, Does
<1>1. ASSUME NEW o \in Object, Create(o) PROVE OwnersInv'
  <2> PICK f \in Frame, s \in {"suspended", "final"} :
         /\ frame[f] = "free"
         /\ frame' = [frame EXCEPT ![f] = s]
         /\ handle' = [handle EXCEPT ![o] = f]
    <3>1. class.born \subseteq {"suspended", "final"}
      BY DEF Classes, Class, generator, massive_usage, awaiters, co_await_path, inlined, composed, benchmark
    <3>2. QED BY <1>1, <3>1 DEF Create
  <2>1. class' = class BY <1>1 DEF Create
  <2>2. TypeOK' BY <2>1
  <2>3. \A p \in Object : handle[p] /= f BY DEF OwnedLive, Owned
  <2>4. OneOwner' BY <2>3 DEF OneOwner, Owned
  <2>5. OwnedLive' BY <2>3 DEF OwnedLive, Owned
  <2>6. NoLeak' BY <1>1, <2>1 DEF NoLeak, Create
  <2>7. QED BY <2>2, <2>4, <2>5, <2>6
<1>2. ASSUME NEW o \in Object, Resume(o) PROVE OwnersInv'
  <2>1. TypeOK' BY <1>2 DEF Resume
  <2>2. OneOwner' BY <1>2 DEF Resume, OneOwner, Owned
  <2>3. OwnedLive' BY <1>2 DEF Resume, OwnedLive, Owned
  <2>4. NoLeak' BY <1>2 DEF Resume, NoLeak, OwnedLive, Owned
  <2>5. QED BY <2>1, <2>2, <2>3, <2>4
<1>3. ASSUME NEW o \in Object, Destruct(o) PROVE OwnersInv'
  <2>1. TypeOK' BY <1>3 DEF Destruct, DestroyFrame
  <2>2. OneOwner' BY <1>3 DEF Destruct, OneOwner, Owned
  <2>3. OwnedLive' BY <1>3 DEF Destruct, DestroyFrame, OwnedLive, OneOwner, Owned
  <2>4. NoLeak' BY <1>3 DEF Destruct, DestroyFrame, NoLeak
  <2>5. QED BY <2>1, <2>2, <2>3, <2>4
<1>4. ASSUME NEW o \in Object, NEW that \in Object, MoveConstruct(o, that) PROVE OwnersInv'
  <2>1. TypeOK' BY <1>4 DEF MoveConstruct
  <2>2. OneOwner' BY <1>4 DEF MoveConstruct, OneOwner, Owned
  <2>3. OwnedLive' BY <1>4 DEF MoveConstruct, OwnedLive, Owned
  <2>4. NoLeak' BY <1>4 DEF MoveConstruct, NoLeak
  <2>5. QED BY <2>1, <2>2, <2>3, <2>4
<1>5. ASSUME NEW o \in Object, NEW that \in Object, MoveAssign(o, that) PROVE OwnersInv'
  <2>1. TypeOK' BY <1>5 DEF MoveAssign, MayAssign, DestroyFrame
  <2>2. OneOwner' BY <1>5 DEF MoveAssign, MayAssign, OneOwner, Owned
  <2>3. OwnedLive' BY <1>5 DEF MoveAssign, MayAssign, DestroyFrame, OwnedLive, OneOwner, Owned
  <2>4. NoLeak' BY <1>5 DEF MoveAssign, MayAssign, DestroyFrame, NoLeak
  <2>5. QED BY <2>1, <2>2, <2>3, <2>4
<1>6. CASE UNCHANGED vars
  BY <1>6 DEF vars, OneOwner, OwnedLive, NoLeak, Owned
<1>7. QED BY <1>1, <1>2, <1>3, <1>4, <1>5, <1>6 DEF Next, Exit

\* The special members of Generator and Task, whatever order a client uses
\* them in and whatever memory the allocator reuses, leave each frame one
\* owner, and each owner a frame that exists.
THEOREM OneOwnerEach == MCSpec => []SoleOwner
<1>1. MCInit => OwnersInv
  BY InitOwners DEF MCInit
<1>2. OwnersInv /\ [MCNext]_demoVars => OwnersInv'
  BY StepOfOne, NextOwners
<1>3. OwnersInv => SoleOwner
  BY DEF OwnersInv, OneOwner, OwnedLive, SoleOwner
<1>4. QED BY <1>1, <1>2, <1>3, PTL DEF MCSpec

\* In the classes that destroy the frame they overwrite, or cannot overwrite
\* one, no frame is without an owner.
THEOREM NoFrameLost == MCSpec => []NoLeak
<1>1. MCInit => OwnersInv
  BY InitOwners DEF MCInit
<1>2. OwnersInv /\ [MCNext]_demoVars => OwnersInv'
  BY StepOfOne, NextOwners
<1>3. OwnersInv => NoLeak
  BY DEF OwnersInv
<1>4. QED BY <1>1, <1>2, <1>3, PTL DEF MCSpec

-----------------------------------------------------------------------------
\* The coroutines that change threads: the threads that the body has not come
\* to are not born, the next one waits or is about to resume it, or is not
\* born either; who resumes has the result.
DetachedInv ==
  /\ program \in Detached!Programs
  /\ pc \in [Detached!Thread -> {"unborn", "body", "suspend", "wait", "resume", "final", "get", "exit"}]
  /\ at \in 0 .. program.awaits
  /\ future \in [1 .. 2 -> {"running", "deferred", "ready"}]
  /\ Detached!OneResumer
  /\ \A k \in 1 .. 2 : k > at => pc[k] \in IF k = at + 1 THEN {"unborn", "wait", "resume"} ELSE {"unborn"}
  /\ \A k \in 1 .. 2 : pc[k] \in {"wait", "resume"} => k = at + 1 /\ k <= program.awaits
  /\ \A k \in 1 .. 2 : pc[k] = "resume" /\ ~Detached!Moves => future[k] = "ready"
  /\ pc[0] \notin {"wait", "resume"}

LEMMA ProgramsAre ==
  ASSUME NEW q \in Detached!Programs
  PROVE  q.awaits \in 0 .. 2
<1>1. \A name, awaits, tells : Detached!Coroutine(name, awaits, tells).awaits = awaits
  BY DEF Detached!Coroutine
<1>2. /\ Detached!compute.awaits = 2 /\ Detached!fail.awaits = 0 /\ Detached!simple.awaits = 0
      /\ Detached!future_compute.awaits = 2 /\ Detached!future_fail.awaits = 0
      /\ Detached!move.awaits = 1 /\ Detached!demo20.awaits = 1
  BY <1>1 DEF Detached!compute, Detached!fail, Detached!simple, Detached!future_compute, Detached!future_fail,
              Detached!move, Detached!demo20
<1>3. QED BY <1>2 DEF Detached!Programs

LEMMA DetachedInit == Detached!Init => DetachedInv
<1> SUFFICES ASSUME Detached!Init PROVE DetachedInv
  OBVIOUS
<1> USE DEF Detached!Init, Detached!Thread
<1>1. program.awaits \in 0 .. 2
  BY ProgramsAre
<1>2. /\ pc = [t \in 0 .. 2 |-> IF t = 0 THEN "body" ELSE "unborn"]
      /\ dr_frame = TRUE /\ at = 0
  OBVIOUS
<1>3. Detached!OneResumer
  BY <1>2 DEF Detached!OneResumer, Detached!InFrame
<1>4. future \in [1 .. 2 -> {"running", "deferred", "ready"}]
  OBVIOUS
<1>5. QED BY <1>1, <1>2, <1>3, <1>4 DEF DetachedInv

LEMMA DetachedKept == DetachedInv /\ [Detached!Next]_resumeVars => DetachedInv'
<1> SUFFICES ASSUME DetachedInv, [Detached!Next]_resumeVars PROVE DetachedInv'
  OBVIOUS
<1> USE DEF DetachedInv, Detached!Thread, Detached!OneResumer, Detached!InFrame, Detached!Goto, Detached!Moves
<1>0. program.awaits \in 0 .. 2
  BY ProgramsAre
<1>1. CASE UNCHANGED resumeVars
  BY <1>1 DEF resumeVars
<1>2. ASSUME NEW t \in Detached!Thread, Detached!Ready(t) PROVE DetachedInv'
  BY <1>0, <1>2 DEF Detached!Ready, Detached!More, Detached!Awaited
<1>3. ASSUME NEW t \in Detached!Thread, Detached!Suspend(t) PROVE DetachedInv'
  BY <1>0, <1>3 DEF Detached!Suspend, Detached!More, Detached!Awaited
<1>4. ASSUME NEW t \in Detached!Thread, Detached!Suspended(t) PROVE DetachedInv'
  BY <1>0, <1>4 DEF Detached!Suspended, Detached!Leave
<1>5. ASSUME NEW t \in Detached!Thread, Detached!Wait(t) PROVE DetachedInv'
  BY <1>0, <1>5 DEF Detached!Wait
<1>6. ASSUME NEW t \in Detached!Thread, Detached!Resume(t) PROVE DetachedInv'
  BY <1>0, <1>6 DEF Detached!Resume
<1>7. ASSUME NEW t \in Detached!Thread, Detached!Return(t) PROVE DetachedInv'
  BY <1>0, <1>7 DEF Detached!Return
<1>8. ASSUME NEW t \in Detached!Thread, Detached!End(t) PROVE DetachedInv'
  BY <1>0, <1>8 DEF Detached!End, Detached!Leave
<1>9. ASSUME NEW k \in 1 .. 2, Detached!AsyncEnds(k) PROVE DetachedInv'
  BY <1>0, <1>9 DEF Detached!AsyncEnds
<1>10. CASE Detached!Get
  BY <1>0, <1>10 DEF Detached!Get
<1>11. CASE Detached!Exited
  BY <1>1, <1>11 DEF Detached!Exited, Detached!vars, resumeVars
<1>12. QED
  BY <1>1, <1>2, <1>3, <1>4, <1>5, <1>6, <1>7, <1>8, <1>9, <1>10, <1>11 DEF Detached!Next, Detached!Run

LEMMA DetachedMeans == DetachedInv => Detached!OneResumer /\ Detached!ResumedInOrder
<1> SUFFICES ASSUME DetachedInv, NEW t \in 1 .. 2, pc[t] = "resume"
             PROVE  at = t - 1 /\ (~Detached!Moves => future[t] = "ready")
  BY DEF DetachedInv, Detached!ResumedInOrder, Detached!Thread
<1>1. at + 1 = t /\ at \in Nat
  BY ProgramsAre DEF DetachedInv
<1>2. QED BY <1>1 DEF DetachedInv

\* What accumulate has after n values.
Triangle(k) == (k * (k - 1)) \div 2
SumOf(k) == factor * Triangle(k) + adder * k

\* The pipeline: while a stage runs, none below it has ended, and all the
\* values of seq have been summed; while one has been answered, all but the
\* last have, which is on its way up, or has ended every stage that saw it.
PipelineInv ==
  /\ top \in 1 .. 5 /\ i \in Int /\ sum \in Int
  /\ state \in [1 .. 5 -> {"initial", "running", "waiting", "yielded", "final"}]
  /\ value \in [1 .. 5 -> Int]
  /\ \A s \in 1 .. 5 : s > top => state[s] = "waiting"
  /\ \A s \in 1 .. 5 : s < top => state[s] \in {"initial", "yielded", "final"}
  /\ state[top] \in {"running", "waiting"} \/ (top = 5 /\ state[top] = "final")
  /\ state[top] = "running" =>
       /\ -1 <= i /\ i < limit /\ sum = SumOf(i + 1)
       /\ \A s \in 1 .. 5 : s < top => state[s] /= "final"
  /\ state[top] = "waiting" =>
       /\ top >= 2 /\ 0 <= i /\ i <= limit /\ sum = SumOf(i)
       /\ state[1] = "yielded" /\ value[1] = i
       /\ \A s \in 2 .. 4 : s < top => state[s] = IF i < limit THEN "yielded" ELSE "final"
       /\ i < limit /\ 2 < top => value[2] = i
       /\ i < limit /\ 3 < top => value[3] = i * factor
       /\ i < limit /\ 4 < top => value[4] = i * factor + adder
  /\ state[5] = "final" => i = limit /\ sum = SumOf(limit)

LEMMA PipelineInit == Pipeline!Init => PipelineInv
<1> SUFFICES ASSUME Pipeline!Init PROVE PipelineInv
  OBVIOUS
<1> USE DEF Pipeline!Init, Pipeline!Stage, Pipeline!Accumulate
<1>1. limit \in Nat /\ factor \in Int /\ adder \in Int
  BY CoroutinesAssumption DEF CoroutinesAssumption
<1>2. SumOf(0) = 0
  BY <1>1 DEF SumOf, Triangle
<1>3. top = 5 /\ state[5] = "running" /\ i = -1 /\ sum = 0
  OBVIOUS
<1>4. sum = SumOf(i + 1)
  BY <1>2, <1>3
<1>5. /\ state \in [1 .. 5 -> {"initial", "running", "waiting", "yielded", "final"}]
      /\ value \in [1 .. 5 -> Int]
      /\ \A s \in 1 .. 5 : s < 5 => state[s] = "initial"
  OBVIOUS
<1> HIDE DEF Pipeline!Init
<1>6. QED BY <1>1, <1>3, <1>4, <1>5 DEF PipelineInv

LEMMA PipelineKept == PipelineInv /\ [Pipeline!Next]_pipelineVars => PipelineInv'
<1> SUFFICES ASSUME PipelineInv, [Pipeline!Next]_pipelineVars PROVE PipelineInv'
  OBVIOUS
<1> USE DEF Pipeline!Stage, Pipeline!Accumulate, Pipeline!Suspend, Pipeline!Yield, Pipeline!Got
<1>0. limit \in Nat /\ factor \in Int /\ adder \in Int /\ \A x, y \in Int : x * y \in Int
  BY CoroutinesAssumption DEF CoroutinesAssumption
<1>1. CASE UNCHANGED pipelineVars
  BY <1>1 DEF pipelineVars, PipelineInv, SumOf, Triangle
<1>2. ASSUME NEW s \in Pipeline!Stage, Pipeline!Ask(s) PROVE PipelineInv'
  BY <1>0, <1>2 DEF Pipeline!Ask, PipelineInv, SumOf, Triangle
<1>3. ASSUME NEW s \in Pipeline!Stage, Pipeline!Finish(s) PROVE PipelineInv'
  BY <1>0, <1>3 DEF Pipeline!Finish, PipelineInv, SumOf, Triangle
<1>4. CASE Pipeline!Seq
  BY <1>0, <1>4 DEF Pipeline!Seq, PipelineInv, SumOf, Triangle
<1>5. CASE Pipeline!TakeUntil
  BY <1>0, <1>5 DEF Pipeline!TakeUntil, PipelineInv, SumOf, Triangle
<1>6. CASE Pipeline!Multiply
  BY <1>0, <1>6 DEF Pipeline!Multiply, PipelineInv, SumOf, Triangle
<1>7. CASE Pipeline!AddStage
  BY <1>0, <1>7 DEF Pipeline!AddStage, PipelineInv, SumOf, Triangle
<1>8. CASE Pipeline!Sum
  BY <1>0, <1>8 DEF Pipeline!Sum, PipelineInv, SumOf, Triangle
<1>9. CASE Pipeline!Returned /\ UNCHANGED Pipeline!vars
  BY <1>1, <1>9 DEF Pipeline!vars, pipelineVars
<1>10. QED
  BY <1>1, <1>2, <1>3, <1>4, <1>5, <1>6, <1>7, <1>8, <1>9 DEF Pipeline!Next

LEMMA PipelineMeans == PipelineInv => Pipeline!ResumedLive /\ Pipeline!OnDemand
<1> SUFFICES ASSUME PipelineInv PROVE Pipeline!ResumedLive /\ Pipeline!OnDemand
  OBVIOUS
<1> USE DEF Pipeline!Stage, Pipeline!Accumulate
<1>1. limit \in Nat
  BY CoroutinesAssumption DEF CoroutinesAssumption
<1>2. Pipeline!ResumedLive
  BY DEF Pipeline!ResumedLive, PipelineInv
<1>3. i <= limit
  BY <1>1 DEF PipelineInv
<1>4. Pipeline!Returned => i = limit /\ sum = SumOf(limit)
  BY DEF Pipeline!Returned, PipelineInv
<1>5. QED BY <1>2, <1>3, <1>4 DEF Pipeline!OnDemand, SumOf, Triangle

FrameOf(I) ==
  [state : {"suspended", "running", "final"}, point : {"begin", "awaits", "shown", "yielded", "look", "ask"},
   n : Nat, current : Int, items : I, level : 1 .. 3, inner : 0 .. 3]

LEMMA FramesExist ==
  ASSUME NEW I, NEW r \in FrameOf(I)
  PROVE  r /= << >>
<1>1. DOMAIN r = {"state", "point", "n", "current", "items", "level", "inner"}
  BY DEF FrameOf
<1>2. DOMAIN << >> = {}
  OBVIOUS
<1>3. QED BY <1>1, <1>2

LEMMA OneOnStack ==
  ASSUME NEW f
  PROVE  Bodies!Last(<<f>>) = f /\ Bodies!Front(<<f>>) = << >> /\ <<f>> /= << >>
<1>1. Len(<<f>>) = 1 /\ <<f>>[1] = f
  OBVIOUS
<1>2. <<f>> \in Seq({f}) /\ Len(<<f>>) - 1 = 0
  OBVIOUS
<1>3. SubSeq(<<f>>, 1, 0) = << >>
  BY SubSeqEmpty
<1>4. Bodies!Last(<<f>>) = f
  BY <1>1 DEF Bodies!Last
<1>5. Bodies!Front(<<f>>) = << >>
  BY <1>1, <1>3 DEF Bodies!Front
<1>6. <<f>> /= << >>
  BY <1>1
<1>7. QED BY <1>4, <1>5, <1>6

Programs == {"hello", "path", "awaiters", "generator", "massive", "bench", "composed"}

LEMMA TypesAre ==
  /\ DOMAIN Bodies!TypeOf = Programs
  /\ Bodies!TypeOf["hello"] = [lazy |-> TRUE, keeps |-> FALSE, owned |-> FALSE, awaits |-> 1]
  /\ Bodies!TypeOf["path"] = [lazy |-> FALSE, keeps |-> TRUE, owned |-> TRUE, awaits |-> 1]
  /\ Bodies!TypeOf["awaiters"] = [lazy |-> TRUE, keeps |-> TRUE, owned |-> TRUE, awaits |-> 3]
  /\ Bodies!TypeOf["generator"] = [lazy |-> TRUE, keeps |-> TRUE, owned |-> TRUE, awaits |-> 0]
  /\ Bodies!TypeOf["massive"] = [lazy |-> TRUE, keeps |-> TRUE, owned |-> TRUE, awaits |-> 0]
  /\ Bodies!TypeOf["bench"] = [lazy |-> FALSE, keeps |-> TRUE, owned |-> TRUE, awaits |-> 0]
  /\ Bodies!TypeOf["composed"] = [lazy |-> FALSE, keeps |-> TRUE, owned |-> TRUE, awaits |-> 0]
<1>1. \A lazy, keeps, own, awaits : Bodies!Type(lazy, keeps, own, awaits)
                                     = [lazy |-> lazy, keeps |-> keeps, owned |-> own, awaits |-> awaits]
  BY DEF Bodies!Type
<1>2. QED
  BY <1>1 DEF Programs, Bodies!TypeOf, Bodies!HelloWorldCoro, Bodies!PathTask, Bodies!AwaitersTask, Bodies!Generator,
              Bodies!EagerGenerator

LEMMA ResumesAre ==
  /\ DOMAIN Bodies!Resumes = {"hello", "path", "awaiters", "massive"}
  /\ Bodies!Resumes["hello"] = 2 /\ Bodies!Resumes["path"] = 1 /\ Bodies!Resumes["awaiters"] = 4
  /\ Bodies!Resumes["massive"] = Rounds
BY DEF Bodies!Resumes

UpTo(n) == [j \in 1 .. n |-> j]

LEMMA UpToGrows ==
  ASSUME NEW n \in Nat \ {0}
  PROVE  Append(UpTo(n - 1), n) = UpTo(n)
<1>1. UpTo(n - 1) \in Seq(Nat) /\ UpTo(n) \in Seq(Nat) /\ Len(UpTo(n - 1)) = n - 1 /\ Len(UpTo(n)) = n
  BY DEF UpTo
<1> DEFINE a == Append(UpTo(n - 1), n)
<1>2. /\ a \in Seq(Nat) /\ Len(a) = n /\ a[n] = n
      /\ \A j \in 1 .. n - 1 : a[j] = UpTo(n - 1)[j]
  BY <1>1, AppendProperties
<1>3. \A j \in 1 .. n : a[j] = UpTo(n)[j]
  BY <1>2 DEF UpTo
<1>4. QED BY <1>1, <1>2, <1>3, SeqEqual

LEMMA UpToNone ==
  /\ UpTo(0) = << >> /\ UpTo(-1) = << >>
<1>1. UpTo(0) \in Seq(Nat) /\ Len(UpTo(0)) = 0 /\ UpTo(-1) = UpTo(0)
  BY DEF UpTo
<1>2. QED BY <1>1, EmptySeq

LEMMA ProgramKept ==
  ASSUME [Bodies!Next]_bodyVars
  PROVE  cb_program' = cb_program /\ c' = c
BY DEF bodyVars, Bodies!Next, Bodies!Call, Bodies!Ask, Bodies!Destroy, Bodies!Await, Bodies!Return, Bodies!Generate,
       Bodies!Accumulate, Bodies!Yield, Bodies!FlattenLeaf, Bodies!FlattenOuter, Bodies!FlattenLook, Bodies!FlattenAsk,
       Bodies!Ended, Bodies!vars

LEMMA MainIsOne ==
  ASSUME cb_program /= "massive"
  PROVE  Bodies!Mains = {1}
BY DEF Bodies!Mains

\* The frames of a program whose main calls one coroutine, of which no other is called.
OneCoroutine ==
  /\ c = << >>
  /\ cb_frame = [f \in 1 .. 3 |-> IF f = 1 THEN cb_frame[1] ELSE << >>]
  /\ asked = [f \in {1} |-> asked[1]]
  /\ undefined = FALSE

PlainFrame == FrameOf({<< >>})

TheFrame(s) == cb_frame[1] \in PlainFrame /\ cb_frame[1].state = s

-----------------------------------------------------------------------------
AwaitPrograms == {"hello", "path", "awaiters"}
Awaits == Bodies!T.awaits
Ahead == IF Bodies!T.lazy THEN 1 ELSE 0
Owners == IF Bodies!T.owned THEN {1} ELSE {}

AwaitUnborn == asked[1] = -1 /\ cb_frame[1] = << >> /\ stack = << >> /\ owned = {} /\ shown = << >>
AwaitGone == /\ asked[1] = Awaits + Ahead /\ cb_frame[1] = << >> /\ stack = << >> /\ owned = {}
             /\ shown = UpTo(Awaits)
AwaitEnded == /\ asked[1] = Awaits + Ahead /\ TheFrame("final") /\ stack = << >> /\ owned = {1} /\ Bodies!T.owned
              /\ shown = UpTo(Awaits)
AwaitSuspended ==
  /\ asked[1] \in 0 .. Awaits + Ahead - 1 /\ TheFrame("suspended") /\ stack = << >> /\ owned = Owners
  /\ cb_frame[1].n = asked[1] - Ahead + 1 /\ shown = UpTo(cb_frame[1].n - 1)
  /\ cb_frame[1].point = IF cb_frame[1].n = 0 THEN "begin" ELSE "awaits"
AwaitInside ==
  /\ asked[1] \in 0 .. Awaits + Ahead /\ TheFrame("running") /\ stack = <<1>> /\ owned = Owners
  /\ cb_frame[1].n = asked[1] - Ahead
  /\ \/ cb_frame[1].point = "begin" /\ cb_frame[1].n = 0 /\ shown = << >>
     \/ cb_frame[1].point = "awaits" /\ cb_frame[1].n > 0 /\ shown = UpTo(cb_frame[1].n - 1)
     \/ cb_frame[1].point = "shown" /\ cb_frame[1].n > 0 /\ shown = UpTo(cb_frame[1].n)

\* main has been told of the awaits that it has resumed, and the body of the
\* one it is at.
AwaitInv ==
  /\ OneCoroutine
  /\ AwaitUnborn \/ AwaitGone \/ AwaitEnded \/ AwaitSuspended \/ AwaitInside

LEMMA AwaitNumbers ==
  ASSUME cb_program \in AwaitPrograms
  PROVE  /\ Awaits \in Nat /\ Awaits > 0 /\ Ahead \in {0, 1} /\ Bodies!Resumes[cb_program] = Awaits + Ahead
         /\ cb_program \in DOMAIN Bodies!Resumes
         /\ Bodies!T.owned \in BOOLEAN /\ Bodies!T.lazy \in BOOLEAN /\ Bodies!T.keeps = Bodies!T.owned
         /\ Bodies!T.keeps \in BOOLEAN
<1>1. CASE cb_program = "hello"
  <2>1. /\ Bodies!T.lazy = TRUE /\ Bodies!T.keeps = FALSE /\ Bodies!T.owned = FALSE /\ Bodies!T.awaits = 1
    BY <1>1, TypesAre DEF Bodies!T
  <2>2. Awaits = 1 /\ Ahead = 1
    BY <2>1 DEF Awaits, Ahead
  <2>3. Bodies!Resumes[cb_program] = 2 /\ cb_program \in DOMAIN Bodies!Resumes
    BY <1>1, ResumesAre
  <2>4. Bodies!T.owned \in BOOLEAN /\ Bodies!T.lazy \in BOOLEAN /\ Bodies!T.keeps = Bodies!T.owned /\ Bodies!T.keeps \in BOOLEAN
    BY <2>1
  <2>5. QED BY <2>2, <2>3, <2>4
<1>2. CASE cb_program = "path"
  <2>1. /\ Bodies!T.lazy = FALSE /\ Bodies!T.keeps = TRUE /\ Bodies!T.owned = TRUE /\ Bodies!T.awaits = 1
    BY <1>2, TypesAre DEF Bodies!T
  <2>2. Awaits = 1 /\ Ahead = 0
    BY <2>1 DEF Awaits, Ahead
  <2>3. Bodies!Resumes[cb_program] = 1 /\ cb_program \in DOMAIN Bodies!Resumes
    BY <1>2, ResumesAre
  <2>4. Bodies!T.owned \in BOOLEAN /\ Bodies!T.lazy \in BOOLEAN /\ Bodies!T.keeps = Bodies!T.owned /\ Bodies!T.keeps \in BOOLEAN
    BY <2>1
  <2>5. QED BY <2>2, <2>3, <2>4
<1>3. CASE cb_program = "awaiters"
  <2>1. /\ Bodies!T.lazy = TRUE /\ Bodies!T.keeps = TRUE /\ Bodies!T.owned = TRUE /\ Bodies!T.awaits = 3
    BY <1>3, TypesAre DEF Bodies!T
  <2>2. Awaits = 3 /\ Ahead = 1
    BY <2>1 DEF Awaits, Ahead
  <2>3. Bodies!Resumes[cb_program] = 4 /\ cb_program \in DOMAIN Bodies!Resumes
    BY <1>3, ResumesAre
  <2>4. Bodies!T.owned \in BOOLEAN /\ Bodies!T.lazy \in BOOLEAN /\ Bodies!T.keeps = Bodies!T.owned /\ Bodies!T.keeps \in BOOLEAN
    BY <2>1
  <2>5. QED BY <2>2, <2>3, <2>4
<1>4. QED BY <1>1, <1>2, <1>3 DEF AwaitPrograms

LEMMA NewFrameIs ==
  ASSUME NEW s \in {"suspended", "running"}, NEW n \in Nat
  PROVE  /\ Bodies!NewFrame(s, n, << >>, 3) \in PlainFrame
         /\ Bodies!NewFrame(s, n, << >>, 3).state = s /\ Bodies!NewFrame(s, n, << >>, 3).n = n
         /\ Bodies!NewFrame(s, n, << >>, 3).point = "begin"
<1> DEFINE none == << >>
           only == {none}
<1>1. none \in only /\ 3 \in 1 .. 3
  OBVIOUS
<1> HIDE DEF none, only
<1>2. /\ Bodies!NewFrame(s, n, none, 3) \in FrameOf(only)
      /\ Bodies!NewFrame(s, n, none, 3).state = s /\ Bodies!NewFrame(s, n, none, 3).n = n
      /\ Bodies!NewFrame(s, n, none, 3).point = "begin"
  BY <1>1 DEF PlainFrame, FrameOf, Bodies!NewFrame
<1>3. QED BY <1>2 DEF none, only, PlainFrame

LEMMA OneChanges ==
  ASSUME NEW fr, fr = [f \in 1 .. 3 |-> IF f = 1 THEN fr[1] ELSE << >>], NEW x
  PROVE  /\ [fr EXCEPT ![1] = x][1] = x
         /\ [fr EXCEPT ![1] = x] = [f \in 1 .. 3 |-> IF f = 1 THEN x ELSE << >>]
<1>1. DOMAIN fr = 1 .. 3 /\ 1 \in 1 .. 3 /\ \A f \in 1 .. 3 : f /= 1 => fr[f] = << >>
  OBVIOUS
<1>2. /\ DOMAIN [fr EXCEPT ![1] = x] = 1 .. 3
      /\ \A f \in 1 .. 3 : [fr EXCEPT ![1] = x][f] = IF f = 1 THEN x ELSE << >>
  BY <1>1
<1>3. QED BY <1>1, <1>2

LEMMA FrameSuspends ==
  ASSUME NEW r \in PlainFrame, NEW p \in {"begin", "awaits", "shown", "yielded", "look", "ask"}
  PROVE  LET new == [[r EXCEPT !.point = p, !.n = @ + 1] EXCEPT !.state = "suspended"]
         IN  new \in PlainFrame /\ new.state = "suspended" /\ new.n = r.n + 1 /\ new.point = p
<1> DEFINE mid == [r EXCEPT !.point = p, !.n = @ + 1]
<1>1. r.n + 1 \in Nat
  BY DEF PlainFrame, FrameOf
<1>2. mid \in PlainFrame /\ mid.n = r.n + 1 /\ mid.point = p
  BY <1>1 DEF PlainFrame, FrameOf
<1> HIDE DEF mid
<1>3. /\ [mid EXCEPT !.state = "suspended"] \in PlainFrame /\ [mid EXCEPT !.state = "suspended"].state = "suspended"
      /\ [mid EXCEPT !.state = "suspended"].n = r.n + 1 /\ [mid EXCEPT !.state = "suspended"].point = p
  BY <1>2 DEF PlainFrame, FrameOf
<1>4. QED BY <1>3 DEF mid

LEMMA AwaitWants ==
  ASSUME cb_program \in AwaitPrograms
  PROVE  Bodies!Wants(1) <=> asked[1] < Awaits + Ahead
<1>1. Bodies!Mains = {1} /\ ~(1 < 1)
  BY MainIsOne DEF AwaitPrograms
<1>2. Bodies!Wants(1) <=> asked[1] < Bodies!Resumes[cb_program] /\ \A g \in Bodies!Mains : g < 1 => asked[g] > asked[1]
  <2>1. cb_program \in DOMAIN Bodies!Resumes /\ cb_program \notin {"generator", "composed"} /\ cb_program /= "bench"
    BY AwaitNumbers DEF AwaitPrograms
  <2>2. QED BY <2>1 DEF Bodies!Wants
<1>3. \A g \in Bodies!Mains : ~(g < 1)
  BY <1>1
<1>4. QED BY <1>2, <1>3, AwaitNumbers

LEMMA AwaitCall ==
  ASSUME AwaitInv, cb_program \in AwaitPrograms, Bodies!Call(1)
  PROVE  AwaitInv'
<1>1. Bodies!Mains = {1}
  BY MainIsOne DEF AwaitPrograms
<1>2. asked[1] = -1 /\ stack = << >>
  BY DEF Bodies!Call
<1>3. AwaitUnborn
  BY <1>2, AwaitNumbers DEF AwaitInv, AwaitGone, AwaitEnded, AwaitSuspended, AwaitInside
<1> DEFINE s == IF Bodies!T.lazy THEN "suspended" ELSE "running"
<1>4. /\ cb_frame' = [cb_frame EXCEPT ![1] = Bodies!NewFrame(s, 0, << >>, 3)]
      /\ stack' = (IF Bodies!T.lazy THEN << >> ELSE <<1>>) /\ asked' = [asked EXCEPT ![1] = 0]
      /\ owned' = (IF Bodies!T.owned THEN owned \cup {1} ELSE owned)
      /\ UNCHANGED <<cb_program, c, shown, undefined>>
  BY DEF Bodies!Call, AwaitPrograms, AwaitInv, OneCoroutine
<1>5. OneCoroutine'
  BY <1>4 DEF AwaitInv, OneCoroutine
<1>6. cb_frame'[1] = Bodies!NewFrame(s, 0, << >>, 3) /\ asked'[1] = 0
  BY <1>4 DEF AwaitInv, OneCoroutine
<1>7. /\ cb_frame'[1] \in PlainFrame /\ cb_frame'[1].state = s
      /\ cb_frame'[1].n = 0 /\ cb_frame'[1].point = "begin"
  BY <1>6, NewFrameIs
<1>8. owned' = Owners' /\ shown' = << >>
  BY <1>3, <1>4 DEF Owners, AwaitUnborn, Bodies!T
<1>9. Bodies!T' = Bodies!T /\ Awaits' = Awaits /\ Ahead' = Ahead
  BY <1>4 DEF Bodies!T, Awaits, Ahead
<1>10. CASE Bodies!T.lazy
  <2>1. AwaitSuspended'
    BY <1>4, <1>6, <1>7, <1>8, <1>9, <1>10, AwaitNumbers, UpToNone DEF AwaitSuspended, TheFrame, Ahead
  <2>2. QED BY <2>1, <1>5 DEF AwaitInv
<1>11. CASE ~Bodies!T.lazy
  <2>1. AwaitInside'
    BY <1>4, <1>6, <1>7, <1>8, <1>9, <1>11, AwaitNumbers, UpToNone DEF AwaitInside, TheFrame, Ahead
  <2>2. QED BY <2>1, <1>5 DEF AwaitInv
<1>12. QED BY <1>10, <1>11

LEMMA AwaitAsk ==
  ASSUME AwaitInv, cb_program \in AwaitPrograms, Bodies!Ask(1)
  PROVE  AwaitInv'
<1>1. Bodies!Mains = {1}
  BY MainIsOne DEF AwaitPrograms
<1>2. asked[1] /= -1 /\ stack = << >> /\ asked[1] < Awaits + Ahead
  BY <1>1, AwaitWants DEF Bodies!Ask, Bodies!InMain
<1>3. AwaitSuspended
  BY <1>2, OneOnStack, AwaitNumbers DEF AwaitInv, AwaitUnborn, AwaitGone, AwaitEnded, AwaitInside
<1>4. Bodies!Suspended(1)
  BY <1>3, FramesExist DEF PlainFrame, AwaitSuspended, TheFrame, Bodies!Suspended, Bodies!Exists
<1>5. /\ cb_frame' = [cb_frame EXCEPT ![1].state = "running"] /\ stack' = <<1>>
      /\ asked' = [asked EXCEPT ![1] = @ + 1]
      /\ UNCHANGED <<cb_program, c, shown, owned>>
      /\ undefined' = (undefined \/ FALSE)
  BY <1>4 DEF Bodies!Ask, AwaitPrograms
<1>6. undefined' = FALSE
  BY <1>5 DEF AwaitInv, OneCoroutine
<1>7. OneCoroutine'
  BY <1>5, <1>6 DEF AwaitInv, OneCoroutine
<1>8. cb_frame'[1] = [cb_frame[1] EXCEPT !.state = "running"] /\ asked'[1] = asked[1] + 1
  BY <1>5 DEF AwaitInv, OneCoroutine
<1>9. /\ cb_frame'[1] \in PlainFrame /\ cb_frame'[1].state = "running"
      /\ cb_frame'[1].n = cb_frame[1].n /\ cb_frame'[1].point = cb_frame[1].point
  BY <1>3, <1>8 DEF AwaitSuspended, TheFrame, PlainFrame, FrameOf
<1>10. Bodies!T' = Bodies!T /\ Awaits' = Awaits /\ Ahead' = Ahead /\ Owners' = Owners
  BY <1>5 DEF Bodies!T, Awaits, Ahead, Owners
<1>11. shown' = shown /\ (cb_frame[1].n = 0 => shown = << >>)
  BY <1>3, <1>5, UpToNone DEF AwaitSuspended
<1>12. AwaitInside'
  <2>1. asked'[1] \in 0 .. Awaits + Ahead /\ cb_frame'[1].n = asked'[1] - Ahead
    BY <1>3, <1>8, <1>9, AwaitNumbers DEF AwaitSuspended
  <2>2. cb_frame[1].n \in Nat
    BY <1>3 DEF AwaitSuspended, TheFrame, PlainFrame, FrameOf
  <2>3. QED BY <2>1, <2>2, <1>3, <1>5, <1>9, <1>10, <1>11 DEF AwaitInside, AwaitSuspended, TheFrame
<1>13. QED BY <1>7, <1>12 DEF AwaitInv

LEMMA AwaitDestroy ==
  ASSUME AwaitInv, cb_program \in AwaitPrograms, Bodies!Destroy(1)
  PROVE  AwaitInv'
<1>1. Bodies!Mains = {1} /\ cb_program /= "bench"
  BY MainIsOne DEF AwaitPrograms
<1>2. asked[1] /= -1 /\ stack = << >> /\ 1 \in owned /\ ~Bodies!Wants(1)
  BY <1>1 DEF Bodies!Destroy, Bodies!InMain
<1>3. ~(asked[1] < Awaits + Ahead)
  BY <1>2, AwaitWants
<1>4. AwaitEnded
  BY <1>2, <1>3, OneOnStack, AwaitNumbers DEF AwaitInv, AwaitUnborn, AwaitGone, AwaitInside, AwaitSuspended
<1>5. /\ cb_frame' = [cb_frame EXCEPT ![1] = << >>] /\ owned' = owned \ {1}
      /\ UNCHANGED <<cb_program, c, shown, stack, asked>>
      /\ undefined' = (undefined \/ ~Bodies!Exists(1) \/ cb_frame[1].state = "running")
  BY DEF Bodies!Destroy
<1>6. undefined' = FALSE
  <2>1. Bodies!Exists(1) /\ cb_frame[1].state /= "running"
    BY <1>4, FramesExist DEF PlainFrame, AwaitEnded, TheFrame, Bodies!Exists
  <2>2. QED BY <2>1, <1>5 DEF AwaitInv, OneCoroutine
<1>7. OneCoroutine' /\ cb_frame'[1] = << >>
  <2>1. cb_frame = [f \in 1 .. 3 |-> IF f = 1 THEN cb_frame[1] ELSE << >>]
    BY DEF AwaitInv, OneCoroutine
  <2>2. /\ cb_frame'[1] = << >>
        /\ cb_frame' = [f \in 1 .. 3 |-> IF f = 1 THEN << >> ELSE << >>]
    BY ONLY <1>5, <2>1, OneChanges
  <2>3. QED BY <1>5, <1>6, <2>2 DEF AwaitInv, OneCoroutine
<1>8. Awaits' = Awaits /\ Ahead' = Ahead
  BY <1>5 DEF Bodies!T, Awaits, Ahead
<1>9. AwaitGone'
  BY <1>4, <1>5, <1>7, <1>8 DEF AwaitGone, AwaitEnded
<1>10. QED BY <1>7, <1>9 DEF AwaitInv

LEMMA AwaitStep ==
  ASSUME AwaitInv, cb_program \in AwaitPrograms, Bodies!Await
  PROVE  AwaitInv'
<1>1. AwaitInside
  BY DEF Bodies!Await, AwaitInv, AwaitUnborn, AwaitGone, AwaitEnded, AwaitSuspended
<1>2. Bodies!Top = 1 /\ Bodies!Front(stack) = << >>
  BY <1>1, OneOnStack DEF AwaitInside, Bodies!Top
<1> DEFINE me == cb_frame[1]
<1>3. me \in PlainFrame /\ me.n \in Nat /\ me.n = asked[1] - Ahead /\ 1 \in DOMAIN cb_frame
  BY <1>1 DEF AwaitInside, TheFrame, PlainFrame, FrameOf, AwaitInv, OneCoroutine
<1>4. UNCHANGED <<cb_program, c, asked, owned, undefined>>
  BY DEF Bodies!Await, Bodies!Return
<1>5. Bodies!T' = Bodies!T /\ Awaits' = Awaits /\ Ahead' = Ahead /\ Owners' = Owners
  BY <1>4 DEF Bodies!T, Awaits, Ahead, Owners
<1>6. CASE me.point = "awaits"
  <2>1. shown' = Append(shown, me.n) /\ cb_frame' = [cb_frame EXCEPT ![1].point = "shown"] /\ stack' = stack
    BY <1>2, <1>6 DEF Bodies!Await
  <2>2. OneCoroutine' /\ cb_frame'[1] = [me EXCEPT !.point = "shown"]
    BY <2>1, <1>4, OneChanges DEF AwaitInv, OneCoroutine
  <2>3. /\ cb_frame'[1] \in PlainFrame /\ cb_frame'[1].state = me.state
        /\ cb_frame'[1].n = me.n /\ cb_frame'[1].point = "shown"
    BY <2>2, <1>3 DEF PlainFrame, FrameOf
  <2>4. me.n > 0 /\ shown' = UpTo(me.n)
    BY <1>1, <1>3, <1>6, <2>1, UpToGrows DEF AwaitInside
  <2>5. AwaitInside'
    BY <1>1, <1>4, <1>5, <2>1, <2>3, <2>4 DEF AwaitInside, TheFrame
  <2>6. QED BY <2>2, <2>5 DEF AwaitInv
<1>7. CASE me.point /= "awaits" /\ me.n < Awaits
  <2> DEFINE new == [[me EXCEPT !.point = "awaits", !.n = @ + 1] EXCEPT !.state = "suspended"]
  <2>1. cb_frame' = [cb_frame EXCEPT ![1] = new] /\ stack' = << >> /\ shown' = shown
    BY <1>2, <1>7 DEF Bodies!Await, Bodies!Suspend, Awaits
  <2>9. /\ new \in PlainFrame /\ new.state = "suspended"
        /\ new.n = me.n + 1 /\ new.point = "awaits"
    BY <1>3, FrameSuspends
  <2> HIDE DEF new
  <2>2. OneCoroutine' /\ cb_frame'[1] = new
    BY <2>1, <1>4, OneChanges DEF AwaitInv, OneCoroutine
  <2>3. /\ cb_frame'[1] \in PlainFrame /\ cb_frame'[1].state = "suspended"
        /\ cb_frame'[1].n = me.n + 1 /\ cb_frame'[1].point = "awaits"
    BY <2>2, <2>9
  <2>4. shown' = UpTo(me.n)
    BY <1>1, <1>3, <1>7, <2>1, UpToNone DEF AwaitInside
  <2>5. asked[1] \in 0 .. Awaits + Ahead - 1
    BY <1>1, <1>3, <1>7, AwaitNumbers DEF AwaitInside
  <2>6. cb_frame'[1].n = asked[1] - Ahead + 1 /\ cb_frame'[1].n /= 0 /\ cb_frame'[1].n - 1 = me.n
    BY <1>3, <2>3, AwaitNumbers, <2>5
  <2>7. AwaitSuspended'
    BY <1>1, <1>4, <1>5, <2>1, <2>3, <2>4, <2>5, <2>6 DEF AwaitSuspended, AwaitInside, TheFrame
  <2>8. QED BY <2>2, <2>7 DEF AwaitInv
<1>8. CASE me.point /= "awaits" /\ ~(me.n < Awaits)
  <2>1. Bodies!Return
    BY <1>2, <1>8 DEF Bodies!Await, Awaits
  <2>2. /\ cb_frame' = [cb_frame EXCEPT ![1] = IF Bodies!T.keeps THEN [@ EXCEPT !.state = "final"] ELSE << >>]
        /\ stack' = << >> /\ shown' = shown
    BY <2>1, <1>2 DEF Bodies!Return
  <2>3. /\ OneCoroutine'
        /\ cb_frame'[1] = IF Bodies!T.keeps THEN [me EXCEPT !.state = "final"] ELSE << >>
    <3> DEFINE x == IF Bodies!T.keeps THEN [me EXCEPT !.state = "final"] ELSE << >>
    <3>1. cb_frame = [f \in 1 .. 3 |-> IF f = 1 THEN cb_frame[1] ELSE << >>]
      BY DEF AwaitInv, OneCoroutine
    <3>2. cb_frame' = [cb_frame EXCEPT ![1] = x]
      BY <2>2
    <3> HIDE DEF x
    <3>3. cb_frame'[1] = x /\ cb_frame' = [f \in 1 .. 3 |-> IF f = 1 THEN x ELSE << >>]
      BY ONLY <3>1, <3>2, OneChanges
    <3>4. OneCoroutine'
      BY <1>4, <2>2, <3>3 DEF AwaitInv, OneCoroutine
    <3>5. QED BY <3>3, <3>4 DEF x
  <2>4. me.n = Awaits /\ asked[1] = Awaits + Ahead
    BY <1>1, <1>3, <1>8, AwaitNumbers DEF AwaitInside
  <2>5. shown' = UpTo(Awaits)
    BY <1>1, <1>8, <2>2, <2>4, AwaitNumbers DEF AwaitInside
  <2>6. CASE Bodies!T.keeps
    <3>1. cb_frame'[1] \in PlainFrame /\ cb_frame'[1].state = "final"
      BY <2>3, <2>6, <1>3 DEF PlainFrame, FrameOf
    <3>2. AwaitEnded'
      <4>1. owned = {1} /\ Bodies!T.owned
        BY <1>1, <2>6, AwaitNumbers DEF AwaitInside, Owners
      <4>2. QED BY <1>4, <1>5, <2>2, <2>4, <2>5, <3>1, <4>1 DEF AwaitEnded, TheFrame
    <3>3. QED BY <2>3, <3>2 DEF AwaitInv
  <2>7. CASE ~Bodies!T.keeps
    <3>1. owned = {}
      BY <1>1, <2>7, AwaitNumbers DEF AwaitInside, Owners
    <3>2. AwaitGone'
      BY <1>4, <1>5, <2>2, <2>3, <2>4, <2>5, <2>7, <3>1 DEF AwaitGone
    <3>3. QED BY <2>3, <3>2 DEF AwaitInv
  <2>8. QED BY <2>6, <2>7, AwaitNumbers
<1>9. QED BY <1>6, <1>7, <1>8, <1>3, AwaitNumbers

LEMMA AwaitKept ==
  ASSUME AwaitInv, cb_program \in AwaitPrograms, [Bodies!Next]_bodyVars
  PROVE  AwaitInv'
<1>1. Bodies!Mains = {1} /\ cb_program \notin {"generator", "massive", "bench", "composed"}
  BY MainIsOne DEF AwaitPrograms
<1>2. CASE UNCHANGED bodyVars
  BY <1>2 DEF bodyVars, AwaitInv, OneCoroutine, AwaitUnborn, AwaitGone, AwaitEnded, AwaitSuspended, AwaitInside, TheFrame,
              Awaits, Ahead, Owners, Bodies!T
<1>3. CASE Bodies!Ended
  BY <1>2, <1>3 DEF Bodies!Ended, Bodies!vars, bodyVars
<1>4. CASE \E f \in Bodies!Mains : Bodies!Call(f) \/ Bodies!Ask(f) \/ Bodies!Destroy(f)
  BY <1>1, <1>4, AwaitCall, AwaitAsk, AwaitDestroy
<1>5. ~Bodies!Generate /\ ~Bodies!Accumulate /\ ~Bodies!FlattenLeaf /\ ~Bodies!FlattenOuter
      /\ ~Bodies!FlattenLook /\ ~Bodies!FlattenAsk
  BY <1>1 DEF Bodies!Generate, Bodies!Accumulate, Bodies!FlattenLeaf, Bodies!FlattenOuter, Bodies!FlattenLook,
              Bodies!FlattenAsk, Bodies!InFlatten
<1>6. QED
  BY <1>2, <1>3, <1>4, <1>5, AwaitStep DEF Bodies!Next

LEMMA AwaitInit ==
  ASSUME Bodies!Init, cb_program \in AwaitPrograms
  PROVE  AwaitInv
<1>1. Bodies!Mains = {1} /\ 1 .. 3 \cup {1} = 1 .. 3
  BY MainIsOne DEF AwaitPrograms
<1>2. /\ c = << >> /\ cb_frame = [f \in 1 .. 3 |-> << >>] /\ asked = [f \in {1} |-> -1]
      /\ stack = << >> /\ owned = {} /\ shown = << >> /\ undefined = FALSE
  BY <1>1 DEF Bodies!Init, AwaitPrograms
<1>3. QED BY <1>2 DEF AwaitInv, OneCoroutine, AwaitUnborn

BodiesRight ==
  /\ Bodies!FramesUsedWell /\ Bodies!AwaitsAnswered /\ Bodies!OrbitsFollowed
  /\ Bodies!FirstOneUnseen /\ Bodies!Flattened

LEMMA AwaitMeans ==
  ASSUME AwaitInv, cb_program \in AwaitPrograms
  PROVE  BodiesRight
<1>1. Bodies!Mains = {1} /\ cb_program \notin {"generator", "massive", "bench", "composed"}
  BY MainIsOne DEF AwaitPrograms
<1>2. Bodies!OrbitsFollowed /\ Bodies!FirstOneUnseen /\ Bodies!Flattened
  BY <1>1 DEF Bodies!OrbitsFollowed, Bodies!FirstOneUnseen, Bodies!Flattened
<1>3. Bodies!AwaitsAnswered
  <2> SUFFICES ASSUME stack = << >>, asked[1] /= -1
               PROVE  shown = UpTo(IF asked[1] < Ahead THEN 0 ELSE asked[1] - Ahead)
    BY <1>1 DEF Bodies!AwaitsAnswered, Bodies!InMain, Ahead, UpTo
  <2>1. CASE AwaitGone \/ AwaitEnded
    <3>1. asked[1] = Awaits + Ahead /\ shown = UpTo(Awaits)
      BY <2>1 DEF AwaitGone, AwaitEnded
    <3>2. ~(asked[1] < Ahead) /\ asked[1] - Ahead = Awaits
      BY <3>1, AwaitNumbers
    <3>3. QED BY <3>1, <3>2
  <2>2. CASE AwaitSuspended
    <3>1. asked[1] \in Nat /\ shown = UpTo(asked[1] - Ahead)
      <4>1. asked[1] \in Nat /\ cb_frame[1].n - 1 = asked[1] - Ahead
        BY <2>2, AwaitNumbers DEF AwaitSuspended
      <4>2. QED BY <2>2, <4>1 DEF AwaitSuspended
    <3>2. CASE asked[1] < Ahead
      <4>1. asked[1] - Ahead = -1
        BY <3>1, <3>2, AwaitNumbers
      <4>2. QED BY <3>1, <3>2, <4>1, UpToNone
    <3>3. QED BY <3>1, <3>2
  <2>3. QED BY <2>1, <2>2, OneOnStack DEF AwaitInv, AwaitUnborn, AwaitInside
<1>4. Bodies!FramesUsedWell
  <2>1. ~undefined
    BY DEF AwaitInv, OneCoroutine
  <2>2. ASSUME Bodies!Exited PROVE cb_frame[1] = << >>
    <3>1. stack = << >> /\ asked[1] /= -1 /\ owned = {} /\ (Bodies!T.owned \/ ~Bodies!Wants(1))
      BY <2>2, <1>1 DEF Bodies!Exited, Bodies!InMain
    <3>2. ~AwaitEnded
      BY <3>1 DEF AwaitEnded
    <3>3. ~AwaitSuspended
      <4>1. SUFFICES ASSUME AwaitSuspended PROVE FALSE
        OBVIOUS
      <4>2. ~Bodies!T.owned
        BY <4>1, <3>1 DEF AwaitSuspended, Owners
      <4>3. ~Bodies!Wants(1)
        BY <4>2, <3>1, AwaitNumbers
      <4>4. ~(asked[1] < Awaits + Ahead)
        BY <4>3, AwaitWants
      <4>5. QED BY <4>1, <4>4, AwaitNumbers DEF AwaitSuspended
    <3>4. QED BY <3>1, <3>2, <3>3, OneOnStack DEF AwaitInv, AwaitUnborn, AwaitInside, AwaitGone
  <2>3. QED BY <2>1, <2>2 DEF Bodies!FramesUsedWell, Bodies!Exists, AwaitInv, OneCoroutine
<1>5. QED BY <1>2, <1>3, <1>4 DEF BodiesRight

LEMMA OwnedTypes ==
  /\ cb_program \in {"generator", "massive"} => Bodies!T.lazy /\ Bodies!T.keeps /\ Bodies!T.owned /\ ~(Bodies!T.awaits > 0)
  /\ cb_program \in {"bench", "composed"} => ~Bodies!T.lazy /\ Bodies!T.keeps /\ Bodies!T.owned /\ ~(Bodies!T.awaits > 0)
<1>1. cb_program \in {"generator", "massive"} => Bodies!T = [lazy |-> TRUE, keeps |-> TRUE, owned |-> TRUE, awaits |-> 0]
  BY TypesAre DEF Bodies!T
<1>2. cb_program \in {"bench", "composed"} => Bodies!T = [lazy |-> FALSE, keeps |-> TRUE, owned |-> TRUE, awaits |-> 0]
  BY TypesAre DEF Bodies!T
<1>3. QED BY <1>1, <1>2

Yielded(r, n, v) == [[[r EXCEPT !.n = n, !.point = "yielded"] EXCEPT !.current = v] EXCEPT !.state = "suspended"]

LEMMA FrameYields ==
  ASSUME NEW r \in PlainFrame, NEW n \in Nat, NEW v \in Int
  PROVE  /\ Yielded(r, n, v) \in PlainFrame /\ Yielded(r, n, v).state = "suspended" /\ Yielded(r, n, v).n = n
         /\ Yielded(r, n, v).point = "yielded" /\ Yielded(r, n, v).current = v
<1> DEFINE low == [r EXCEPT !.n = n, !.point = "yielded"]
           mid == [low EXCEPT !.current = v]
<1>1. low \in PlainFrame /\ low.n = n /\ low.point = "yielded"
  BY DEF PlainFrame, FrameOf
<1> HIDE DEF low
<1>2. mid \in PlainFrame /\ mid.n = n /\ mid.point = "yielded" /\ mid.current = v
  BY <1>1 DEF PlainFrame, FrameOf
<1> HIDE DEF mid
<1>3. /\ [mid EXCEPT !.state = "suspended"] \in PlainFrame /\ [mid EXCEPT !.state = "suspended"].state = "suspended"
      /\ [mid EXCEPT !.state = "suspended"].n = n /\ [mid EXCEPT !.state = "suspended"].point = "yielded"
      /\ [mid EXCEPT !.state = "suspended"].current = v
  BY <1>2 DEF PlainFrame, FrameOf
<1>4. QED BY <1>3 DEF mid, low, Yielded

LEMMA FrameResumes ==
  ASSUME NEW r \in PlainFrame, NEW s \in {"running", "final"}
  PROVE  /\ [r EXCEPT !.state = s] \in PlainFrame /\ [r EXCEPT !.state = s].state = s
         /\ [r EXCEPT !.state = s].n = r.n /\ [r EXCEPT !.state = s].point = r.point
         /\ [r EXCEPT !.state = s].current = r.current
BY DEF PlainFrame, FrameOf

LEMMA AfterIs ==
  ASSUME NEW n \in Nat
  PROVE  Bodies!After(n) \in Nat
BY DEF Bodies!After

-----------------------------------------------------------------------------
\* generator.cpp.
Orbit(s) ==
  /\ s \in Seq(Nat)
  /\ s /= << >> => s[1] = FirstOne
  /\ \A k \in 2 .. Len(s) : s[k - 1] /= 1 /\ s[k] = Bodies!After(s[k - 1])

AtLast ==
  \/ cb_frame[1].point = "begin" /\ cb_frame[1].n = FirstOne /\ shown = << >>
  \/ cb_frame[1].point = "yielded" /\ shown /= << >> /\ cb_frame[1].n = shown[Len(shown)]

GeneratorUnborn == asked[1] = -1 /\ cb_frame[1] = << >> /\ stack = << >> /\ owned = {} /\ shown = << >>
GeneratorSuspended == asked[1] \in Nat /\ TheFrame("suspended") /\ stack = << >> /\ owned = {1} /\ AtLast
GeneratorInside == asked[1] \in Nat /\ TheFrame("running") /\ stack = <<1>> /\ owned = {1} /\ AtLast
GeneratorEnded == /\ asked[1] \in Nat /\ TheFrame("final") /\ stack = << >> /\ owned = {1}
                  /\ shown /= << >> /\ shown[Len(shown)] = 1
GeneratorGone == /\ asked[1] \in Nat /\ cb_frame[1] = << >> /\ stack = << >> /\ owned = {}
                 /\ shown /= << >> /\ shown[Len(shown)] = 1

\* The local value of the body is the last that main has shown.
GeneratorInv ==
  /\ OneCoroutine /\ Orbit(shown)
  /\ GeneratorUnborn \/ GeneratorSuspended \/ GeneratorInside \/ GeneratorEnded \/ GeneratorGone

LEMMA OrbitGrows ==
  ASSUME NEW s, Orbit(s), NEW n \in Nat,
         IF s = << >> THEN n = FirstOne ELSE s[Len(s)] /= 1 /\ n = Bodies!After(s[Len(s)])
  PROVE  Orbit(Append(s, n)) /\ Append(s, n) /= << >> /\ Append(s, n)[Len(Append(s, n))] = n
<1> DEFINE t == Append(s, n)
<1>1. s \in Seq(Nat) /\ Len(s) \in Nat /\ (s = << >> => Len(s) = 0) /\ (s /= << >> => Len(s) > 0)
  BY LenProperties, EmptySeq DEF Orbit
<1>2. /\ t \in Seq(Nat) /\ t /= << >> /\ Len(t) = Len(s) + 1
      /\ \A k \in 1 .. Len(s) : t[k] = s[k]
      /\ t[Len(s) + 1] = n
  BY <1>1, AppendProperties
<1> HIDE DEF t
<1>3. t[1] = FirstOne
  BY <1>1, <1>2 DEF Orbit
<1>4. ASSUME NEW k \in 2 .. Len(t) PROVE t[k - 1] /= 1 /\ t[k] = Bodies!After(t[k - 1])
  <2>1. CASE k <= Len(s)
    <3>1. k \in 2 .. Len(s) /\ k - 1 \in 1 .. Len(s) /\ k \in 1 .. Len(s)
      BY <1>1, <1>2, <2>1
    <3>2. t[k - 1] = s[k - 1] /\ t[k] = s[k]
      BY <1>2, <3>1
    <3>3. QED BY <3>1, <3>2 DEF Orbit
  <2>2. CASE k = Len(s) + 1
    <3>1. k - 1 = Len(s) /\ Len(s) \in 1 .. Len(s) /\ s /= << >>
      BY <1>1, <1>2, <2>2
    <3>2. t[k - 1] = s[Len(s)] /\ t[k] = n
      BY <1>2, <3>1, <2>2
    <3>3. QED BY <3>1, <3>2
  <2>3. QED BY <1>1, <1>2, <2>1, <2>2
<1>5. Orbit(t)
  BY <1>2, <1>3, <1>4 DEF Orbit
<1>6. QED BY <1>2, <1>5 DEF t

LEMMA GeneratorStep ==
  ASSUME GeneratorInv, cb_program = "generator", Bodies!Generate
  PROVE  GeneratorInv'
<1>1. GeneratorInside
  BY DEF Bodies!Generate, GeneratorInv, GeneratorUnborn, GeneratorGone, GeneratorEnded, GeneratorSuspended
<1>2. Bodies!Top = 1 /\ Bodies!Front(stack) = << >>
  BY <1>1, OneOnStack DEF GeneratorInside, Bodies!Top
<1> DEFINE me == cb_frame[1]
           n == IF me.point = "begin" THEN me.n ELSE Bodies!After(me.n)
           new == [[[me EXCEPT !.n = n, !.point = "yielded"] EXCEPT !.current = n] EXCEPT !.state = "suspended"]
<1>3. me \in PlainFrame /\ me.n \in Nat /\ AtLast
  BY <1>1 DEF GeneratorInside, TheFrame, PlainFrame, FrameOf
<1>4. UNCHANGED <<cb_program, c, asked, owned, undefined>>
  BY DEF Bodies!Generate, Bodies!Return, Bodies!Yield
<1>5. CASE me.point = "yielded" /\ me.n = 1
  <2>1. cb_frame' = [cb_frame EXCEPT ![1] = [me EXCEPT !.state = "final"]] /\ stack' = << >> /\ shown' = shown
    BY <1>2, <1>5, OwnedTypes DEF Bodies!Generate, Bodies!Return
  <2>2. OneCoroutine' /\ cb_frame'[1] = [me EXCEPT !.state = "final"]
    BY <2>1, <1>4, OneChanges DEF GeneratorInv, OneCoroutine
  <2>3. cb_frame'[1] \in PlainFrame /\ cb_frame'[1].state = "final"
    BY <2>2, <1>3, FrameResumes
  <2>4. shown /= << >> /\ shown[Len(shown)] = 1
    BY <1>3, <1>5 DEF AtLast
  <2>5. GeneratorEnded'
    BY <1>1, <1>4, <2>1, <2>3, <2>4 DEF GeneratorEnded, GeneratorInside, TheFrame
  <2>6. Orbit(shown)'
    BY <2>1 DEF GeneratorInv
  <2>7. QED BY <2>2, <2>5, <2>6 DEF GeneratorInv
<1>6. CASE ~(me.point = "yielded" /\ me.n = 1)
  <2>1. cb_frame' = [cb_frame EXCEPT ![1] = new] /\ stack' = << >> /\ shown' = Append(shown, n)
    BY <1>2, <1>6 DEF Bodies!Generate, Bodies!Yield, Bodies!Suspend
  <2>2. n \in Nat
    BY <1>3, AfterIs
  <2>3. new \in PlainFrame /\ new.state = "suspended" /\ new.n = n /\ new.point = "yielded"
    <3> HIDE DEF n
    <3>1. n \in Int /\ me \in PlainFrame
      BY <2>2, <1>3
    <3>3. new = Yielded(me, n, n)
      BY DEF Yielded
    <3> HIDE DEF me, new
    <3>2. QED BY <2>2, <3>1, <3>3, FrameYields
  <2>4. IF shown = << >> THEN n = FirstOne ELSE shown[Len(shown)] /= 1 /\ n = Bodies!After(shown[Len(shown)])
    BY <1>3, <1>6 DEF AtLast
  <2> HIDE DEF new, n
  <2>5. Orbit(shown') /\ shown' /= << >> /\ shown'[Len(shown')] = n
    BY <2>1, <2>2, <2>4, OrbitGrows DEF GeneratorInv
  <2>6. OneCoroutine' /\ cb_frame'[1] = new
    BY <2>1, <1>4, OneChanges DEF GeneratorInv, OneCoroutine
  <2>7. AtLast'
    BY <2>3, <2>5, <2>6 DEF AtLast
  <2>8. GeneratorSuspended'
    BY <1>1, <1>4, <2>1, <2>3, <2>6, <2>7 DEF GeneratorSuspended, GeneratorInside, TheFrame
  <2>9. QED BY <2>5, <2>6, <2>8 DEF GeneratorInv
<1>7. QED BY <1>5, <1>6

LEMMA GeneratorMain ==
  ASSUME GeneratorInv, cb_program = "generator",
         Bodies!Call(1) \/ Bodies!Ask(1) \/ Bodies!Destroy(1)
  PROVE  GeneratorInv'
<1>1. Bodies!Mains = {1}
  BY MainIsOne
<1>2. Bodies!Wants(1) <=> ~Bodies!Done(1)
  BY DEF Bodies!Wants, Bodies!Resumes
<1>3. CASE Bodies!Call(1)
  <2>1. asked[1] = -1
    BY <1>3 DEF Bodies!Call
  <2>2. GeneratorUnborn
    BY <2>1 DEF GeneratorInv, GeneratorSuspended, GeneratorInside, GeneratorEnded, GeneratorGone
  <2>3. /\ cb_frame' = [cb_frame EXCEPT ![1] = Bodies!NewFrame("suspended", FirstOne, << >>, 3)]
        /\ stack' = << >> /\ asked' = [asked EXCEPT ![1] = 0] /\ owned' = owned \cup {1}
        /\ UNCHANGED <<cb_program, c, shown, undefined>>
    BY <1>3, OwnedTypes DEF Bodies!Call, GeneratorInv, OneCoroutine
  <2>4. /\ OneCoroutine' /\ asked'[1] = 0
        /\ cb_frame'[1] = Bodies!NewFrame("suspended", FirstOne, << >>, 3)
    BY <2>3, OneChanges DEF GeneratorInv, OneCoroutine
  <2>5. /\ cb_frame'[1] \in PlainFrame /\ cb_frame'[1].state = "suspended"
        /\ cb_frame'[1].n = FirstOne /\ cb_frame'[1].point = "begin"
    BY <2>4, NewFrameIs, CoroutinesAssumption DEF CoroutinesAssumption
  <2>6. GeneratorSuspended'
    BY <2>2, <2>3, <2>4, <2>5 DEF GeneratorSuspended, GeneratorUnborn, TheFrame, AtLast
  <2>7. Orbit(shown)'
    BY <2>3 DEF GeneratorInv
  <2>8. QED BY <2>4, <2>6, <2>7 DEF GeneratorInv
<1>4. CASE Bodies!Ask(1)
  <2>1. asked[1] /= -1 /\ stack = << >> /\ 1 \in owned /\ ~Bodies!Done(1)
    BY <1>1, <1>2, <1>4, OwnedTypes DEF Bodies!Ask, Bodies!InMain
  <2>2. GeneratorSuspended
    BY <2>1, OneOnStack, FramesExist
    DEF GeneratorInv, GeneratorUnborn, GeneratorInside, GeneratorEnded, GeneratorGone, Bodies!Done, Bodies!Exists,
        TheFrame, PlainFrame
  <2>3. Bodies!Suspended(1)
    BY <2>2, FramesExist DEF GeneratorSuspended, TheFrame, PlainFrame, Bodies!Suspended, Bodies!Exists
  <2>4. /\ cb_frame' = [cb_frame EXCEPT ![1].state = "running"] /\ stack' = <<1>>
        /\ asked' = [asked EXCEPT ![1] = @ + 1]
        /\ UNCHANGED <<cb_program, c, shown, owned>> /\ undefined' = (undefined \/ FALSE)
    BY <1>4, <2>3 DEF Bodies!Ask
  <2>5. /\ OneCoroutine' /\ cb_frame'[1] = [cb_frame[1] EXCEPT !.state = "running"]
        /\ asked'[1] = asked[1] + 1
    BY <2>4, OneChanges DEF GeneratorInv, OneCoroutine
  <2>6. /\ cb_frame'[1] \in PlainFrame /\ cb_frame'[1].state = "running"
        /\ cb_frame'[1].n = cb_frame[1].n /\ cb_frame'[1].point = cb_frame[1].point
    <3>1. cb_frame[1] \in PlainFrame
      BY <2>2 DEF GeneratorSuspended, TheFrame
    <3>2. QED BY <2>5, <3>1, FrameResumes
  <2>7. AtLast'
    BY <2>2, <2>4, <2>6 DEF GeneratorSuspended, AtLast
  <2>8. GeneratorInside'
    BY <2>2, <2>4, <2>5, <2>6, <2>7 DEF GeneratorSuspended, GeneratorInside, TheFrame
  <2>9. Orbit(shown)'
    BY <2>4 DEF GeneratorInv
  <2>10. QED BY <2>5, <2>8, <2>9 DEF GeneratorInv
<1>5. CASE Bodies!Destroy(1)
  <2>1. stack = << >> /\ 1 \in owned /\ Bodies!Done(1)
    BY <1>2, <1>5 DEF Bodies!Destroy, Bodies!InMain
  <2>2. GeneratorEnded
    BY <2>1, OneOnStack DEF GeneratorInv, GeneratorUnborn, GeneratorInside, GeneratorSuspended, GeneratorGone, Bodies!Done,
       TheFrame
  <2>3. /\ cb_frame' = [cb_frame EXCEPT ![1] = << >>] /\ owned' = owned \ {1}
        /\ UNCHANGED <<cb_program, c, stack, asked, shown>>
        /\ undefined' = (undefined \/ FALSE)
    <3>1. Bodies!Exists(1) /\ cb_frame[1].state /= "running"
      BY <2>2, FramesExist DEF GeneratorEnded, TheFrame, PlainFrame, Bodies!Exists
    <3>2. QED BY <1>5, <3>1 DEF Bodies!Destroy
  <2>4. OneCoroutine' /\ cb_frame'[1] = << >>
    BY <2>3, OneChanges DEF GeneratorInv, OneCoroutine
  <2>5. GeneratorGone'
    BY <2>2, <2>3, <2>4 DEF GeneratorGone, GeneratorEnded
  <2>6. Orbit(shown)'
    BY <2>3 DEF GeneratorInv
  <2>7. QED BY <2>4, <2>5, <2>6 DEF GeneratorInv
<1>6. QED BY <1>3, <1>4, <1>5

LEMMA GeneratorKept ==
  ASSUME GeneratorInv, cb_program = "generator", [Bodies!Next]_bodyVars
  PROVE  GeneratorInv'
<1>1. CASE UNCHANGED bodyVars
  BY <1>1 DEF bodyVars, GeneratorInv, OneCoroutine, GeneratorUnborn, GeneratorGone, GeneratorEnded, GeneratorSuspended,
              GeneratorInside, TheFrame, AtLast
<1>2. CASE Bodies!Ended
  BY <1>1, <1>2 DEF Bodies!Ended, Bodies!vars, bodyVars
<1>3. CASE \E f \in Bodies!Mains : Bodies!Call(f) \/ Bodies!Ask(f) \/ Bodies!Destroy(f)
  BY <1>3, MainIsOne, GeneratorMain
<1>4. ~Bodies!Await /\ ~Bodies!Accumulate /\ ~Bodies!FlattenLeaf /\ ~Bodies!FlattenOuter
      /\ ~Bodies!FlattenLook /\ ~Bodies!FlattenAsk
  BY OwnedTypes DEF Bodies!Await, Bodies!Accumulate, Bodies!FlattenLeaf, Bodies!FlattenOuter, Bodies!FlattenLook,
              Bodies!FlattenAsk, Bodies!InFlatten
<1>5. QED
  BY <1>1, <1>2, <1>3, <1>4, GeneratorStep DEF Bodies!Next

LEMMA OneInit ==
  ASSUME Bodies!Init, cb_program \notin {"massive", "composed"}
  PROVE  /\ OneCoroutine
         /\ asked[1] = -1 /\ cb_frame[1] = << >> /\ stack = << >> /\ owned = {} /\ shown = << >>
<1>1. Bodies!Mains = {1} /\ 1 .. 3 \cup {1} = 1 .. 3
  BY MainIsOne
<1>2. /\ c = << >> /\ cb_frame = [f \in 1 .. 3 |-> << >>] /\ asked = [f \in {1} |-> -1]
      /\ stack = << >> /\ owned = {} /\ shown = << >> /\ undefined = FALSE
  BY <1>1 DEF Bodies!Init
<1>3. QED BY <1>2 DEF OneCoroutine

LEMMA GeneratorInit ==
  ASSUME Bodies!Init, cb_program = "generator"
  PROVE  GeneratorInv
<1>1. Orbit(<< >>)
  <2>1. << >> \in Seq(Nat) /\ Len(<< >>) = 0
    BY EmptySeq
  <2>2. QED BY <2>1 DEF Orbit
<1>2. QED BY <1>1, OneInit DEF GeneratorInv, GeneratorUnborn

LEMMA GeneratorMeans ==
  ASSUME GeneratorInv, cb_program = "generator"
  PROVE  BodiesRight
<1>1. Bodies!AwaitsAnswered /\ Bodies!FirstOneUnseen /\ Bodies!Flattened
  BY OwnedTypes DEF Bodies!AwaitsAnswered, Bodies!FirstOneUnseen, Bodies!Flattened
<1>2. ~undefined
  BY DEF GeneratorInv, OneCoroutine
<1>3. Bodies!Exited => GeneratorGone
  BY MainIsOne, OneOnStack DEF Bodies!Exited, Bodies!InMain, GeneratorInv, GeneratorUnborn, GeneratorSuspended, GeneratorInside, GeneratorEnded
<1>4. Bodies!FramesUsedWell
  BY <1>2, <1>3 DEF Bodies!FramesUsedWell, Bodies!Exists, GeneratorInv, OneCoroutine, GeneratorGone
<1>5. Bodies!OrbitsFollowed
  BY <1>3 DEF Bodies!OrbitsFollowed, GeneratorInv, Orbit, GeneratorGone, Bodies!Last
<1>6. QED BY <1>1, <1>4, <1>5 DEF BodiesRight

Counted(r) == [[[r EXCEPT !.n = @ + 1] EXCEPT !.current = r.n + 1] EXCEPT !.state = "suspended"]

LEMMA FrameCounts ==
  ASSUME NEW r \in PlainFrame
  PROVE  /\ Counted(r) \in PlainFrame /\ Counted(r).state = "suspended" /\ Counted(r).n = r.n + 1
         /\ Counted(r).current = r.n + 1
<1> DEFINE low == [r EXCEPT !.n = @ + 1]
           mid == [low EXCEPT !.current = r.n + 1]
<1>1. r.n + 1 \in Nat /\ r.n + 1 \in Int
  BY DEF PlainFrame, FrameOf
<1>2. low \in PlainFrame /\ low.n = r.n + 1
  BY <1>1 DEF PlainFrame, FrameOf
<1> HIDE DEF low
<1>3. mid \in PlainFrame /\ mid.n = r.n + 1 /\ mid.current = r.n + 1
  BY <1>1, <1>2 DEF PlainFrame, FrameOf
<1> HIDE DEF mid
<1>4. /\ [mid EXCEPT !.state = "suspended"] \in PlainFrame /\ [mid EXCEPT !.state = "suspended"].state = "suspended"
      /\ [mid EXCEPT !.state = "suspended"].n = r.n + 1 /\ [mid EXCEPT !.state = "suspended"].current = r.n + 1
  BY <1>3 DEF PlainFrame, FrameOf
<1>5. QED BY <1>4 DEF mid, low, Counted

BenchUnborn == asked[1] = -1 /\ cb_frame[1] = << >> /\ stack = << >> /\ owned = {}
BenchInside == /\ asked[1] \in Nat /\ TheFrame("running") /\ stack = <<1>> /\ owned = {1}
               /\ cb_frame[1].n = asked[1]
BenchSuspended == /\ asked[1] \in Nat /\ TheFrame("suspended") /\ stack = << >> /\ owned = {1}
                  /\ cb_frame[1].n = asked[1] + 1 /\ cb_frame[1].current = asked[1] + 1
BenchGone == asked[1] \in Nat /\ cb_frame[1] = << >> /\ stack = << >> /\ owned = {}

\* concurrency--benchmark.cpp: the body is one value ahead of main.
BenchInv ==
  /\ OneCoroutine
  /\ BenchUnborn \/ BenchInside \/ BenchSuspended \/ BenchGone

LEMMA BenchStep ==
  ASSUME BenchInv, cb_program = "bench", Bodies!Accumulate
  PROVE  BenchInv'
<1>1. BenchInside
  BY DEF Bodies!Accumulate, BenchInv, BenchUnborn, BenchSuspended, BenchGone
<1>2. Bodies!Top = 1 /\ Bodies!Front(stack) = << >>
  BY <1>1, OneOnStack DEF BenchInside, Bodies!Top
<1> DEFINE me == cb_frame[1]
<1>3. me \in PlainFrame /\ me.n = asked[1]
  BY <1>1 DEF BenchInside, TheFrame
<1>4. /\ cb_frame' = [cb_frame EXCEPT ![1] = Counted(me)] /\ stack' = << >>
      /\ UNCHANGED <<cb_program, c, asked, owned, undefined>>
  BY <1>2 DEF Bodies!Accumulate, Bodies!Yield, Bodies!Suspend, Counted
<1>5. OneCoroutine' /\ cb_frame'[1] = Counted(me)
  BY <1>4, OneChanges DEF BenchInv, OneCoroutine
<1>6. /\ cb_frame'[1] \in PlainFrame /\ cb_frame'[1].state = "suspended"
      /\ cb_frame'[1].n = asked[1] + 1 /\ cb_frame'[1].current = asked[1] + 1
  BY <1>3, <1>5, FrameCounts
<1>7. BenchSuspended'
  BY <1>1, <1>4, <1>6 DEF BenchSuspended, BenchInside, TheFrame
<1>8. QED BY <1>5, <1>7 DEF BenchInv

LEMMA BenchMain ==
  ASSUME BenchInv, cb_program = "bench",
         Bodies!Call(1) \/ Bodies!Ask(1) \/ Bodies!Destroy(1)
  PROVE  BenchInv'
<1>1. Bodies!Mains = {1}
  BY MainIsOne
<1>2. CASE Bodies!Call(1)
  <2>1. asked[1] = -1
    BY <1>2 DEF Bodies!Call
  <2>2. BenchUnborn
    BY <2>1 DEF BenchInv, BenchSuspended, BenchInside, BenchGone
  <2>3. /\ cb_frame' = [cb_frame EXCEPT ![1] = Bodies!NewFrame("running", 0, << >>, 3)]
        /\ stack' = <<1>> /\ asked' = [asked EXCEPT ![1] = 0] /\ owned' = owned \cup {1}
        /\ UNCHANGED <<cb_program, c, shown, undefined>>
    BY <1>2, OwnedTypes DEF Bodies!Call, BenchInv, OneCoroutine
  <2>4. OneCoroutine' /\ asked'[1] = 0 /\ cb_frame'[1] = Bodies!NewFrame("running", 0, << >>, 3)
    BY <2>3, OneChanges DEF BenchInv, OneCoroutine
  <2>5. cb_frame'[1] \in PlainFrame /\ cb_frame'[1].state = "running" /\ cb_frame'[1].n = 0
    BY <2>4, NewFrameIs
  <2>6. BenchInside'
    BY <2>2, <2>3, <2>4, <2>5 DEF BenchInside, BenchUnborn, TheFrame
  <2>7. QED BY <2>4, <2>6 DEF BenchInv
<1>3. CASE Bodies!Ask(1)
  <2>1. stack = << >> /\ 1 \in owned
    BY <1>3, OwnedTypes DEF Bodies!Ask, Bodies!InMain
  <2>2. BenchSuspended
    BY <2>1, OneOnStack DEF BenchInv, BenchUnborn, BenchInside, BenchGone
  <2>3. Bodies!Suspended(1)
    BY <2>2, FramesExist DEF BenchSuspended, TheFrame, PlainFrame, Bodies!Suspended, Bodies!Exists
  <2>4. /\ cb_frame' = [cb_frame EXCEPT ![1].state = "running"] /\ stack' = <<1>>
        /\ asked' = [asked EXCEPT ![1] = @ + 1]
        /\ UNCHANGED <<cb_program, c, owned>> /\ undefined' = (undefined \/ FALSE)
    BY <1>3, <2>3 DEF Bodies!Ask
  <2>5. /\ OneCoroutine' /\ cb_frame'[1] = [cb_frame[1] EXCEPT !.state = "running"]
        /\ asked'[1] = asked[1] + 1
    BY <2>4, OneChanges DEF BenchInv, OneCoroutine
  <2>6. cb_frame'[1] \in PlainFrame /\ cb_frame'[1].state = "running" /\ cb_frame'[1].n = cb_frame[1].n
    <3>1. cb_frame[1] \in PlainFrame
      BY <2>2 DEF BenchSuspended, TheFrame
    <3>2. QED BY <2>5, <3>1, FrameResumes
  <2>7. BenchInside'
    BY <2>2, <2>4, <2>5, <2>6 DEF BenchSuspended, BenchInside, TheFrame
  <2>8. QED BY <2>5, <2>7 DEF BenchInv
<1>4. CASE Bodies!Destroy(1)
  <2>1. stack = << >> /\ 1 \in owned
    BY <1>4 DEF Bodies!Destroy, Bodies!InMain
  <2>2. BenchSuspended
    BY <2>1, OneOnStack DEF BenchInv, BenchUnborn, BenchInside, BenchGone
  <2>3. /\ cb_frame' = [cb_frame EXCEPT ![1] = << >>] /\ owned' = owned \ {1}
        /\ UNCHANGED <<cb_program, c, stack, asked, shown>>
        /\ undefined' = (undefined \/ FALSE)
    <3>1. Bodies!Exists(1) /\ cb_frame[1].state /= "running"
      BY <2>2, FramesExist DEF BenchSuspended, TheFrame, PlainFrame, Bodies!Exists
    <3>2. QED BY <1>4, <3>1 DEF Bodies!Destroy
  <2>4. OneCoroutine' /\ cb_frame'[1] = << >>
    BY <2>3, OneChanges DEF BenchInv, OneCoroutine
  <2>5. BenchGone'
    BY <2>2, <2>3, <2>4 DEF BenchGone, BenchSuspended
  <2>6. QED BY <2>4, <2>5 DEF BenchInv
<1>5. QED BY <1>2, <1>3, <1>4

LEMMA BenchKept ==
  ASSUME BenchInv, cb_program = "bench", [Bodies!Next]_bodyVars
  PROVE  BenchInv'
<1>1. CASE UNCHANGED bodyVars
  BY <1>1 DEF bodyVars, BenchInv, OneCoroutine, BenchUnborn, BenchGone, BenchSuspended, BenchInside, TheFrame
<1>2. CASE Bodies!Ended
  BY <1>1, <1>2 DEF Bodies!Ended, Bodies!vars, bodyVars
<1>3. CASE \E f \in Bodies!Mains : Bodies!Call(f) \/ Bodies!Ask(f) \/ Bodies!Destroy(f)
  BY <1>3, MainIsOne, BenchMain
<1>4. ~Bodies!Await /\ ~Bodies!Generate /\ ~Bodies!FlattenLeaf /\ ~Bodies!FlattenOuter
      /\ ~Bodies!FlattenLook /\ ~Bodies!FlattenAsk
  BY OwnedTypes DEF Bodies!Await, Bodies!Generate, Bodies!FlattenLeaf, Bodies!FlattenOuter, Bodies!FlattenLook,
              Bodies!FlattenAsk, Bodies!InFlatten
<1>5. QED
  BY <1>1, <1>2, <1>3, <1>4, BenchStep DEF Bodies!Next

LEMMA BenchInit ==
  ASSUME Bodies!Init, cb_program = "bench"
  PROVE  BenchInv
BY OneInit DEF BenchInv, BenchUnborn

LEMMA BenchMeans ==
  ASSUME BenchInv, cb_program = "bench"
  PROVE  BodiesRight
<1>1. Bodies!AwaitsAnswered /\ Bodies!OrbitsFollowed /\ Bodies!Flattened
  BY OwnedTypes DEF Bodies!AwaitsAnswered, Bodies!OrbitsFollowed, Bodies!Flattened
<1>2. ~undefined
  BY DEF BenchInv, OneCoroutine
<1>3. Bodies!Exited => cb_frame[1] = << >>
  BY MainIsOne, OneOnStack DEF Bodies!Exited, Bodies!InMain, BenchInv, BenchUnborn, BenchSuspended, BenchInside, BenchGone
<1>4. Bodies!FramesUsedWell
  BY <1>2, <1>3 DEF Bodies!FramesUsedWell, Bodies!Exists, BenchInv, OneCoroutine
<1>5. Bodies!FirstOneUnseen
  <2> SUFFICES ASSUME stack = << >>, NEW f \in owned PROVE cb_frame[f].current = asked[f] + 1
    BY DEF Bodies!FirstOneUnseen, Bodies!InMain
  <2>1. BenchSuspended /\ f = 1
    BY OneOnStack DEF BenchInv, BenchUnborn, BenchSuspended, BenchInside, BenchGone
  <2>2. QED BY <2>1 DEF BenchSuspended
<1>6. QED BY <1>1, <1>4, <1>5 DEF BodiesRight

LEMMA LeastNat ==
  ASSUME NEW T \in SUBSET Nat, T /= {}
  PROVE  \E m \in T : \A j \in T : m <= j
<1>1. IsWellFoundedOn(OpToRel(<, Nat), Nat)
  BY NatLessThanWellFounded
<1>2. PICK m \in T : \A j \in T : ~(<<j, m>> \in OpToRel(<, Nat))
  BY <1>1, WFMin
<1>3. \A j \in T : ~(j < m)
  BY <1>2 DEF OpToRel
<1>4. QED BY <1>3

\* The first values of a coroutine of massive-usage.cpp.
OrbitOf(f) ==
  LET orbit[k \in 1 .. Rounds] == IF k = 1 THEN Starts[f] ELSE Bodies!After(orbit[k - 1])
  IN  orbit

IsOrbit(h, s, m) == h = [k \in 1 .. m |-> IF k = 1 THEN s ELSE Bodies!After(h[k - 1])]

LEMMA OrbitExists ==
  ASSUME NEW s, NEW m \in Nat
  PROVE  \E h : IsOrbit(h, s, m)
<1> USE DEF IsOrbit
<1> DEFINE P(n) == \E h : h = [k \in 1 .. n |-> IF k = 1 THEN s ELSE Bodies!After(h[k - 1])]
           bad == {n \in Nat : ~P(n)}
<1>1. SUFFICES ASSUME bad /= {} PROVE FALSE
  OBVIOUS
<1>2. PICK n \in bad : \A j \in bad : n <= j
  BY <1>1, LeastNat
<1>3. n /= 0
  <2>1. P(0)
    <3> DEFINE h == [k \in 1 .. 0 |-> s]
    <3>1. h = [k \in 1 .. 0 |-> IF k = 1 THEN s ELSE Bodies!After(h[k - 1])]
      OBVIOUS
    <3>2. QED BY <3>1
  <2>2. QED BY <2>1
<1>4. n - 1 \in Nat /\ P(n - 1)
  <2> HIDE DEF P
  <2>1. n \in Nat /\ n - 1 \in Nat /\ ~(n <= n - 1)
    BY <1>2, <1>3
  <2>2. n - 1 \notin bad
    BY <1>2, <2>1
  <2>3. QED BY <2>1, <2>2
<1>5. PICK h : h = [k \in 1 .. n - 1 |-> IF k = 1 THEN s ELSE Bodies!After(h[k - 1])]
  BY <1>4
<1> DEFINE V(k) == IF k = 1 THEN s ELSE Bodies!After(h[k - 1])
           g == [k \in 1 .. n |-> V(k)]
<1>6. \A k \in 1 .. n - 1 : g[k] = h[k]
  BY <1>4, <1>5
<1>7. \A k \in 1 .. n : k /= 1 => k - 1 \in 1 .. n - 1
  BY <1>4
<1>8. \A k \in 1 .. n : V(k) = IF k = 1 THEN s ELSE Bodies!After(g[k - 1])
  <2> HIDE DEF g
  <2>1. QED BY <1>6, <1>7
<1>9. g = [k \in 1 .. n |-> IF k = 1 THEN s ELSE Bodies!After(g[k - 1])]
  <2> DEFINE gg == g
  <2>1. gg = [k \in 1 .. n |-> V(k)]
    OBVIOUS
  <2> HIDE DEF gg, V
  <2>2. \A k \in 1 .. n : V(k) = IF k = 1 THEN s ELSE Bodies!After(gg[k - 1])
    BY <1>8 DEF gg
  <2>3. gg = [k \in 1 .. n |-> IF k = 1 THEN s ELSE Bodies!After(gg[k - 1])]
    BY <2>1, <2>2
  <2>4. QED BY <2>3 DEF gg
<1>10. P(n)
  <2> HIDE DEF g
  <2>1. QED BY <1>9
<1>11. QED BY <1>2, <1>10

LEMMA OrbitOfIs ==
  ASSUME NEW f, NEW k \in 1 .. Rounds
  PROVE  OrbitOf(f)[k] = IF k = 1 THEN Starts[f] ELSE Bodies!After(OrbitOf(f)[k - 1])
<1>1. \E h : h = [j \in 1 .. Rounds |-> IF j = 1 THEN Starts[f] ELSE Bodies!After(h[j - 1])]
  <2>1. Rounds \in Nat
    BY CoroutinesAssumption DEF CoroutinesAssumption
  <2> DEFINE s == Starts[f]
  <2>2. \E h : IsOrbit(h, s, Rounds)
    <3> HIDE DEF s
    <3>1. QED BY <2>1, OrbitExists
  <2>3. QED BY <2>2 DEF IsOrbit
<1>2. OrbitOf(f) = [j \in 1 .. Rounds |-> IF j = 1 THEN Starts[f] ELSE Bodies!After(OrbitOf(f)[j - 1])]
  BY <1>1 DEF OrbitOf
<1> DEFINE h == OrbitOf(f)
<1>3. h = [j \in 1 .. Rounds |-> IF j = 1 THEN Starts[f] ELSE Bodies!After(h[j - 1])]
  BY <1>2
<1> HIDE DEF h
<1>4. h[k] = IF k = 1 THEN Starts[f] ELSE Bodies!After(h[k - 1])
  BY <1>3
<1>5. QED BY <1>4 DEF h

-----------------------------------------------------------------------------
\* massive-usage.cpp: a coroutine that main has asked k times.
Turn(f, k) ==
  /\ k = 0 => cb_frame[f].point = "begin" /\ cb_frame[f].n = Starts[f]
  /\ k > 0 => /\ cb_frame[f].point = "yielded" /\ cb_frame[f].n = OrbitOf(f)[k] /\ cb_frame[f].current = OrbitOf(f)[k]

MassiveInv ==
  /\ c = << >> /\ undefined = FALSE /\ owned \subseteq Bodies!Mains
  /\ cb_frame \in [1 .. 3 \cup Bodies!Mains -> PlainFrame \cup {<< >>}]
  /\ asked \in [Bodies!Mains -> Int]
  /\ \A f \in (1 .. 3 \cup Bodies!Mains) \ owned : cb_frame[f] = << >>
  /\ \A f \in owned : cb_frame[f] \in PlainFrame /\ asked[f] \in 0 .. Rounds
  /\ \A f \in owned : stack /= <<f>> => cb_frame[f].state = "suspended" /\ Turn(f, asked[f])
  /\ \A f \in owned : stack = <<f>> => cb_frame[f].state = "running" /\ asked[f] > 0 /\ Turn(f, asked[f] - 1)
  /\ stack = << >> \/ \E f \in owned : stack = <<f>>

LEMMA MainsAre ==
  ASSUME cb_program = "massive"
  PROVE  /\ Bodies!Mains = 1 .. Len(Starts)
         /\ \A f \in Bodies!Mains : Starts[f] \in Nat
<1>1. Bodies!Mains = 1 .. Len(Starts)
  BY DEF Bodies!Mains
<1>2. QED BY <1>1, CoroutinesAssumption DEF CoroutinesAssumption

LEMMA SamePush ==
  ASSUME NEW f, NEW g, <<f>> = <<g>>
  PROVE  f = g
OBVIOUS

LEMMA MassiveStep ==
  ASSUME MassiveInv, cb_program = "massive", Bodies!Generate
  PROVE  MassiveInv'
<1>1. PICK f \in owned : stack = <<f>>
  BY DEF MassiveInv, Bodies!Generate
<1>2. Bodies!Top = f /\ Bodies!Front(stack) = << >>
  BY <1>1, OneOnStack DEF Bodies!Top
<1> DEFINE me == cb_frame[f]
           n == IF me.point = "begin" THEN me.n ELSE Bodies!After(me.n)
<1>3. /\ me \in PlainFrame /\ me.n \in Nat /\ f \in Bodies!Mains /\ asked[f] \in 1 .. Rounds
      /\ Turn(f, asked[f] - 1)
  <2>1. me \in PlainFrame /\ f \in Bodies!Mains /\ asked[f] \in 0 .. Rounds /\ asked[f] > 0 /\ Turn(f, asked[f] - 1)
    BY <1>1 DEF MassiveInv
  <2>2. QED BY <2>1, CoroutinesAssumption DEF PlainFrame, FrameOf, CoroutinesAssumption
<1>4. /\ cb_frame' = [cb_frame EXCEPT ![f] = Yielded(me, n, n)] /\ stack' = << >>
      /\ UNCHANGED <<cb_program, c, asked, owned, undefined>>
  BY <1>2 DEF Bodies!Generate, Bodies!Yield, Bodies!Suspend, Yielded
<1>5. n \in Nat /\ n \in Int
  BY <1>3, AfterIs
<1>6. n = OrbitOf(f)[asked[f]]
  <2>1. CASE asked[f] = 1
    <3>1. me.point = "begin" /\ me.n = Starts[f]
      BY <1>3, <2>1 DEF Turn
    <3>2. QED BY <1>3, <2>1, <3>1, OrbitOfIs
  <2>2. CASE asked[f] /= 1
    <3>1. asked[f] - 1 \in Nat /\ asked[f] - 1 > 0
      BY <1>3, <2>2
    <3>2. me.point = "yielded" /\ me.n = OrbitOf(f)[asked[f] - 1]
      BY <1>3, <3>1 DEF Turn
    <3>3. QED BY <1>3, <2>2, <3>2, OrbitOfIs
  <2>3. QED BY <2>1, <2>2
<1> HIDE DEF n
<1> DEFINE new == Yielded(me, n, n)
<1>7. new \in PlainFrame /\ new.state = "suspended" /\ new.n = n /\ new.point = "yielded" /\ new.current = n
  <2>1. me \in PlainFrame
    BY <1>3
  <2> HIDE DEF me
  <2>2. QED BY <2>1, <1>5, FrameYields
<1> HIDE DEF new
<1>8. cb_frame'[f] = new /\ \A g \in 1 .. 3 \cup Bodies!Mains : g /= f => cb_frame'[g] = cb_frame[g]
  BY <1>3, <1>4 DEF MassiveInv, new
<1>9. Bodies!Mains' = Bodies!Mains
  BY <1>4 DEF Bodies!Mains
<1>10. cb_frame' \in [1 .. 3 \cup Bodies!Mains -> PlainFrame \cup {<< >>}]
  <2>1. cb_frame' = [cb_frame EXCEPT ![f] = new]
    BY <1>4 DEF new
  <2>2. QED BY <2>1, <1>7 DEF MassiveInv
<1>11. \A g \in owned : g /= f => stack /= <<g>>
  BY <1>1, SamePush
<1>12. \A g \in owned : stack' /= <<g>>
  BY <1>4, OneOnStack
<1>13. \A g \in owned : g /= f => cb_frame'[g] = cb_frame[g]
  BY <1>8 DEF MassiveInv
<1>14. ASSUME NEW g \in owned PROVE cb_frame'[g] \in PlainFrame /\ cb_frame'[g].state = "suspended" /\ Turn(g, asked[g])'
  <2>1. CASE g = f
    <3>1. asked'[f] = asked[f] /\ asked[f] /= 0
      BY <1>3, <1>4
    <3>2. QED BY <1>6, <1>7, <1>8, <2>1, <3>1 DEF Turn
  <2>2. CASE g /= f
    <3>1. cb_frame[g] \in PlainFrame /\ cb_frame[g].state = "suspended" /\ Turn(g, asked[g])
      BY <2>2, <1>11 DEF MassiveInv
    <3>2. cb_frame'[g] = cb_frame[g] /\ asked' = asked
      BY <1>4, <1>13, <2>2
    <3>3. QED BY <3>1, <3>2 DEF Turn
  <2>3. QED BY <2>1, <2>2
<1>15. \A g \in (1 .. 3 \cup Bodies!Mains) \ owned : cb_frame'[g] = << >>
  BY <1>8 DEF MassiveInv
<1>16. QED
  BY <1>4, <1>9, <1>10, <1>12, <1>14, <1>15 DEF MassiveInv

LEMMA MassiveCall ==
  ASSUME MassiveInv, cb_program = "massive", NEW f \in Bodies!Mains, Bodies!Call(f)
  PROVE  MassiveInv'
<1> DEFINE new == Bodies!NewFrame("suspended", Starts[f], << >>, 3)
<1>1. f \notin owned /\ stack = << >>
  BY DEF Bodies!Call, MassiveInv
<1>2. /\ cb_frame' = [cb_frame EXCEPT ![f] = new] /\ stack' = << >>
      /\ asked' = [asked EXCEPT ![f] = 0] /\ owned' = owned \cup {f}
      /\ UNCHANGED <<cb_program, c, shown, undefined>>
  BY OwnedTypes DEF Bodies!Call, MassiveInv
<1>3. new \in PlainFrame /\ new.state = "suspended" /\ new.n = Starts[f] /\ new.point = "begin"
  BY MainsAre, NewFrameIs
<1> HIDE DEF new
<1>4. Bodies!Mains' = Bodies!Mains
  BY <1>2 DEF Bodies!Mains
<1>5. /\ cb_frame' \in [1 .. 3 \cup Bodies!Mains -> PlainFrame \cup {<< >>}]
      /\ cb_frame'[f] = new /\ \A g \in 1 .. 3 \cup Bodies!Mains : g /= f => cb_frame'[g] = cb_frame[g]
  BY <1>2, <1>3 DEF MassiveInv
<1>6. /\ asked' \in [Bodies!Mains -> Int] /\ asked'[f] = 0
      /\ \A g \in Bodies!Mains : g /= f => asked'[g] = asked[g]
  BY <1>2 DEF MassiveInv
<1>7. \A g \in owned' : stack /= <<g>> /\ stack' /= <<g>>
  BY <1>1, <1>2, OneOnStack
<1>8. ASSUME NEW g \in owned'
      PROVE  cb_frame'[g] \in PlainFrame /\ asked'[g] \in 0 .. Rounds /\ cb_frame'[g].state = "suspended" /\ Turn(g, asked[g])'
  <2>1. CASE g = f
    <3>1. 0 \in 0 .. Rounds
      BY CoroutinesAssumption DEF CoroutinesAssumption
    <3>2. QED BY <1>3, <1>5, <1>6, <2>1, <3>1 DEF Turn
  <2>2. CASE g /= f
    <3>1. g \in owned /\ g \in Bodies!Mains
      BY <1>2, <2>2 DEF MassiveInv
    <3>2. /\ cb_frame[g] \in PlainFrame /\ asked[g] \in 0 .. Rounds
          /\ cb_frame[g].state = "suspended" /\ Turn(g, asked[g])
      BY <1>7, <1>2, <3>1 DEF MassiveInv
    <3>3. cb_frame'[g] = cb_frame[g] /\ asked'[g] = asked[g]
      BY <1>5, <1>6, <2>2, <3>1
    <3>4. QED BY <3>2, <3>3 DEF Turn
  <2>3. QED BY <2>1, <2>2
<1>9. \A g \in (1 .. 3 \cup Bodies!Mains) \ owned' : cb_frame'[g] = << >>
  BY <1>2, <1>5 DEF MassiveInv
<1>10. owned' \subseteq Bodies!Mains
  BY <1>2 DEF MassiveInv
<1>11. c' = << >> /\ undefined' = FALSE
  BY <1>2 DEF MassiveInv
<1>12. QED
  BY <1>2, <1>4, <1>5, <1>6, <1>7, <1>8, <1>9, <1>10, <1>11 DEF MassiveInv

LEMMA MassiveAsk ==
  ASSUME MassiveInv, cb_program = "massive", NEW f \in Bodies!Mains, Bodies!Ask(f)
  PROVE  MassiveInv'
<1>1. f \in owned /\ stack = << >> /\ asked[f] < Rounds
  <2>1. f \in owned /\ stack = << >> /\ Bodies!Wants(f)
    BY OwnedTypes DEF Bodies!Ask, Bodies!InMain
  <2>2. asked[f] < Bodies!Resumes["massive"]
    BY <2>1, ResumesAre DEF Bodies!Wants
  <2>3. QED BY <2>1, <2>2, ResumesAre
<1>2. \A g \in owned : stack /= <<g>>
  BY <1>1, OneOnStack
<1>3. cb_frame[f] \in PlainFrame /\ cb_frame[f].state = "suspended" /\ asked[f] \in 0 .. Rounds /\ Turn(f, asked[f])
  BY <1>1, <1>2 DEF MassiveInv
<1>4. Bodies!Suspended(f)
  BY <1>3, FramesExist DEF PlainFrame, Bodies!Suspended, Bodies!Exists
<1> DEFINE new == [cb_frame[f] EXCEPT !.state = "running"]
<1>5. /\ cb_frame' = [cb_frame EXCEPT ![f] = new] /\ stack' = <<f>>
      /\ asked' = [asked EXCEPT ![f] = @ + 1]
      /\ UNCHANGED <<cb_program, c, owned>> /\ undefined' = (undefined \/ FALSE)
  BY <1>4 DEF Bodies!Ask
<1>6. /\ new \in PlainFrame /\ new.state = "running" /\ new.n = cb_frame[f].n /\ new.point = cb_frame[f].point
      /\ new.current = cb_frame[f].current
  BY <1>3, FrameResumes
<1> HIDE DEF new
<1>7. Bodies!Mains' = Bodies!Mains
  BY <1>5 DEF Bodies!Mains
<1>8. /\ cb_frame' \in [1 .. 3 \cup Bodies!Mains -> PlainFrame \cup {<< >>}]
      /\ cb_frame'[f] = new /\ \A g \in 1 .. 3 \cup Bodies!Mains : g /= f => cb_frame'[g] = cb_frame[g]
  BY <1>5, <1>6 DEF MassiveInv
<1>9. /\ asked' \in [Bodies!Mains -> Int] /\ asked'[f] = asked[f] + 1
      /\ \A g \in Bodies!Mains : g /= f => asked'[g] = asked[g]
  BY <1>5, <1>3 DEF MassiveInv
<1>10. asked'[f] \in 0 .. Rounds /\ asked'[f] > 0 /\ asked'[f] - 1 = asked[f]
  <2>1. asked[f] < Rounds /\ Rounds \in Nat
    BY <1>1, CoroutinesAssumption DEF CoroutinesAssumption
  <2>2. QED BY ONLY <1>3, <1>9, <2>1
<1>11. Turn(f, asked[f] - 1)'
  <2>1. /\ cb_frame'[f].n = cb_frame[f].n /\ cb_frame'[f].point = cb_frame[f].point
        /\ cb_frame'[f].current = cb_frame[f].current
    BY <1>6, <1>8
  <2>2. QED BY <1>3, <1>10, <2>1 DEF Turn
<1>12. ASSUME NEW g \in owned, g /= f
       PROVE  /\ cb_frame'[g] \in PlainFrame /\ asked'[g] \in 0 .. Rounds
              /\ cb_frame'[g].state = "suspended" /\ Turn(g, asked[g])' /\ stack' /= <<g>>
  <2>1. /\ cb_frame[g] \in PlainFrame /\ asked[g] \in 0 .. Rounds
        /\ cb_frame[g].state = "suspended" /\ Turn(g, asked[g])
    BY <1>2, <1>12 DEF MassiveInv
  <2>2. cb_frame'[g] = cb_frame[g] /\ asked'[g] = asked[g]
    BY <1>8, <1>9, <1>12 DEF MassiveInv
  <2>3. stack' /= <<g>>
    BY <1>5, <1>12, SamePush
  <2>4. QED BY <2>1, <2>2, <2>3 DEF Turn
<1>13. \A g \in (1 .. 3 \cup Bodies!Mains) \ owned : cb_frame'[g] = << >>
  BY <1>1, <1>8 DEF MassiveInv
<1>14. c' = << >> /\ undefined' = FALSE /\ owned \subseteq Bodies!Mains
  BY <1>5 DEF MassiveInv
<1>15. cb_frame'[f] \in PlainFrame /\ cb_frame'[f].state = "running"
  BY <1>6, <1>8
<1>16. /\ \A g \in owned : cb_frame'[g] \in PlainFrame /\ asked'[g] \in 0 .. Rounds
       /\ \A g \in owned : stack' /= <<g>> => cb_frame'[g].state = "suspended" /\ Turn(g, asked[g])'
       /\ \A g \in owned : stack' = <<g>> => cb_frame'[g].state = "running" /\ asked'[g] > 0 /\ Turn(g, asked[g] - 1)'
  BY <1>5, <1>10, <1>11, <1>12, <1>15
<1>17. QED
  BY <1>1, <1>5, <1>7, <1>8, <1>9, <1>13, <1>14, <1>16 DEF MassiveInv

LEMMA MassiveDestroy ==
  ASSUME MassiveInv, cb_program = "massive", NEW f \in Bodies!Mains, Bodies!Destroy(f)
  PROVE  MassiveInv'
<1>1. f \in owned /\ stack = << >>
  BY DEF Bodies!Destroy, Bodies!InMain
<1>2. \A g \in owned : stack /= <<g>>
  BY <1>1, OneOnStack
<1>3. cb_frame[f] \in PlainFrame /\ cb_frame[f].state = "suspended"
  BY <1>1, <1>2 DEF MassiveInv
<1>4. Bodies!Exists(f)
  BY <1>3, FramesExist DEF PlainFrame, Bodies!Exists
<1>5. /\ cb_frame' = [cb_frame EXCEPT ![f] = << >>] /\ owned' = owned \ {f}
      /\ UNCHANGED <<cb_program, c, stack, asked, shown>> /\ undefined' = (undefined \/ FALSE)
  BY <1>3, <1>4 DEF Bodies!Destroy
<1>6. Bodies!Mains' = Bodies!Mains
  BY <1>5 DEF Bodies!Mains
<1>7. /\ cb_frame' \in [1 .. 3 \cup Bodies!Mains -> PlainFrame \cup {<< >>}]
      /\ cb_frame'[f] = << >> /\ \A g \in 1 .. 3 \cup Bodies!Mains : g /= f => cb_frame'[g] = cb_frame[g]
  BY <1>5 DEF MassiveInv
<1>8. ASSUME NEW g \in owned'
      PROVE  /\ cb_frame'[g] \in PlainFrame /\ asked'[g] \in 0 .. Rounds
             /\ cb_frame'[g].state = "suspended" /\ Turn(g, asked[g])' /\ stack' /= <<g>>
  <2>1. g \in owned /\ g /= f /\ g \in Bodies!Mains
    BY <1>5 DEF MassiveInv
  <2>2. /\ cb_frame[g] \in PlainFrame /\ asked[g] \in 0 .. Rounds
        /\ cb_frame[g].state = "suspended" /\ Turn(g, asked[g])
    BY <1>2, <2>1 DEF MassiveInv
  <2>3. cb_frame'[g] = cb_frame[g] /\ asked' = asked /\ stack' = stack
    BY <1>5, <1>7, <2>1
  <2>4. QED BY <1>2, <2>1, <2>2, <2>3 DEF Turn
<1>9. \A g \in (1 .. 3 \cup Bodies!Mains) \ owned' : cb_frame'[g] = << >>
  BY <1>5, <1>7 DEF MassiveInv
<1>10. c' = << >> /\ undefined' = FALSE /\ owned' \subseteq Bodies!Mains /\ asked' = asked
  BY <1>5 DEF MassiveInv
<1>11. stack' = << >>
  BY <1>1, <1>5
<1>12. asked' \in [Bodies!Mains -> Int]
  BY <1>10 DEF MassiveInv
<1>13. QED
  BY <1>6, <1>7, <1>8, <1>9, <1>10, <1>11, <1>12 DEF MassiveInv

LEMMA MassiveKept ==
  ASSUME MassiveInv, cb_program = "massive", [Bodies!Next]_bodyVars
  PROVE  MassiveInv'
<1>1. CASE UNCHANGED bodyVars
  <2>1. Bodies!Mains' = Bodies!Mains
    BY <1>1 DEF bodyVars, Bodies!Mains
  <2>2. /\ c' = c /\ undefined' = undefined /\ owned' = owned /\ cb_frame' = cb_frame /\ asked' = asked
        /\ stack' = stack
    BY <1>1 DEF bodyVars
  <2>3. QED BY <2>1, <2>2 DEF MassiveInv, Turn
<1>2. CASE Bodies!Ended
  BY <1>1, <1>2 DEF Bodies!Ended, Bodies!vars, bodyVars
<1>3. CASE \E f \in Bodies!Mains : Bodies!Call(f) \/ Bodies!Ask(f) \/ Bodies!Destroy(f)
  BY <1>3, MassiveCall, MassiveAsk, MassiveDestroy
<1>4. ~Bodies!Await /\ ~Bodies!Accumulate /\ ~Bodies!FlattenLeaf /\ ~Bodies!FlattenOuter
      /\ ~Bodies!FlattenLook /\ ~Bodies!FlattenAsk
  BY OwnedTypes DEF Bodies!Await, Bodies!Accumulate, Bodies!FlattenLeaf, Bodies!FlattenOuter, Bodies!FlattenLook,
              Bodies!FlattenAsk, Bodies!InFlatten
<1>5. QED
  BY <1>1, <1>2, <1>3, <1>4, MassiveStep DEF Bodies!Next

LEMMA MassiveInit ==
  ASSUME Bodies!Init, cb_program = "massive"
  PROVE  MassiveInv
<1>1. /\ c = << >> /\ cb_frame = [f \in 1 .. 3 \cup Bodies!Mains |-> << >>] /\ asked = [f \in Bodies!Mains |-> -1]
      /\ stack = << >> /\ owned = {} /\ undefined = FALSE
  BY DEF Bodies!Init
<1>2. QED BY <1>1 DEF MassiveInv

LEMMA MassiveMeans ==
  ASSUME MassiveInv, cb_program = "massive"
  PROVE  BodiesRight
<1>1. Bodies!AwaitsAnswered /\ Bodies!FirstOneUnseen /\ Bodies!Flattened
  BY OwnedTypes DEF Bodies!AwaitsAnswered, Bodies!FirstOneUnseen, Bodies!Flattened
<1>2. Bodies!FramesUsedWell
  BY DEF Bodies!FramesUsedWell, Bodies!Exists, Bodies!Exited, MassiveInv
<1>3. ASSUME Bodies!InMain, NEW f \in owned, asked[f] > 0
      PROVE  cb_frame[f].current = OrbitOf(f)[asked[f]]
  <2>1. stack /= <<f>>
    BY <1>3, OneOnStack DEF Bodies!InMain
  <2>2. QED BY <1>3, <2>1 DEF MassiveInv, Turn
<1>4. Bodies!OrbitsFollowed
  BY <1>3 DEF Bodies!OrbitsFollowed, OrbitOf
<1>5. QED BY <1>1, <1>2, <1>4 DEF BodiesRight

\* The function that FlattenSeq is made of: what the first i sequences join to.
Joined(s) ==
  LET flatten[k \in 1 .. Len(s)] == IF k = 1 THEN s[k] ELSE flatten[k - 1] \o s[k]
  IN  flatten

IsJoined(h, s, m) == h = [k \in 1 .. m |-> IF k = 1 THEN s[k] ELSE h[k - 1] \o s[k]]

LEMMA JoinedExists ==
  ASSUME NEW s, NEW m \in Nat
  PROVE  \E h : IsJoined(h, s, m)
<1> USE DEF IsJoined
<1> DEFINE P(n) == \E h : h = [k \in 1 .. n |-> IF k = 1 THEN s[k] ELSE h[k - 1] \o s[k]]
           bad == {n \in Nat : ~P(n)}
<1>1. SUFFICES ASSUME bad /= {} PROVE FALSE
  OBVIOUS
<1>2. PICK n \in bad : \A j \in bad : n <= j
  BY <1>1, LeastNat
<1>3. n /= 0
  <2>1. P(0)
    <3> DEFINE h == [k \in 1 .. 0 |-> s]
    <3>1. h = [k \in 1 .. 0 |-> IF k = 1 THEN s[k] ELSE h[k - 1] \o s[k]]
      OBVIOUS
    <3>2. QED BY <3>1
  <2>2. QED BY <2>1
<1>4. n - 1 \in Nat /\ P(n - 1)
  <2> HIDE DEF P
  <2>1. n \in Nat /\ n - 1 \in Nat /\ ~(n <= n - 1)
    BY <1>2, <1>3
  <2>2. n - 1 \notin bad
    BY <1>2, <2>1
  <2>3. QED BY <2>1, <2>2
<1>5. PICK h : h = [k \in 1 .. n - 1 |-> IF k = 1 THEN s[k] ELSE h[k - 1] \o s[k]]
  BY <1>4
<1> DEFINE V(k) == IF k = 1 THEN s[k] ELSE h[k - 1] \o s[k]
           g == [k \in 1 .. n |-> V(k)]
<1>6. \A k \in 1 .. n - 1 : g[k] = h[k]
  <2>1. \A k \in 1 .. n - 1 : h[k] = V(k)
    BY <1>5
  <2>2. \A k \in 1 .. n - 1 : k \in 1 .. n
    BY <1>4
  <2> HIDE DEF V
  <2>3. QED BY <2>1, <2>2
<1>7. \A k \in 1 .. n : k /= 1 => k - 1 \in 1 .. n - 1
  BY <1>4
<1>8. \A k \in 1 .. n : V(k) = IF k = 1 THEN s[k] ELSE g[k - 1] \o s[k]
  <2> HIDE DEF g
  <2>1. QED BY <1>6, <1>7
<1>9. g = [k \in 1 .. n |-> IF k = 1 THEN s[k] ELSE g[k - 1] \o s[k]]
  <2> DEFINE gg == g
  <2>1. gg = [k \in 1 .. n |-> V(k)]
    OBVIOUS
  <2> HIDE DEF gg, V
  <2>2. \A k \in 1 .. n : V(k) = IF k = 1 THEN s[k] ELSE gg[k - 1] \o s[k]
    BY <1>8 DEF gg
  <2>3. gg = [k \in 1 .. n |-> IF k = 1 THEN s[k] ELSE gg[k - 1] \o s[k]]
    BY <2>1, <2>2
  <2>4. QED BY <2>3 DEF gg
<1>10. P(n)
  <2> HIDE DEF g
  <2>1. QED BY <1>9
<1>11. QED BY <1>2, <1>10

LEMMA JoinedIs ==
  ASSUME NEW s, Len(s) \in Nat
  PROVE  /\ IsJoined(Joined(s), s, Len(s))
         /\ \A k \in 1 .. Len(s) : Joined(s)[k] = IF k = 1 THEN s[k] ELSE Joined(s)[k - 1] \o s[k]
<1>1. \E h : IsJoined(h, s, Len(s))
  BY JoinedExists
<1>2. IsJoined(Joined(s), s, Len(s))
  BY <1>1 DEF Joined, IsJoined
<1> DEFINE h == Joined(s)
<1>3. h = [k \in 1 .. Len(s) |-> IF k = 1 THEN s[k] ELSE h[k - 1] \o s[k]]
  BY <1>2 DEF IsJoined
<1> HIDE DEF h
<1>4. \A k \in 1 .. Len(s) : h[k] = IF k = 1 THEN s[k] ELSE h[k - 1] \o s[k]
  BY <1>3
<1>5. QED BY <1>2, <1>4 DEF h

LEMMA FlattenIs ==
  ASSUME NEW s
  PROVE  Bodies!FlattenSeq(s) = IF Len(s) = 0 THEN s ELSE Joined(s)[Len(s)]
BY DEF Bodies!FlattenSeq, Joined

LEMMA JoinedTypes ==
  ASSUME NEW S, NEW s \in Seq(Seq(S))
  PROVE  \A k \in 1 .. Len(s) : Joined(s)[k] \in Seq(S)
<1>1. Len(s) \in Nat /\ \A k \in 1 .. Len(s) : s[k] \in Seq(S)
  BY LenProperties
<1> DEFINE bad == {k \in Nat : k \in 1 .. Len(s) /\ Joined(s)[k] \notin Seq(S)}
<1>11. \A k \in 1 .. Len(s) : k \in Nat
  BY <1>1
<1>2. SUFFICES ASSUME bad /= {} PROVE FALSE
  BY <1>11
<1>3. PICK k \in bad : \A j \in bad : k <= j
  <2> HIDE DEF bad
  <2>1. bad \in SUBSET Nat
    BY DEF bad
  <2>2. QED BY <1>2, <2>1, LeastNat
<1>4. k \in 1 .. Len(s) /\ Joined(s)[k] \notin Seq(S)
  BY <1>3
<1>5. k /= 1
  BY <1>1, <1>4, JoinedIs
<1>6. k - 1 \in 1 .. Len(s) /\ ~(k <= k - 1) /\ k - 1 \in Nat
  BY <1>1, <1>4, <1>5
<1>7. Joined(s)[k - 1] \in Seq(S)
  BY <1>3, <1>6
<1>8. Joined(s)[k] = Joined(s)[k - 1] \o s[k]
  BY <1>1, <1>4, <1>5, JoinedIs
<1>9. Joined(s)[k] \in Seq(S)
  BY <1>1, <1>4, <1>7, <1>8, ConcatProperties
<1>10. QED BY <1>4, <1>9

LEMMA FlattenNone ==
  Bodies!FlattenSeq(<< >>) = << >>
<1>1. Len(<< >>) = 0
  BY EmptySeq
<1>2. QED BY <1>1, FlattenIs

LEMMA FlattenType ==
  ASSUME NEW S, NEW s \in Seq(Seq(S))
  PROVE  Bodies!FlattenSeq(s) \in Seq(S)
<1>1. Len(s) \in Nat
  BY LenProperties
<1>2. CASE Len(s) = 0
  <2>1. s = << >>
    BY <1>2, EmptySeq
  <2>2. QED BY <2>1, FlattenNone, EmptySeq
<1>3. CASE Len(s) /= 0
  <2>1. Len(s) \in 1 .. Len(s)
    BY <1>1, <1>3
  <2>2. QED BY <1>3, <2>1, FlattenIs, JoinedTypes
<1>4. QED BY <1>2, <1>3

LEMMA FlattenAppend ==
  ASSUME NEW S, NEW s \in Seq(Seq(S)), NEW x \in Seq(S)
  PROVE  Bodies!FlattenSeq(Append(s, x)) = Bodies!FlattenSeq(s) \o x
<1> DEFINE t == Append(s, x)
<1>1. /\ t \in Seq(Seq(S)) /\ Len(t) = Len(s) + 1 /\ Len(s) \in Nat
      /\ \A k \in 1 .. Len(s) : t[k] = s[k]
      /\ t[Len(s) + 1] = x
  BY AppendProperties, LenProperties
<1> HIDE DEF t
<1>2. \A k \in 1 .. Len(s) : Joined(t)[k] = Joined(s)[k]
  <2> DEFINE bad == {k \in Nat : k \in 1 .. Len(s) /\ Joined(t)[k] /= Joined(s)[k]}
  <2>9. \A k \in 1 .. Len(s) : k \in Nat
    BY <1>1
  <2>1. SUFFICES ASSUME bad /= {} PROVE FALSE
    BY <2>9
  <2>2. PICK k \in bad : \A j \in bad : k <= j
    <3> HIDE DEF bad
    <3>1. bad \in SUBSET Nat
      BY DEF bad
    <3>2. QED BY <2>1, <3>1, LeastNat
  <2>3. k \in 1 .. Len(s) /\ k \in 1 .. Len(t) /\ Joined(t)[k] /= Joined(s)[k]
    BY <1>1, <2>2
  <2>4. /\ Joined(t)[k] = IF k = 1 THEN t[k] ELSE Joined(t)[k - 1] \o t[k]
        /\ Joined(s)[k] = IF k = 1 THEN s[k] ELSE Joined(s)[k - 1] \o s[k]
    <3>1. Len(t) \in Nat /\ Len(s) \in Nat
      BY <1>1
    <3>2. QED BY <2>3, <3>1, JoinedIs
  <2>5. k /= 1
    BY <1>1, <2>3, <2>4
  <2>6. k - 1 \in 1 .. Len(s) /\ ~(k <= k - 1) /\ k - 1 \in Nat
    BY <1>1, <2>3, <2>5
  <2>7. Joined(t)[k - 1] = Joined(s)[k - 1]
    BY <2>2, <2>6
  <2>8. QED BY <1>1, <2>3, <2>4, <2>5, <2>7
<1>3. CASE Len(s) = 0
  <2>1. s = << >> /\ Len(t) = 1 /\ t[1] = x
    BY <1>1, <1>3, EmptySeq
  <2>2. Bodies!FlattenSeq(t) = x
    <3>4. Len(t) /= 0
      BY <2>1
    <3>5. Bodies!FlattenSeq(t) = Joined(t)[Len(t)]
      BY ONLY <3>4, FlattenIs
    <3>1. Bodies!FlattenSeq(t) = Joined(t)[1]
      BY <2>1, <3>5
    <3>2. Joined(t)[1] = t[1]
      BY <1>1, <2>1, JoinedIs
    <3>3. QED BY <2>1, <3>1, <3>2
  <2>3. Bodies!FlattenSeq(s) \o x = x
    BY <2>1, FlattenNone, ConcatEmptySeq
  <2>4. QED BY <2>2, <2>3 DEF t
<1>4. CASE Len(s) /= 0
  <2>1. Bodies!FlattenSeq(t) = Joined(t)[Len(s) + 1] /\ Bodies!FlattenSeq(s) = Joined(s)[Len(s)]
    <3>1. Len(t) /= 0
      BY <1>1
    <3>2. QED BY <1>1, <1>4, <3>1, FlattenIs
  <2>2. Joined(t)[Len(s) + 1] = Joined(t)[Len(s)] \o x
    <3>1. Len(s) + 1 \in 1 .. Len(t) /\ Len(s) + 1 /= 1 /\ (Len(s) + 1) - 1 = Len(s) /\ Len(t) \in Nat
      BY <1>1, <1>4
    <3> DEFINE k == Len(s) + 1
    <3>2. Joined(t)[k] = Joined(t)[k - 1] \o t[k]
      <4> HIDE DEF k
      <4>1. k \in 1 .. Len(t) /\ k /= 1 /\ Len(t) \in Nat
        BY <3>1 DEF k
      <4>2. QED BY <4>1, JoinedIs
    <3>3. QED BY <1>1, <3>1, <3>2
  <2>3. Joined(t)[Len(s)] = Joined(s)[Len(s)]
    BY <1>1, <1>2, <1>4
  <2>4. QED BY <2>1, <2>2, <2>3 DEF t
<1>5. QED BY <1>3, <1>4

LEMMA FlattenConcat ==
  ASSUME NEW S, NEW s \in Seq(Seq(S)), NEW t \in Seq(Seq(S))
  PROVE  Bodies!FlattenSeq(s \o t) = Bodies!FlattenSeq(s) \o Bodies!FlattenSeq(t)
<1> DEFINE P(u) == Bodies!FlattenSeq(s \o u) = Bodies!FlattenSeq(s) \o Bodies!FlattenSeq(u)
           bad == {n \in Nat : \E u \in Seq(Seq(S)) : Len(u) = n /\ ~P(u)}
<1>1. SUFFICES bad = {}
  <2>1. Len(t) \in Nat
    BY LenProperties
  <2>2. QED BY <2>1
<1>2. SUFFICES ASSUME bad /= {} PROVE FALSE
  OBVIOUS
<1>3. PICK n \in bad : \A j \in bad : n <= j
  <2> HIDE DEF bad
  <2>1. bad \in SUBSET Nat
    BY DEF bad
  <2>2. QED BY <1>2, <2>1, LeastNat
<1> HIDE DEF P
<1>4. PICK u \in Seq(Seq(S)) : Len(u) = n /\ ~P(u)
  BY <1>3
<1>5. u /= << >>
  <2>1. s \o << >> = s
    BY ConcatEmptySeq
  <2>2. Bodies!FlattenSeq(s) \o << >> = Bodies!FlattenSeq(s)
    BY FlattenType, ConcatEmptySeq
  <2>3. P(<< >>)
    BY <2>1, <2>2, FlattenNone DEF P
  <2>4. QED BY <1>4, <2>3
<1>6. PICK v \in Seq(Seq(S)), x \in Seq(S) : u = Append(v, x)
  BY <1>4, <1>5, SequenceEmptyOrAppend
<1>7. Len(v) = n - 1 /\ Len(v) \in Nat /\ n \in Nat
  BY <1>3, <1>4, <1>6, AppendProperties, LenProperties
<1>8. P(v)
  <2>1. Len(v) \notin bad
    BY <1>3, <1>7
  <2>2. QED BY <1>7, <2>1
<1>9. s \o u = Append(s \o v, x)
  <2>1. /\ u = v \o <<x>> /\ <<x>> \in Seq(Seq(S)) /\ s \o v \in Seq(Seq(S))
    BY <1>6, AppendIsConcat, ConcatProperties
  <2>2. s \o (v \o <<x>>) = (s \o v) \o <<x>>
    BY <2>1, ConcatAssociative
  <2>3. Append(s \o v, x) = (s \o v) \o <<x>>
    BY <2>1, AppendIsConcat
  <2>4. QED BY <2>1, <2>2, <2>3
<1>10. s \o v \in Seq(Seq(S))
  BY ConcatProperties
<1>11. Bodies!FlattenSeq(s \o u) = Bodies!FlattenSeq(s \o v) \o x
  BY <1>9, <1>10, FlattenAppend
<1>12. Bodies!FlattenSeq(u) = Bodies!FlattenSeq(v) \o x
  BY <1>6, FlattenAppend
<1>13. Bodies!FlattenSeq(s) \in Seq(S) /\ Bodies!FlattenSeq(v) \in Seq(S)
  BY FlattenType
<1>14. (Bodies!FlattenSeq(s) \o Bodies!FlattenSeq(v)) \o x = Bodies!FlattenSeq(s) \o (Bodies!FlattenSeq(v) \o x)
  <2> DEFINE a == Bodies!FlattenSeq(s)
             b == Bodies!FlattenSeq(v)
  <2>1. a \in Seq(S) /\ b \in Seq(S) /\ x \in Seq(S)
    BY <1>13
  <2> HIDE DEF a, b
  <2>2. (a \o b) \o x = a \o (b \o x)
    BY ONLY <2>1, ConcatAssociative, SMTT(30)
  <2> QED BY <2>2 DEF a, b
<1>15. P(u)
  BY <1>8, <1>11, <1>12, <1>14 DEF P
<1>16. QED BY <1>4, <1>15

LEMMA FlattenOne ==
  ASSUME NEW S, NEW x \in Seq(S), NEW s \in Seq(Seq(S))
  PROVE  Bodies!FlattenSeq(<<x>> \o s) = x \o Bodies!FlattenSeq(s)
<1>1. << >> \in Seq(Seq(S)) /\ <<x>> \in Seq(Seq(S)) /\ << >> \in Seq(S)
  BY EmptySeq
<1>2. Append(<< >>, x) = <<x>>
  <2>1. Append(<< >>, x) = << >> \o <<x>>
    BY <1>1, AppendIsConcat
  <2>2. << >> \o <<x>> = <<x>>
    BY <1>1, ConcatEmptySeq
  <2>3. QED BY <2>1, <2>2
<1>3. Bodies!FlattenSeq(<<x>>) = x
  <2>1. Bodies!FlattenSeq(Append(<< >>, x)) = Bodies!FlattenSeq(<< >>) \o x
    BY <1>1, FlattenAppend
  <2>2. << >> \o x = x
    BY ConcatEmptySeq
  <2>3. QED BY <1>2, <2>1, <2>2, FlattenNone
<1>4. Bodies!FlattenSeq(<<x>> \o s) = Bodies!FlattenSeq(<<x>>) \o Bodies!FlattenSeq(s)
  BY <1>1, FlattenConcat
<1>5. QED BY <1>3, <1>4

Left(s, n) == SubSeq(s, n + 1, Len(s))

LEMMA LeftIs ==
  ASSUME NEW S, NEW s \in Seq(S), NEW n \in Nat, n <= Len(s)
  PROVE  /\ Left(s, n) \in Seq(S)
         /\ n = Len(s) => Left(s, n) = << >>
         /\ n /= Len(s) => s[n + 1] \in S /\ n + 1 \in Nat /\ n + 1 <= Len(s) /\ Left(s, n) = <<s[n + 1]>> \o Left(s, n + 1)
         /\ Left(s, 0) = s
<1>1. Len(s) \in Nat /\ \A k \in 1 .. Len(s) : s[k] \in S
  BY LenProperties
<1>2. Left(s, n) \in Seq(S)
  <2>1. \A k \in n + 1 .. Len(s) : s[k] \in S
    BY <1>1
  <2>2. n + 1 \in Int /\ Len(s) \in Int
    BY <1>1
  <2>3. QED BY <2>1, <2>2, SubSeqProperties DEF Left
<1>3. n = Len(s) => Left(s, n) = << >>
  BY <1>1, SubSeqEmpty DEF Left
<1>4. Left(s, 0) = s
  BY SubSeqFull DEF Left
<1>5. ASSUME n /= Len(s)
      PROVE  s[n + 1] \in S /\ n + 1 \in Nat /\ n + 1 <= Len(s) /\ Left(s, n) = <<s[n + 1]>> \o Left(s, n + 1)
  <2>1. n + 1 \in 1 .. Len(s) /\ Len(s) \in n + 1 .. Len(s)
    BY <1>1, <1>5
  <2>2. SubSeq(s, n + 1, Len(s)) = << s[n + 1] >> \o SubSeq(s, (n + 1) + 1, Len(s))
    BY <2>1, SubSeqRecursiveFirst
  <2>3. QED BY <1>1, <2>1, <2>2 DEF Left
<1>6. QED BY <1>2, <1>3, <1>4, <1>5

-----------------------------------------------------------------------------
\* composed_iterator.cpp. Frame k flattens level 4 - k.
ItemsAt(k) == IF k = 1 THEN Seq(Seq(Seq(Nat))) ELSE IF k = 2 THEN Seq(Seq(Nat)) ELSE Seq(Nat)

AnyItems == ItemsAt(1) \cup ItemsAt(2) \cup ItemsAt(3)
CFrame == FrameOf(AnyItems)

Is(k, s, p) ==
  /\ cb_frame[k] \in CFrame /\ cb_frame[k].state = s /\ cb_frame[k].point = p /\ cb_frame[k].level = 4 - k
  /\ cb_frame[k].items \in ItemsAt(k) /\ cb_frame[k].n <= Len(cb_frame[k].items)
  /\ p /= "begin" => cb_frame[k].inner = k + 1

\* The numbers that frame k has not come to, without those of its inner one.
RestOf(k, s, n) ==
  IF k = 1 THEN Bodies!FlattenSeq(Bodies!FlattenSeq(Left(s, n)))
  ELSE IF k = 2 THEN Bodies!FlattenSeq(Left(s, n)) ELSE Left(s, n)

Rest(k) == RestOf(k, cb_frame[k].items, cb_frame[k].n)

LEMMA RestOfIs ==
  ASSUME NEW k \in 1 .. 3, NEW s \in ItemsAt(k), NEW n \in Nat, n <= Len(s)
  PROVE  /\ RestOf(k, s, n) \in Seq(Nat)
         /\ n = Len(s) => RestOf(k, s, n) = << >>
         /\ n /= Len(s) => n + 1 \in Nat /\ n + 1 <= Len(s)
         /\ n /= Len(s) /\ k < 3 => /\ s[n + 1] \in ItemsAt(k + 1)
                                   /\ RestOf(k, s, n) = RestOf(k + 1, s[n + 1], 0) \o RestOf(k, s, n + 1)
         /\ n /= Len(s) /\ k = 3 => /\ s[n + 1] \in Nat
                                   /\ RestOf(k, s, n) = <<s[n + 1]>> \o RestOf(k, s, n + 1)
<1>1. CASE k = 1
  <2>1. s \in Seq(Seq(Seq(Nat)))
    BY <1>1 DEF ItemsAt
  <2>2. /\ Left(s, n) \in Seq(Seq(Seq(Nat)))
        /\ n = Len(s) => Left(s, n) = << >>
        /\ n /= Len(s) => /\ s[n + 1] \in Seq(Seq(Nat)) /\ n + 1 \in Nat /\ n + 1 <= Len(s)
                          /\ Left(s, n) = <<s[n + 1]>> \o Left(s, n + 1)
    <3> DEFINE S == Seq(Seq(Nat))
    <3>1. s \in Seq(S)
      BY <2>1
    <3> HIDE DEF S
    <3>2. /\ Left(s, n) \in Seq(S)
          /\ n = Len(s) => Left(s, n) = << >>
          /\ n /= Len(s) => /\ s[n + 1] \in S /\ n + 1 \in Nat /\ n + 1 <= Len(s)
                            /\ Left(s, n) = <<s[n + 1]>> \o Left(s, n + 1)
      BY <3>1, LeftIs
    <3>3. QED BY <3>2 DEF S
  <2>3. Bodies!FlattenSeq(Left(s, n)) \in Seq(Seq(Nat))
    BY <2>2, FlattenType
  <2>4. Bodies!FlattenSeq(Bodies!FlattenSeq(Left(s, n))) \in Seq(Nat)
    BY <2>3, FlattenType
  <2>5. CASE n = Len(s)
    BY <1>1, <2>2, <2>4, <2>5, FlattenNone DEF RestOf
  <2>6. CASE n /= Len(s)
    <3> DEFINE x == s[n + 1]
               l == Left(s, n + 1)
    <3>1. x \in Seq(Seq(Nat)) /\ n + 1 \in Nat /\ n + 1 <= Len(s) /\ Left(s, n) = <<x>> \o l
      BY <2>2, <2>6
    <3>2. l \in Seq(Seq(Seq(Nat))) /\ Left(x, 0) = x
      <4>1. l \in Seq(Seq(Seq(Nat)))
        BY <2>1, <3>1, LeftIs
      <4>2. 0 <= Len(x) /\ 0 \in Nat
        BY <3>1, LenProperties
      <4>3. QED BY <3>1, <4>1, <4>2, LeftIs
    <3> HIDE DEF x, l
    <3>3. Bodies!FlattenSeq(<<x>> \o l) = x \o Bodies!FlattenSeq(l)
      BY <3>1, <3>2, FlattenOne
    <3>4. Bodies!FlattenSeq(l) \in Seq(Seq(Nat))
      BY <3>2, FlattenType
    <3>5. Bodies!FlattenSeq(x \o Bodies!FlattenSeq(l)) = Bodies!FlattenSeq(x) \o Bodies!FlattenSeq(Bodies!FlattenSeq(l))
      BY <3>1, <3>4, FlattenConcat
    <3>6. RestOf(1, s, n) = RestOf(2, x, 0) \o RestOf(1, s, n + 1)
      <4>1. RestOf(1, s, n) = Bodies!FlattenSeq(Bodies!FlattenSeq(Left(s, n)))
        BY DEF RestOf
      <4>2. RestOf(2, x, 0) = Bodies!FlattenSeq(Left(x, 0))
        BY DEF RestOf
      <4>3. RestOf(1, s, n + 1) = Bodies!FlattenSeq(Bodies!FlattenSeq(l))
        BY DEF RestOf, l
      <4>4. QED BY <3>1, <3>2, <3>3, <3>5, <4>1, <4>2, <4>3
    <3>7. x \in ItemsAt(2)
      BY <3>1 DEF ItemsAt
    <3>8. RestOf(1, s, n) \in Seq(Nat)
      BY <2>4 DEF RestOf
    <3>9. QED BY <1>1, <2>6, <3>1, <3>6, <3>7, <3>8 DEF x
  <2>7. QED BY <2>5, <2>6
<1>2. CASE k = 2
  <2>1. s \in Seq(Seq(Nat))
    BY <1>2 DEF ItemsAt
  <2>2. /\ Left(s, n) \in Seq(Seq(Nat))
        /\ n = Len(s) => Left(s, n) = << >>
        /\ n /= Len(s) => /\ s[n + 1] \in Seq(Nat) /\ n + 1 \in Nat /\ n + 1 <= Len(s)
                          /\ Left(s, n) = <<s[n + 1]>> \o Left(s, n + 1)
    <3> DEFINE S == Seq(Nat)
    <3>1. s \in Seq(S)
      BY <2>1
    <3> HIDE DEF S
    <3>2. /\ Left(s, n) \in Seq(S)
          /\ n = Len(s) => Left(s, n) = << >>
          /\ n /= Len(s) => /\ s[n + 1] \in S /\ n + 1 \in Nat /\ n + 1 <= Len(s)
                            /\ Left(s, n) = <<s[n + 1]>> \o Left(s, n + 1)
      BY <3>1, LeftIs
    <3>3. QED BY <3>2 DEF S
  <2>3. Bodies!FlattenSeq(Left(s, n)) \in Seq(Nat)
    BY <2>2, FlattenType
  <2>5. CASE n = Len(s)
    BY <1>2, <2>2, <2>3, <2>5, FlattenNone DEF RestOf
  <2>6. CASE n /= Len(s)
    <3> DEFINE x == s[n + 1]
               l == Left(s, n + 1)
    <3>1. x \in Seq(Nat) /\ n + 1 \in Nat /\ n + 1 <= Len(s) /\ Left(s, n) = <<x>> \o l
      BY <2>2, <2>6
    <3>2. l \in Seq(Seq(Nat)) /\ Left(x, 0) = x
      <4>1. l \in Seq(Seq(Nat))
        BY <2>1, <3>1, LeftIs
      <4>2. 0 <= Len(x) /\ 0 \in Nat
        BY <3>1, LenProperties
      <4>3. QED BY <3>1, <4>1, <4>2, LeftIs
    <3> HIDE DEF x, l
    <3>3. Bodies!FlattenSeq(<<x>> \o l) = x \o Bodies!FlattenSeq(l)
      BY <3>1, <3>2, FlattenOne
    <3>6. RestOf(2, s, n) = RestOf(3, x, 0) \o RestOf(2, s, n + 1)
      <4>1. RestOf(2, s, n) = Bodies!FlattenSeq(Left(s, n))
        BY DEF RestOf
      <4>2. RestOf(3, x, 0) = Left(x, 0)
        BY DEF RestOf
      <4>3. RestOf(2, s, n + 1) = Bodies!FlattenSeq(l)
        BY DEF RestOf, l
      <4>4. QED BY <3>1, <3>2, <3>3, <4>1, <4>2, <4>3
    <3>7. x \in ItemsAt(3)
      BY <3>1 DEF ItemsAt
    <3>8. RestOf(2, s, n) \in Seq(Nat)
      BY <2>3 DEF RestOf
    <3>9. QED BY <1>2, <2>6, <3>1, <3>6, <3>7, <3>8 DEF x
  <2>7. QED BY <2>5, <2>6
<1>3. CASE k = 3
  <2>1. s \in Seq(Nat)
    BY <1>3 DEF ItemsAt
  <2>2. /\ Left(s, n) \in Seq(Nat)
        /\ n = Len(s) => Left(s, n) = << >>
        /\ n /= Len(s) => /\ s[n + 1] \in Nat /\ n + 1 \in Nat /\ n + 1 <= Len(s)
                          /\ Left(s, n) = <<s[n + 1]>> \o Left(s, n + 1)
    BY <2>1, LeftIs
  <2>3. QED BY <1>3, <2>2 DEF RestOf
<1>4. QED BY <1>1, <1>2, <1>3

Points == {"begin", "awaits", "shown", "yielded", "look", "ask"}

\* What the actions make of a frame.
InState(r, t) == [r EXCEPT !.state = t]
AtPoint(r, p) == [r EXCEPT !.point = p]
YieldsOn(r, v) == [[[r EXCEPT !.point = "ask"] EXCEPT !.current = v] EXCEPT !.state = "suspended"]
YieldsItem(r, v) == [[[r EXCEPT !.n = @ + 1] EXCEPT !.current = v] EXCEPT !.state = "suspended"]
Closes(r) == [r EXCEPT !.inner = 0, !.point = "begin"]
Opens(r, k) == [r EXCEPT !.n = @ + 1, !.inner = k, !.point = "look"]

LEMMA SameItems ==
  ASSUME NEW I, NEW r \in FrameOf(I), NEW q, NEW t \in {"suspended", "running", "final"}, NEW p \in Points, NEW v \in Int
  PROVE  /\ q = InState(r, t) \/ q = AtPoint(r, p) \/ q = Closes(r) \/ q = YieldsOn(r, v)
              => q \in FrameOf(I) /\ q.items = r.items /\ q.n = r.n /\ q.level = r.level
         /\ q = InState(r, t) => q.state = t /\ q.point = r.point /\ q.inner = r.inner /\ q.current = r.current
         /\ q = AtPoint(r, p) => q.state = r.state /\ q.point = p /\ q.inner = r.inner /\ q.current = r.current
         /\ q = Closes(r) => q.state = r.state /\ q.point = "begin"
         /\ q = YieldsOn(r, v) => q.state = "suspended" /\ q.point = "ask" /\ q.inner = r.inner /\ q.current = v
<1>1. /\ InState(r, t) \in FrameOf(I) /\ InState(r, t).items = r.items /\ InState(r, t).n = r.n /\ InState(r, t).level = r.level
      /\ InState(r, t).state = t /\ InState(r, t).point = r.point /\ InState(r, t).inner = r.inner
      /\ InState(r, t).current = r.current
  BY DEF InState, FrameOf
<1>2. /\ AtPoint(r, p) \in FrameOf(I) /\ AtPoint(r, p).items = r.items /\ AtPoint(r, p).n = r.n /\ AtPoint(r, p).level = r.level
      /\ AtPoint(r, p).state = r.state /\ AtPoint(r, p).point = p /\ AtPoint(r, p).inner = r.inner
      /\ AtPoint(r, p).current = r.current
  BY DEF AtPoint, FrameOf, Points
<1>3. /\ Closes(r) \in FrameOf(I) /\ Closes(r).items = r.items /\ Closes(r).n = r.n /\ Closes(r).level = r.level
      /\ Closes(r).state = r.state /\ Closes(r).point = "begin"
  <2>1. 0 \in 0 .. 3
    OBVIOUS
  <2>2. Closes(r) \in FrameOf(I)
    BY <2>1 DEF Closes, FrameOf
  <2>3. /\ Closes(r).items = r.items /\ Closes(r).n = r.n /\ Closes(r).level = r.level
        /\ Closes(r).state = r.state /\ Closes(r).point = "begin"
    BY DEF Closes, FrameOf
  <2>4. QED BY <2>2, <2>3
<1>4. /\ YieldsOn(r, v) \in FrameOf(I) /\ YieldsOn(r, v).items = r.items /\ YieldsOn(r, v).n = r.n
      /\ YieldsOn(r, v).level = r.level /\ YieldsOn(r, v).state = "suspended" /\ YieldsOn(r, v).point = "ask"
      /\ YieldsOn(r, v).inner = r.inner /\ YieldsOn(r, v).current = v
  BY DEF YieldsOn, FrameOf
<1>5. QED BY <1>1, <1>2, <1>3, <1>4

LEMMA NextItem ==
  ASSUME NEW I, NEW r \in FrameOf(I), NEW v \in Int
  PROVE  /\ YieldsItem(r, v) \in FrameOf(I) /\ YieldsItem(r, v).items = r.items /\ YieldsItem(r, v).n = r.n + 1
         /\ YieldsItem(r, v).level = r.level /\ YieldsItem(r, v).state = "suspended"
         /\ YieldsItem(r, v).point = r.point /\ YieldsItem(r, v).current = v
<1>1. r.n + 1 \in Nat
  BY DEF FrameOf
<1>2. QED BY <1>1 DEF FrameOf, YieldsItem

LEMMA NextOpens ==
  ASSUME NEW I, NEW r \in FrameOf(I), NEW k \in 0 .. 3
  PROVE  /\ Opens(r, k) \in FrameOf(I) /\ Opens(r, k).items = r.items /\ Opens(r, k).n = r.n + 1
         /\ Opens(r, k).level = r.level /\ Opens(r, k).state = r.state
         /\ Opens(r, k).point = "look" /\ Opens(r, k).inner = k
<1>1. r.n + 1 \in Nat
  BY DEF FrameOf
<1>2. QED BY <1>1 DEF FrameOf, Opens

LEMMA StartsAt ==
  ASSUME NEW x \in AnyItems, NEW l \in 1 .. 3
  PROVE  LET r == Bodies!NewFrame("running", 0, x, l)
         IN  /\ r \in FrameOf(AnyItems) /\ r.state = "running" /\ r.n = 0 /\ r.point = "begin"
             /\ r.items = x /\ r.level = l
BY DEF FrameOf, Bodies!NewFrame

LEMMA IsMeans ==
  ASSUME NEW k \in 1 .. 3, NEW s, NEW p, Is(k, s, p)
  PROVE  /\ cb_frame[k] \in CFrame /\ cb_frame[k].n \in Nat /\ cb_frame[k].current \in Int
         /\ cb_frame[k] /= << >> /\ Bodies!Exists(k)
         /\ Rest(k) \in Seq(Nat)
         /\ cb_frame[k].n = Len(cb_frame[k].items) => Rest(k) = << >>
<1>1. cb_frame[k] \in CFrame /\ cb_frame[k].n \in Nat /\ cb_frame[k].current \in Int
  BY DEF Is, CFrame, FrameOf
<1>2. cb_frame[k] /= << >>
  BY <1>1, FramesExist DEF CFrame
<1>3. QED BY <1>1, <1>2, RestOfIs DEF Is, Rest, Bodies!Exists

LEMMA StaysSo ==
  ASSUME NEW k \in 1 .. 3, NEW s, NEW p, Is(k, s, p), cb_frame'[k] = cb_frame[k]
  PROVE  Is(k, s, p)' /\ Rest(k)' = Rest(k)
BY DEF Is, Rest

LEMMA StateChanges ==
  ASSUME NEW k \in 1 .. 3, NEW s, NEW p, NEW t \in {"suspended", "running", "final"}, Is(k, s, p),
         cb_frame'[k] = InState(cb_frame[k], t)
  PROVE  Is(k, t, p)' /\ Rest(k)' = Rest(k) /\ cb_frame'[k].current = cb_frame[k].current
<1> DEFINE r == cb_frame[k]
           q == cb_frame'[k]
<1>1. r \in FrameOf(AnyItems)
  BY DEF Is, CFrame
<1>2. /\ q \in FrameOf(AnyItems) /\ q.items = r.items /\ q.n = r.n /\ q.level = r.level
      /\ q.state = t /\ q.point = r.point /\ q.inner = r.inner /\ q.current = r.current
  <2> HIDE DEF r
  <2>1. 0 \in Int /\ "ask" \in Points
    BY DEF Points
  <2>2. q = InState(r, t)
    BY DEF r
  <2> HIDE DEF q
  <2>3. QED BY <1>1, <2>1, <2>2, SameItems
<1>3. QED BY <1>2 DEF Is, CFrame, Rest

LEMMA PointChanges ==
  ASSUME NEW k \in 1 .. 2, Is(k, "running", "ask"), cb_frame'[k] = AtPoint(cb_frame[k], "look")
  PROVE  Is(k, "running", "look")' /\ Rest(k)' = Rest(k)
<1> DEFINE r == cb_frame[k]
           q == cb_frame'[k]
<1>1. r \in FrameOf(AnyItems)
  BY DEF Is, CFrame
<1>2. /\ q \in FrameOf(AnyItems) /\ q.items = r.items /\ q.n = r.n /\ q.level = r.level
      /\ q.state = r.state /\ q.point = "look" /\ q.inner = r.inner
  <2> HIDE DEF r
  <2>1. 0 \in Int /\ "look" \in Points /\ "final" \in {"suspended", "running", "final"}
    BY DEF Points
  <2>2. q = AtPoint(r, "look")
    BY DEF r
  <2> HIDE DEF q
  <2>3. QED BY <1>1, <2>1, <2>2, SameItems
<1>3. QED BY <1>2 DEF Is, CFrame, Rest

LEMMA Closed ==
  ASSUME NEW k \in 1 .. 2, Is(k, "running", "look"), cb_frame'[k] = Closes(cb_frame[k])
  PROVE  Is(k, "running", "begin")' /\ Rest(k)' = Rest(k)
<1> DEFINE r == cb_frame[k]
           q == cb_frame'[k]
<1>1. r \in FrameOf(AnyItems)
  BY DEF Is, CFrame
<1>2. /\ q \in FrameOf(AnyItems) /\ q.items = r.items /\ q.n = r.n /\ q.level = r.level
      /\ q.state = r.state /\ q.point = "begin"
  <2> HIDE DEF r
  <2>1. 0 \in Int /\ "look" \in Points /\ "final" \in {"suspended", "running", "final"}
    BY DEF Points
  <2>2. q = Closes(r)
    BY DEF r
  <2> HIDE DEF q
  <2>3. QED BY <1>1, <2>1, <2>2, SameItems
<1>3. QED BY <1>2 DEF Is, CFrame, Rest

LEMMA PassesOn ==
  ASSUME NEW k \in 1 .. 2, NEW v \in Int, Is(k, "running", "look"), cb_frame'[k] = YieldsOn(cb_frame[k], v)
  PROVE  Is(k, "suspended", "ask")' /\ Rest(k)' = Rest(k) /\ cb_frame'[k].current = v
<1> DEFINE r == cb_frame[k]
           q == cb_frame'[k]
<1>1. r \in FrameOf(AnyItems)
  BY DEF Is, CFrame
<1>2. /\ q \in FrameOf(AnyItems) /\ q.items = r.items /\ q.n = r.n /\ q.level = r.level
      /\ q.state = "suspended" /\ q.point = "ask" /\ q.inner = r.inner /\ q.current = v
  <2> HIDE DEF r
  <2>1. 0 \in Int /\ "look" \in Points /\ "final" \in {"suspended", "running", "final"}
    BY DEF Points
  <2>2. q = YieldsOn(r, v)
    BY DEF r
  <2> HIDE DEF q
  <2>3. QED BY <1>1, <2>1, <2>2, SameItems
<1>3. QED BY <1>2 DEF Is, CFrame, Rest

LEMMA ItemYielded ==
  ASSUME Is(3, "running", "begin"), cb_frame[3].n /= Len(cb_frame[3].items), NEW v,
         v = cb_frame[3].items[cb_frame[3].n + 1], cb_frame'[3] = YieldsItem(cb_frame[3], v)
  PROVE  /\ Is(3, "suspended", "begin")' /\ cb_frame'[3].current = v /\ v \in Nat
         /\ Rest(3) = <<v>> \o Rest(3)' /\ Rest(3)' \in Seq(Nat)
<1> DEFINE r == cb_frame[3]
           q == cb_frame'[3]
<1>1. r \in FrameOf(AnyItems) /\ r.n \in Nat /\ r.items \in ItemsAt(3) /\ r.n <= Len(r.items)
  BY IsMeans DEF Is, CFrame
<1>2. v \in Nat /\ r.n + 1 \in Nat /\ r.n + 1 <= Len(r.items) /\ Rest(3) = <<v>> \o RestOf(3, r.items, r.n + 1)
  <2> DEFINE s == r.items
             n == r.n
  <2>1. s \in ItemsAt(3) /\ n \in Nat /\ n <= Len(s) /\ n /= Len(s) /\ v = s[n + 1] /\ Rest(3) = RestOf(3, s, n)
    BY <1>1 DEF Rest
  <2>2. 3 \in 1 .. 3
    OBVIOUS
  <2> HIDE DEF r, s, n
  <2>3. v \in Nat /\ n + 1 \in Nat /\ n + 1 <= Len(s) /\ Rest(3) = <<v>> \o RestOf(3, s, n + 1)
    BY <2>1, <2>2, RestOfIs
  <2>4. QED BY <2>3 DEF r, s, n
<1>3. /\ q \in FrameOf(AnyItems) /\ q.items = r.items /\ q.n = r.n + 1 /\ q.level = r.level
      /\ q.state = "suspended" /\ q.point = r.point /\ q.current = v
  <2> HIDE DEF r
  <2>1. 0 \in 0 .. 3 /\ v \in Int
    BY <1>2
  <2>2. q = YieldsItem(r, v)
    BY DEF r
  <2> HIDE DEF q
  <2>3. QED BY <1>1, <2>1, <2>2, NextItem
<1>4. Rest(3)' = RestOf(3, r.items, r.n + 1)
  BY <1>3 DEF Rest
<1>5. Is(3, "suspended", "begin")'
  BY <1>1, <1>2, <1>3 DEF Is, CFrame
<1>6. Rest(3)' \in Seq(Nat)
  <2> DEFINE s == r.items
             n == r.n + 1
  <2>1. s \in ItemsAt(3) /\ n \in Nat /\ n <= Len(s) /\ 3 \in 1 .. 3
    BY <1>1, <1>2
  <2> HIDE DEF s, n
  <2>2. RestOf(3, s, n) \in Seq(Nat)
    BY <2>1, RestOfIs
  <2>3. QED BY <1>4, <2>2 DEF s, n
<1>7. QED BY <1>2, <1>3, <1>4, <1>5, <1>6

LEMMA Opened ==
  ASSUME NEW k \in 1 .. 2, Is(k, "running", "begin"), cb_frame[k].n /= Len(cb_frame[k].items),
         cb_frame'[k] = Opens(cb_frame[k], k + 1),
         cb_frame'[k + 1] = Bodies!NewFrame("running", 0, cb_frame[k].items[cb_frame[k].n + 1], cb_frame[k].level - 1)
  PROVE  /\ Is(k, "running", "look")' /\ Is(k + 1, "running", "begin")'
         /\ Rest(k) = Rest(k + 1)' \o Rest(k)' /\ Rest(k)' \in Seq(Nat) /\ Rest(k + 1)' \in Seq(Nat)
<1> DEFINE r == cb_frame[k]
           q == cb_frame'[k]
           x == r.items[r.n + 1]
<1>1. r \in FrameOf(AnyItems) /\ r.n \in Nat /\ r.items \in ItemsAt(k) /\ r.n <= Len(r.items)
  BY IsMeans DEF Is, CFrame
<1>2. /\ r.n + 1 \in Nat /\ r.n + 1 <= Len(r.items) /\ x \in ItemsAt(k + 1)
      /\ Rest(k) = RestOf(k + 1, x, 0) \o RestOf(k, r.items, r.n + 1)
  <2> DEFINE s == r.items
             n == r.n
  <2>1. /\ s \in ItemsAt(k) /\ n \in Nat /\ n <= Len(s) /\ n /= Len(s) /\ x = s[n + 1] /\ Rest(k) = RestOf(k, s, n)
        /\ k \in 1 .. 3 /\ k < 3
    BY <1>1 DEF Rest
  <2> HIDE DEF r, s, n, x
  <2>2. /\ n + 1 \in Nat /\ n + 1 <= Len(s) /\ x \in ItemsAt(k + 1)
        /\ Rest(k) = RestOf(k + 1, x, 0) \o RestOf(k, s, n + 1)
    BY <2>1, RestOfIs
  <2>3. QED BY <2>2 DEF r, s, n, x
<1>3. /\ q \in FrameOf(AnyItems) /\ q.items = r.items /\ q.n = r.n + 1 /\ q.level = r.level
      /\ q.state = r.state /\ q.point = "look" /\ q.inner = k + 1
  <2> HIDE DEF r
  <2>1. k + 1 \in 0 .. 3 /\ 0 \in Int
    OBVIOUS
  <2>2. q = Opens(r, k + 1)
    BY DEF r
  <2> HIDE DEF q
  <2>3. QED BY <1>1, <2>1, <2>2, NextOpens
<1>4. Rest(k)' = RestOf(k, r.items, r.n + 1)
  BY <1>3 DEF Rest
<1>5. Is(k, "running", "look")'
  BY <1>1, <1>2, <1>3 DEF Is, CFrame
<1>6. /\ cb_frame'[k + 1] \in FrameOf(AnyItems) /\ cb_frame'[k + 1].state = "running" /\ cb_frame'[k + 1].n = 0
      /\ cb_frame'[k + 1].point = "begin" /\ cb_frame'[k + 1].items = x /\ cb_frame'[k + 1].level = 4 - (k + 1)
  <2>1. r.level - 1 = 4 - (k + 1) /\ 4 - (k + 1) \in 1 .. 3
    BY DEF Is
  <2>2. x \in AnyItems
    <3>1. k + 1 \in {2, 3}
      OBVIOUS
    <3>2. QED BY <1>2, <3>1 DEF AnyItems
  <2>3. cb_frame'[k + 1] = Bodies!NewFrame("running", 0, x, 4 - (k + 1))
    BY <2>1
  <2> HIDE DEF x
  <2> DEFINE l == 4 - (k + 1)
  <2>4. cb_frame'[k + 1] = Bodies!NewFrame("running", 0, x, l) /\ l \in 1 .. 3
    BY <2>1, <2>3
  <2> HIDE DEF l
  <2>5. /\ cb_frame'[k + 1] \in FrameOf(AnyItems) /\ cb_frame'[k + 1].state = "running" /\ cb_frame'[k + 1].n = 0
        /\ cb_frame'[k + 1].point = "begin" /\ cb_frame'[k + 1].items = x /\ cb_frame'[k + 1].level = l
    BY <2>2, <2>4, StartsAt
  <2>6. QED BY <2>5 DEF l
<1>7. Rest(k + 1)' = RestOf(k + 1, x, 0)
  BY <1>6 DEF Rest
<1>8. Len(x) \in Nat
  <2>1. x \in Seq(Seq(Nat)) \/ x \in Seq(Nat)
    BY <1>2 DEF ItemsAt
  <2> HIDE DEF x
  <2>2. QED BY <2>1, LenProperties
<1>9. Is(k + 1, "running", "begin")'
  BY <1>2, <1>6, <1>8 DEF Is, CFrame
<1>10. Rest(k)' \in Seq(Nat)
  BY <1>1, <1>2, <1>4, RestOfIs
<1>11. RestOf(k + 1, x, 0) \in Seq(Nat)
  <2>1. k + 1 \in 1 .. 3 /\ 0 <= Len(x) /\ 0 \in Nat
    BY <1>8
  <2> HIDE DEF x
  <2>2. QED BY <1>2, <2>1, RestOfIs
<1>12. QED BY <1>2, <1>4, <1>5, <1>7, <1>9, <1>10, <1>11

LEMMA StacksAre ==
  /\ UpTo(0) = << >> /\ UpTo(1) = <<1>>
  /\ \A m \in 1 .. 3 : /\ Bodies!Last(UpTo(m)) = m /\ Bodies!Front(UpTo(m)) = UpTo(m - 1)
                       /\ UpTo(m) /= << >> /\ Append(UpTo(m - 1), m) = UpTo(m)
<1>1. \A m \in Nat : UpTo(m) \in Seq(Nat) /\ Len(UpTo(m)) = m
  BY DEF UpTo
<1>2. UpTo(1) = <<1>>
  BY DEF UpTo
<1>3. ASSUME NEW m \in 1 .. 3
      PROVE  /\ Bodies!Last(UpTo(m)) = m /\ Bodies!Front(UpTo(m)) = UpTo(m - 1)
             /\ UpTo(m) /= << >> /\ Append(UpTo(m - 1), m) = UpTo(m)
  <2>1. m \in Nat \ {0} /\ m - 1 \in Nat /\ Len(UpTo(m)) = m /\ UpTo(m) \in Seq(Nat)
    BY <1>1
  <2>2. UpTo(m)[m] = m
    BY <2>1 DEF UpTo
  <2>3. UpTo(m) /= << >>
    BY <2>1, EmptySeq
  <2>4. SubSeq(UpTo(m), 1, m - 1) = UpTo(m - 1)
    <3> DEFINE s == UpTo(m)
               t == SubSeq(s, 1, m - 1)
               u == UpTo(m - 1)
    <3>1. /\ u \in Seq(Nat) /\ Len(u) = m - 1
          /\ \A j \in 1 .. m - 1 : s[j] = j /\ u[j] = j /\ s[j] \in Nat
      BY <1>1, <2>1 DEF UpTo
    <3> HIDE DEF s, u
    <3>2. /\ t \in Seq(Nat) /\ Len(t) = (IF 1 <= m - 1 THEN (m - 1) - 1 + 1 ELSE 0)
          /\ \A j \in 1 .. (m - 1) - 1 + 1 : t[j] = s[1 + j - 1]
      <4>1. 1 \in Int /\ m - 1 \in Int /\ \A j \in 1 .. m - 1 : s[j] \in Nat
        BY <2>1, <3>1
      <4>2. QED BY <4>1, SubSeqProperties
    <3> HIDE DEF t
    <3>3. Len(t) = m - 1
      BY <2>1, <3>2
    <3>4. \A j \in 1 .. m - 1 : t[j] = u[j]
      <4>1. \A j \in 1 .. m - 1 : j \in 1 .. (m - 1) - 1 + 1 /\ 1 + j - 1 = j
        BY <2>1
      <4>2. QED BY <3>1, <3>2, <4>1
    <3>5. t = u
      BY <3>1, <3>2, <3>3, <3>4, SeqEqual
    <3>6. QED BY <3>5 DEF t, s, u
  <2>5. Append(UpTo(m - 1), m) = UpTo(m)
    BY <2>1, UpToGrows
  <2>6. QED BY <2>1, <2>2, <2>3, <2>4, <2>5 DEF Bodies!Last, Bodies!Front
<1>4. QED BY <1>2, <1>3, UpToNone

-----------------------------------------------------------------------------
Numbers == Bodies!FlattenSeq(Bodies!FlattenSeq(c))
None(k) == cb_frame[k] = << >>
Ahead1 == Rest(1)
Ahead2 == Rest(2) \o Rest(1)
Ahead3 == Rest(3) \o (Rest(2) \o Rest(1))
Value == cb_frame[3].current
Called == asked[1] \in Nat /\ owned = {1}
Running(m, p) == stack = UpTo(m) /\ Is(m, "running", p)

Unborn == asked[1] = -1 /\ stack = << >> /\ owned = {} /\ None(1) /\ None(2) /\ None(3) /\ shown = << >>
Gone == asked[1] \in Nat /\ stack = << >> /\ owned = {} /\ None(1) /\ None(2) /\ None(3) /\ shown = Numbers
Work1 == Called /\ Running(1, "begin") /\ None(2) /\ None(3) /\ shown \o Ahead1 = Numbers
Work2 == Called /\ Running(2, "begin") /\ Is(1, "running", "look") /\ None(3) /\ shown \o Ahead2 = Numbers
Work3 == Called /\ Running(3, "begin") /\ Is(1, "running", "look") /\ Is(2, "running", "look") /\ shown \o Ahead3 = Numbers
Ended1 == Called /\ stack = << >> /\ Is(1, "final", "begin") /\ None(2) /\ None(3) /\ shown = Numbers
Ended2 == Called /\ Running(1, "look") /\ Is(2, "final", "begin") /\ None(3) /\ shown \o Ahead1 = Numbers
Ended3 == /\ Called /\ Running(2, "look") /\ Is(1, "running", "look") /\ Is(3, "final", "begin")
          /\ shown \o Ahead2 = Numbers
Pends == Is(3, "suspended", "begin") /\ Value \in Nat /\ shown \o (<<Value>> \o Ahead3) = Numbers
Pending2 == Called /\ Running(2, "look") /\ Is(1, "running", "look") /\ Pends
Pending1 == /\ Called /\ Running(1, "look") /\ Is(2, "suspended", "ask") /\ Pends
            /\ cb_frame[2].current = Value
Pending0 == /\ Called /\ stack = << >> /\ Is(1, "suspended", "ask") /\ Is(2, "suspended", "ask") /\ Pends
            /\ cb_frame[1].current = Value
Asking1 == /\ Called /\ Running(1, "ask") /\ Is(2, "suspended", "ask") /\ Is(3, "suspended", "begin")
           /\ shown \o Ahead3 = Numbers
Asking2 == /\ Called /\ Running(2, "ask") /\ Is(1, "running", "look") /\ Is(3, "suspended", "begin")
           /\ shown \o Ahead3 = Numbers

ComposedBase ==
  /\ c \in Seq(Seq(Seq(Nat))) /\ cb_frame = [f \in 1 .. 3 |-> cb_frame[f]] /\ asked = [f \in {1} |-> asked[1]]
  /\ undefined = FALSE /\ shown \in Seq(Nat)

ComposedInv ==
  /\ ComposedBase
  /\ \/ Unborn \/ Gone \/ Work1 \/ Work2 \/ Work3 \/ Ended1 \/ Ended2 \/ Ended3
     \/ Pending2 \/ Pending1 \/ Pending0 \/ Asking1 \/ Asking2

LEMMA AtTop ==
  ASSUME NEW m \in 1 .. 3, NEW p, Running(m, p)
  PROVE  /\ Bodies!Top = m /\ stack /= << >> /\ Bodies!Front(stack) = UpTo(m - 1)
         /\ \A q : Bodies!InFlatten(q) => q = p
         /\ cb_frame[m].level = 4 - m
BY StacksAre DEF Running, Bodies!Top, Bodies!InFlatten, Is

LEMMA OneFrame ==
  ASSUME ComposedBase, NEW k \in 1 .. 3, NEW x, cb_frame' = [cb_frame EXCEPT ![k] = x],
         c' = c, asked' = asked, undefined' = undefined, shown' \in Seq(Nat)
  PROVE  ComposedBase' /\ cb_frame'[k] = x /\ \A j \in 1 .. 3 : j /= k => cb_frame'[j] = cb_frame[j]
<1>1. cb_frame'[k] = x /\ \A j \in 1 .. 3 : j /= k => cb_frame'[j] = cb_frame[j]
  BY DEF ComposedBase
<1>2. cb_frame' = [f \in 1 .. 3 |-> cb_frame'[f]]
  BY DEF ComposedBase
<1>3. QED BY <1>1, <1>2 DEF ComposedBase

LEMMA TwoFrames ==
  ASSUME ComposedBase, NEW k \in 1 .. 3, NEW l \in 1 .. 3, k /= l, NEW x, NEW y,
         cb_frame' = [cb_frame EXCEPT ![k] = x, ![l] = y],
         c' = c, asked' = asked, undefined' = undefined, shown' \in Seq(Nat)
  PROVE  /\ ComposedBase' /\ cb_frame'[k] = x /\ cb_frame'[l] = y
         /\ \A j \in 1 .. 3 : j /= k /\ j /= l => cb_frame'[j] = cb_frame[j]
<1>1. cb_frame'[k] = x /\ cb_frame'[l] = y /\ \A j \in 1 .. 3 : j /= k /\ j /= l => cb_frame'[j] = cb_frame[j]
  BY DEF ComposedBase
<1>2. cb_frame' = [f \in 1 .. 3 |-> cb_frame'[f]]
  BY DEF ComposedBase
<1>3. QED BY <1>1, <1>2 DEF ComposedBase

LEMMA WhichPhase ==
  ASSUME ComposedInv
  PROVE  /\ Bodies!InFlatten("begin") => Work1 \/ Work2 \/ Work3
         /\ Bodies!InFlatten("look") => Ended2 \/ Ended3 \/ Pending2 \/ Pending1
         /\ Bodies!InFlatten("ask") => Asking1 \/ Asking2
         /\ stack = << >> => Unborn \/ Gone \/ Ended1 \/ Pending0
<1>1. Unborn \/ Gone \/ Ended1 \/ Pending0 => stack = << >>
  BY DEF Unborn, Gone, Ended1, Pending0
<1>2. Work1 \/ Work2 \/ Work3 => \E m \in 1 .. 3 : Running(m, "begin")
  BY DEF Work1, Work2, Work3
<1>3. Ended2 \/ Ended3 \/ Pending2 \/ Pending1 => \E m \in 1 .. 3 : Running(m, "look")
  BY DEF Ended2, Ended3, Pending2, Pending1
<1>4. Asking1 \/ Asking2 => \E m \in 1 .. 3 : Running(m, "ask")
  BY DEF Asking1, Asking2
<1>5. \A q : Bodies!InFlatten(q) => stack /= << >>
  BY DEF Bodies!InFlatten
<1>6. /\ Work1 \/ Work2 \/ Work3 => stack /= << >> /\ ~Bodies!InFlatten("look") /\ ~Bodies!InFlatten("ask")
      /\ Ended2 \/ Ended3 \/ Pending2 \/ Pending1 => stack /= << >> /\ ~Bodies!InFlatten("begin") /\ ~Bodies!InFlatten("ask")
      /\ Asking1 \/ Asking2 => stack /= << >> /\ ~Bodies!InFlatten("begin") /\ ~Bodies!InFlatten("look")
  BY <1>2, <1>3, <1>4, AtTop
<1>7. QED BY <1>1, <1>5, <1>6 DEF ComposedInv

LEMMA Assoc ==
  ASSUME NEW r \in Seq(Nat), NEW s \in Seq(Nat), NEW t \in Seq(Nat)
  PROVE  (r \o s) \o t = r \o (s \o t) /\ r \o s \in Seq(Nat)
<1>1. (r \o s) \o t = r \o (s \o t)
  BY ConcatAssociative
<1>2. r \o s \in Seq(Nat)
  BY ConcatProperties
<1>3. QED BY <1>1, <1>2

\* The end of a body.
LEMMA FrameEnds ==
  ASSUME ComposedBase, cb_program = "composed", NEW m \in 1 .. 3, Running(m, "begin"), Bodies!Return,
         cb_frame[m].n = Len(cb_frame[m].items)
  PROVE  /\ ComposedBase' /\ stack' = UpTo(m - 1) /\ Is(m, "final", "begin")' /\ Rest(m) = << >>
         /\ \A j \in 1 .. 3 : j /= m => cb_frame'[j] = cb_frame[j]
         /\ UNCHANGED <<c, asked, owned, shown>>
<1>1. /\ cb_frame' = [cb_frame EXCEPT ![m] = InState(cb_frame[m], "final")] /\ stack' = UpTo(m - 1)
      /\ UNCHANGED <<c, asked, owned, shown, undefined>>
  BY AtTop, OwnedTypes DEF Bodies!Return, InState
<1>2. /\ ComposedBase' /\ cb_frame'[m] = InState(cb_frame[m], "final")
      /\ \A j \in 1 .. 3 : j /= m => cb_frame'[j] = cb_frame[j]
  BY <1>1, OneFrame DEF ComposedBase
<1>3. Is(m, "running", "begin")
  BY DEF Running
<1>4. Is(m, "final", "begin")' /\ Rest(m) = << >>
  BY <1>2, <1>3, StateChanges, IsMeans
<1>5. QED BY <1>1, <1>2, <1>4

LEMMA LeafStep ==
  ASSUME ComposedInv, cb_program = "composed", Bodies!FlattenLeaf
  PROVE  ComposedInv'
<1> DEFINE me == cb_frame[3]
<1>1. Bodies!InFlatten("begin") /\ cb_frame[Bodies!Top].level = 1
  BY DEF Bodies!FlattenLeaf
<1>2. Work3
  <2>1. Work1 \/ Work2 \/ Work3
    BY <1>1, WhichPhase
  <2>2. ~Work1 /\ ~Work2
    BY <1>1, AtTop DEF Work1, Work2
  <2>3. QED BY <2>1, <2>2
<1>3. /\ Called /\ Running(3, "begin") /\ Is(1, "running", "look") /\ Is(2, "running", "look") /\ Is(3, "running", "begin")
      /\ shown \o Ahead3 = Numbers /\ ComposedBase
  BY <1>2 DEF Work3, Running, ComposedInv
<1>4. Bodies!Top = 3 /\ Bodies!Front(stack) = UpTo(2)
  BY <1>3, AtTop
<1>5. Rest(1) \in Seq(Nat) /\ Rest(2) \in Seq(Nat) /\ Rest(2) \o Rest(1) \in Seq(Nat) /\ me.n \in Nat
  BY <1>3, IsMeans, Assoc
<1>6. CASE me.n = Len(me.items)
  <2>1. Bodies!Return
    BY <1>4, <1>6 DEF Bodies!FlattenLeaf
  <2>2. /\ ComposedBase' /\ stack' = UpTo(2) /\ Is(3, "final", "begin")' /\ Rest(3) = << >>
        /\ cb_frame'[1] = cb_frame[1] /\ cb_frame'[2] = cb_frame[2]
        /\ UNCHANGED <<c, asked, owned, shown>>
    BY <1>3, <1>6, <2>1, FrameEnds
  <2>3. Is(1, "running", "look")' /\ Is(2, "running", "look")' /\ Rest(1)' = Rest(1) /\ Rest(2)' = Rest(2)
    BY <1>3, <2>2, StaysSo
  <2>4. Ahead3 = Rest(2) \o Rest(1) /\ Ahead2' = Rest(2) \o Rest(1)
    BY <1>5, <2>2, <2>3, ConcatEmptySeq DEF Ahead3, Ahead2
  <2>5. (shown \o Ahead2 = Numbers)'
    BY <1>3, <2>2, <2>4 DEF Numbers
  <2>6. Called' /\ Running(2, "look")'
    BY <1>3, <2>2, <2>3 DEF Called, Running
  <2>7. Ended3'
    BY <2>2, <2>3, <2>5, <2>6 DEF Ended3
  <2>8. QED BY <2>2, <2>7 DEF ComposedInv
<1>7. CASE me.n /= Len(me.items)
  <2> DEFINE v == me.items[me.n + 1]
  <2>1. /\ cb_frame' = [cb_frame EXCEPT ![3] = YieldsItem(me, v)] /\ stack' = UpTo(2)
        /\ UNCHANGED <<c, asked, owned, shown, undefined>>
    BY <1>4, <1>7 DEF Bodies!FlattenLeaf, Bodies!Yield, Bodies!Suspend, YieldsItem
  <2>2. ComposedBase' /\ cb_frame'[3] = YieldsItem(me, v) /\ cb_frame'[1] = cb_frame[1] /\ cb_frame'[2] = cb_frame[2]
    <3> DEFINE x == YieldsItem(me, v)
    <3>1. /\ ComposedBase /\ 3 \in 1 .. 3 /\ cb_frame' = [cb_frame EXCEPT ![3] = x]
          /\ c' = c /\ asked' = asked /\ undefined' = undefined /\ shown' \in Seq(Nat)
      BY <2>1, <1>3 DEF ComposedBase
    <3> HIDE DEF x
    <3>2. /\ ComposedBase' /\ cb_frame'[3] = x /\ \A j \in 1 .. 3 : j /= 3 => cb_frame'[j] = cb_frame[j]
      BY ONLY <3>1, OneFrame
    <3>3. QED BY <3>2 DEF x
  <2>3. Is(1, "running", "look")' /\ Is(2, "running", "look")' /\ Rest(1)' = Rest(1) /\ Rest(2)' = Rest(2)
    BY <1>3, <2>2, StaysSo
  <2>4. v = me.items[me.n + 1]
    OBVIOUS
  <2> HIDE DEF v
  <2>5. /\ Is(3, "suspended", "begin")' /\ Value' = v /\ v \in Nat
        /\ Rest(3) = <<v>> \o Rest(3)' /\ Rest(3)' \in Seq(Nat)
    BY <1>3, <1>7, <2>2, <2>4, ItemYielded DEF Value
  <2>6. Ahead3 = <<v>> \o Ahead3'
    <3>1. <<v>> \in Seq(Nat)
      BY <2>5
    <3>2. (<<v>> \o Rest(3)') \o (Rest(2) \o Rest(1)) = <<v>> \o (Rest(3)' \o (Rest(2) \o Rest(1)))
      BY <3>1, <2>5, <1>5, Assoc
    <3>3. QED BY <2>3, <2>5, <3>2 DEF Ahead3
  <2>7. (shown \o (<<Value>> \o Ahead3) = Numbers)'
    BY <1>3, <2>1, <2>5, <2>6 DEF Numbers
  <2>8. Called' /\ Running(2, "look")'
    BY <1>3, <2>1, <2>3 DEF Called, Running
  <2>9. Pending2'
    BY <2>3, <2>5, <2>7, <2>8 DEF Pending2, Pends
  <2>10. QED BY <2>2, <2>9 DEF ComposedInv
<1>8. QED BY <1>6, <1>7

LEMMA FreeIs ==
  ASSUME NEW k \in 1 .. 2, ComposedBase, None(k + 1), \A j \in 1 .. k : Bodies!Exists(j)
  PROVE  Bodies!Free = k + 1
<1>1. DOMAIN cb_frame = 1 .. 3
  BY DEF ComposedBase
<1>2. ~Bodies!Exists(k + 1) /\ k + 1 \in 1 .. 3
  BY DEF None, Bodies!Exists
<1>3. \A g \in 1 .. 3 : ~Bodies!Exists(g) => k + 1 <= g
  <2>1. \A g \in 1 .. 3 : ~(g \in 1 .. k) => k + 1 <= g
    OBVIOUS
  <2>2. QED BY <2>1
<1>4. \A f \in 1 .. 3 : (~Bodies!Exists(f) /\ \A g \in 1 .. 3 : ~Bodies!Exists(g) => f <= g) => f = k + 1
  <2>1. ASSUME NEW f \in 1 .. 3, ~Bodies!Exists(f), \A g \in 1 .. 3 : ~Bodies!Exists(g) => f <= g
        PROVE  f = k + 1
    <3>1. f <= k + 1 /\ k + 1 <= f
      BY <1>2, <1>3, <2>1
    <3>2. QED BY <3>1
  <2>2. QED BY <2>1
<1>5. QED BY <1>1, <1>2, <1>3, <1>4 DEF Bodies!Free

\* The call of the coroutine that flattens the next item.
LEMMA FrameOpens ==
  ASSUME ComposedBase, NEW k \in 1 .. 2, Running(k, "begin"), Bodies!FlattenOuter, None(k + 1),
         \A j \in 1 .. k : Bodies!Exists(j), cb_frame[k].n /= Len(cb_frame[k].items)
  PROVE  /\ ComposedBase' /\ Running(k + 1, "begin")' /\ Is(k, "running", "look")'
         /\ Rest(k) = Rest(k + 1)' \o Rest(k)' /\ Rest(k)' \in Seq(Nat) /\ Rest(k + 1)' \in Seq(Nat)
         /\ \A j \in 1 .. 3 : j /= k /\ j /= k + 1 => cb_frame'[j] = cb_frame[j]
         /\ UNCHANGED <<c, asked, owned, shown>>
<1> DEFINE me == cb_frame[k]
           x == Opens(me, k + 1)
           y == Bodies!NewFrame("running", 0, me.items[me.n + 1], me.level - 1)
<1>1. Bodies!Top = k /\ Bodies!Free = k + 1 /\ stack = UpTo(k) /\ Is(k, "running", "begin")
  BY AtTop, FreeIs DEF Running
<1>2. /\ cb_frame' = [cb_frame EXCEPT ![k] = x, ![k + 1] = y] /\ stack' = Append(UpTo(k), k + 1)
      /\ UNCHANGED <<c, asked, owned, shown, undefined>>
  BY <1>1 DEF Bodies!FlattenOuter, Opens
<1>3. /\ ComposedBase' /\ cb_frame'[k] = x /\ cb_frame'[k + 1] = y
      /\ \A j \in 1 .. 3 : j /= k /\ j /= k + 1 => cb_frame'[j] = cb_frame[j]
  <2>1. k + 1 \in 1 .. 3 /\ k /= k + 1 /\ k \in 1 .. 3 /\ shown' \in Seq(Nat)
    BY <1>2 DEF ComposedBase
  <2> DEFINE l == k + 1
  <2>2. cb_frame' = [cb_frame EXCEPT ![k] = x, ![l] = y]
    BY <1>2
  <2>3. /\ ComposedBase /\ k \in 1 .. 3 /\ l \in 1 .. 3 /\ k /= l
        /\ c' = c /\ asked' = asked /\ undefined' = undefined /\ shown' \in Seq(Nat)
    BY <1>2, <2>1
  <2> HIDE DEF x, y, l
  <2>4. /\ ComposedBase' /\ cb_frame'[k] = x /\ cb_frame'[l] = y
        /\ \A j \in 1 .. 3 : j /= k /\ j /= l => cb_frame'[j] = cb_frame[j]
    BY ONLY <2>2, <2>3, TwoFrames
  <2>5. QED BY <2>4 DEF l
<1>4. /\ Is(k, "running", "look")' /\ Is(k + 1, "running", "begin")'
      /\ Rest(k) = Rest(k + 1)' \o Rest(k)' /\ Rest(k)' \in Seq(Nat) /\ Rest(k + 1)' \in Seq(Nat)
  BY <1>1, <1>3, Opened
<1>5. stack' = UpTo(k + 1)
  <2> DEFINE m == k + 1
  <2>1. m \in 1 .. 3 /\ m - 1 = k
    OBVIOUS
  <2> HIDE DEF m
  <2>2. Append(UpTo(m - 1), m) = UpTo(m)
    BY <2>1, StacksAre
  <2>3. QED BY <1>2, <2>1, <2>2 DEF m
<1>6. QED BY <1>2, <1>3, <1>4, <1>5 DEF Running

LEMMA OuterStep ==
  ASSUME ComposedInv, cb_program = "composed", Bodies!FlattenOuter
  PROVE  ComposedInv'
<1>1. Bodies!InFlatten("begin") /\ cb_frame[Bodies!Top].level > 1
  BY DEF Bodies!FlattenOuter
<1>2. Work1 \/ Work2
  <2>1. Work1 \/ Work2 \/ Work3
    BY <1>1, WhichPhase
  <2>2. ~Work3
    BY <1>1, AtTop DEF Work3
  <2>3. QED BY <2>1, <2>2
<1>3. CASE Work1
  <2>1. /\ Called /\ Running(1, "begin") /\ Is(1, "running", "begin") /\ None(2) /\ None(3) /\ shown \o Ahead1 = Numbers
        /\ ComposedBase
    BY <1>3 DEF Work1, Running, ComposedInv
  <2>2. Bodies!Top = 1 /\ Bodies!Exists(1)
    BY <2>1, AtTop, IsMeans
  <2>3. CASE cb_frame[1].n = Len(cb_frame[1].items)
    <3>1. Bodies!Return
      BY <2>2, <2>3 DEF Bodies!FlattenOuter
    <3>2. /\ ComposedBase' /\ stack' = UpTo(0) /\ Is(1, "final", "begin")' /\ Rest(1) = << >>
          /\ cb_frame'[2] = cb_frame[2] /\ cb_frame'[3] = cb_frame[3] /\ UNCHANGED <<c, asked, owned, shown>>
      BY <2>1, <2>3, <3>1, FrameEnds
    <3>3. shown' = Numbers'
      <4>1. shown \o << >> = shown
        BY <2>1, ConcatEmptySeq DEF ComposedBase
      <4>2. QED BY <2>1, <3>2, <4>1 DEF Ahead1, Numbers
    <3>4. Ended1'
      BY <2>1, <3>2, <3>3, StacksAre DEF Ended1, Called, None
    <3>5. QED BY <3>2, <3>4 DEF ComposedInv
  <2>4. CASE cb_frame[1].n /= Len(cb_frame[1].items)
    <3>1. /\ ComposedBase' /\ Running(2, "begin")' /\ Is(1, "running", "look")' /\ Rest(1) = Rest(2)' \o Rest(1)'
          /\ cb_frame'[3] = cb_frame[3] /\ UNCHANGED <<c, asked, owned, shown>>
      <4>1. \A j \in 1 .. 1 : Bodies!Exists(j)
        BY <2>2
      <4>2. 1 \in 1 .. 2 /\ 1 + 1 = 2 /\ None(1 + 1)
        BY <2>1
      <4>3. QED BY <2>1, <2>4, <4>1, <4>2, FrameOpens
    <3>2. Work2'
      BY <2>1, <3>1 DEF Work2, Called, None, Ahead1, Ahead2, Numbers
    <3>3. QED BY <3>1, <3>2 DEF ComposedInv
  <2>5. QED BY <2>3, <2>4
<1>4. CASE Work2
  <2>1. /\ Called /\ Running(2, "begin") /\ Is(2, "running", "begin") /\ Is(1, "running", "look") /\ None(3)
        /\ shown \o Ahead2 = Numbers /\ ComposedBase
    BY <1>4 DEF Work2, Running, ComposedInv
  <2>2. Bodies!Top = 2 /\ Bodies!Exists(1) /\ Bodies!Exists(2) /\ Rest(1) \in Seq(Nat)
    BY <2>1, AtTop, IsMeans
  <2>3. CASE cb_frame[2].n = Len(cb_frame[2].items)
    <3>1. Bodies!Return
      BY <2>2, <2>3 DEF Bodies!FlattenOuter
    <3>2. /\ ComposedBase' /\ stack' = UpTo(1) /\ Is(2, "final", "begin")' /\ Rest(2) = << >>
          /\ cb_frame'[1] = cb_frame[1] /\ cb_frame'[3] = cb_frame[3] /\ UNCHANGED <<c, asked, owned, shown>>
      BY <2>1, <2>3, <3>1, FrameEnds
    <3>3. Is(1, "running", "look")' /\ Rest(1)' = Rest(1)
      BY <2>1, <3>2, StaysSo
    <3>4. (shown \o Ahead1 = Numbers)'
      <4>1. << >> \o Rest(1) = Rest(1)
        BY <2>2, ConcatEmptySeq
      <4>2. QED BY <2>1, <3>2, <3>3, <4>1 DEF Ahead1, Ahead2, Numbers
    <3>5. Ended2'
      BY <2>1, <3>2, <3>3, <3>4 DEF Ended2, Called, None, Running
    <3>6. QED BY <3>2, <3>5 DEF ComposedInv
  <2>4. CASE cb_frame[2].n /= Len(cb_frame[2].items)
    <3>1. /\ ComposedBase' /\ Running(3, "begin")' /\ Is(2, "running", "look")' /\ Rest(2) = Rest(3)' \o Rest(2)'
          /\ Rest(2)' \in Seq(Nat) /\ Rest(3)' \in Seq(Nat)
          /\ cb_frame'[1] = cb_frame[1] /\ UNCHANGED <<c, asked, owned, shown>>
      <4>1. \A j \in 1 .. 2 : Bodies!Exists(j)
        BY <2>2
      <4>2. 2 \in 1 .. 2 /\ 2 + 1 = 3 /\ None(2 + 1)
        BY <2>1
      <4>3. QED BY <2>1, <2>4, <4>1, <4>2, FrameOpens
    <3>2. Is(1, "running", "look")' /\ Rest(1)' = Rest(1)
      BY <2>1, <3>1, StaysSo
    <3>3. (Rest(3)' \o Rest(2)') \o Rest(1) = Rest(3)' \o (Rest(2)' \o Rest(1))
      BY <2>2, <3>1, Assoc
    <3>4. (shown \o Ahead3 = Numbers)'
      BY <2>1, <3>1, <3>2, <3>3 DEF Ahead2, Ahead3, Numbers
    <3>5. Work3'
      BY <2>1, <3>1, <3>2, <3>4 DEF Work3, Called
    <3>6. QED BY <3>1, <3>5 DEF ComposedInv
  <2>5. QED BY <2>3, <2>4
<1>5. QED BY <1>2, <1>3, <1>4

\* it == end: the inner frame is destroyed.
LEMMA FrameCloses ==
  ASSUME ComposedBase, NEW k \in 1 .. 2, Running(k, "look"), NEW p, Is(k + 1, "final", p), Bodies!FlattenLook
  PROVE  /\ ComposedBase' /\ Running(k, "begin")' /\ None(k + 1)' /\ Rest(k)' = Rest(k)
         /\ \A j \in 1 .. 3 : j /= k /\ j /= k + 1 => cb_frame'[j] = cb_frame[j]
         /\ UNCHANGED <<c, asked, owned, shown>>
<1> DEFINE me == cb_frame[k]
           y == Closes(me)
           l == k + 1
           e == << >>
<1>1. Bodies!Top = k /\ stack = UpTo(k) /\ Is(k, "running", "look") /\ me.inner = l /\ l \in 1 .. 3 /\ k \in 1 .. 3
  BY AtTop DEF Running, Is
<1>2. Bodies!Done(l)
  BY <1>1, IsMeans DEF Bodies!Done, Is
<1>3. /\ cb_frame' = [cb_frame EXCEPT ![l] = e, ![k] = y]
      /\ UNCHANGED <<c, stack, asked, owned, shown, undefined>>
  BY <1>1, <1>2 DEF Bodies!FlattenLook, Closes
<1>4. /\ ComposedBase' /\ cb_frame'[l] = e /\ cb_frame'[k] = y
      /\ \A j \in 1 .. 3 : j /= l /\ j /= k => cb_frame'[j] = cb_frame[j]
  <2>1. /\ ComposedBase /\ k \in 1 .. 3 /\ l \in 1 .. 3 /\ l /= k
        /\ cb_frame' = [cb_frame EXCEPT ![l] = e, ![k] = y]
        /\ c' = c /\ asked' = asked /\ undefined' = undefined /\ shown' \in Seq(Nat)
    BY <1>1, <1>3 DEF ComposedBase
  <2> HIDE DEF l, e, y
  <2>2. QED BY ONLY <2>1, TwoFrames
<1>5. Is(k, "running", "begin")' /\ Rest(k)' = Rest(k)
  BY <1>1, <1>4, Closed
<1>6. QED BY <1>1, <1>3, <1>4, <1>5 DEF Running, None

\* it /= end: its value is yielded.
LEMMA FramePasses ==
  ASSUME ComposedBase, cb_program = "composed", NEW k \in 1 .. 2, Running(k, "look"), NEW p,
         Is(k + 1, "suspended", p), Bodies!FlattenLook
  PROVE  /\ ComposedBase' /\ stack' = UpTo(k - 1) /\ Is(k, "suspended", "ask")' /\ Rest(k)' = Rest(k)
         /\ cb_frame'[k].current = cb_frame[k + 1].current
         /\ \A j \in 1 .. 3 : j /= k => cb_frame'[j] = cb_frame[j]
         /\ UNCHANGED <<c, asked, owned, shown>>
<1> DEFINE me == cb_frame[k]
           v == cb_frame[k + 1].current
           x == YieldsOn(me, v)
<1>1. /\ Bodies!Top = k /\ Bodies!Front(stack) = UpTo(k - 1) /\ Is(k, "running", "look") /\ me.inner = k + 1
      /\ k + 1 \in 1 .. 3 /\ k \in 1 .. 3
  BY AtTop DEF Running, Is
<1>2. ~Bodies!Done(k + 1) /\ v \in Int
  BY <1>1, IsMeans DEF Bodies!Done, Is
<1>3. /\ cb_frame' = [cb_frame EXCEPT ![k] = x] /\ stack' = UpTo(k - 1)
      /\ UNCHANGED <<c, asked, owned, shown, undefined>>
  BY <1>1, <1>2 DEF Bodies!FlattenLook, Bodies!Yield, Bodies!Suspend, YieldsOn
<1>4. /\ ComposedBase' /\ cb_frame'[k] = x /\ \A j \in 1 .. 3 : j /= k => cb_frame'[j] = cb_frame[j]
  <2>1. /\ ComposedBase /\ k \in 1 .. 3 /\ cb_frame' = [cb_frame EXCEPT ![k] = x]
        /\ c' = c /\ asked' = asked /\ undefined' = undefined /\ shown' \in Seq(Nat)
    BY <1>1, <1>3 DEF ComposedBase
  <2> HIDE DEF x
  <2>2. QED BY ONLY <2>1, OneFrame
<1>5. Is(k, "suspended", "ask")' /\ Rest(k)' = Rest(k) /\ cb_frame'[k].current = v
  <2>1. cb_frame'[k] = YieldsOn(cb_frame[k], v)
    BY <1>4
  <2> HIDE DEF v
  <2>2. QED BY <1>1, <1>2, <2>1, PassesOn
<1>6. QED BY <1>3, <1>4, <1>5

LEMMA LookStep ==
  ASSUME ComposedInv, cb_program = "composed", Bodies!FlattenLook
  PROVE  ComposedInv'
<1>1. ComposedBase /\ 1 \in 1 .. 2 /\ 2 \in 1 .. 2 /\ 1 + 1 = 2 /\ 2 + 1 = 3 /\ 1 - 1 = 0 /\ 2 - 1 = 1
  BY DEF ComposedInv
<1>2. CASE Ended2
  <2>1. Called /\ Running(1, "look") /\ Is(2, "final", "begin") /\ None(3) /\ shown \o Ahead1 = Numbers
    BY <1>2 DEF Ended2
  <2>2. /\ ComposedBase' /\ Running(1, "begin")' /\ None(2)' /\ Rest(1)' = Rest(1) /\ cb_frame'[3] = cb_frame[3]
        /\ UNCHANGED <<c, asked, owned, shown>>
    <3>1. Is(1 + 1, "final", "begin")
      BY <2>1
    <3>2. /\ ComposedBase' /\ Running(1, "begin")' /\ None(1 + 1)' /\ Rest(1)' = Rest(1)
          /\ \A j \in 1 .. 3 : j /= 1 /\ j /= 1 + 1 => cb_frame'[j] = cb_frame[j]
          /\ UNCHANGED <<c, asked, owned, shown>>
      BY <1>1, <2>1, <3>1, FrameCloses
    <3>3. QED BY <3>2
  <2>3. Work1'
    BY <2>1, <2>2 DEF Work1, Called, None, Ahead1, Numbers
  <2>4. QED BY <2>2, <2>3 DEF ComposedInv
<1>3. CASE Ended3
  <2>1. /\ Called /\ Running(2, "look") /\ Is(1, "running", "look") /\ Is(3, "final", "begin")
        /\ shown \o Ahead2 = Numbers
    BY <1>3 DEF Ended3
  <2>2. /\ ComposedBase' /\ Running(2, "begin")' /\ None(3)' /\ Rest(2)' = Rest(2) /\ cb_frame'[1] = cb_frame[1]
        /\ UNCHANGED <<c, asked, owned, shown>>
    <3>1. Is(2 + 1, "final", "begin")
      BY <2>1
    <3>2. /\ ComposedBase' /\ Running(2, "begin")' /\ None(2 + 1)' /\ Rest(2)' = Rest(2)
          /\ \A j \in 1 .. 3 : j /= 2 /\ j /= 2 + 1 => cb_frame'[j] = cb_frame[j]
          /\ UNCHANGED <<c, asked, owned, shown>>
      BY <1>1, <2>1, <3>1, FrameCloses
    <3>3. QED BY <3>2
  <2>3. Is(1, "running", "look")' /\ Rest(1)' = Rest(1)
    BY <2>1, <2>2, StaysSo
  <2>4. Work2'
    BY <2>1, <2>2, <2>3 DEF Work2, Called, Ahead2, Numbers
  <2>5. QED BY <2>2, <2>4 DEF ComposedInv
<1>4. CASE Pending2
  <2>1. Called /\ Running(2, "look") /\ Is(1, "running", "look") /\ Pends /\ Is(3, "suspended", "begin")
    BY <1>4 DEF Pending2, Pends
  <2>2. /\ ComposedBase' /\ stack' = UpTo(1) /\ Is(2, "suspended", "ask")' /\ Rest(2)' = Rest(2)
        /\ cb_frame'[2].current = Value /\ cb_frame'[1] = cb_frame[1] /\ cb_frame'[3] = cb_frame[3]
        /\ UNCHANGED <<c, asked, owned, shown>>
    <3>1. Is(2 + 1, "suspended", "begin")
      BY <2>1
    <3>2. /\ ComposedBase' /\ stack' = UpTo(2 - 1) /\ Is(2, "suspended", "ask")' /\ Rest(2)' = Rest(2)
          /\ cb_frame'[2].current = cb_frame[2 + 1].current
          /\ \A j \in 1 .. 3 : j /= 2 => cb_frame'[j] = cb_frame[j]
          /\ UNCHANGED <<c, asked, owned, shown>>
      BY <1>1, <2>1, <3>1, FramePasses
    <3>3. QED BY <3>2 DEF Value
  <2>3. /\ Is(1, "running", "look")' /\ Rest(1)' = Rest(1) /\ Is(3, "suspended", "begin")' /\ Rest(3)' = Rest(3)
        /\ Value' = Value
    BY <2>1, <2>2, StaysSo DEF Value
  <2>4. Pends'
    BY <2>1, <2>2, <2>3 DEF Pends, Ahead3, Numbers
  <2>5. Pending1'
    BY <2>1, <2>2, <2>3, <2>4 DEF Pending1, Called, Running
  <2>6. QED BY <2>2, <2>5 DEF ComposedInv
<1>5. CASE Pending1
  <2>1. /\ Called /\ Running(1, "look") /\ Is(2, "suspended", "ask") /\ Pends /\ Is(3, "suspended", "begin")
        /\ cb_frame[2].current = Value
    BY <1>5 DEF Pending1, Pends
  <2>2. /\ ComposedBase' /\ stack' = UpTo(0) /\ Is(1, "suspended", "ask")' /\ Rest(1)' = Rest(1)
        /\ cb_frame'[1].current = Value /\ cb_frame'[2] = cb_frame[2] /\ cb_frame'[3] = cb_frame[3]
        /\ UNCHANGED <<c, asked, owned, shown>>
    <3>1. Is(1 + 1, "suspended", "ask")
      BY <2>1
    <3>2. /\ ComposedBase' /\ stack' = UpTo(1 - 1) /\ Is(1, "suspended", "ask")' /\ Rest(1)' = Rest(1)
          /\ cb_frame'[1].current = cb_frame[1 + 1].current
          /\ \A j \in 1 .. 3 : j /= 1 => cb_frame'[j] = cb_frame[j]
          /\ UNCHANGED <<c, asked, owned, shown>>
      BY <1>1, <2>1, <3>1, FramePasses
    <3>3. QED BY <3>2, <2>1
  <2>3. /\ Is(2, "suspended", "ask")' /\ Rest(2)' = Rest(2) /\ Is(3, "suspended", "begin")' /\ Rest(3)' = Rest(3)
        /\ Value' = Value
    BY <2>1, <2>2, StaysSo DEF Value
  <2>4. Pends'
    BY <2>1, <2>2, <2>3 DEF Pends, Ahead3, Numbers
  <2>5. Pending0'
    BY <2>1, <2>2, <2>3, <2>4, StacksAre DEF Pending0, Called
  <2>6. QED BY <2>2, <2>5 DEF ComposedInv
<1>6. QED BY <1>2, <1>3, <1>4, <1>5, WhichPhase DEF Bodies!FlattenLook

-----------------------------------------------------------------------------
\* ++it: the inner frame is resumed.
LEMMA FrameAsks ==
  ASSUME ComposedBase, NEW k \in 1 .. 2, Running(k, "ask"), NEW p, Is(k + 1, "suspended", p), Bodies!FlattenAsk
  PROVE  /\ ComposedBase' /\ Is(k, "running", "look")' /\ Rest(k)' = Rest(k)
         /\ Running(k + 1, p)' /\ Rest(k + 1)' = Rest(k + 1)
         /\ \A j \in 1 .. 3 : j /= k /\ j /= k + 1 => cb_frame'[j] = cb_frame[j]
         /\ UNCHANGED <<c, asked, owned, shown>>
<1> DEFINE l == k + 1
           x == AtPoint(cb_frame[k], "look")
           y == InState(cb_frame[l], "running")
<1>1. /\ Bodies!Top = k /\ stack = UpTo(k) /\ Is(k, "running", "ask") /\ cb_frame[k].inner = l
      /\ l \in 1 .. 3 /\ k \in 1 .. 3 /\ k /= l
  BY AtTop DEF Running, Is
<1>2. Bodies!Suspended(l)
  BY <1>1, IsMeans DEF Bodies!Suspended, Is
<1>3. /\ cb_frame' = [cb_frame EXCEPT ![k] = x, ![l] = y] /\ stack' = Append(UpTo(k), l)
      /\ UNCHANGED <<c, asked, owned, shown, undefined>>
  <2>1. /\ cb_frame' = [cb_frame EXCEPT ![k].point = "look", ![l].state = "running"] /\ stack' = Append(UpTo(k), l)
        /\ UNCHANGED <<c, asked, owned, shown>> /\ undefined' = (undefined \/ ~Bodies!Suspended(l))
    BY <1>1 DEF Bodies!FlattenAsk
  <2>2. undefined' = undefined
    BY <2>1, <1>2 DEF ComposedBase
  <2>3. cb_frame' = [cb_frame EXCEPT ![k] = x, ![l] = y]
    BY <2>1, <1>1 DEF AtPoint, InState
  <2>4. QED BY <2>1, <2>2, <2>3
<1>4. /\ ComposedBase' /\ cb_frame'[k] = x /\ cb_frame'[l] = y
      /\ \A j \in 1 .. 3 : j /= k /\ j /= l => cb_frame'[j] = cb_frame[j]
  <2>1. /\ ComposedBase /\ k \in 1 .. 3 /\ l \in 1 .. 3 /\ k /= l
        /\ cb_frame' = [cb_frame EXCEPT ![k] = x, ![l] = y]
        /\ c' = c /\ asked' = asked /\ undefined' = undefined /\ shown' \in Seq(Nat)
    BY <1>1, <1>3 DEF ComposedBase
  <2> HIDE DEF l, x, y
  <2>2. QED BY ONLY <2>1, TwoFrames
<1>5. Is(k, "running", "look")' /\ Rest(k)' = Rest(k)
  BY <1>1, <1>4, PointChanges
<1>6. Is(l, "running", p)' /\ Rest(l)' = Rest(l)
  <2>1. Is(l, "suspended", p) /\ cb_frame'[l] = InState(cb_frame[l], "running") /\ l \in 1 .. 3
        /\ "running" \in {"suspended", "running", "final"}
    BY <1>1, <1>4
  <2> HIDE DEF l
  <2>2. QED BY <2>1, StateChanges
<1>7. stack' = UpTo(l)
  <2>1. l - 1 = k /\ l \in 1 .. 3
    BY <1>1
  <2> HIDE DEF l
  <2>2. Append(UpTo(l - 1), l) = UpTo(l)
    BY <2>1, StacksAre
  <2>3. QED BY <1>3, <2>1, <2>2
<1>8. QED BY <1>3, <1>4, <1>5, <1>6, <1>7 DEF Running

LEMMA AskStep ==
  ASSUME ComposedInv, Bodies!FlattenAsk
  PROVE  ComposedInv'
<1>1. ComposedBase /\ 1 \in 1 .. 2 /\ 2 \in 1 .. 2 /\ 1 + 1 = 2 /\ 2 + 1 = 3
  BY DEF ComposedInv
<1>2. CASE Asking1
  <2>1. /\ Called /\ Running(1, "ask") /\ Is(2, "suspended", "ask") /\ Is(3, "suspended", "begin")
        /\ shown \o Ahead3 = Numbers
    BY <1>2 DEF Asking1
  <2>2. /\ ComposedBase' /\ Is(1, "running", "look")' /\ Rest(1)' = Rest(1)
        /\ Running(2, "ask")' /\ Rest(2)' = Rest(2) /\ cb_frame'[3] = cb_frame[3]
        /\ UNCHANGED <<c, asked, owned, shown>>
    <3>1. Is(1 + 1, "suspended", "ask")
      BY <2>1
    <3>2. /\ ComposedBase' /\ Is(1, "running", "look")' /\ Rest(1)' = Rest(1)
          /\ Running(1 + 1, "ask")' /\ Rest(1 + 1)' = Rest(1 + 1)
          /\ \A j \in 1 .. 3 : j /= 1 /\ j /= 1 + 1 => cb_frame'[j] = cb_frame[j]
          /\ UNCHANGED <<c, asked, owned, shown>>
      BY <1>1, <2>1, <3>1, FrameAsks
    <3>3. QED BY <3>2
  <2>3. Is(3, "suspended", "begin")' /\ Rest(3)' = Rest(3)
    BY <2>1, <2>2, StaysSo
  <2>4. Asking2'
    BY <2>1, <2>2, <2>3 DEF Asking2, Called, Ahead3, Numbers
  <2>5. QED BY <2>2, <2>4 DEF ComposedInv
<1>3. CASE Asking2
  <2>1. /\ Called /\ Running(2, "ask") /\ Is(1, "running", "look") /\ Is(3, "suspended", "begin")
        /\ shown \o Ahead3 = Numbers
    BY <1>3 DEF Asking2
  <2>2. /\ ComposedBase' /\ Is(2, "running", "look")' /\ Rest(2)' = Rest(2)
        /\ Running(3, "begin")' /\ Rest(3)' = Rest(3) /\ cb_frame'[1] = cb_frame[1]
        /\ UNCHANGED <<c, asked, owned, shown>>
    <3>1. Is(2 + 1, "suspended", "begin")
      BY <2>1
    <3>2. /\ ComposedBase' /\ Is(2, "running", "look")' /\ Rest(2)' = Rest(2)
          /\ Running(2 + 1, "begin")' /\ Rest(2 + 1)' = Rest(2 + 1)
          /\ \A j \in 1 .. 3 : j /= 2 /\ j /= 2 + 1 => cb_frame'[j] = cb_frame[j]
          /\ UNCHANGED <<c, asked, owned, shown>>
      BY <1>1, <2>1, <3>1, FrameAsks
    <3>3. QED BY <3>2
  <2>3. Is(1, "running", "look")' /\ Rest(1)' = Rest(1)
    BY <2>1, <2>2, StaysSo
  <2>4. Work3'
    BY <2>1, <2>2, <2>3 DEF Work3, Called, Ahead3, Numbers
  <2>5. QED BY <2>2, <2>4 DEF ComposedInv
<1>4. QED BY <1>2, <1>3, WhichPhase DEF Bodies!FlattenAsk

LEMMA Wanted ==
  ASSUME cb_program = "composed"
  PROVE  Bodies!Mains = {1} /\ (Bodies!Wants(1) <=> ~Bodies!Done(1))
<1>1. Bodies!Mains = {1}
  BY MainIsOne
<1>2. QED BY <1>1 DEF Bodies!Wants, Bodies!Resumes

LEMMA AskedChanges ==
  ASSUME ComposedBase, NEW n, asked' = [asked EXCEPT ![1] = n]
  PROVE  asked'[1] = n /\ asked' = [f \in {1} |-> asked'[1]]
BY DEF ComposedBase

LEMMA NumbersType ==
  ASSUME ComposedBase
  PROVE  Numbers \in Seq(Nat)
<1>1. c \in Seq(Seq(Seq(Nat)))
  BY DEF ComposedBase
<1>2. Bodies!FlattenSeq(c) \in Seq(Seq(Nat))
  BY <1>1, FlattenType
<1>3. QED BY <1>2, FlattenType DEF Numbers

LEMMA ComposedCall ==
  ASSUME ComposedInv, cb_program = "composed", Bodies!Call(1)
  PROVE  ComposedInv'
<1>1. ComposedBase /\ 1 \in 1 .. 3
  BY DEF ComposedInv
<1>2. asked[1] = -1
  BY DEF Bodies!Call
<1>3. Unborn
  BY <1>2 DEF ComposedInv, Called, Gone, Work1, Work2, Work3, Ended1, Ended2, Ended3, Pending2, Pending1, Pending0,
              Asking1, Asking2
<1> DEFINE x == Bodies!NewFrame("running", 0, c, 3)
<1>4. /\ cb_frame' = [cb_frame EXCEPT ![1] = x] /\ stack' = <<1>> /\ asked' = [asked EXCEPT ![1] = 0]
      /\ owned' = owned \cup {1} /\ UNCHANGED <<c, shown, undefined>>
  BY OwnedTypes DEF Bodies!Call
<1>5. cb_frame'[1] = x /\ \A j \in 1 .. 3 : j /= 1 => cb_frame'[j] = cb_frame[j]
  <2> HIDE DEF x
  <2>1. QED BY <1>1, <1>4 DEF ComposedBase
<1>6. cb_frame' = [f \in 1 .. 3 |-> cb_frame'[f]]
  <2> HIDE DEF x
  <2>1. QED BY <1>1, <1>4 DEF ComposedBase
<1>7. asked'[1] = 0 /\ asked' = [f \in {1} |-> asked'[1]]
  BY <1>1, <1>4, AskedChanges
<1>8. ComposedBase'
  BY <1>1, <1>4, <1>6, <1>7 DEF ComposedBase
<1>9. c \in ItemsAt(1) /\ Len(c) \in Nat
  BY <1>1, LenProperties DEF ComposedBase, ItemsAt
<1>10. /\ cb_frame'[1] \in FrameOf(AnyItems) /\ cb_frame'[1].state = "running" /\ cb_frame'[1].n = 0
       /\ cb_frame'[1].point = "begin" /\ cb_frame'[1].items = c /\ cb_frame'[1].level = 3
  <2> DEFINE three == 3
  <2>1. c \in AnyItems /\ three \in 1 .. 3
    BY <1>9 DEF AnyItems
  <2>2. cb_frame'[1] = Bodies!NewFrame("running", 0, c, three)
    BY <1>5
  <2> HIDE DEF three
  <2>3. /\ cb_frame'[1] \in FrameOf(AnyItems) /\ cb_frame'[1].state = "running" /\ cb_frame'[1].n = 0
        /\ cb_frame'[1].point = "begin" /\ cb_frame'[1].items = c /\ cb_frame'[1].level = three
    BY <2>1, <2>2, StartsAt
  <2>4. QED BY <2>3 DEF three
<1>11. Is(1, "running", "begin")'
  BY <1>4, <1>9, <1>10 DEF Is, CFrame
<1>12. Rest(1)' = Numbers
  <2>1. Rest(1)' = RestOf(1, c, 0)
    BY <1>10 DEF Rest
  <2>2. Left(c, 0) = c
    <3> DEFINE S == Seq(Seq(Nat))
    <3>1. c \in Seq(S) /\ 0 \in Nat /\ 0 <= Len(c)
      BY <1>1, <1>9 DEF ComposedBase
    <3> HIDE DEF S
    <3>2. QED BY <3>1, LeftIs
  <2>3. QED BY <2>1, <2>2 DEF RestOf, Numbers
<1>13. (shown \o Ahead1 = Numbers)'
  <2>1. Numbers \in Seq(Nat)
    BY <1>1, NumbersType
  <2>2. << >> \o Rest(1)' = Rest(1)'
    BY <1>12, <2>1, ConcatEmptySeq
  <2>3. QED BY <1>3, <1>4, <1>12, <2>2 DEF Unborn, Ahead1, Numbers
<1>14. Work1'
  BY <1>3, <1>4, <1>5, <1>7, <1>11, <1>13, StacksAre DEF Work1, Called, Running, Unborn, None
<1>15. QED BY <1>8, <1>14 DEF ComposedInv

LEMMA ComposedAsk ==
  ASSUME ComposedInv, cb_program = "composed", Bodies!Ask(1)
  PROVE  ComposedInv'
<1>1. ComposedBase /\ 1 \in 1 .. 3
  BY DEF ComposedInv
<1>2. stack = << >> /\ 1 \in owned /\ ~Bodies!Done(1)
  BY Wanted, OwnedTypes DEF Bodies!Ask, Bodies!InMain
<1>3. Pending0
  <2>1. Unborn \/ Gone \/ Ended1 \/ Pending0
    BY <1>2, WhichPhase
  <2>2. ~Unborn /\ ~Gone
    BY <1>2 DEF Unborn, Gone
  <2>3. ~Ended1
    BY <1>2, IsMeans DEF Ended1, Is, Bodies!Done
  <2>4. QED BY <2>1, <2>2, <2>3
<1>4. /\ Called /\ Is(1, "suspended", "ask") /\ Is(2, "suspended", "ask") /\ Is(3, "suspended", "begin")
      /\ Value \in Nat /\ shown \o (<<Value>> \o Ahead3) = Numbers /\ cb_frame[1].current = Value
  BY <1>3 DEF Pending0, Pends
<1>5. Bodies!Suspended(1)
  BY <1>4, IsMeans DEF Is, Bodies!Suspended
<1> DEFINE x == InState(cb_frame[1], "running")
<1>6. /\ cb_frame' = [cb_frame EXCEPT ![1] = x] /\ stack' = <<1>> /\ asked' = [asked EXCEPT ![1] = @ + 1]
      /\ shown' = Append(shown, Value) /\ undefined' = (undefined \/ FALSE) /\ UNCHANGED <<c, owned>>
  BY <1>4, <1>5 DEF Bodies!Ask, InState
<1>7. cb_frame'[1] = x /\ \A j \in 1 .. 3 : j /= 1 => cb_frame'[j] = cb_frame[j]
  <2> HIDE DEF x
  <2>1. QED BY <1>1, <1>6 DEF ComposedBase
<1>8. cb_frame' = [f \in 1 .. 3 |-> cb_frame'[f]]
  <2> HIDE DEF x
  <2>1. QED BY <1>1, <1>6 DEF ComposedBase
<1>9. asked'[1] = asked[1] + 1 /\ asked' = [f \in {1} |-> asked'[1]]
  BY <1>1, <1>6 DEF ComposedBase
<1>10. shown' \in Seq(Nat) /\ shown' = shown \o <<Value>> /\ shown \in Seq(Nat) /\ <<Value>> \in Seq(Nat)
  <2>1. shown \in Seq(Nat)
    BY <1>1 DEF ComposedBase
  <2> DEFINE v == Value
  <2>2. v \in Nat /\ shown' = Append(shown, v)
    BY <1>4, <1>6
  <2> HIDE DEF v
  <2>3. Append(shown, v) = shown \o <<v>> /\ Append(shown, v) \in Seq(Nat) /\ <<v>> \in Seq(Nat)
    BY <2>1, <2>2, AppendIsConcat, AppendProperties
  <2>4. QED BY <2>1, <2>2, <2>3 DEF v
<1>11. ComposedBase'
  BY <1>1, <1>6, <1>8, <1>9, <1>10 DEF ComposedBase
<1>12. Is(1, "running", "ask")' /\ Rest(1)' = Rest(1)
  <2>1. "running" \in {"suspended", "running", "final"}
    OBVIOUS
  <2>2. QED BY <1>1, <1>4, <1>7, <2>1, StateChanges
<1>13. /\ Is(2, "suspended", "ask")' /\ Rest(2)' = Rest(2) /\ Is(3, "suspended", "begin")' /\ Rest(3)' = Rest(3)
  BY <1>4, <1>7, StaysSo
<1>14. (shown \o Ahead3 = Numbers)'
  <2>1. Ahead3 \in Seq(Nat)
    <3>1. Rest(1) \in Seq(Nat) /\ Rest(2) \in Seq(Nat) /\ Rest(3) \in Seq(Nat)
      BY <1>4, IsMeans
    <3>2. Rest(2) \o Rest(1) \in Seq(Nat)
      BY <3>1, Assoc
    <3>3. QED BY <3>1, <3>2, Assoc DEF Ahead3
  <2>2. (shown \o <<Value>>) \o Ahead3 = shown \o (<<Value>> \o Ahead3)
    BY <1>10, <2>1, Assoc
  <2>3. Ahead3' = Ahead3
    BY <1>12, <1>13 DEF Ahead3
  <2>4. QED BY <1>4, <1>6, <1>10, <2>2, <2>3 DEF Numbers
<1>15. Asking1'
  BY <1>4, <1>6, <1>9, <1>12, <1>13, <1>14, StacksAre DEF Asking1, Called, Running
<1>16. QED BY <1>11, <1>15 DEF ComposedInv

LEMMA ComposedDestroy ==
  ASSUME ComposedInv, cb_program = "composed", Bodies!Destroy(1)
  PROVE  ComposedInv'
<1>1. ComposedBase /\ 1 \in 1 .. 3
  BY DEF ComposedInv
<1>2. stack = << >> /\ 1 \in owned /\ Bodies!Done(1)
  BY Wanted DEF Bodies!Destroy, Bodies!InMain
<1>3. Ended1
  <2>1. Unborn \/ Gone \/ Ended1 \/ Pending0
    BY <1>2, WhichPhase
  <2>2. ~Unborn /\ ~Gone
    BY <1>2 DEF Unborn, Gone
  <2>3. ~Pending0
    BY <1>2 DEF Pending0, Is, Bodies!Done
  <2>4. QED BY <2>1, <2>2, <2>3
<1>4. Called /\ Is(1, "final", "begin") /\ None(2) /\ None(3) /\ shown = Numbers
  BY <1>3 DEF Ended1
<1> DEFINE e == << >>
<1>5. /\ cb_frame' = [cb_frame EXCEPT ![1] = e] /\ owned' = owned \ {1}
      /\ UNCHANGED <<c, stack, asked, shown>> /\ undefined' = (undefined \/ FALSE)
  <2>1. Bodies!Exists(1) /\ cb_frame[1].state /= "running"
    BY <1>4, IsMeans DEF Is
  <2>2. QED BY <2>1 DEF Bodies!Destroy
<1>6. ComposedBase' /\ cb_frame'[1] = e /\ \A j \in 1 .. 3 : j /= 1 => cb_frame'[j] = cb_frame[j]
  <2>1. /\ ComposedBase /\ 1 \in 1 .. 3 /\ cb_frame' = [cb_frame EXCEPT ![1] = e]
        /\ c' = c /\ asked' = asked /\ undefined' = undefined /\ shown' \in Seq(Nat)
    BY <1>1, <1>5 DEF ComposedBase
  <2> HIDE DEF e
  <2>2. QED BY ONLY <2>1, OneFrame
<1>7. Gone'
  BY <1>2, <1>4, <1>5, <1>6 DEF Gone, Called, None, Numbers
<1>8. QED BY <1>6, <1>7 DEF ComposedInv

LEMMA ComposedKept ==
  ASSUME ComposedInv, cb_program = "composed", [Bodies!Next]_bodyVars
  PROVE  ComposedInv'
<1>1. CASE UNCHANGED bodyVars
  BY <1>1 DEF bodyVars, ComposedInv, ComposedBase, Unborn, Gone, Work1, Work2, Work3, Ended1, Ended2, Ended3, Pending2,
              Pending1, Pending0, Pends, Asking1, Asking2, Called, Running, Is, None, Value, Numbers, Ahead1, Ahead2, Ahead3,
              Rest
<1>2. CASE Bodies!Ended
  BY <1>1, <1>2 DEF Bodies!Ended, Bodies!vars, bodyVars
<1>3. CASE \E f \in Bodies!Mains : Bodies!Call(f) \/ Bodies!Ask(f) \/ Bodies!Destroy(f)
  BY <1>3, Wanted, ComposedCall, ComposedAsk, ComposedDestroy
<1>4. ~Bodies!Await /\ ~Bodies!Generate /\ ~Bodies!Accumulate
  BY OwnedTypes DEF Bodies!Await, Bodies!Generate, Bodies!Accumulate
<1>5. QED
  BY <1>1, <1>2, <1>3, <1>4, LeafStep, OuterStep, LookStep, AskStep DEF Bodies!Next

LEMMA TuplesAre ==
  ASSUME NEW S, NEW U, S \subseteq U
  PROVE  Bodies!Tuples(S) \subseteq Seq(U)
<1>1. ASSUME NEW n \in 0 .. Width, NEW t \in [1 .. n -> S]
      PROVE  t \in Seq(U)
  <2>1. n \in Nat /\ \A j \in 1 .. n : t[j] \in U
    BY <1>1, CoroutinesAssumption DEF CoroutinesAssumption
  <2>2. QED BY <2>1
<1>2. QED BY <1>1 DEF Bodies!Tuples

LEMMA ContainersAre == Bodies!Containers \subseteq Seq(Seq(Seq(Nat)))
<1>1. Bodies!Tuples(Leaves) \subseteq Seq(Seq(Nat))
  BY TuplesAre, CoroutinesAssumption DEF CoroutinesAssumption
<1>2. Bodies!Tuples(Bodies!Tuples(Leaves)) \subseteq Seq(Seq(Seq(Nat)))
  BY <1>1, TuplesAre
<1>3. << << <<1, 2>>, <<3, 4>> >>, << <<5, 6>>, <<7, 8>> >> >> \in Seq(Seq(Seq(Nat)))
  <2>1. <<1, 2>> \in Seq(Nat) /\ <<3, 4>> \in Seq(Nat) /\ <<5, 6>> \in Seq(Nat) /\ <<7, 8>> \in Seq(Nat)
    OBVIOUS
  <2>2. \A S : \A x, y \in S : <<x, y>> \in Seq(S)
    OBVIOUS
  <2>3. << <<1, 2>>, <<3, 4>> >> \in Seq(Seq(Nat)) /\ << <<5, 6>>, <<7, 8>> >> \in Seq(Seq(Nat))
    BY <2>1, <2>2
  <2>4. QED BY <2>2, <2>3
<1>4. QED BY <1>2, <1>3 DEF Bodies!Containers

LEMMA ComposedInit ==
  ASSUME Bodies!Init, cb_program = "composed"
  PROVE  ComposedInv
<1>1. Bodies!Mains = {1} /\ 1 .. 3 \cup {1} = 1 .. 3
  BY MainIsOne
<1>2. /\ c \in Bodies!Containers /\ cb_frame = [f \in 1 .. 3 |-> << >>] /\ asked = [f \in {1} |-> -1]
      /\ stack = << >> /\ owned = {} /\ shown = << >> /\ undefined = FALSE
  BY <1>1 DEF Bodies!Init
<1>3. << >> \in Seq(Nat)
  BY EmptySeq
<1>4. ComposedBase
  BY <1>2, <1>3, ContainersAre DEF ComposedBase
<1>5. Unborn
  BY <1>2 DEF Unborn, None
<1>6. QED BY <1>4, <1>5 DEF ComposedInv

LEMMA AheadTypes ==
  /\ \A s, p : Is(1, s, p) => Ahead1 \in Seq(Nat)
  /\ \A s, t, p, q : Is(1, s, p) /\ Is(2, t, q) => Ahead2 \in Seq(Nat)
  /\ \A s, t, u, p, q, r : Is(1, s, p) /\ Is(2, t, q) /\ Is(3, u, r) => Ahead3 \in Seq(Nat)
<1>1. \A s, p : Is(1, s, p) => Rest(1) \in Seq(Nat)
  BY IsMeans
<1>2. \A t, q : Is(2, t, q) => Rest(2) \in Seq(Nat)
  BY IsMeans
<1>3. \A u, r : Is(3, u, r) => Rest(3) \in Seq(Nat)
  BY IsMeans
<1>4. \A x, y \in Seq(Nat) : x \o y \in Seq(Nat)
  BY ConcatProperties
<1>5. QED BY <1>1, <1>2, <1>3, <1>4 DEF Ahead1, Ahead2, Ahead3

\* What is shown, followed by what the frames have not come to, is everything.
LEMMA SomeAhead ==
  ASSUME ComposedInv
  PROVE  \E rest \in Seq(Nat) : Unborn \/ shown \o rest = Numbers
<1>1. << >> \in Seq(Nat) /\ shown \o << >> = shown
  BY ConcatEmptySeq, EmptySeq DEF ComposedInv, ComposedBase
<1>2. CASE Unborn \/ Gone \/ Ended1
  BY <1>1, <1>2 DEF Gone, Ended1
<1>3. CASE Work1 \/ Ended2
  BY <1>3, AheadTypes DEF Work1, Ended2, Running
<1>4. CASE Work2 \/ Ended3
  BY <1>4, AheadTypes DEF Work2, Ended3, Running
<1>5. CASE Work3 \/ Asking1 \/ Asking2
  BY <1>5, AheadTypes DEF Work3, Asking1, Asking2, Running
<1>6. CASE Pending2 \/ Pending1 \/ Pending0
  <2>1. Ahead3 \in Seq(Nat) /\ Value \in Nat /\ shown \o (<<Value>> \o Ahead3) = Numbers
    BY <1>6, AheadTypes DEF Pending2, Pending1, Pending0, Pends, Running
  <2>2. <<Value>> \o Ahead3 \in Seq(Nat)
    <3> DEFINE v == Value
    <3>1. <<v>> \in Seq(Nat)
      BY <2>1
    <3>2. QED BY <3>1, <2>1, ConcatProperties
  <2>3. QED BY <2>1, <2>2
<1>7. QED BY <1>2, <1>3, <1>4, <1>5, <1>6 DEF ComposedInv

LEMMA StartOf ==
  ASSUME NEW s \in Seq(Nat), NEW t \in Seq(Nat)
  PROVE  Bodies!IsPrefix(s, s \o t)
<1> DEFINE u == s \o t
<1>1. /\ u \in Seq(Nat) /\ Len(u) = Len(s) + Len(t) /\ Len(s) \in Nat /\ Len(t) \in Nat
      /\ \A j \in 1 .. Len(s) : u[j] = s[j] /\ s[j] \in Nat
  BY ConcatProperties, LenProperties
<1> HIDE DEF u
<1>2. Len(s) <= Len(u)
  BY <1>1
<1>3. SubSeq(u, 1, Len(s)) = SubSeq(s, 1, Len(s))
  BY <1>1, <1>2, SubSeqFull
<1>4. QED BY <1>2, <1>3 DEF Bodies!IsPrefix, u

LEMMA ComposedMeans ==
  ASSUME ComposedInv, cb_program = "composed"
  PROVE  BodiesRight
<1>1. Bodies!AwaitsAnswered /\ Bodies!OrbitsFollowed /\ Bodies!FirstOneUnseen
  BY OwnedTypes DEF Bodies!AwaitsAnswered, Bodies!OrbitsFollowed, Bodies!FirstOneUnseen
<1>2. Bodies!Exited => Gone
  <2> SUFFICES ASSUME Bodies!Exited PROVE Gone
    OBVIOUS
  <2>1. stack = << >> /\ owned = {} /\ asked[1] /= -1
    BY Wanted DEF Bodies!Exited, Bodies!InMain
  <2>2. QED BY <2>1, WhichPhase DEF Unborn, Ended1, Pending0, Called
<1>3. Bodies!FramesUsedWell
  <2>1. ~undefined /\ DOMAIN cb_frame = 1 .. 3
    BY DEF ComposedInv, ComposedBase
  <2>2. QED BY <1>2, <2>1 DEF Bodies!FramesUsedWell, Bodies!Exists, Gone, None
<1>4. shown \in Seq(Nat) /\ c \in Seq(Seq(Seq(Nat)))
  BY DEF ComposedInv, ComposedBase
<1>5. Bodies!IsPrefix(shown, Numbers)
  <2>1. PICK rest \in Seq(Nat) : Unborn \/ shown \o rest = Numbers
    BY SomeAhead
  <2>2. CASE Unborn
    <3>1. Numbers \in Seq(Nat)
      BY NumbersType DEF ComposedInv
    <3>2. shown \o Numbers = Numbers
      BY <2>2, <3>1, ConcatEmptySeq DEF Unborn
    <3>3. QED BY <1>4, <3>1, <3>2, StartOf
  <2>3. CASE shown \o rest = Numbers
    BY <1>4, <2>3, StartOf
  <2>4. QED BY <2>1, <2>2, <2>3
<1>6. Bodies!Flattened
  BY <1>2, <1>5 DEF Bodies!Flattened, Gone, Numbers
<1>7. QED BY <1>1, <1>3, <1>6 DEF BodiesRight

\* The bodies: the invariant of the program that runs.
BodiesInv ==
  /\ cb_program \in Programs
  /\ cb_program \in AwaitPrograms => AwaitInv
  /\ cb_program = "generator" => GeneratorInv
  /\ cb_program = "massive" => MassiveInv
  /\ cb_program = "bench" => BenchInv
  /\ cb_program = "composed" => ComposedInv

LEMMA BodiesInit == Bodies!Init => BodiesInv
<1> SUFFICES ASSUME Bodies!Init PROVE BodiesInv
  OBVIOUS
<1>1. cb_program \in Programs
  BY TypesAre DEF Bodies!Init
<1>2. QED
  BY <1>1, AwaitInit, GeneratorInit, MassiveInit, BenchInit, ComposedInit DEF BodiesInv

LEMMA BodiesKept == BodiesInv /\ [Bodies!Next]_bodyVars => BodiesInv'
<1> SUFFICES ASSUME BodiesInv, [Bodies!Next]_bodyVars PROVE BodiesInv'
  OBVIOUS
<1>1. cb_program' = cb_program
  BY ProgramKept
<1>2. QED
  BY <1>1, AwaitKept, GeneratorKept, MassiveKept, BenchKept, ComposedKept DEF BodiesInv

LEMMA BodiesMean == BodiesInv => BodiesRight
BY AwaitMeans, GeneratorMeans, MassiveMeans, BenchMeans, ComposedMeans DEF BodiesInv, Programs, AwaitPrograms

RunsInv == DetachedInv /\ PipelineInv /\ BodiesInv

\* The coroutines of src/coroutines/: a frame is resumed by one thread at a
\* time, while it is suspended, and not after its end; none is left behind; the
\* pipeline asks for no value more than it needs; and what main shows is what
\* the bodies yield and await, in order, each value once, for every limit,
\* start and shape of the containers.
THEOREM CoroutinesResumed == MCSpec => []ResumedRight
<1>1. MCInit => RunsInv
  BY DetachedInit, PipelineInit, BodiesInit DEF MCInit, RunsInv
<1>2. RunsInv /\ [MCNext]_demoVars => RunsInv'
  BY StepOfOne, DetachedKept, PipelineKept, BodiesKept DEF RunsInv
<1>3. RunsInv => ResumedRight
  BY DetachedMeans, PipelineMeans, BodiesMean DEF RunsInv, ResumedRight, BodiesRight
<1>4. QED BY <1>1, <1>2, <1>3, PTL DEF MCSpec
=============================================================================
