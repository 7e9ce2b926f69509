---------------------------- MODULE MCCoroutines ----------------------------
(* The coroutine programs, one at a time: `demo` is the one that runs, the   *)
(* variables of the others stay as they are. The owners of frames are        *)
(* CoroutineOwners, which this module extends.                               *)
EXTENDS CoroutineOwners, Integers, Sequences

CONSTANTS
  o1, o2, o3, f1, f2, f3,
  limit, factor, adder,                      \* of the pipeline: 10, 2 and 110
  FirstOne, Starts, Rounds, Leaves, Width    \* of the bodies

MCObject == {o1, o2, o3}
MCFrame == {f1, f2, f3}

ASSUME CoroutinesAssumption ==
  /\ Null \notin Frame /\ NoObject \notin Frame /\ Null /= NoObject
  /\ limit \in Nat /\ factor \in Int /\ adder \in Int
  /\ FirstOne \in Nat \ {0} /\ Starts \in Seq(Nat) /\ Rounds \in Nat /\ Leaves \subseteq Seq(Nat) /\ Width \in Nat

\* Coroutines that stay at 0, start a cycle, and grow as fast as any of theirs.
MCStarts == <<0, 1, 2, 27, 65535, 99999>>
MCLeaves == {<< >>, <<1>>, <<2, 3>>}

VARIABLES
  demo,
  program, pc, at, future, dr_frame, result,
  top, state, value, i, sum,
  cb_program, c, cb_frame, stack, asked, owned, shown, undefined

resumeVars   == <<program, pc, at, future, dr_frame, result>>
pipelineVars == <<top, state, value, i, sum>>
bodyVars     == <<cb_program, c, cb_frame, stack, asked, owned, shown, undefined>>
demoVars     == <<demo, vars, resumeVars, pipelineVars, bodyVars>>

Detached == INSTANCE DetachedResume WITH frame <- dr_frame
Pipeline == INSTANCE GeneratorPipeline
Bodies   == INSTANCE CoroutineBodies WITH program <- cb_program, frame <- cb_frame

MCInit ==
  /\ demo \in {"owners", "detached", "pipeline", "bodies"}
  /\ Init /\ Detached!Init /\ Pipeline!Init /\ Bodies!Init
  /\ demo /= "owners" => class = generator
  /\ demo /= "detached" => program = Detached!simple
  /\ demo /= "bodies" => cb_program = "hello"

InOwners(A)   == demo = "owners" /\ A /\ UNCHANGED <<demo, resumeVars, pipelineVars, bodyVars>>
InDetached(A) == demo = "detached" /\ A /\ UNCHANGED <<demo, vars, pipelineVars, bodyVars>>
InPipeline(A) == demo = "pipeline" /\ A /\ UNCHANGED <<demo, vars, resumeVars, bodyVars>>
InBodies(A)   == demo = "bodies" /\ A /\ UNCHANGED <<demo, vars, resumeVars, pipelineVars>>

MCNext ==
  \/ InOwners(Next)
  \/ InDetached(Detached!Next)
  \/ InPipeline(Pipeline!Next)
  \/ InBodies(Bodies!Next)

\* The threads of the detached program are scheduled, and those of std::async
\* end.
Fairness ==
  /\ \A t \in Detached!Thread : WF_demoVars(InDetached(Detached!Run(t)))
  /\ \A k \in 1 .. 2 : WF_demoVars(InDetached(Detached!AsyncEnds(k)))
  /\ WF_demoVars(InDetached(Detached!Get))

MCSpec == MCInit /\ [][MCNext]_demoVars /\ Fairness

-----------------------------------------------------------------------------
\* The coroutines that change threads: one thread at a time is in the frame,
\* which exists as long, and it resumes the body after the await that has
\* suspended it, with its result. inlined-coroutines.cpp: no stage is resumed
\* after its end, seq is asked as often as needed, and the sum is right.
\* The other programs: no frame is resumed that is not suspended, or left at
\* the end, and what main shows is what the bodies yield and await, in order.
ResumedRight ==
  /\ Detached!OneResumer /\ Detached!ResumedInOrder
  /\ Pipeline!ResumedLive /\ Pipeline!OnDemand
  /\ Bodies!FramesUsedWell /\ Bodies!AwaitsAnswered /\ Bodies!OrbitsFollowed
  /\ Bodies!FirstOneUnseen /\ Bodies!Flattened

\* The coroutines that change threads: the caller gets the result.
CallerTold == demo = "detached" => Detached!CallerTold

=============================================================================
