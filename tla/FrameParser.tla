---------------------------- MODULE FrameParser ----------------------------
(***************************************************************************)
(* src/coroutines/ProcessStream.cpp: the coroutine Parse is fed one byte   *)
(* at a time, finds the frames ESC SOF ... ESC SOF, in which ESC is        *)
(* doubled, and hands each to HandleFrame. The streams of main are the     *)
(* environment: a sender of frames, with noise between them, that may give *)
(* a frame up.                                                             *)
(* Where one stream ends and the next begins is not seen by Parse, which   *)
(* is kept, and has no part in the model.                                  *)
(***************************************************************************)
EXTENDS Naturals, Sequences

CONSTANTS
  Byte, ESC, SOF,
  Payload,     \* the payloads that are sent
  MaxFrames,   \* bound: the frames that are sent and not empty
  NoSignal     \* mRecentSignal holds no value

ASSUME BytesAssumption ==
  /\ ESC \in Byte /\ SOF \in Byte /\ ESC /= SOF
  /\ NoSignal \notin Byte
  /\ Payload \subseteq Seq(Byte)
  /\ MaxFrames \in Nat

VARIABLES
  phase,         \* what the sender does next
  payload,       \* what it sends
  at,            \* the bytes of payload it has sent
  sent,          \* the payloads of the frames it has closed, but the empty ones
  turn,          \* who runs: the stream, Parse or the rest of ProcessStream
  pc,            \* where Parse is suspended or runs
  frame,         \* the local variable of Parse
  mRecentSignal, \* the byte that Parse has not taken
  mValue,        \* the frame that Parse has yielded
  handled        \* the frames given to HandleFrame

senderVars == <<phase, payload, at, sent>>
parseVars == <<pc, frame>>
vars == <<senderVars, turn, parseVars, mRecentSignal, mValue, handled>>

Init ==
  /\ phase = "idle" /\ payload = <<>> /\ at = 0 /\ sent = <<>>
  /\ turn = "stream" /\ pc = "start" /\ frame = <<>>
  /\ mRecentSignal = NoSignal /\ mValue = <<>> /\ handled = <<>>

-----------------------------------------------------------------------------
\* SendSignal: the byte is stored in the promise and Parse is resumed.
SendSignal(b) ==
  /\ turn = "stream"
  /\ mRecentSignal' = b /\ turn' = "parse"
  /\ UNCHANGED <<parseVars, mValue, handled>>

Noise == \E b \in Byte \ {ESC} :
  phase = "idle" /\ SendSignal(b) /\ UNCHANGED senderVars

Open == \E m \in Payload :
  /\ phase = "idle" /\ Len(sent) < MaxFrames /\ SendSignal(ESC)
  /\ phase' = "marker" /\ payload' = m /\ at' = 0 /\ UNCHANGED sent

Marker ==
  /\ phase = "marker" /\ SendSignal(SOF)
  /\ phase' = "body" /\ UNCHANGED <<payload, at, sent>>

Plain ==
  /\ phase = "body" /\ at < Len(payload) /\ payload[at + 1] /= ESC
  /\ SendSignal(payload[at + 1])
  /\ at' = at + 1 /\ UNCHANGED <<phase, payload, sent>>

Escape ==
  /\ phase = "body" /\ at < Len(payload) /\ payload[at + 1] = ESC
  /\ SendSignal(ESC)
  /\ phase' = "escape" /\ UNCHANGED <<payload, at, sent>>

Escaped ==
  /\ phase = "escape" /\ SendSignal(ESC)
  /\ phase' = "body" /\ at' = at + 1 /\ UNCHANGED <<payload, sent>>

Close ==
  /\ phase = "body" /\ at = Len(payload) /\ SendSignal(ESC)
  /\ phase' = "closing" /\ UNCHANGED <<payload, at, sent>>

Closed ==
  /\ phase = "closing" /\ SendSignal(SOF)
  /\ sent' = IF payload = <<>> THEN sent ELSE Append(sent, payload)
  /\ phase' = "idle" /\ UNCHANGED <<payload, at>>

\* ESC and a byte which has no meaning after it: outside a frame this is noise,
\* inside it gives the frame up.
Garble ==
  /\ phase \in {"idle", "body"} /\ SendSignal(ESC)
  /\ phase' = "garbled" /\ UNCHANGED <<payload, at, sent>>

Garbled == \E b \in Byte \ {ESC, SOF} :
  /\ phase = "garbled" /\ SendSignal(b)
  /\ phase' = "idle" /\ UNCHANGED <<payload, at, sent>>

Sender ==
  \/ Noise \/ Open \/ Marker \/ Plain \/ Escape \/ Escaped \/ Close \/ Closed
  \/ Garble \/ Garbled

-----------------------------------------------------------------------------
\* co_await byte{}: without a byte Parse is suspended.
Suspend ==
  /\ turn = "parse" /\ pc /= "yielded" /\ mRecentSignal = NoSignal
  /\ turn' = "take"
  /\ UNCHANGED <<senderVars, parseVars, mRecentSignal, mValue, handled>>

\* Otherwise it takes the byte and goes on at once.
Await(point) == turn = "parse" /\ pc = point /\ mRecentSignal /= NoSignal

Take(next) ==
  /\ mRecentSignal' = NoSignal /\ pc' = next
  /\ UNCHANGED <<senderVars, turn, mValue, handled>>

AwaitStart ==
  /\ Await("start")
  /\ frame' = <<>>
  /\ Take(IF mRecentSignal = ESC THEN "marker" ELSE "start")

AwaitMarker ==
  /\ Await("marker")
  /\ Take(IF mRecentSignal = SOF THEN "body" ELSE "start")
  /\ UNCHANGED frame

AwaitBody ==
  /\ Await("body")
  /\ IF mRecentSignal = ESC
     THEN Take("escaped") /\ UNCHANGED frame
     ELSE Take("body") /\ frame' = Append(frame, mRecentSignal)

\* Faulty: the byte after ESC is skipped, not kept.
AwaitEscapedSkips ==
  /\ Await("escaped") /\ mRecentSignal /= SOF
  /\ Take(IF mRecentSignal = ESC THEN "body" ELSE "start")
  /\ UNCHANGED frame

\* ESC ESC is a byte of the frame, ESC SOF its end, and any other byte after
\* ESC means that Parse is out of sync.
AwaitEscaped ==
  /\ Await("escaped") /\ mRecentSignal /= SOF
  /\ IF mRecentSignal = ESC
     THEN Take("body") /\ frame' = Append(frame, ESC)
     ELSE Take("start") /\ UNCHANGED frame

YieldFrame ==
  /\ Await("escaped") /\ mRecentSignal = SOF
  /\ mValue' = frame /\ mRecentSignal' = NoSignal
  /\ pc' = "yielded" /\ turn' = "take"
  /\ UNCHANGED <<senderVars, frame, handled>>

\* Faulty: after a frame Parse waits for a new byte before it goes on.
AfterYieldWaits ==
  /\ turn = "parse" /\ pc = "yielded"
  /\ pc' = "start" /\ turn' = "take"
  /\ UNCHANGED <<senderVars, frame, mRecentSignal, mValue, handled>>

\* Resumed after co_yield, Parse is at the first co_await with the byte that
\* resumed it in the promise.
AfterYield ==
  /\ turn = "parse" /\ pc = "yielded"
  /\ pc' = "start"
  /\ UNCHANGED <<senderVars, turn, frame, mRecentSignal, mValue, handled>>

Parse == Suspend \/ AwaitStart \/ AwaitMarker \/ AwaitBody \/ AwaitEscaped
           \/ YieldFrame \/ AfterYield

\* Faulty: the value is copied, not moved and cleared.
TakeFrameCopy ==
  /\ turn = "take"
  /\ handled' = IF mValue = <<>> THEN handled ELSE Append(handled, mValue)
  /\ turn' = "stream"
  /\ UNCHANGED <<senderVars, parseVars, mRecentSignal, mValue>>

\* async_generator::operator() moves the value out and clears it; an empty
\* frame is not handled.
TakeFrame ==
  /\ turn = "take"
  /\ handled' = IF mValue = <<>> THEN handled ELSE Append(handled, mValue)
  /\ mValue' = <<>> /\ turn' = "stream"
  /\ UNCHANGED <<senderVars, parseVars, mRecentSignal>>

Next == Sender \/ Parse \/ TakeFrame

Spec == Init /\ [][Next]_vars

-----------------------------------------------------------------------------
\* When Parse waits for a byte it has taken the last one, and every frame that
\* was sent and is not empty has been handled, once and in order, whatever
\* escapes and markers the payload holds and whatever came before it.
FramesDelivered ==
  turn = "stream" => mRecentSignal = NoSignal /\ handled = sent

=============================================================================
