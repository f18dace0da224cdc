------------------------- MODULE TurnPipelineProofs -------------------------
(***************************************************************************)
(* Proofs about TurnPipeline: the filler timer never loses hold of a task  *)
(* that may still fire, a filler never cuts into a reply, and the          *)
(* transcript has every reply with what was said of it.                    *)
(***************************************************************************)
EXTENDS TurnPipeline, TLAPS

TtsFrames == [kind : {"start", "text", "end", Speak, Ack}, run : Nat]

TypeInv ==
  /\ said \in Seq(Nat)
  /\ run \in Nat
  /\ ttsQueue \in Seq(TtsFrames)
  /\ turnContext \in Nat
  /\ FillerTypeOK

\* Whatever of a reply the TTS has begun, or will begin before it comes to
\* place i of its queue, it will also have ended by then.
ClosedBefore(queue, begun, i) ==
  /\ begun # NoRun => \E k \in 1..(i - 1) : queue[k].kind = "end"
  /\ \A j \in 1..(i - 1) : queue[j].kind = "start" =>
       \E k \in (j + 1)..(i - 1) : queue[k].kind = "end"

RepliesAreClosed ==
  /\ \A i \in 1..Len(ttsQueue) :
       ttsQueue[i].kind = Speak => ClosedBefore(ttsQueue, turnContext, i)
  /\ run = NoRun => ClosedBefore(ttsQueue, turnContext, Len(ttsQueue) + 1)

-----------------------------------------------------------------------------
\* What is appended to the queue does not matter to the places before it.
LEMMA ClosedAppend ==
  ASSUME NEW q \in Seq(TtsFrames), NEW x \in TtsFrames, NEW c \in Nat,
         NEW i \in 1..(Len(q) + 1), ClosedBefore(q, c, i)
  PROVE  ClosedBefore(Append(q, x), c, i)
<1>1. \A k \in 1..(i - 1) : Append(q, x)[k] = q[k]
  OBVIOUS
<1> QED
  BY <1>1 DEF ClosedBefore

\* An end closes the queue, and what is not a start does not open it.
LEMMA ClosedByEnd ==
  ASSUME NEW q \in Seq(TtsFrames), NEW x \in TtsFrames, NEW c \in Nat,
         x.kind = "end"
  PROVE  ClosedBefore(Append(q, x), c, Len(Append(q, x)) + 1)
<1>1. Append(q, x)[Len(q) + 1].kind = "end" /\ Len(Append(q, x)) = Len(q) + 1
  OBVIOUS
<1>2. \A j \in 1..(Len(q) + 1) : Append(q, x)[j].kind = "start" => j # Len(q) + 1
  BY <1>1
<1> QED
  BY <1>1, <1>2 DEF ClosedBefore

LEMMA ClosedByOther ==
  ASSUME NEW q \in Seq(TtsFrames), NEW x \in TtsFrames, NEW c \in Nat,
         x.kind # "start", ClosedBefore(q, c, Len(q) + 1)
  PROVE  ClosedBefore(Append(q, x), c, Len(Append(q, x)) + 1)
<1>1. /\ Append(q, x)[Len(q) + 1] = x
      /\ Len(Append(q, x)) = Len(q) + 1
      /\ \A k \in 1..Len(q) : Append(q, x)[k] = q[k]
  OBVIOUS
<1> QED
  BY <1>1 DEF ClosedBefore

\* The context that the TTS has when it has taken the head of its queue.
Taken(q, c) == CASE Head(q).kind = "start" -> Head(q).run
                 [] Head(q).kind = "end" -> NoRun
                 [] OTHER -> c

LEMMA ClosedTail ==
  ASSUME NEW q \in Seq(TtsFrames), q # <<>>, NEW c \in Nat,
         NEW i \in 1..Len(q), ClosedBefore(q, c, i + 1)
  PROVE  ClosedBefore(Tail(q), Taken(q, c), i)
<1>1. /\ Head(q) = q[1]
      /\ Len(Tail(q)) = Len(q) - 1
      /\ \A k \in 1..(i - 1) : Tail(q)[k] = q[k + 1]
  OBVIOUS
<1>2. ASSUME Taken(q, c) # NoRun
      PROVE  \E k \in 1..(i - 1) : Tail(q)[k].kind = "end"
  <2>1. PICK k \in 2..i : q[k].kind = "end"
    <3>1. CASE Head(q).kind = "start"
      BY <1>1, <3>1 DEF ClosedBefore
    <3>2. CASE Head(q).kind # "start"
      <4>1. Head(q).kind # "end" /\ c # NoRun
        BY <1>2, <3>2 DEF Taken
      <4> QED
        BY <1>1, <4>1 DEF ClosedBefore
    <3> QED
      BY <3>1, <3>2
  <2>2. k - 1 \in 1..(i - 1) /\ Tail(q)[k - 1] = q[k]
    BY <1>1
  <2> QED
    BY <2>1, <2>2
<1>3. ASSUME NEW j \in 1..(i - 1), Tail(q)[j].kind = "start"
      PROVE  \E k \in (j + 1)..(i - 1) : Tail(q)[k].kind = "end"
  <2>1. j + 1 \in 1..i /\ q[j + 1].kind = "start"
    BY <1>1, <1>3
  <2>2. PICK k \in (j + 2)..i : q[k].kind = "end"
    BY <2>1 DEF ClosedBefore
  <2>3. k - 1 \in (j + 1)..(i - 1) /\ k - 1 \in 1..(i - 1) /\ Tail(q)[k - 1] = q[k]
    BY <1>1
  <2> QED
    BY <2>2, <2>3
<1> QED
  BY <1>2, <1>3 DEF ClosedBefore

-----------------------------------------------------------------------------
IInv == TypeInv /\ NoStrayTimer /\ RepliesAreClosed

\* The initial state satisfies the invariant.
LEMMA InitInv == Init => IInv
<1> SUFFICES ASSUME Init PROVE IInv
  OBVIOUS
<1>1. TypeInv
  BY DEF Init, FillerInit, TypeInv, FillerTypeOK, NoRun
<1>2. NoStrayTimer
  BY DEF Init, FillerInit, NoStrayTimer
<1>3. RepliesAreClosed
  BY DEF Init, RepliesAreClosed, ClosedBefore, NoRun
<1> QED
  BY <1>1, <1>2, <1>3 DEF IInv

\* The steps of the filler timer keep hold of every task that may fire.
LEMMA TimerInv ==
  ASSUME FillerTypeOK, NoStrayTimer,
         \/ Arm \/ Cancel
         \/ \E t \in Timers : TimerFires(t) \/ CancelledTaskEnds(t)
         \/ UNCHANGED fillerVars
  PROVE  FillerTypeOK' /\ NoStrayTimer'
<1>1. CASE Arm
  BY <1>1 DEF Arm, Cancelled, FillerTypeOK, NoStrayTimer
<1>2. CASE Cancel
  BY <1>2, TimersAssumption DEF Cancel, Cancelled, FillerTypeOK, NoStrayTimer
<1>3. CASE \E t \in Timers : TimerFires(t) \/ CancelledTaskEnds(t)
  BY <1>3 DEF TimerFires, CancelledTaskEnds, Finally, FillerTypeOK, NoStrayTimer
<1>4. CASE UNCHANGED fillerVars
  BY <1>4 DEF fillerVars, FillerTypeOK, NoStrayTimer
<1> QED
  BY <1>1, <1>2, <1>3, <1>4

\* A push of the LLM: the end of a run closes the reply, a filler leaves it
\* closed, and the frames of a run come while one is in progress.
LEMMA PushInv ==
  ASSUME TypeInv, RepliesAreClosed, NEW frame \in TtsFrames,
         ttsQueue' = Append(ttsQueue, frame),
         turnContext' = turnContext,
         run' \in Nat,
         frame.kind = Speak => run = NoRun,
         \/ frame.kind = "end"
         \/ frame.kind # "start" /\ (run' = NoRun => run = NoRun)
         \/ run' # NoRun
  PROVE  ttsQueue' \in Seq(TtsFrames) /\ RepliesAreClosed'
<1> USE DEF TypeInv
<1>1. /\ ttsQueue' \in Seq(TtsFrames)
      /\ Len(ttsQueue') = Len(ttsQueue) + 1
      /\ ttsQueue'[Len(ttsQueue) + 1] = frame
      /\ \A i \in 1..Len(ttsQueue) : ttsQueue'[i] = ttsQueue[i]
  OBVIOUS
<1>2. ASSUME NEW i \in 1..Len(ttsQueue'), ttsQueue'[i].kind = Speak
      PROVE  ClosedBefore(ttsQueue', turnContext', i)
  <2>1. i \in 1..(Len(ttsQueue) + 1)
    BY <1>1
  <2>2. ClosedBefore(ttsQueue, turnContext, i)
    <3>1. CASE i \in 1..Len(ttsQueue)
      BY <1>1, <1>2, <3>1 DEF RepliesAreClosed
    <3>2. CASE i = Len(ttsQueue) + 1
      BY <1>1, <1>2, <3>2 DEF RepliesAreClosed
    <3> QED
      BY <2>1, <3>1, <3>2
  <2> QED
    BY <2>1, <2>2, ClosedAppend
<1>3. ASSUME run' = NoRun
      PROVE  ClosedBefore(ttsQueue', turnContext', Len(ttsQueue') + 1)
  <2>1. CASE frame.kind = "end"
    BY <2>1, ClosedByEnd
  <2>2. CASE frame.kind # "start" /\ (run' = NoRun => run = NoRun)
    BY <1>3, <2>2, ClosedByOther DEF RepliesAreClosed
  <2> QED
    BY <1>3, <2>1, <2>2
<1> QED
  BY <1>1, <1>2, <1>3 DEF RepliesAreClosed

\* Every step keeps the queue of the TTS well formed and replies closed.
LEMMA PipelineInv ==
  ASSUME TypeInv, RepliesAreClosed, [Next]_vars
  PROVE  /\ said' \in Seq(Nat) /\ run' \in Nat
         /\ ttsQueue' \in Seq(TtsFrames) /\ turnContext' \in Nat
         /\ RepliesAreClosed'
<1> USE DEF TypeInv
<1> DEFINE Quiet == UNCHANGED <<said, run, ttsQueue, turnContext>>
<1>1. CASE Quiet
  BY <1>1 DEF RepliesAreClosed, ClosedBefore
<1>2. CASE RunStarts
  <2>1. said' \in Seq(Nat) /\ run' \in Nat /\ run' # NoRun
    BY <1>2 DEF RunStarts, NoRun
  <2>2. /\ ttsQueue' = Append(ttsQueue, Frame("start", run'))
        /\ Frame("start", run') \in TtsFrames
        /\ Frame("start", run').kind # Speak
        /\ UNCHANGED turnContext
    BY <1>2, <2>1 DEF RunStarts, Push, Frame, TtsFrames, Speak
  <2> QED
    BY <2>1, <2>2, PushInv
<1>3. CASE RunSays
  <2>1. said' \in Seq(Nat) /\ run' = run /\ run # NoRun
    <3>1. said' = [said EXCEPT ![run] = @ + 1] /\ run # NoRun
      BY <1>3 DEF RunSays
    <3>2. said \in [1..Len(said) -> Nat] /\ Len(said) \in Nat
      OBVIOUS
    <3>3. said' \in Seq(Nat)
      <4>1. said' \in [1..Len(said) -> Nat]
        <5>1. CASE run \in 1..Len(said)
          BY <3>1, <3>2, <5>1
        <5>2. CASE run \notin 1..Len(said)
          <6>1. said' = said
            BY <3>1, <3>2, <5>2
          <6> QED
            BY <3>2, <6>1
        <5> QED
          BY <5>1, <5>2
      <4> QED
        BY <3>2, <4>1
    <3> QED
      BY <1>3, <3>1, <3>3, Zenon DEF RunSays
  <2>2. /\ ttsQueue' = Append(ttsQueue, Frame("text", run))
        /\ Frame("text", run) \in TtsFrames
        /\ Frame("text", run).kind # Speak
        /\ UNCHANGED turnContext
    BY <1>3 DEF RunSays, Push, Frame, TtsFrames, Speak
  <2> QED
    BY <2>1, <2>2, PushInv
<1>4. CASE \E calls \in BOOLEAN : RunEnds(calls)
  <2>1. /\ ttsQueue' = Append(ttsQueue, Frame("end", run))
        /\ Frame("end", run) \in TtsFrames
        /\ Frame("end", run).kind = "end"
        /\ Frame("end", run).kind # Speak
        /\ UNCHANGED <<said, turnContext>>
        /\ run' \in Nat
    BY <1>4 DEF RunEnds, Push, Frame, TtsFrames, Speak, NoRun
  <2> QED
    BY <2>1, PushInv
<1>5. CASE ToolStarts
  <2>1. UNCHANGED <<said, run, turnContext>>
    BY <1>5 DEF ToolStarts
  <2>2. CASE ttsQueue' = ttsQueue
    BY <1>1, <2>1, <2>2
  <2>3. CASE ttsQueue' = Append(ttsQueue, Frame(Ack, NoRun))
    <3>1. /\ Frame(Ack, NoRun) \in TtsFrames
          /\ Frame(Ack, NoRun).kind \notin {Speak, "start"}
      BY DEF Frame, TtsFrames, Speak, Ack, NoRun
    <3> QED
      BY <2>1, <2>3, <3>1, PushInv
  <2> QED
    BY <1>5, <2>2, <2>3 DEF ToolStarts
<1>6. CASE FillerPassesLlm
  <2>1. /\ ttsQueue' = Append(ttsQueue, SpeakFrame)
        /\ SpeakFrame \in TtsFrames
        /\ SpeakFrame.kind # "start"
        /\ UNCHANGED <<said, run, turnContext>>
        /\ run = NoRun
    BY <1>6 DEF FillerPassesLlm, LlmIsFree, Push, SpeakFrame, Frame, TtsFrames, Speak, NoRun
  <2> QED
    BY <2>1, PushInv
<1>7. CASE LlmTakesSystem
  <2>1. CASE Head(llmSystem) = Started /\ run # NoRun
    <3>1. /\ ttsQueue' = Append(ttsQueue, Frame("end", run))
          /\ Frame("end", run) \in TtsFrames
          /\ Frame("end", run).kind = "end"
          /\ Frame("end", run).kind # Speak
          /\ UNCHANGED <<said, turnContext>>
          /\ run' \in Nat
      BY <1>7, <2>1 DEF LlmTakesSystem, CutOff, Push, Frame, TtsFrames, Speak, NoRun
    <3> QED
      BY <3>1, PushInv
  <2>2. CASE ~(Head(llmSystem) = Started /\ run # NoRun)
    BY <1>1, <1>7, <2>2 DEF LlmTakesSystem, CutOff
  <2> QED
    BY <2>1, <2>2
<1>8. CASE TtsTakes
  <2>1. /\ ttsQueue # <<>>
        /\ ttsQueue' = Tail(ttsQueue)
        /\ UNCHANGED <<said, run>>
    BY <1>8 DEF TtsTakes, llmVars
  <2>2. turnContext' = Taken(ttsQueue, turnContext)
    BY <1>8, Zenon DEF TtsTakes, Taken
  <2>3. /\ Head(ttsQueue) \in TtsFrames
        /\ ttsQueue' \in Seq(TtsFrames)
        /\ Len(ttsQueue') = Len(ttsQueue) - 1
        /\ \A i \in 1..Len(ttsQueue') : ttsQueue'[i] = ttsQueue[i + 1]
    BY <2>1
  <2>4. turnContext' \in Nat
    BY <2>2, <2>3 DEF Taken, TtsFrames, NoRun
  <2>5. ASSUME NEW i \in 1..Len(ttsQueue'), ttsQueue'[i].kind = Speak
        PROVE  ClosedBefore(ttsQueue', turnContext', i)
    <3>1. i \in 1..Len(ttsQueue) /\ i + 1 \in 1..Len(ttsQueue)
      BY <2>1, <2>3
    <3>2. ClosedBefore(ttsQueue, turnContext, i + 1)
      BY <2>3, <2>5, <3>1 DEF RepliesAreClosed
    <3> QED
      BY <2>1, <2>2, <3>1, <3>2, ClosedTail
  <2>6. ASSUME run' = NoRun
        PROVE  ClosedBefore(ttsQueue', turnContext', Len(ttsQueue') + 1)
    <3>1. Len(ttsQueue) \in 1..Len(ttsQueue) /\ Len(ttsQueue') + 1 = Len(ttsQueue)
      BY <2>1, <2>3
    <3>2. ClosedBefore(ttsQueue, turnContext, Len(ttsQueue) + 1)
      BY <2>1, <2>6 DEF RepliesAreClosed
    <3> QED
      BY <2>1, <2>2, <3>1, <3>2, ClosedTail
  <2> QED
    BY <2>1, <2>3, <2>4, <2>5, <2>6 DEF RepliesAreClosed
<1>9. CASE TtsTakesSystem
  <2>1. CASE Head(ttsSystem) = Started
    BY <1>9, <2>1 DEF TtsTakesSystem, llmVars, RepliesAreClosed, ClosedBefore, NoRun
  <2>2. CASE Head(ttsSystem) # Started
    BY <1>1, <1>9, <2>2 DEF TtsTakesSystem, llmVars
  <2> QED
    BY <2>1, <2>2
<1>10. CASE UserTurnStarts \/ (\E words \in BOOLEAN : UserTurnStops(words))
  BY <1>1, <1>10 DEF UserTurnStarts, UserTurnStops, ttsVars
<1>11. CASE \/ \E event \in {"arm", "cancel"} : VadFrame(event)
            \/ RunUnasked \/ FillerArrives \/ ToolReturns
  BY <1>1, <1>11 DEF VadFrame, RunUnasked, FillerArrives, ToolReturns, llmVars, ttsVars
<1>12. CASE TtsSpeaks \/ BotStarts \/ FillerObserves \/ SinkObserves
  BY <1>1, <1>12 DEF TtsSpeaks, BotStarts, FillerObserves, SinkObserves, llmVars, ttsVars
<1>13. CASE \E t \in Timers : FillerFires(t) \/ FillerTaskEnds(t)
  BY <1>1, <1>13 DEF FillerFires, FillerTaskEnds, llmVars, ttsVars
<1>14. CASE UNCHANGED vars
  BY <1>1, <1>14 DEF vars, llmVars, ttsVars
<1> QED
  BY <1>2, <1>3, <1>4, <1>5, <1>6, <1>7, <1>8, <1>9, <1>10, <1>11, <1>12, <1>13, <1>14
  DEF Next

\* Every step is one of the filler timer's, or leaves it alone.
LEMMA TimerSteps ==
  ASSUME [Next]_vars
  PROVE  \/ Arm \/ Cancel
         \/ \E t \in Timers : TimerFires(t) \/ CancelledTaskEnds(t)
         \/ UNCHANGED fillerVars
<1>1. CASE FillerObserves
  BY <1>1 DEF FillerObserves
<1>2. CASE \E t \in Timers : FillerFires(t) \/ FillerTaskEnds(t)
  BY <1>2 DEF FillerFires, FillerTaskEnds
<1>3. CASE ~FillerObserves /\ ~(\E t \in Timers : FillerFires(t) \/ FillerTaskEnds(t))
  BY <1>3, Zenon DEF Next, vars, UserTurnStarts, UserTurnStops, VadFrame, RunUnasked,
     FillerArrives, RunStarts, RunSays, RunEnds, ToolStarts, ToolReturns, FillerPassesLlm,
     LlmTakesSystem, TtsTakes, TtsSpeaks, BotStarts, TtsTakesSystem, SinkObserves
<1> QED
  BY <1>1, <1>2, <1>3

\* Every step preserves the invariant.
LEMMA StepInv == IInv /\ [Next]_vars => IInv'
<1> SUFFICES ASSUME IInv, [Next]_vars PROVE IInv'
  OBVIOUS
<1>1. FillerTypeOK' /\ NoStrayTimer'
  BY TimerInv, TimerSteps DEF IInv, TypeInv
<1>2. /\ said' \in Seq(Nat) /\ run' \in Nat
      /\ ttsQueue' \in Seq(TtsFrames) /\ turnContext' \in Nat
      /\ RepliesAreClosed'
  BY PipelineInv DEF IInv
<1> QED
  BY <1>1, <1>2 DEF IInv, TypeInv

\* timeout_filler.py: whatever order frames, timers and cancelled tasks come
\* in, a timer that may still fire is the one the next cancel frame reaches.
THEOREM TimerSafety == Spec => []NoStrayTimer
<1>1. IInv => NoStrayTimer
  BY DEF IInv
<1> QED
  BY InitInv, StepInv, <1>1, PTL DEF Spec

\* The filler and the LLM service: for every number of turns, runs, fillers and
\* pieces of text, the TTS takes no filler in the middle of a reply.
THEOREM FillerSafety == Spec => []FillerKeepsOffReplies
<1>1. IInv => FillerKeepsOffReplies
  <2> SUFFICES ASSUME IInv, ttsQueue # <<>>, Head(ttsQueue).kind = Speak
               PROVE  turnContext = NoRun
    BY DEF FillerKeepsOffReplies
  <2>1. 1 \in 1..Len(ttsQueue) /\ Head(ttsQueue) = ttsQueue[1]
    BY DEF IInv, TypeInv
  <2>2. ClosedBefore(ttsQueue, turnContext, 1)
    BY <2>1 DEF IInv, RepliesAreClosed
  <2> QED
    BY <2>2 DEF ClosedBefore
<1> QED
  BY InitInv, StepInv, <1>1, PTL DEF Spec

-----------------------------------------------------------------------------
(* The transcript.                                                         *)

SinkFrames == [kind : {"start", "text", "end"}, run : Nat]

\* The line that a run is owed which has said `pieces' pieces of text.
Line(r, pieces) == [i \in 1..pieces |-> r]

\* What the EventBroadcaster has when it has seen a frame.
SinkState == [buffer : Seq(Nat), lines : Seq(Seq(Nat))]

Observed(state, frame) ==
  [buffer |-> IF frame.kind = "text" THEN Append(state.buffer, frame.run) ELSE <<>>,
   lines |-> IF frame.kind = "end" THEN Append(state.lines, state.buffer) ELSE state.lines]

\* The states that a broadcaster goes through that has `b' and `l' and has
\* still to see the frames of q.
Sees(states, q, b, l) ==
  /\ states \in [1..(Len(q) + 1) -> SinkState]
  /\ states[1] = [buffer |-> b, lines |-> l]
  /\ \A i \in 1..Len(q) : states[i + 1] = Observed(states[i], q[i])

\* What it has when it has seen all that the LLM pushed, whose runs have said
\* `texts' and are over but for run r, if there is one.
CaughtUp(state, texts, r) ==
  /\ state.buffer = IF r = NoRun THEN <<>> ELSE Line(r, texts[r])
  /\ state.lines = [k \in 1..(IF r = NoRun THEN Len(texts) ELSE Len(texts) - 1) |-> Line(k, texts[k])]

\* The invariant: what is on its way to the EventBroadcaster will complete what
\* it has.
TranscriptInv ==
  /\ said \in Seq(Nat)
  /\ run # NoRun => run = Len(said) /\ said # <<>>
  /\ sinkSees \in Seq(SinkFrames)
  /\ \E states : Sees(states, sinkSees, buffer, lines) /\ CaughtUp(states[Len(sinkSees) + 1], said, run)

\* The frames of the run in progress are seen after all others.
LEMMA SeesAppend ==
  ASSUME NEW q \in Seq(SinkFrames), NEW frame \in SinkFrames, NEW b, NEW l,
         NEW states, Sees(states, q, b, l)
  PROVE  \E longer : /\ Sees(longer, Append(q, frame), b, l)
                     /\ longer[Len(Append(q, frame)) + 1]
                          = Observed(states[Len(q) + 1], frame)
<1> DEFINE n == Len(q)
           last == Observed(states[n + 1], frame)
           longer == [i \in 1..(n + 2) |-> IF i = n + 2 THEN last ELSE states[i]]
<1>1. /\ n \in Nat /\ Len(Append(q, frame)) = n + 1
      /\ \A i \in 1..n : Append(q, frame)[i] = q[i]
      /\ Append(q, frame)[n + 1] = frame
  OBVIOUS
<1>2. /\ states \in [1..(n + 1) -> SinkState]
      /\ states[1] = [buffer |-> b, lines |-> l]
      /\ \A i \in 1..n : states[i + 1] = Observed(states[i], q[i])
  BY DEF Sees
<1> HIDE DEF n
<1>3. last \in SinkState
  <2>1. states[n + 1] \in SinkState
    BY <1>1, <1>2
  <2>2. frame.run \in Nat
    BY DEF SinkFrames
  <2> QED
    BY <2>1, <2>2 DEF Observed, SinkState
<1> HIDE DEF last
<1>4. longer \in [1..(n + 2) -> SinkState]
  <2>1. \A i \in 1..(n + 2) : i # n + 2 => i \in 1..(n + 1)
    BY <1>1
  <2> QED
    BY <1>2, <1>3, <2>1
<1>5. longer[1] = [buffer |-> b, lines |-> l]
  BY <1>1, <1>2
<1>6. ASSUME NEW i \in 1..(n + 1)
      PROVE  longer[i + 1] = Observed(longer[i], Append(q, frame)[i])
  <2>1. longer[i] = states[i]
    BY <1>1
  <2>2. CASE i = n + 1
    BY <1>1, <2>1, <2>2 DEF last
  <2>3. CASE i # n + 1
    <3>1. i \in 1..n /\ longer[i + 1] = states[i + 1]
      BY <1>1, <2>3
    <3> QED
      BY <1>1, <1>2, <2>1, <3>1
  <2> QED
    BY <2>2, <2>3
<1>7. longer[(n + 1) + 1] = last
  BY <1>1
<1> HIDE DEF longer
<1>8. (n + 1) + 1 = n + 2
  BY <1>1
<1>9. Sees(longer, Append(q, frame), b, l)
  BY <1>1, <1>4, <1>5, <1>6, <1>8 DEF Sees
<1> QED
  BY <1>1, <1>7, <1>9 DEF last, n

\* The EventBroadcaster sees the oldest frame.
LEMMA SeesTail ==
  ASSUME NEW q \in Seq(SinkFrames), q # <<>>, NEW b, NEW l,
         NEW states, Sees(states, q, b, l),
         NEW seen, seen = Observed([buffer |-> b, lines |-> l], Head(q))
  PROVE  \E rest : /\ Sees(rest, Tail(q), seen.buffer, seen.lines)
                   /\ rest[Len(Tail(q)) + 1] = states[Len(q) + 1]
<1> DEFINE n == Len(Tail(q))
           rest == [i \in 1..(n + 1) |-> states[i + 1]]
<1>1. /\ n \in Nat /\ Len(q) = n + 1 /\ Head(q) = q[1]
      /\ \A i \in 1..n : Tail(q)[i] = q[i + 1]
  OBVIOUS
<1>2. /\ states \in [1..(Len(q) + 1) -> SinkState]
      /\ states[1] = [buffer |-> b, lines |-> l]
      /\ \A i \in 1..Len(q) : states[i + 1] = Observed(states[i], q[i])
  BY DEF Sees
<1> HIDE DEF n
<1>3. states[1 + 1] = seen
  BY <1>1, <1>2
<1>4. seen = [buffer |-> seen.buffer, lines |-> seen.lines]
  BY DEF Observed
<1>5. rest \in [1..(n + 1) -> SinkState]
  BY <1>1, <1>2
<1>6. rest[1] = [buffer |-> seen.buffer, lines |-> seen.lines]
  BY <1>1, <1>3, <1>4
<1>7. ASSUME NEW i \in 1..n
      PROVE  rest[i + 1] = Observed(rest[i], Tail(q)[i])
  <2>1. rest[i] = states[i + 1] /\ rest[i + 1] = states[(i + 1) + 1]
    BY <1>1
  <2>2. i + 1 \in 1..Len(q)
    BY <1>1
  <2> QED
    BY <1>1, <1>2, <2>1, <2>2
<1>8. rest[n + 1] = states[Len(q) + 1]
  BY <1>1
<1> HIDE DEF rest
<1>9. Sees(rest, Tail(q), seen.buffer, seen.lines)
  BY <1>5, <1>6, <1>7 DEF Sees, n
<1> QED
  BY <1>8, <1>9 DEF n

\* A push of the LLM that the EventBroadcaster sees.
LEMMA SinkPushInv ==
  ASSUME TranscriptInv, NEW frame \in SinkFrames,
         sinkSees' = Append(sinkSees, frame), UNCHANGED sinkVars,
         said' \in Seq(Nat), run' # NoRun => run' = Len(said') /\ said' # <<>>,
         \A state \in SinkState :
           CaughtUp(state, said, run) => CaughtUp(Observed(state, frame), said', run')
  PROVE  TranscriptInv'
<1>1. PICK states : Sees(states, sinkSees, buffer, lines) /\ CaughtUp(states[Len(sinkSees) + 1], said, run)
  BY DEF TranscriptInv
<1>2. sinkSees \in Seq(SinkFrames) /\ buffer' = buffer /\ lines' = lines
  BY DEF TranscriptInv, sinkVars
<1>3. PICK longer : /\ Sees(longer, Append(sinkSees, frame), buffer, lines)
                    /\ longer[Len(Append(sinkSees, frame)) + 1]
                         = Observed(states[Len(sinkSees) + 1], frame)
  BY <1>1, <1>2, SeesAppend
<1>4. PICK last : last = states[Len(sinkSees) + 1]
  OBVIOUS
<1>5. last \in SinkState /\ CaughtUp(last, said, run)
  <2>1. Len(sinkSees) + 1 \in 1..(Len(sinkSees) + 1)
    BY <1>2
  <2> QED
    BY <1>1, <1>4, <2>1 DEF Sees
<1>6. CaughtUp(Observed(last, frame), said', run')
  BY <1>5
<1>7. Sees(longer, sinkSees', buffer', lines')
  BY <1>2, <1>3
<1>8. longer[Len(sinkSees') + 1] = Observed(last, frame)
  BY <1>3, <1>4
<1>9. CaughtUp(longer[Len(sinkSees') + 1], said', run')
  BY <1>6, <1>8
<1>10. sinkSees' \in Seq(SinkFrames)
  BY <1>2
<1> QED
  BY <1>7, <1>9, <1>10 DEF TranscriptInv

\* A run starts with an empty line.
LEMMA RunStartsInv ==
  ASSUME TranscriptInv, RunStarts
  PROVE  TranscriptInv'
<1>1. /\ run = NoRun /\ said' = Append(said, 0) /\ run' = Len(said')
      /\ sinkSees' = Append(sinkSees, Frame("start", run')) /\ UNCHANGED sinkVars
  BY DEF RunStarts, Push, Frame, Speak
<1>2. /\ said \in Seq(Nat) /\ said' \in Seq(Nat) /\ Len(said) \in Nat
      /\ Len(said') = Len(said) + 1 /\ said'[Len(said) + 1] = 0
      /\ \A r \in 1..Len(said) : said'[r] = said[r]
  BY <1>1 DEF TranscriptInv
<1>3. PICK frame : frame = Frame("start", run')
  OBVIOUS
<1>4. run' # NoRun /\ said' # <<>> /\ frame \in SinkFrames /\ frame.kind = "start"
  BY <1>1, <1>2, <1>3 DEF NoRun, Frame, SinkFrames
<1>5. ASSUME NEW state \in SinkState, CaughtUp(state, said, run)
      PROVE  CaughtUp(Observed(state, frame), said', run')
  <2> DEFINE next == Observed(state, frame)
  <2>1. next.buffer = <<>> /\ next.lines = state.lines
    BY <1>4 DEF Observed
  <2>2. state.lines = [r \in 1..Len(said) |-> Line(r, said[r])]
    BY <1>1, <1>5 DEF CaughtUp
  <2>3. Line(run', said'[run']) = <<>>
    BY <1>1, <1>2 DEF Line
  <2>4. Len(said') - 1 = Len(said)
    BY <1>2
  <2>5. state.lines = [r \in 1..(Len(said') - 1) |-> Line(r, said'[r])]
    BY <1>2, <2>2, <2>4
  <2> HIDE DEF next
  <2>6. CaughtUp(next, said', run')
    BY <1>4, <2>1, <2>3, <2>5 DEF CaughtUp
  <2> QED
    BY <2>6 DEF next
<1> QED
  BY <1>1, <1>2, <1>3, <1>4, <1>5, SinkPushInv

\* A piece of text continues the line of the run.
LEMMA RunSaysInv ==
  ASSUME TranscriptInv, RunSays
  PROVE  TranscriptInv'
<1>1. /\ run # NoRun /\ said' = [said EXCEPT ![run] = @ + 1] /\ run' = run
      /\ sinkSees' = Append(sinkSees, Frame("text", run)) /\ UNCHANGED sinkVars
  BY DEF RunSays, Push, Frame, Speak
<1>2. said \in [1..Len(said) -> Nat] /\ Len(said) \in Nat /\ run = Len(said) /\ run \in 1..Len(said)
  BY <1>1 DEF TranscriptInv
<1>3. said' \in [1..Len(said) -> Nat]
  BY <1>1, <1>2
<1>4. /\ said' \in Seq(Nat) /\ Len(said') = Len(said) /\ said' # <<>>
      /\ said'[run] = said[run] + 1 /\ said[run] \in Nat
      /\ \A r \in 1..(Len(said) - 1) : said'[r] = said[r]
  BY <1>1, <1>2, <1>3
<1>5. PICK frame : frame = Frame("text", run)
  OBVIOUS
<1>6. frame \in SinkFrames /\ frame.kind = "text" /\ frame.run = run
  BY <1>2, <1>5 DEF Frame, SinkFrames
<1>7. ASSUME NEW state \in SinkState, CaughtUp(state, said, run)
      PROVE  CaughtUp(Observed(state, frame), said', run')
  <2> DEFINE next == Observed(state, frame)
  <2>1. next.buffer = Append(state.buffer, run) /\ next.lines = state.lines
    BY <1>6 DEF Observed
  <2>2. /\ state.buffer = Line(run, said[run])
        /\ state.lines = [r \in 1..(Len(said) - 1) |-> Line(r, said[r])]
    BY <1>1, <1>7 DEF CaughtUp
  <2>3. Append(Line(run, said[run]), run) = Line(run, said'[run])
    BY <1>2, <1>4 DEF Line
  <2>4. state.lines = [r \in 1..(Len(said') - 1) |-> Line(r, said'[r])]
    BY <1>4, <2>2
  <2> HIDE DEF next
  <2>5. CaughtUp(next, said', run')
    BY <1>1, <2>1, <2>2, <2>3, <2>4 DEF CaughtUp
  <2> QED
    BY <2>5 DEF next
<1> QED
  BY <1>1, <1>2, <1>4, <1>5, <1>6, <1>7, SinkPushInv

\* The end of a run, finished or cut off, completes its line.
LEMMA RunOverInv ==
  ASSUME TranscriptInv, run # NoRun, run' = NoRun, said' = said,
         sinkSees' = Append(sinkSees, Frame("end", run)), UNCHANGED sinkVars
  PROVE  TranscriptInv'
<1>1. said \in Seq(Nat) /\ Len(said) \in Nat /\ run = Len(said) /\ run \in 1..Len(said)
  BY DEF TranscriptInv
<1>2. PICK frame : frame = Frame("end", run)
  OBVIOUS
<1>3. frame \in SinkFrames /\ frame.kind = "end"
  BY <1>1, <1>2 DEF Frame, SinkFrames
<1>4. ASSUME NEW state \in SinkState, CaughtUp(state, said, run)
      PROVE  CaughtUp(Observed(state, frame), said', run')
  <2> DEFINE next == Observed(state, frame)
             owed == [r \in 1..Len(said) |-> Line(r, said[r])]
             before == [r \in 1..(Len(said) - 1) |-> Line(r, said[r])]
  <2>1. next.buffer = <<>> /\ next.lines = Append(state.lines, state.buffer)
    BY <1>3 DEF Observed
  <2>2. state.buffer = Line(run, said[run]) /\ state.lines = before
    BY <1>4 DEF CaughtUp
  <2>3. Append(before, Line(run, said[run])) = owed
    BY <1>1
  <2> HIDE DEF next, before, owed
  <2>4. next.lines = owed
    BY <2>1, <2>2, <2>3
  <2>5. CaughtUp(next, said', run')
    BY <2>1, <2>4 DEF CaughtUp, owed
  <2> QED
    BY <2>5 DEF next
<1> QED
  BY <1>1, <1>2, <1>3, <1>4, SinkPushInv

\* The EventBroadcaster takes the next frame.
LEMMA SinkObservesInv ==
  ASSUME TranscriptInv, SinkObserves
  PROVE  TranscriptInv'
<1>1. /\ sinkSees \in Seq(SinkFrames) /\ sinkSees # <<>>
      /\ sinkSees' = Tail(sinkSees) /\ said' = said /\ run' = run
  BY DEF TranscriptInv, SinkObserves, llmVars
<1>2. PICK states : Sees(states, sinkSees, buffer, lines) /\ CaughtUp(states[Len(sinkSees) + 1], said, run)
  BY DEF TranscriptInv
<1>3. PICK seen : seen = Observed([buffer |-> buffer, lines |-> lines], Head(sinkSees))
  OBVIOUS
<1>4. buffer' = seen.buffer /\ lines' = seen.lines
  BY <1>3 DEF SinkObserves, Observed
<1>5. PICK rest : /\ Sees(rest, Tail(sinkSees), seen.buffer, seen.lines)
                  /\ rest[Len(Tail(sinkSees)) + 1] = states[Len(sinkSees) + 1]
  BY <1>1, <1>2, <1>3, SeesTail
<1>6. Sees(rest, sinkSees', buffer', lines') /\ CaughtUp(rest[Len(sinkSees') + 1], said', run')
  BY <1>1, <1>2, <1>4, <1>5
<1>7. sinkSees' \in Seq(SinkFrames)
  BY <1>1
<1> QED
  BY <1>1, <1>6, <1>7 DEF TranscriptInv

LEMMA InitTranscript == Init => TranscriptInv
<1> SUFFICES ASSUME Init PROVE TranscriptInv
  OBVIOUS
<1> DEFINE states == [i \in 1..1 |-> [buffer |-> <<>>, lines |-> <<>>]]
<1>1. /\ said = <<>> /\ run = NoRun /\ sinkSees = <<>> /\ buffer = <<>> /\ lines = <<>>
  BY DEF Init
<1>2. states \in [1..1 -> SinkState] /\ states[1] = [buffer |-> <<>>, lines |-> <<>>]
  BY DEF SinkState
<1> HIDE DEF states
<1>3. Sees(states, sinkSees, buffer, lines)
  BY <1>1, <1>2 DEF Sees
<1>4. CaughtUp(states[Len(sinkSees) + 1], said, run)
  BY <1>1, <1>2 DEF CaughtUp
<1> QED
  BY <1>1, <1>3, <1>4 DEF TranscriptInv

LEMMA TranscriptStep == TranscriptInv /\ [Next]_vars => TranscriptInv'
<1> SUFFICES ASSUME TranscriptInv, [Next]_vars PROVE TranscriptInv'
  OBVIOUS
<1> DEFINE Quiet == UNCHANGED <<said, run, sinkSees, buffer, lines>>
<1>1. CASE Quiet
  BY <1>1 DEF TranscriptInv
<1>2. CASE RunStarts
  BY <1>2, RunStartsInv
<1>3. CASE RunSays
  BY <1>3, RunSaysInv
<1>4. CASE \E calls \in BOOLEAN : RunEnds(calls)
  BY <1>4, RunOverInv DEF RunEnds, Push, Frame, Speak
<1>5. CASE LlmTakesSystem
  <2>1. CASE Head(llmSystem) = Started /\ run # NoRun
    BY <1>5, <2>1, RunOverInv DEF LlmTakesSystem, CutOff, Push, Frame, Speak
  <2>2. CASE ~(Head(llmSystem) = Started /\ run # NoRun)
    BY <1>1, <1>5, <2>2 DEF LlmTakesSystem, CutOff, sinkVars
  <2> QED
    BY <2>1, <2>2
<1>6. CASE SinkObserves
  BY <1>6, SinkObservesInv
<1>7. CASE FillerPassesLlm
  BY <1>1, <1>7 DEF FillerPassesLlm, Push, SpeakFrame, Frame, Speak, sinkVars
<1>8. CASE UserTurnStarts \/ (\E words \in BOOLEAN : UserTurnStops(words))
  BY <1>1, <1>8 DEF UserTurnStarts, UserTurnStops, sinkVars
<1>9. CASE \/ \E event \in {"arm", "cancel"} : VadFrame(event)
           \/ RunUnasked \/ FillerArrives \/ ToolStarts \/ ToolReturns
  BY <1>1, <1>9 DEF VadFrame, RunUnasked, FillerArrives, ToolStarts, ToolReturns, llmVars, sinkVars
<1>10. CASE TtsTakes \/ TtsSpeaks \/ BotStarts \/ TtsTakesSystem \/ FillerObserves
  BY <1>1, <1>10 DEF TtsTakes, TtsSpeaks, BotStarts, TtsTakesSystem, FillerObserves, llmVars, sinkVars
<1>11. CASE \E t \in Timers : FillerFires(t) \/ FillerTaskEnds(t)
  BY <1>1, <1>11 DEF FillerFires, FillerTaskEnds, llmVars, sinkVars
<1>12. CASE UNCHANGED vars
  BY <1>1, <1>12 DEF vars, llmVars, sinkVars
<1> QED
  BY <1>2, <1>3, <1>4, <1>5, <1>6, <1>7, <1>8, <1>9, <1>10, <1>11, <1>12 DEF Next

\* The EventBroadcaster: for every number of turns, runs and pieces of text,
\* when it has caught up, the transcript has a line for every reply, with all
\* that it said before its end or its interruption.
THEOREM TranscriptSafety == Spec => []TranscriptHasEveryReply
<1>1. TranscriptInv => TranscriptHasEveryReply
  <2> SUFFICES ASSUME TranscriptInv, sinkSees = <<>>, run = NoRun
               PROVE  lines = [r \in 1..Len(said) |-> [i \in 1..said[r] |-> r]]
    BY DEF TranscriptHasEveryReply
  <2>1. PICK states : Sees(states, sinkSees, buffer, lines) /\ CaughtUp(states[Len(sinkSees) + 1], said, run)
    BY DEF TranscriptInv
  <2>2. states[1] = [buffer |-> buffer, lines |-> lines] /\ Len(sinkSees) + 1 = 1
    BY <2>1 DEF Sees
  <2>3. states[1].lines = lines
    BY <2>2
  <2>4. states[1].lines = [r \in 1..Len(said) |-> Line(r, said[r])]
    BY <2>1, <2>2 DEF CaughtUp
  <2> QED
    BY <2>3, <2>4 DEF Line
<1> QED
  BY InitTranscript, TranscriptStep, <1>1, PTL DEF Spec
=============================================================================
