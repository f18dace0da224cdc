-------------------------- MODULE IdleNudgeProofs ---------------------------
(***************************************************************************)
(* For every number of tasks, every timeout, limit and length of speech:   *)
(* the types and the nudge limit, that pending_recheck refers to the only  *)
(* live re-check, and that no nudge falls into a user turn.                *)
(***************************************************************************)
EXTENDS IdleNudge, TLAPS

Events == {"started", "stopped", "idle"}

Announced(queue) == \E i \in DOMAIN queue : queue[i] = "started"

\* Every idle event that is still to be handled is followed by the handler of
\* a user turn.
IdleBeforeStarted(queue) ==
  \A i \in DOMAIN queue :
    queue[i] = "idle" => \E j \in DOMAIN queue : j > i /\ queue[j] = "started"

NoRecheck == \A t \in Tasks : recheck[t] = Off

SpeakingHasOutput == speaking => out > 0

\* In a user turn no timer runs, and no re-check is left once the handlers that
\* were ready have run.
UserTurnIsQuiet ==
  userTurn => /\ idle = Off
              /\ IdleBeforeStarted(handlers)
              /\ Announced(handlers) \/ NoRecheck

IInv ==
  /\ TypeOK
  /\ SpeakingHasOutput
  /\ RecheckIsHeld
  /\ UserTurnIsQuiet

USE NudgeAssumption, TasksAssumption, PlayoutAssumption

-----------------------------------------------------------------------------
\* Two facts about the queue of handlers: appending the handler of a user turn
\* announces it, and taking the first handler keeps the order of the others.
LEMMA AppendStarted ==
  ASSUME NEW queue \in Seq(Events)
  PROVE  /\ Append(queue, "started") \in Seq(Events)
         /\ Announced(Append(queue, "started"))
         /\ IdleBeforeStarted(Append(queue, "started"))
<1> DEFINE longer == Append(queue, "started")
<1>1. longer \in Seq(Events) /\ Len(longer) = Len(queue) + 1
  BY DEF Events
<1>2. longer[Len(longer)] = "started" /\ Len(longer) \in DOMAIN longer
  BY <1>1
<1>3. ASSUME NEW i \in DOMAIN longer, longer[i] = "idle"
      PROVE  \E j \in DOMAIN longer : j > i /\ longer[j] = "started"
  <2>1. i # Len(longer) /\ i \in 1..Len(longer)
    BY <1>1, <1>2, <1>3
  <2>2. Len(longer) > i
    BY <1>1, <2>1
  <2> QED
    BY <1>2, <2>2
<1> QED
  BY <1>1, <1>2, <1>3 DEF Announced, IdleBeforeStarted

LEMMA TailOfHandlers ==
  ASSUME NEW queue \in Seq(Events), queue # <<>>
  PROVE  /\ Head(queue) \in Events
         /\ Tail(queue) \in Seq(Events)
         /\ IdleBeforeStarted(queue) => IdleBeforeStarted(Tail(queue))
         /\ IdleBeforeStarted(queue) /\ Head(queue) = "idle" => Announced(Tail(queue))
<1> DEFINE rest == Tail(queue)
<1>1. /\ Len(queue) \in Nat \ {0}
      /\ rest \in Seq(Events)
      /\ Len(rest) = Len(queue) - 1
      /\ DOMAIN rest = 1..Len(rest)
      /\ DOMAIN queue = 1..Len(queue)
      /\ \A i \in 1..Len(rest) : rest[i] = queue[i + 1]
      /\ Head(queue) = queue[1]
      /\ Head(queue) \in Events
  OBVIOUS
<1>2. ASSUME IdleBeforeStarted(queue),
             NEW i \in 1..Len(queue), queue[i] = "idle"
      PROVE  \E j \in 1..Len(rest) : j + 1 > i /\ rest[j] = "started"
  <2>1. PICK j \in 1..Len(queue) : j > i /\ queue[j] = "started"
    BY <1>1, <1>2 DEF IdleBeforeStarted
  <2>2. j - 1 \in 1..Len(rest) /\ rest[j - 1] = queue[j] /\ (j - 1) + 1 > i
    BY <1>1, <2>1
  <2> QED
    BY <2>1, <2>2
<1>3. ASSUME IdleBeforeStarted(queue), NEW i \in DOMAIN rest, rest[i] = "idle"
      PROVE  \E j \in DOMAIN rest : j > i /\ rest[j] = "started"
  <2>1. i \in 1..Len(rest) /\ i + 1 \in 1..Len(queue) /\ queue[i + 1] = "idle"
    BY <1>1, <1>3
  <2>2. PICK j \in 1..Len(rest) : j + 1 > i + 1 /\ rest[j] = "started"
    BY <1>2, <1>3, <2>1
  <2>3. j > i
    BY <1>1, <2>1, <2>2
  <2> QED
    BY <1>1, <2>2, <2>3
<1>4. ASSUME IdleBeforeStarted(queue), Head(queue) = "idle"
      PROVE  Announced(rest)
  <2>1. 1 \in 1..Len(queue) /\ queue[1] = "idle"
    BY <1>1, <1>4
  <2>2. PICK j \in 1..Len(rest) : rest[j] = "started"
    BY <1>2, <1>4, <2>1
  <2> QED
    BY <1>1, <2>2 DEF Announced
<1> QED
  BY <1>1, <1>3, <1>4 DEF IdleBeforeStarted

\* _cancel_pending_recheck leaves no re-check alive.
LEMMA CancelledAll ==
  ASSUME TypeOK, RecheckIsHeld, CancelPendingRecheck
  PROVE  /\ recheck' \in [Tasks -> Off..(MaxLeft + Margin)]
         /\ pending' \in Tasks \cup {None}
         /\ NoRecheck'
         /\ RecheckIsHeld'
<1>1. \A t \in Tasks : Cancelled[t] = Off
  BY DEF TypeOK, RecheckIsHeld, Cancelled
<1>2. Cancelled \in [Tasks -> Off..(MaxLeft + Margin)]
  BY <1>1 DEF Cancelled, Off
<1> QED
  BY <1>1, <1>2 DEF CancelPendingRecheck, NoRecheck, RecheckIsHeld

\* Scheduling while no other re-check lives makes the new one the only one.
LEMMA ScheduledAlone ==
  ASSUME TypeOK, left > 0,
         NEW tasks \in [Tasks -> Off..(MaxLeft + Margin)],
         \A t \in Tasks : tasks[t] = Off,
         ScheduleRecheck(tasks)
  PROVE  /\ recheck' \in [Tasks -> Off..(MaxLeft + Margin)]
         /\ pending' \in Tasks \cup {None}
         /\ RecheckIsHeld'
<1>1. PICK t \in Tasks : /\ recheck' = [tasks EXCEPT ![t] = left + Margin]
                         /\ pending' = t
  BY DEF ScheduleRecheck
<1>2. left + Margin \in Off..(MaxLeft + Margin)
  BY DEF TypeOK, PlayoutTypeOK, Off
<1>3. \A u \in Tasks : u # t => recheck'[u] = Off
  BY <1>1
<1> QED
  BY <1>1, <1>2, <1>3 DEF RecheckIsHeld

-----------------------------------------------------------------------------
LEMMA InitIInv == Init => IInv
<1> SUFFICES ASSUME Init PROVE IInv
  OBVIOUS
<1>1. left \in -MaxLag..MaxLeft
  BY DEF Init, PlayoutInit
<1>2. recheck \in [Tasks -> Off..(MaxLeft + Margin)] /\ idle \in Off..IdleTimeout
  BY DEF Init, Off
<1>3. out \in 0..MaxOut /\ count \in 0..NudgeMax /\ llm \in Nat /\ handlers \in Seq(Events)
  BY DEF Init
<1>4. TypeOK
  BY <1>1, <1>2, <1>3, Zenon DEF Init, PlayoutInit, TypeOK, PlayoutTypeOK, Events
<1> QED
  BY <1>4 DEF Init, IInv, SpeakingHasOutput, RecheckIsHeld, UserTurnIsQuiet

-----------------------------------------------------------------------------
\* The estimate stays within its bounds.
LEMMA PlayoutTypes ==
  ASSUME PlayoutTypeOK,
         \/ \E n \in Utterances : AddAudio(n)
         \/ OnBotTurnStart
         \/ OnBotTurnEnd
         \/ Elapse
         \/ UNCHANGED playoutVars
  PROVE  PlayoutTypeOK'
<1>1. Counted \in -MaxLag..MaxLeft
  BY DEF PlayoutTypeOK, Counted
<1>2. left' \in -MaxLag..MaxLeft
  <2>1. CASE \E n \in Utterances : AddAudio(n)
    <3>1. PICK n \in Utterances : AddAudio(n)
      BY <2>1
    <3> QED
      BY <1>1, <3>1 DEF AddAudio
  <2>2. CASE OnBotTurnStart
    BY <1>1, <2>2 DEF OnBotTurnStart
  <2>3. CASE OnBotTurnEnd \/ UNCHANGED playoutVars
    BY <2>3 DEF PlayoutTypeOK, OnBotTurnEnd, playoutVars
  <2>4. CASE Elapse
    BY <2>4 DEF PlayoutTypeOK, Elapse
  <2> QED
    BY <2>1, <2>2, <2>3, <2>4
<1>3. turnActive' \in BOOLEAN
  BY Zenon DEF PlayoutTypeOK, AddAudio, OnBotTurnStart, OnBotTurnEnd, Elapse, playoutVars
<1> QED
  BY <1>2, <1>3 DEF PlayoutTypeOK

\* A nudge stays within the limit.
LEMMA NudgeTypes ==
  ASSUME TypeOK, NudgeOrStayQuiet
  PROVE  count' \in 0..NudgeMax /\ llm' \in Nat
<1>1. count \in 0..NudgeMax /\ llm \in Nat
  BY DEF TypeOK
<1>2. CASE MayNudge
  BY <1>1, <1>2 DEF NudgeOrStayQuiet, MayNudge
<1>3. CASE ~MayNudge
  BY <1>1, <1>3 DEF NudgeOrStayQuiet
<1> QED
  BY <1>2, <1>3

-----------------------------------------------------------------------------
\* The handlers of bot.py and the re-check task.

LEMMA HandlerTakes ==
  ASSUME TypeOK, NEW event \in Events, NextHandler(event)
  PROVE  /\ handlers' \in Seq(Events)
         /\ IdleBeforeStarted(handlers) => IdleBeforeStarted(handlers')
         /\ IdleBeforeStarted(handlers) /\ event = "idle" => Announced(handlers')
BY TailOfHandlers DEF TypeOK, Events, NextHandler

LEMMA UserHandlersKeepIInv ==
  ASSUME IInv, UserStartedHandler \/ UserStoppedHandler
  PROVE  IInv'
<1>1. /\ handlers' \in Seq(Events)
      /\ IdleBeforeStarted(handlers) => IdleBeforeStarted(handlers')
  <2>1. NextHandler("started") \/ NextHandler("stopped")
    BY DEF UserStartedHandler, UserStoppedHandler
  <2> QED
    BY <2>1, HandlerTakes DEF IInv, Events
<1>2. CancelPendingRecheck
  BY DEF UserStartedHandler, UserStoppedHandler
<1>3. /\ recheck' \in [Tasks -> Off..(MaxLeft + Margin)]
      /\ pending' \in Tasks \cup {None}
      /\ NoRecheck'
      /\ RecheckIsHeld'
  BY <1>2, CancelledAll DEF IInv
<1>4. count' \in 0..NudgeMax
  BY DEF IInv, TypeOK, UserStartedHandler, UserStoppedHandler
<1>5. UNCHANGED <<life, userTurn, idle, botVars, playoutVars>>
  BY DEF UserStartedHandler, UserStoppedHandler
<1>6. TypeOK'
  BY <1>1, <1>3, <1>4, <1>5 DEF IInv, TypeOK, PlayoutTypeOK, botVars, playoutVars, Events
<1>7. UserTurnIsQuiet'
  BY <1>1, <1>3, <1>5 DEF IInv, UserTurnIsQuiet, NoRecheck
<1> QED
  BY <1>3, <1>5, <1>6, <1>7 DEF IInv, SpeakingHasOutput, botVars

LEMMA IdleHandlerKeepsIInv ==
  ASSUME IInv, UserIdleHandler
  PROVE  IInv'
<1>1. /\ handlers' \in Seq(Events)
      /\ IdleBeforeStarted(handlers) => IdleBeforeStarted(handlers') /\ Announced(handlers')
  BY HandlerTakes DEF IInv, Events, UserIdleHandler
<1>2. /\ recheck' \in [Tasks -> Off..(MaxLeft + Margin)]
      /\ pending' \in Tasks \cup {None}
      /\ RecheckIsHeld'
      /\ count' \in 0..NudgeMax
      /\ llm' \in Nat
  <2>1. CASE left > 0
    <3>1. \A t \in Tasks : Cancelled[t] = Off
      BY DEF IInv, TypeOK, RecheckIsHeld, Cancelled
    <3>2. Cancelled \in [Tasks -> Off..(MaxLeft + Margin)]
      BY <3>1 DEF Cancelled, Off
    <3>3. ScheduleRecheck(Cancelled) /\ UNCHANGED <<count, llm>>
      BY <2>1 DEF UserIdleHandler
    <3>4. /\ recheck' \in [Tasks -> Off..(MaxLeft + Margin)]
          /\ pending' \in Tasks \cup {None}
          /\ RecheckIsHeld'
      BY <2>1, <3>1, <3>2, <3>3, ScheduledAlone DEF IInv
    <3> QED
      BY <3>3, <3>4 DEF IInv, TypeOK
  <2>2. CASE ~(left > 0)
    BY <2>2, NudgeTypes DEF IInv, TypeOK, UserIdleHandler, RecheckIsHeld
  <2> QED
    BY <2>1, <2>2
<1>3. UNCHANGED <<life, userTurn, idle, tool, out, speaking, spoken, playoutVars>>
  BY DEF UserIdleHandler
<1>4. TypeOK'
  BY <1>1, <1>2, <1>3 DEF IInv, TypeOK, PlayoutTypeOK, playoutVars, Events
<1>5. UserTurnIsQuiet'
  BY <1>1, <1>3 DEF IInv, UserTurnIsQuiet
<1> QED
  BY <1>2, <1>3, <1>4, <1>5 DEF IInv, SpeakingHasOutput

LEMMA RecheckKeepsIInv ==
  ASSUME IInv, NEW t \in Tasks, RecheckWakes(t)
  PROVE  IInv'
<1> DEFINE others == [recheck EXCEPT ![t] = Off]
<1>1. recheck[t] # Off
  BY DEF RecheckWakes, Off
<1>2. \A u \in Tasks : others[u] = Off
  BY <1>1 DEF IInv, TypeOK, RecheckIsHeld
<1>3. others \in [Tasks -> Off..(MaxLeft + Margin)]
  BY DEF IInv, TypeOK, Off
<1>4. /\ recheck' \in [Tasks -> Off..(MaxLeft + Margin)]
      /\ pending' \in Tasks \cup {None}
      /\ RecheckIsHeld'
      /\ count' \in 0..NudgeMax
      /\ llm' \in Nat
  <2>1. CASE left > 0
    <3>1. ScheduleRecheck(others) /\ UNCHANGED <<count, llm>>
      BY <2>1 DEF RecheckWakes
    <3>2. /\ recheck' \in [Tasks -> Off..(MaxLeft + Margin)]
          /\ pending' \in Tasks \cup {None}
          /\ RecheckIsHeld'
      BY <1>2, <1>3, <2>1, <3>1, ScheduledAlone DEF IInv
    <3> QED
      BY <3>1, <3>2 DEF IInv, TypeOK
  <2>2. CASE ~(left > 0)
    <3>1. recheck' = others /\ pending' = None /\ NudgeOrStayQuiet
      BY <2>2 DEF RecheckWakes
    <3> QED
      BY <1>2, <1>3, <3>1, NudgeTypes DEF IInv, RecheckIsHeld
  <2> QED
    BY <2>1, <2>2
<1>5. UNCHANGED <<life, userTurn, idle, handlers, tool, out, speaking, spoken, playoutVars>>
  BY DEF RecheckWakes
<1>6. TypeOK'
  BY <1>4, <1>5 DEF IInv, TypeOK, PlayoutTypeOK, playoutVars
<1>7. UserTurnIsQuiet'
  BY <1>1, <1>5 DEF IInv, UserTurnIsQuiet, NoRecheck
<1> QED
  BY <1>4, <1>5, <1>6, <1>7 DEF IInv, SpeakingHasOutput

-----------------------------------------------------------------------------
\* The call and the pipeline.

LEMMA ConnectionKeepsIInv ==
  ASSUME IInv, ClientConnected \/ ClientDisconnected \/ PipelineEnds
  PROVE  IInv'
<1>1. PlayoutTypeOK'
  BY PlayoutTypes DEF IInv, TypeOK, ClientConnected, ClientDisconnected, PipelineEnds
<1>2. CASE ClientConnected
  <2>1. TypeOK'
    BY <1>1, <1>2 DEF IInv, TypeOK, ClientConnected, nudgeVars
  <2> QED
    BY <1>2, <2>1 DEF IInv, SpeakingHasOutput, RecheckIsHeld, UserTurnIsQuiet, NoRecheck,
                      ClientConnected, nudgeVars
<1>3. CASE ClientDisconnected
  <2>1. /\ recheck' \in [Tasks -> Off..(MaxLeft + Margin)]
        /\ pending' \in Tasks \cup {None}
        /\ NoRecheck'
        /\ RecheckIsHeld'
    BY <1>3, CancelledAll DEF IInv, ClientDisconnected
  <2>2. TypeOK'
    BY <1>1, <1>3, <2>1 DEF IInv, TypeOK, ClientDisconnected, botVars
  <2> QED
    BY <1>3, <2>1, <2>2 DEF IInv, SpeakingHasOutput, UserTurnIsQuiet, ClientDisconnected, botVars
<1>4. CASE PipelineEnds
  <2>1. idle' \in Off..IdleTimeout /\ llm' \in Nat /\ out' \in 0..MaxOut
    BY <1>4 DEF PipelineEnds, Off
  <2>2. life' = "down" /\ tool' = FALSE /\ speaking' = FALSE
    BY <1>4 DEF PipelineEnds
  <2>3. TypeOK'
    BY <1>1, <1>4, <2>1, <2>2, Zenon DEF IInv, TypeOK, PipelineEnds, nudgeVars
  <2> QED
    BY <1>4, <2>3 DEF IInv, SpeakingHasOutput, RecheckIsHeld, UserTurnIsQuiet, NoRecheck,
                      PipelineEnds, nudgeVars
<1> QED
  BY <1>2, <1>3, <1>4

LEMMA UserStartsKeepsIInv ==
  ASSUME IInv, UserStarts
  PROVE  IInv'
<1>1. PlayoutTypeOK'
  BY PlayoutTypes DEF IInv, TypeOK, UserStarts
<1>2. /\ handlers' \in Seq(Events)
      /\ Announced(handlers')
      /\ IdleBeforeStarted(handlers')
  BY AppendStarted DEF IInv, TypeOK, UserStarts, Events
<1>3. idle' \in Off..IdleTimeout /\ llm' \in Nat /\ out' \in 0..MaxOut
  BY DEF UserStarts, Off
<1>4. TypeOK'
  BY <1>1, <1>2, <1>3, Zenon DEF IInv, TypeOK, UserStarts, nudgeVars, Events
<1> QED
  BY <1>2, <1>4 DEF IInv, SpeakingHasOutput, RecheckIsHeld, UserTurnIsQuiet, UserStarts, nudgeVars

LEMMA UserStopsKeepsIInv ==
  ASSUME IInv, NEW said \in BOOLEAN, UserStops(said)
  PROVE  IInv'
<1>1. PlayoutTypeOK'
  BY PlayoutTypes DEF IInv, TypeOK, UserStops
<1>2. handlers' \in Seq(Events) /\ llm' \in Nat
  BY DEF IInv, TypeOK, UserStops, Events
<1>3. TypeOK'
  BY <1>1, <1>2 DEF IInv, TypeOK, UserStops, nudgeVars, Events
<1> QED
  BY <1>3 DEF IInv, SpeakingHasOutput, RecheckIsHeld, UserTurnIsQuiet, UserStops, nudgeVars

LEMMA LlmKeepsIInv ==
  ASSUME IInv,
         \/ \E n \in Utterances, last \in BOOLEAN : Generate(n, last)
         \/ StaySilent
         \/ ToolStarts
         \/ ToolEnds
  PROVE  IInv'
<1>1. PlayoutTypeOK'
  BY PlayoutTypes DEF IInv, TypeOK, Generate, StaySilent, ToolStarts, ToolEnds
<1>2. llm' \in Nat /\ out' \in 0..MaxOut /\ (out > 0 => out' > 0)
  BY DEF IInv, TypeOK, Generate, StaySilent, ToolStarts, ToolEnds
<1>3. /\ UNCHANGED <<life, userTurn, handlers, speaking, nudgeVars>>
      /\ idle' = idle \/ idle' = Off
  BY DEF Generate, StaySilent, ToolStarts, ToolEnds
<1>4. tool' \in BOOLEAN
  BY Zenon DEF IInv, TypeOK, Generate, StaySilent, ToolStarts, ToolEnds
<1>5. TypeOK'
  BY <1>1, <1>2, <1>3, <1>4 DEF IInv, TypeOK, nudgeVars, Off
<1> QED
  BY <1>2, <1>3, <1>5 DEF IInv, SpeakingHasOutput, RecheckIsHeld, UserTurnIsQuiet, NoRecheck,
                          nudgeVars

LEMMA OutputKeepsIInv ==
  ASSUME IInv, BotStarts \/ BotStops
  PROVE  IInv'
<1>1. PlayoutTypeOK'
  BY PlayoutTypes DEF IInv, TypeOK, BotStarts, BotStops
<1>2. out' \in 0..MaxOut /\ (speaking' => out' > 0)
  BY DEF IInv, TypeOK, SpeakingHasOutput, BotStarts, BotStops
<1>3. /\ UNCHANGED <<life, userTurn, handlers, llm, tool, nudgeVars>>
      /\ idle' \in {idle, Off, IdleTimeout}
      /\ userTurn => idle' \in {idle, Off}
      /\ speaking' \in BOOLEAN
  BY DEF BotStarts, BotStops
<1>4. TypeOK'
  BY <1>1, <1>2, <1>3 DEF IInv, TypeOK, nudgeVars, Off
<1> QED
  BY <1>2, <1>3, <1>4 DEF IInv, SpeakingHasOutput, RecheckIsHeld, UserTurnIsQuiet, NoRecheck,
                          nudgeVars

LEMMA ClockKeepsIInv ==
  ASSUME IInv, IdleFires \/ Tick
  PROVE  IInv'
<1>1. PlayoutTypeOK'
  BY PlayoutTypes DEF IInv, TypeOK, IdleFires, Tick
<1>2. CASE IdleFires
  <2>1. handlers' \in Seq(Events)
    BY <1>2 DEF IInv, TypeOK, IdleFires, Events
  <2>2. TypeOK'
    BY <1>1, <1>2, <2>1 DEF IInv, TypeOK, IdleFires, botVars, nudgeVars, Off, Events
  <2>3. ~userTurn'
    BY <1>2 DEF IInv, UserTurnIsQuiet, IdleFires, Off
  <2> QED
    BY <1>2, <2>2, <2>3 DEF IInv, SpeakingHasOutput, RecheckIsHeld, UserTurnIsQuiet, IdleFires,
                            botVars, nudgeVars
<1>3. CASE Tick
  <2>1. idle' \in Off..IdleTimeout /\ (idle = Off => idle' = Off)
    BY <1>3 DEF IInv, TypeOK, Tick, Left, Off
  <2>2. \A t \in Tasks : /\ recheck'[t] \in Off..(MaxLeft + Margin)
                         /\ recheck[t] = Off => recheck'[t] = Off
    BY <1>3 DEF IInv, TypeOK, Tick, Left, Off
  <2>3. recheck' \in [Tasks -> Off..(MaxLeft + Margin)]
    BY <1>3, <2>2 DEF Tick
  <2>4. TypeOK'
    BY <1>1, <1>3, <2>1, <2>3 DEF IInv, TypeOK, Tick, botVars
  <2> QED
    BY <1>3, <2>1, <2>2, <2>4 DEF IInv, SpeakingHasOutput, RecheckIsHeld, UserTurnIsQuiet,
                                  NoRecheck, Tick, botVars
<1> QED
  BY <1>2, <1>3

LEMMA StutterKeepsIInv ==
  ASSUME IInv, UNCHANGED vars
  PROVE  IInv'
<1>1. PlayoutTypeOK'
  BY PlayoutTypes DEF IInv, TypeOK, vars
<1>2. TypeOK'
  BY <1>1 DEF IInv, TypeOK, vars, botVars, nudgeVars
<1> QED
  BY <1>2 DEF IInv, SpeakingHasOutput, RecheckIsHeld, UserTurnIsQuiet, NoRecheck,
              vars, botVars, nudgeVars

-----------------------------------------------------------------------------
LEMMA StepKeepsIInv ==
  ASSUME IInv, [Next]_vars
  PROVE  IInv'
<1>1. CASE ClientConnected \/ ClientDisconnected \/ PipelineEnds
  BY <1>1, ConnectionKeepsIInv
<1>2. CASE User
  BY <1>2, UserStartsKeepsIInv, UserStopsKeepsIInv DEF User
<1>3. CASE Handlers
  BY <1>3, UserHandlersKeepIInv, IdleHandlerKeepsIInv DEF Handlers
<1>4. CASE Timers \/ Tick
  BY <1>4, RecheckKeepsIInv, ClockKeepsIInv DEF Timers
<1>5. CASE LlmRuns \/ (\E n \in Utterances : Generate(n, FALSE)) \/ StaySilent \/ ToolEnds
  BY <1>5, LlmKeepsIInv DEF LlmRuns
<1>6. CASE BotStarts \/ BotStops
  BY <1>6, OutputKeepsIInv
<1>7. CASE UNCHANGED vars
  BY <1>7, StutterKeepsIInv
<1> QED
  BY <1>1, <1>2, <1>3, <1>4, <1>5, <1>6, <1>7 DEF Next

LEMMA Invariance == Spec => []IInv
<1>1. Init => IInv
  BY InitIInv
<1>2. IInv /\ [Next]_vars => IInv'
  BY StepKeepsIInv
<1> QED
  BY <1>1, <1>2, PTL DEF Spec

\* Types, bounds and the limit on consecutive nudges.
THEOREM TypeCorrect == Spec => []TypeOK
<1>1. IInv => TypeOK
  BY DEF IInv
<1> QED
  BY <1>1, Invariance, PTL

\* The reference pending_recheck reaches every live re-check, so that the
\* user's turn, or the end of the call, can cancel it.
THEOREM RecheckSafety == Spec => []RecheckIsHeld
<1>1. IInv => RecheckIsHeld
  BY DEF IInv
<1> QED
  BY <1>1, Invariance, PTL

\* Only the idle handler and the re-check task nudge.
LEMMA WhoNudges ==
  ASSUME IInv, [Next]_vars, count' > count
  PROVE  UserIdleHandler \/ \E t \in Tasks : RecheckWakes(t)
<1>1. count \in 0..NudgeMax
  BY DEF IInv, TypeOK
<1>2. count' # count /\ count' # 0
  BY <1>1
<1> QED
  BY <1>2 DEF Next, User, Handlers, Timers, LlmRuns, ClientConnected, ClientDisconnected,
     PipelineEnds, UserStarts, UserStops, UserStartedHandler, UserStoppedHandler, IdleFires, Tick,
     Generate, StaySilent, ToolStarts, ToolEnds, BotStarts, BotStops, nudgeVars, vars

\* The bot is never told to speak in the middle of a user turn.
THEOREM NudgeSafety == Spec => NoNudgeInUserTurn
<1>1. ASSUME IInv, [Next]_vars, count' > count
      PROVE  ~userTurn \/ \E i \in DOMAIN handlers : handlers[i] = "started"
  <2>1. CASE UserIdleHandler
    <3>1. handlers # <<>> /\ Head(handlers) = "idle" /\ handlers \in Seq(Events)
      BY <1>1, <2>1 DEF IInv, TypeOK, UserIdleHandler, NextHandler, Events
    <3>2. 1 \in DOMAIN handlers /\ handlers[1] = "idle"
      BY <3>1
    <3> QED
      BY <1>1, <3>2 DEF IInv, UserTurnIsQuiet, IdleBeforeStarted
  <2>2. ASSUME NEW t \in Tasks, RecheckWakes(t)
        PROVE  ~userTurn \/ Announced(handlers)
    <3>1. recheck[t] # Off
      BY <2>2 DEF RecheckWakes, Off
    <3> QED
      BY <1>1, <3>1 DEF IInv, UserTurnIsQuiet, NoRecheck
  <2> QED
    BY <1>1, <2>1, <2>2, WhoNudges DEF Announced
<1>2. IInv /\ [Next]_vars
        => [count' > count => ~userTurn \/ \E i \in DOMAIN handlers : handlers[i] = "started"]_vars
  BY <1>1
<1> QED
  BY <1>2, Invariance, PTL DEF Spec, NoNudgeInUserTurn
=============================================================================
