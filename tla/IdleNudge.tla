----------------------------- MODULE IdleNudge ------------------------------
(***************************************************************************)
(* The idle nudge of the STT -> LLM -> TTS pipeline (bot.py): when the bot *)
(* has spoken and the user stays silent, the LLM is run again, at most     *)
(* NudgeMax times in a row.  The handlers of bot.py and the re-check task  *)
(* are modelled whole.  The pipeline that drives them is the vendored      *)
(* pipecat, modelled from what the handlers rely on: the user turn and     *)
(* idle controllers, LLM runs, utterances and interruptions.  Its event    *)
(* handlers are tasks that the loop runs in the order of their creation,   *)
(* before any further time passes.                                         *)
(***************************************************************************)
EXTENDS Integers, Sequences, PlayoutTracker

CONSTANTS
  IdleTimeout,      \* IDLE_NUDGE_TIMEOUT, in ticks
  Margin,           \* RECHECK_MARGIN, in ticks
  NudgeMax,         \* IDLE_NUDGE_MAX
  Tasks,            \* identities of re-check tasks
  Utterances,       \* lengths of utterances, in ticks
  MaxOut,           \* bound: utterances waiting at the output
  MaxReady,         \* bound: handler tasks ready when a user turn changes
  LlmMayStaySilent  \* may a run of the LLM return nothing?

ASSUME NudgeAssumption ==
  /\ IdleTimeout \in Nat \ {0}
  /\ Margin \in Nat \ {0}
  /\ NudgeMax \in Nat
  /\ Utterances \subseteq Nat \ {0}
  /\ MaxOut \in Nat \ {0}
  /\ MaxReady \in Nat \ {0}
  /\ LlmMayStaySilent \in BOOLEAN

None == "none"
Off == -1  \* of a timer: not running

ASSUME TasksAssumption == None \notin Tasks

VARIABLES
  life,      \* "new", "up", "closing" (client gone) or "down"
  userTurn,  \* _user_turn_in_progress
  idle,      \* time to run of the idle timer, or Off
  handlers,  \* event handler tasks created and not yet run
  llm,       \* runs of the LLM asked for and not finished
  tool,      \* a function call is in progress
  out,       \* utterances generated and not yet finished at the output
  speaking,  \* between BotStartedSpeaking and BotStoppedSpeaking
  spoken,    \* history: the bot has spoken since the user last said something
  count,     \* idle_nudge_count
  recheck,   \* the sleep of each live re-check task, or Off
  pending    \* pending_recheck: the task it refers to, or None

botVars == <<llm, tool, out, speaking, spoken>>
nudgeVars == <<count, recheck, pending>>
vars == <<life, userTurn, idle, handlers, botVars, nudgeVars, playoutVars>>

Init ==
  /\ life = "new"
  /\ userTurn = FALSE
  /\ idle = Off
  /\ handlers = <<>>
  /\ llm = 0
  /\ tool = FALSE
  /\ out = 0
  /\ speaking = FALSE
  /\ spoken = FALSE
  /\ count = 0
  /\ recheck = [t \in Tasks |-> Off]
  /\ pending = None
  /\ PlayoutInit

-----------------------------------------------------------------------------
(* bot.py *)

\* A mutant of Cancelled: the reference is dropped, the task lives on.
CancelledNothing == recheck

\* The live re-check tasks after _cancel_pending_recheck().
Cancelled == [t \in Tasks |-> IF t = pending THEN Off ELSE recheck[t]]

CancelPendingRecheck ==
  /\ recheck' = Cancelled
  /\ pending' = None

\* asyncio.create_task(_recheck_after_playout(remaining + RECHECK_MARGIN)),
\* given the tasks that are live.
ScheduleRecheck(tasks) ==
  \E t \in Tasks :
    /\ tasks[t] = Off
    /\ recheck' = [tasks EXCEPT ![t] = left + Margin]
    /\ pending' = t

\* A mutant of MayNudge: off by one.
MayNudgeOnceMore == count <= NudgeMax

MayNudge == count < NudgeMax

\* The limit, then _do_nudge().
NudgeOrStayQuiet ==
  IF MayNudge
  THEN /\ count' = count + 1
       /\ llm' = IF life = "down" THEN llm ELSE llm + 1
  ELSE UNCHANGED <<count, llm>>

\* The re-check task resumes after its sleep.
RecheckWakes(t) ==
  /\ recheck[t] = 0
  /\ IF left > 0
     THEN /\ ScheduleRecheck([recheck EXCEPT ![t] = Off])
          /\ UNCHANGED <<count, llm>>
     ELSE /\ recheck' = [recheck EXCEPT ![t] = Off]
          /\ pending' = None
          /\ NudgeOrStayQuiet
  /\ UNCHANGED <<life, userTurn, idle, handlers, tool, out, speaking, spoken, playoutVars>>

NextHandler(event) ==
  /\ handlers # <<>>
  /\ Head(handlers) = event
  /\ handlers' = Tail(handlers)

UserStartedHandler ==
  /\ NextHandler("started")
  /\ CancelPendingRecheck
  /\ UNCHANGED <<life, userTurn, idle, botVars, count, playoutVars>>

UserStoppedHandler ==
  /\ NextHandler("stopped")
  /\ count' = 0
  /\ CancelPendingRecheck
  /\ UNCHANGED <<life, userTurn, idle, botVars, playoutVars>>

\* A mutant of UserIdleHandler: while the bot is audible it just returns.
UserIdleHandlerWaits ==
  /\ NextHandler("idle")
  /\ IF left > 0 THEN UNCHANGED <<count, llm>> ELSE NudgeOrStayQuiet
  /\ UNCHANGED <<life, userTurn, idle, tool, out, speaking, spoken, recheck, pending, playoutVars>>

UserIdleHandler ==
  /\ NextHandler("idle")
  /\ IF left > 0
     THEN ScheduleRecheck(Cancelled) /\ UNCHANGED <<count, llm>>
     ELSE NudgeOrStayQuiet /\ UNCHANGED <<recheck, pending>>
  /\ UNCHANGED <<life, userTurn, idle, tool, out, speaking, spoken, playoutVars>>

\* The greeting.
ClientConnected ==
  /\ life = "new"
  /\ life' = "up"
  /\ llm' = llm + 1
  /\ UNCHANGED <<userTurn, idle, handlers, tool, out, speaking, spoken, nudgeVars, playoutVars>>

\* The client hung up; task.cancel() follows.
ClientDisconnected ==
  /\ life = "up"
  /\ life' = "closing"
  /\ CancelPendingRecheck
  /\ UNCHANGED <<userTurn, idle, handlers, botVars, count, playoutVars>>

-----------------------------------------------------------------------------
(* pipecat *)

\* The pipeline is gone: cancelled, or ended by the bot itself, in which case
\* the transport reports no disconnected client.
PipelineEnds ==
  /\ life \in {"up", "closing"}
  /\ life' = "down"
  /\ idle' = Off
  /\ llm' = 0
  /\ out' = 0
  /\ tool' = FALSE
  /\ speaking' = FALSE
  /\ UNCHANGED <<userTurn, handlers, spoken, nudgeVars, playoutVars>>

Running == life \in {"up", "closing"}

\* VAD or a transcript opens a user turn and interrupts the bot.
UserStarts ==
  /\ Running
  /\ ~userTurn
  /\ Len(handlers) < MaxReady
  /\ userTurn' = TRUE
  /\ idle' = Off
  /\ handlers' = Append(handlers, "started")
  /\ llm' = 0
  /\ out' = 0
  /\ tool' = FALSE
  /\ speaking' = FALSE
  /\ OnBotTurnEnd
  /\ UNCHANGED <<life, spoken, nudgeVars>>

\* The turn ends.  It runs the LLM only if something was transcribed: a turn
\* that noise opened ends by the stop timeout with nothing to push.
UserStops(said) ==
  /\ Running
  /\ userTurn
  /\ Len(handlers) < MaxReady
  /\ userTurn' = FALSE
  /\ handlers' = Append(handlers, "stopped")
  /\ llm' = IF said THEN llm + 1 ELSE llm
  /\ spoken' = (spoken /\ ~said)
  /\ UNCHANGED <<life, idle, tool, out, speaking, nudgeVars, playoutVars>>

\* The LLM and TTS produce an utterance of n ticks, the last of its run or not.
Generate(n, last) ==
  /\ Running
  /\ llm > 0
  /\ ~tool
  /\ out < MaxOut
  /\ out' = out + 1
  /\ llm' = IF last THEN llm - 1 ELSE llm
  /\ AddAudio(n)
  /\ UNCHANGED <<life, userTurn, idle, handlers, tool, speaking, spoken, nudgeVars>>

\* The LLM returns nothing.
StaySilent ==
  /\ LlmMayStaySilent
  /\ Running
  /\ llm > 0
  /\ ~tool
  /\ llm' = llm - 1
  /\ UNCHANGED <<life, userTurn, idle, handlers, tool, out, speaking, spoken, nudgeVars, playoutVars>>

\* The LLM calls a function, whose result runs it again.
ToolStarts ==
  /\ Running
  /\ llm > 0
  /\ ~tool
  /\ tool' = TRUE
  /\ idle' = Off
  /\ llm' = llm - 1
  /\ UNCHANGED <<life, userTurn, handlers, out, speaking, spoken, nudgeVars, playoutVars>>

ToolEnds ==
  /\ Running
  /\ tool
  /\ tool' = FALSE
  /\ llm' = llm + 1
  /\ UNCHANGED <<life, userTurn, idle, handlers, out, speaking, spoken, nudgeVars, playoutVars>>

\* The output begins and finishes sending an utterance.
BotStarts ==
  /\ Running
  /\ out > 0
  /\ ~speaking
  /\ speaking' = TRUE
  /\ spoken' = TRUE
  /\ idle' = Off
  /\ OnBotTurnStart
  /\ UNCHANGED <<life, userTurn, handlers, llm, tool, out, nudgeVars>>

BotStops ==
  /\ Running
  /\ speaking
  /\ speaking' = FALSE
  /\ out' = out - 1
  /\ idle' = IF userTurn \/ tool THEN idle ELSE IdleTimeout
  /\ OnBotTurnEnd
  /\ UNCHANGED <<life, userTurn, handlers, llm, tool, spoken, nudgeVars>>

IdleFires ==
  /\ Running
  /\ idle = 0
  /\ idle' = Off
  /\ handlers' = Append(handlers, "idle")
  /\ UNCHANGED <<life, userTurn, botVars, nudgeVars, playoutVars>>

Left(timer) == IF timer > 0 THEN timer - 1 ELSE timer

\* Time passes; what is due, and what the loop has ready, comes first.
Tick ==
  /\ handlers = <<>>
  /\ idle # 0
  /\ \A t \in Tasks : recheck[t] # 0
  /\ idle' = Left(idle)
  /\ recheck' = [t \in Tasks |-> Left(recheck[t])]
  /\ Elapse
  /\ UNCHANGED <<life, userTurn, handlers, botVars, count, pending>>

-----------------------------------------------------------------------------
Handlers == UserStartedHandler \/ UserStoppedHandler \/ UserIdleHandler
Timers == IdleFires \/ \E t \in Tasks : RecheckWakes(t)
LlmRuns == ToolStarts \/ \E n \in Utterances : Generate(n, TRUE)
User == UserStarts \/ \E said \in BOOLEAN : UserStops(said)

Next ==
  \/ ClientConnected
  \/ ClientDisconnected
  \/ PipelineEnds
  \/ User
  \/ Handlers
  \/ Timers
  \/ LlmRuns
  \/ \E n \in Utterances : Generate(n, FALSE)
  \/ StaySilent
  \/ ToolEnds
  \/ BotStarts
  \/ BotStops
  \/ Tick

Spec == Init /\ [][Next]_vars

\* The event loop runs what is ready and the clock moves on; the LLM and the
\* tools answer (their clients have timeouts) and the output is drained.
\* Nobody makes the user speak or hang up; a turn that was opened closes, at
\* the latest by the stop timeout.
FairSpec ==
  /\ Spec
  /\ WF_vars(ClientConnected)
  /\ WF_vars(Handlers)
  /\ WF_vars(Timers)
  /\ WF_vars(LlmRuns)
  /\ WF_vars(ToolEnds)
  /\ WF_vars(BotStarts)
  /\ WF_vars(BotStops)
  /\ WF_vars(\E said \in BOOLEAN : UserStops(said))
  /\ WF_vars(Tick)

-----------------------------------------------------------------------------
\* Types and bounds.  At most NudgeMax nudges in a row, whether the idle timer
\* or a re-check finds the user silent: "so an absent user doesn't trigger an
\* endless monologue".
TypeOK ==
  /\ PlayoutTypeOK
  /\ life \in {"new", "up", "closing", "down"}
  /\ userTurn \in BOOLEAN
  /\ idle \in Off..IdleTimeout
  /\ handlers \in Seq({"started", "stopped", "idle"})
  /\ llm \in Nat
  /\ tool \in BOOLEAN
  /\ out \in 0..MaxOut
  /\ speaking \in BOOLEAN
  /\ count \in 0..NudgeMax
  /\ recheck \in [Tasks -> Off..(MaxLeft + Margin)]
  /\ pending \in Tasks \cup {None}

\* A live re-check is the one pending_recheck refers to.  Any other could not
\* be cancelled and would speak over the user.
RecheckIsHeld == \A t \in Tasks : recheck[t] # Off => t = pending

\* The bot is not told to speak while the user is: a nudge falls into a user
\* turn only if the handler that announces the turn has not run yet.
NoNudgeInUserTurn ==
  [][count' > count => ~userTurn \/ \E i \in DOMAIN handlers : handlers[i] = "started"]_vars

\* Once the idle timer runs, silence ends: with a nudge, with the user, with
\* more from the bot, or with the call.  In particular a deferral to the end
\* of the playout is not forgotten.
NudgeComes ==
  \A c \in 0..(NudgeMax - 1) :
    (life = "up" /\ idle # Off /\ count = c)
      ~> (count # c \/ userTurn \/ speaking \/ tool \/ life # "up")

\* "If the bot ends its reply ... both sides wait forever.  After the bot stops
\* speaking and the user stays silent for IDLE_NUDGE_TIMEOUT seconds, we re-run
\* the LLM": while nudges are left, a call never stays silent on both sides.
Waiting ==
  /\ life = "up"
  /\ spoken
  /\ count < NudgeMax
  /\ ~userTurn
  /\ ~speaking
  /\ ~tool
  /\ out = 0
  /\ llm = 0

SilenceIsBroken == Waiting ~> ~Waiting
=============================================================================
