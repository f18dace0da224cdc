---------------------------- MODULE TurnPipeline ----------------------------
(***************************************************************************)
(* User turns, replies and fillers in the pipeline of _build_pipeline      *)
(* (bot.py), and two of the observers on it: the filler timer and the part *)
(* of EventBroadcaster that writes the bot's lines of the transcript.      *)
(*                                                                         *)
(* Of the pipeline, the user aggregator, the LLM service and the TTS       *)
(* service are modelled.  A processor has a queue for system frames, which *)
(* its input task handles at once, and one for the others, which its       *)
(* process task handles one after the other.  An observer gets its own     *)
(* copy of every push, through a queue and a task of its own, so what it   *)
(* knows is late.                                                          *)
(***************************************************************************)
EXTENDS Naturals, Sequences, TimeoutFiller

CONSTANTS
  MaxTurns,    \* bound: user turns
  MaxRuns,     \* bound: contexts pushed to the LLM
  MaxText,     \* bound: text frames of one run
  MaxFillers,  \* bound: fillers injected
  MaxSeen      \* bound: frames the observers may be behind when more happens

ASSUME PipelineAssumption ==
  {MaxTurns, MaxRuns, MaxText, MaxFillers, MaxSeen} \subseteq Nat

Context == "context"
Speak == "speak"  \* the TTSSpeakFrame of the filler timer
Ack == "ack"      \* the TTSSpeakFrame of a tool call
NoRun == 0

Frame(kind, r) == [kind |-> kind, run |-> r]
SpeakFrame == Frame(Speak, NoRun)

VARIABLES
  userTurn,     \* the user turn controller: a turn is in progress
  turns,        \* history: user turns so far
  contexts,     \* history: contexts pushed to the LLM so far
  fillers,      \* history: fillers injected so far
  upstream,     \* fillers queued at the source and not yet at the LLM
  llmQueue,     \* the LLM's process queue
  llmSystem,    \* the LLM's system frames
  run,          \* the run in progress, in the LLM's process task, or NoRun
  said,         \* history: the number of text frames of each run
  tool,         \* the function call task: "none", "called" or "running"
  ttsQueue,     \* the TTS's process queue
  ttsSystem,    \* the TTS's system frames
  turnContext,  \* _turn_context_id: the run it was created for, or NoRun
  utterances,   \* the TTS's audio contexts, in their serialization queue
  atOutput,     \* audio has reached the output and BotStarted was not pushed
  fillerSees,   \* pushes on their way to the filler timer: "arm" or "cancel"
  sinkSees,     \* pushes on their way to the EventBroadcaster
  buffer,       \* _llm_buffer, as the runs its pieces are of
  lines         \* the bot's lines given to the history recorder

userVars == <<userTurn, turns, contexts>>
llmVars == <<llmQueue, llmSystem, run, said, tool>>
ttsVars == <<ttsQueue, ttsSystem, turnContext, utterances, atOutput>>
sinkVars == <<buffer, lines>>
vars == <<userVars, fillers, upstream, llmVars, ttsVars, fillerSees, sinkSees, sinkVars, fillerVars>>

Init ==
  /\ userTurn = FALSE /\ turns = 0 /\ contexts = 0
  /\ fillers = 0 /\ upstream = 0
  /\ llmQueue = <<>> /\ llmSystem = <<>> /\ run = NoRun /\ said = <<>>
  /\ tool = "none"
  /\ ttsQueue = <<>> /\ ttsSystem = <<>> /\ turnContext = NoRun
  /\ utterances = <<>> /\ atOutput = FALSE
  /\ fillerSees = <<>> /\ sinkSees = <<>>
  /\ buffer = <<>> /\ lines = <<>>
  /\ FillerInit

-----------------------------------------------------------------------------
(* The user aggregator *)

\* System frames.  "started" is UserStartedSpeaking and the Interruption that
\* travels behind it.
Started == "started"
Stopped == "stopped"

\* What the filler timer will do on seeing one.
Reaction(system) == IF system = Started THEN "cancel" ELSE "arm"

\* The observers are not too far behind, and cancelled tasks have ended.
Watched ==
  /\ Len(fillerSees) + Len(sinkSees) < MaxSeen
  /\ \A t \in Timers : timer[t] # "cancelled"

\* The user does not speak, nor fall silent, within the few turns of the event
\* loop in which the frames of the last change pass the processors.
Settled == Watched /\ llmSystem = <<>> /\ ttsSystem = <<>>

\* _on_user_turn_started: a filler that is still upstream meets the
\* interruption in one of the process queues it clears, or passes it by.
UserTurnStarts ==
  /\ Settled
  /\ ~userTurn
  /\ turns < MaxTurns
  /\ userTurn' = TRUE
  /\ turns' = turns + 1
  /\ llmSystem' = Append(llmSystem, Started)
  /\ fillerSees' = Append(fillerSees, Reaction(Started))
  /\ upstream' \in 0..upstream
  /\ UNCHANGED <<contexts, fillers, llmQueue, run, said, tool, ttsVars, sinkSees, sinkVars, fillerVars>>

PushContext ==
  /\ contexts < MaxRuns
  /\ contexts' = contexts + 1
  /\ llmQueue' = Append(llmQueue, Frame(Context, NoRun))

\* _on_user_turn_stopped: without words, nothing is pushed to the LLM.
UserTurnStops(words) ==
  /\ Settled
  /\ userTurn
  /\ userTurn' = FALSE
  /\ llmSystem' = Append(llmSystem, Stopped)
  /\ fillerSees' = Append(fillerSees, Reaction(Stopped))
  /\ IF words THEN PushContext ELSE UNCHANGED <<contexts, llmQueue>>
  /\ UNCHANGED <<turns, fillers, upstream, run, said, tool, ttsVars, sinkSees, sinkVars, fillerVars>>

\* VADUserStartedSpeaking and VADUserStoppedSpeaking, within a turn.
VadFrame(event) ==
  /\ Settled
  /\ userTurn
  /\ fillerSees' = Append(fillerSees, event)
  /\ UNCHANGED <<userVars, fillers, upstream, llmVars, ttsVars, sinkSees, sinkVars, fillerVars>>

\* The greeting, or an idle nudge.
RunUnasked ==
  /\ Watched
  /\ ~userTurn
  /\ PushContext
  /\ UNCHANGED <<userTurn, turns, fillers, upstream, llmSystem, run, said, tool, ttsVars,
                 fillerSees, sinkSees, sinkVars, fillerVars>>

\* A filler has passed the processors upstream of the LLM.
FillerArrives ==
  /\ upstream > 0
  /\ upstream' = upstream - 1
  /\ llmQueue' = Append(llmQueue, SpeakFrame)
  /\ UNCHANGED <<userVars, fillers, llmSystem, run, said, tool, ttsVars, fillerSees, sinkSees,
                 sinkVars, fillerVars>>

-----------------------------------------------------------------------------
(* The LLM service *)

\* A push of the LLM, which the TTS gets and the observers see.
Push(frame) ==
  /\ ttsQueue' = Append(ttsQueue, frame)
  /\ sinkSees' = IF frame.kind = Speak THEN sinkSees ELSE Append(sinkSees, frame)

\* process_frame on a context: the start of _process_context.
RunStarts ==
  /\ Watched
  /\ run = NoRun
  /\ llmQueue # <<>> /\ Head(llmQueue).kind = Context
  /\ llmQueue' = Tail(llmQueue)
  /\ said' = Append(said, 0)
  /\ run' = Len(said')
  /\ Push(Frame("start", run'))
  /\ UNCHANGED <<userVars, fillers, upstream, llmSystem, tool, ttsSystem, turnContext, utterances,
                 atOutput, fillerSees, sinkVars, fillerVars>>

RunSays ==
  /\ Watched
  /\ run # NoRun
  /\ said[run] < MaxText
  /\ said' = [said EXCEPT ![run] = @ + 1]
  /\ Push(Frame("text", run))
  /\ UNCHANGED <<userVars, fillers, upstream, llmQueue, llmSystem, run, tool, ttsSystem, turnContext,
                 utterances, atOutput, fillerSees, sinkVars, fillerVars>>

\* The end of _process_context: of the stream, perhaps with a function call,
\* which becomes a task of its own, or after an error; then the finally.
RunEnds(calls) ==
  /\ Watched
  /\ run # NoRun
  /\ run' = NoRun
  /\ IF calls THEN tool = "none" /\ tool' = "called" ELSE UNCHANGED tool
  /\ Push(Frame("end", run))
  /\ UNCHANGED <<userVars, fillers, upstream, llmQueue, llmSystem, said, ttsSystem,
                 turnContext, utterances, atOutput, fillerSees, sinkVars, fillerVars>>

\* _wrapped of with_filler: an MCP tool is announced first; the push does not
\* wait for what is in the LLM's process queue.
ToolStarts ==
  /\ tool = "called"
  /\ tool' = "running"
  /\ ttsQueue' \in {ttsQueue, Append(ttsQueue, Frame(Ack, NoRun))}
  /\ UNCHANGED <<userVars, fillers, upstream, llmQueue, llmSystem, run, said, ttsSystem,
                 turnContext, utterances, atOutput, fillerSees, sinkSees, sinkVars,
                 fillerVars>>

\* _handle_function_call_result of the assistant aggregator; a push that waits
\* for the bot to stop speaking has not returned yet.
ToolReturns ==
  /\ Watched
  /\ tool = "running"
  /\ tool' = "none"
  /\ \/ ~userTurn /\ PushContext
     \/ UNCHANGED <<contexts, llmQueue>>
  /\ UNCHANGED <<userTurn, turns, fillers, upstream, llmSystem, run, said, ttsVars,
                 fillerSees, sinkSees, sinkVars, fillerVars>>

\* A mutant of LlmIsFree: a run leaves the process task free for other frames.
LlmIsFreeAlways == TRUE

\* process_frame awaits a run, so no other frame is handled meanwhile.
LlmIsFree == run = NoRun

\* process_frame on another frame.
FillerPassesLlm ==
  /\ LlmIsFree
  /\ llmQueue # <<>> /\ Head(llmQueue).kind = Speak
  /\ llmQueue' = Tail(llmQueue)
  /\ Push(SpeakFrame)
  /\ UNCHANGED <<userVars, fillers, upstream, llmSystem, run, said, tool, ttsSystem, turnContext,
                 utterances, atOutput, fillerSees, sinkVars, fillerVars>>

\* A mutant of CutOff: a cancelled run says nothing more.
CutOffSilently == UNCHANGED <<ttsQueue, sinkSees>>

\* The cancelled process task runs the finally of the run it was in.
CutOff == IF run = NoRun THEN UNCHANGED <<ttsQueue, sinkSees>> ELSE Push(Frame("end", run))

\* The LLM's input task: an interruption ends the process task and its queue
\* with it; every system frame is passed on.
LlmTakesSystem ==
  /\ llmSystem # <<>>
  /\ llmSystem' = Tail(llmSystem)
  /\ ttsSystem' = Append(ttsSystem, Head(llmSystem))
  /\ fillerSees' = Append(fillerSees, Reaction(Head(llmSystem)))
  /\ IF Head(llmSystem) = Started
     THEN /\ CutOff
          /\ llmQueue' = <<>>
          /\ run' = NoRun
          /\ tool' = "none"
     ELSE UNCHANGED <<llmQueue, run, tool, ttsQueue, sinkSees>>
  /\ UNCHANGED <<userVars, fillers, upstream, said, turnContext, utterances, atOutput,
                 sinkVars, fillerVars>>

-----------------------------------------------------------------------------
(* The TTS service *)

\* process_frame, in the process task.  A text frame stands for what the text
\* aggregator makes an utterance of.
TtsTakes ==
  LET frame == Head(ttsQueue) IN
  /\ ttsQueue # <<>>
  /\ ttsQueue' = Tail(ttsQueue)
  /\ utterances' = IF frame.kind \in {"text", Speak, Ack}
                   THEN Append(utterances, frame.run) ELSE utterances
  /\ turnContext' = CASE frame.kind = "start" -> frame.run
                      [] frame.kind = "end" -> NoRun
                      [] OTHER -> turnContext
  /\ UNCHANGED <<userVars, fillers, upstream, llmVars, ttsSystem, atOutput, fillerSees,
                 sinkSees, sinkVars, fillerVars>>

\* The audio context task: TTSStarted, and the audio behind it.
TtsSpeaks ==
  /\ utterances # <<>>
  /\ utterances' = Tail(utterances)
  /\ atOutput' = TRUE
  /\ fillerSees' = Append(fillerSees, "cancel")
  /\ UNCHANGED <<userVars, fillers, upstream, llmVars, ttsQueue, ttsSystem, turnContext, sinkSees,
                 sinkVars, fillerVars>>

\* The output transport pushes BotStartedSpeaking.
BotStarts ==
  /\ atOutput
  /\ atOutput' = FALSE
  /\ fillerSees' = Append(fillerSees, "cancel")
  /\ UNCHANGED <<userVars, fillers, upstream, llmVars, ttsQueue, ttsSystem, turnContext, utterances,
                 sinkSees, sinkVars, fillerVars>>

\* The TTS's input task, and the output behind it.
TtsTakesSystem ==
  /\ ttsSystem # <<>>
  /\ ttsSystem' = Tail(ttsSystem)
  /\ fillerSees' = Append(fillerSees, Reaction(Head(ttsSystem)))
  /\ IF Head(ttsSystem) = Started
     THEN /\ ttsQueue' = <<>>
          /\ turnContext' = NoRun
          /\ utterances' = <<>>
          /\ atOutput' = FALSE
     ELSE UNCHANGED <<ttsQueue, turnContext, utterances, atOutput>>
  /\ UNCHANGED <<userVars, fillers, upstream, llmVars, sinkSees, sinkVars, fillerVars>>

-----------------------------------------------------------------------------
(* The observers *)

FillerObserves ==
  /\ fillerSees # <<>>
  /\ fillerSees' = Tail(fillerSees)
  /\ IF Head(fillerSees) = "arm" THEN Arm ELSE Cancel
  /\ UNCHANGED <<userVars, fillers, upstream, llmVars, ttsVars, sinkSees, sinkVars>>

\* FILLER_PROBABILITY: the filler is injected or not.
FillerFires(t) ==
  /\ TimerFires(t)
  /\ \/ UNCHANGED <<fillers, upstream>>
     \/ /\ fillers < MaxFillers
        /\ fillers' = fillers + 1
        /\ upstream' = upstream + 1
  /\ UNCHANGED <<userVars, llmVars, ttsVars, fillerSees, sinkSees, sinkVars>>

FillerTaskEnds(t) ==
  /\ CancelledTaskEnds(t)
  /\ UNCHANGED <<userVars, fillers, upstream, llmVars, ttsVars, fillerSees, sinkSees, sinkVars>>

\* on_push_frame of EventBroadcaster, and _send: an llm_end is the bot's line.
SinkObserves ==
  LET frame == Head(sinkSees) IN
  /\ sinkSees # <<>>
  /\ sinkSees' = Tail(sinkSees)
  /\ buffer' = IF frame.kind = "text" THEN Append(buffer, frame.run) ELSE <<>>
  /\ lines' = IF frame.kind = "end" THEN Append(lines, buffer) ELSE lines
  /\ UNCHANGED <<userVars, fillers, upstream, llmVars, ttsVars, fillerSees, fillerVars>>

Next ==
  \/ UserTurnStarts
  \/ \E words \in BOOLEAN : UserTurnStops(words)
  \/ \E event \in {"arm", "cancel"} : VadFrame(event)
  \/ RunUnasked
  \/ FillerArrives
  \/ RunStarts
  \/ RunSays
  \/ \E calls \in BOOLEAN : RunEnds(calls)
  \/ ToolStarts
  \/ ToolReturns
  \/ FillerPassesLlm
  \/ LlmTakesSystem
  \/ TtsTakes
  \/ TtsSpeaks
  \/ BotStarts
  \/ TtsTakesSystem
  \/ FillerObserves
  \/ \E t \in Timers : FillerFires(t)
  \/ \E t \in Timers : FillerTaskEnds(t)
  \/ SinkObserves

Spec == Init /\ [][Next]_vars

-----------------------------------------------------------------------------
\* A filler never cuts into a reply at the TTS: no filler is among what the
\* LLM has pushed of a run, although the timer fires while the run streams.
FillerKeepsOffReplies ==
  ttsQueue # <<>> /\ Head(ttsQueue).kind = Speak => turnContext = NoRun

\* Once the EventBroadcaster has caught up with an LLM at rest, the transcript
\* holds one line for every run, interrupted or not, with all that it said.
TranscriptHasEveryReply ==
  sinkSees = <<>> /\ run = NoRun =>
    lines = [r \in 1..Len(said) |-> [i \in 1..said[r] |-> r]]
=============================================================================
