----------------------------- MODULE PhoneSession ---------------------------
(***************************************************************************)
(* The calls of bot.py: the endpoints of the voice-server, of Twilio and   *)
(* of the browser, the session they run, the call-control tools inside its *)
(* pipeline, the event broadcaster's history tee, the monitors, and what   *)
(* the call leaves in DynamoDB.                                            *)
(*                                                                         *)
(* asyncio runs one coroutine at a time: a step is what one of them does   *)
(* between two awaits that can suspend it.                                 *)
(***************************************************************************)
EXTENDS SessionRegistry, CallHistory

CONSTANTS
  CallIdOf,    \* the call_id of each connection: of its query string, or made
               \* of the streamSid of its start frame
  Endpoints,   \* where connections arrive
  Calls,       \* the tool calls that the LLM makes in one session
  MaxTurns,    \* bound: final turns of a session
  MayCrash     \* TRUE: the process may be restarted

ASSUME SessionAssumption ==
  /\ CallIdOf \in [Conns -> CallIds]
  /\ "lost" \notin CallIds \cup {None}
  /\ Endpoints \subseteq {"/phone/ws", "/twilio/media-stream", "/ws"}
  /\ MaxTurns \in Nat
  /\ InOrder \in BOOLEAN
  /\ MayCrash \in BOOLEAN

VARIABLES
  pc,         \* where the endpoint of a connection is
  scope,      \* _scope, "phone" or "web": what the tools may do
  observed,   \* final turns that reached the EventBroadcaster's queue
  recorded,   \* those whose _send has finished
  ending,     \* state["ending"] of register_call_control_handlers
  handler,    \* the tool calls of the LLM: suspended in _emit_event, or not
  grace,      \* _grace_then_end
  endTask,    \* EndTaskFrames queued by it
  flush,      \* flush_turns_and_summarize
  summary,    \* _summarize_and_update
  watching,   \* the call_id a monitor is attached to
  \* history
  failed,     \* the tasks with a request that returned an error
  asked       \* the connections whose caller was to be transferred

turnVars == <<observed, recorded>>
toolVars == <<ending, handler, grace, endTask, asked>>
taskVars == <<flush, summary, failed>>
peerVars == <<scope, watching>>
vars == <<sessions, buffers, meta, rows, requests, pc, turnVars, toolVars,
          taskVars, peerVars>>

Phases == {"absent", "handshake", "refused", "starting", "building", "running", "stopping",
           "ended", "broken", "killed"}
Registered == {"starting", "building", "running", "stopping"}
Tools == {"end_call", "transfer_to_human"}

Init ==
  /\ RegistryInit
  /\ HistoryInit
  /\ pc = [c \in Conns |-> "absent"]
  /\ scope = [c \in Conns |-> "phone"]
  /\ observed = [c \in Conns |-> 0]
  /\ recorded = [c \in Conns |-> 0]
  /\ ending = [c \in Conns |-> FALSE]
  /\ handler = [c \in Conns |-> [k \in Calls |-> "none"]]
  /\ grace = [c \in Conns |-> "none"]
  /\ endTask = [c \in Conns |-> 0]
  /\ flush = [c \in Conns |-> "none"]
  /\ summary = [c \in Conns |-> "none"]
  /\ watching = [m \in Monitors |-> None]
  /\ failed = {}
  /\ asked = {}

Goto(c, phase) == pc' = [pc EXCEPT ![c] = phase]

-----------------------------------------------------------------------------
(* twilio_media_stream, phone_ws_endpoint, ws_endpoint, _run_phone_session *)

\* accept; then _twilio_read_start waits for frames, 10 s for each.
TwilioConnects(c) ==
  /\ "/twilio/media-stream" \in Endpoints
  /\ pc[c] = "absent"
  /\ Goto(c, "handshake")
  /\ UNCHANGED <<sessions, historyVars, turnVars, toolVars, taskVars, peerVars>>

\* No frame came in time, or one that is out of place, or a start without a
\* streamSid.
TwilioRefused(c) ==
  /\ pc[c] = "handshake"
  /\ Goto(c, "refused")
  /\ UNCHANGED <<sessions, historyVars, turnVars, toolVars, taskVars, peerVars>>

\* accept, or the start frame; session_register, up to the
\* log_activity("call-start") that _run_phone_session awaits.
Connect(c) ==
  /\ pc[c] = "handshake" \/ (pc[c] = "absent" /\ "/phone/ws" \in Endpoints)
  /\ Register(CallIdOf[c], c)
  /\ Goto(c, "starting")
  /\ UNCHANGED <<historyVars, turnVars, toolVars, taskVars, peerVars>>

\* history attach, up to the awaits of _build_pipeline.
Begin(c) ==
  /\ pc[c] = "starting"
  /\ Attach(CallIdOf[c], c)
  /\ Goto(c, "building")
  /\ UNCHANGED <<sessions, turnVars, toolVars, taskVars, peerVars>>

\* The browser's endpoint attaches the history before it awaits anything.
WebConnects(c) ==
  /\ "/ws" \in Endpoints
  /\ pc[c] = "absent"
  /\ Register(CallIdOf[c], c)
  /\ Attach(CallIdOf[c], c)
  /\ Goto(c, "building")
  /\ scope' = [scope EXCEPT ![c] = "web"]
  /\ UNCHANGED <<turnVars, toolVars, taskVars, watching>>

\* The pipeline is built and handed to the runner.
Run(c) ==
  /\ pc[c] = "building"
  /\ Goto(c, "running")
  /\ UNCHANGED <<sessions, historyVars, turnVars, toolVars, taskVars, peerVars>>

\* Building it raises (no AWS credentials, say): the endpoint ends before the
\* try block is entered.
BuildFails(c) ==
  /\ pc[c] = "building"
  /\ Goto(c, "broken")
  /\ UNCHANGED <<sessions, historyVars, turnVars, toolVars, taskVars, peerVars>>

\* The pipeline ends: the EndTaskFrame was processed, or the client
\* disconnected, or the pipeline cancelled itself.  The observers' queues are
\* dropped; tool calls that are under way are not cancelled.
PipelineEnds(c) ==
  /\ pc[c] = "running"
  /\ Goto(c, "stopping")
  /\ UNCHANGED <<sessions, historyVars, turnVars, toolVars, taskVars, peerVars>>

\* A mutant of Cleanup: the flush is left to the tool if it ended the call.
CleanupWithoutFlush(c) ==
  /\ pc[c] = "stopping"
  /\ Unregister(CallIdOf[c])
  /\ flush' = IF ending[c] THEN flush ELSE [flush EXCEPT ![c] = "start"]
  /\ Goto(c, "ended")
  /\ UNCHANGED <<historyVars, turnVars, toolVars, summary, failed, peerVars>>

\* The finally block, after the aiohttp session and the MCP clients closed.
Cleanup(c) ==
  /\ pc[c] = "stopping"
  /\ Unregister(CallIdOf[c])
  /\ flush' = [flush EXCEPT ![c] = "start"]
  /\ Goto(c, "ended")
  /\ UNCHANGED <<historyVars, turnVars, toolVars, summary, failed, peerVars>>

-----------------------------------------------------------------------------
(* EventBroadcaster *)

\* A TranscriptionFrame or an LLMFullResponseEndFrame is observed.
FinalTurn(c) ==
  /\ pc[c] = "running"
  /\ observed[c] < MaxTurns
  /\ observed' = [observed EXCEPT ![c] = @ + 1]
  /\ UNCHANGED <<sessions, historyVars, pc, recorded, toolVars, taskVars, peerVars>>

\* _send: the emit of the oldest one has finished; the tee appends it.
Tee(c) ==
  /\ pc[c] = "running"
  /\ recorded[c] < observed[c]
  /\ recorded' = [recorded EXCEPT ![c] = @ + 1]
  /\ AppendEntry(CallIdOf[c], c, recorded[c] + 1)
  /\ UNCHANGED <<sessions, meta, rows, requests, pc, observed, toolVars, taskVars, peerVars>>

-----------------------------------------------------------------------------
(* call_control_tools *)

\* mark_transfer and history_append are None in the scope "web".
Mark(c) == IF scope[c] = "phone" THEN MarkTransfer(CallIdOf[c]) ELSE UNCHANGED meta
AppendTool(c) == IF scope[c] = "phone" THEN AppendEntry(CallIdOf[c], c, 0) ELSE UNCHANGED buffers

\* A mutant of ToolStart: the transfer is not marked.
ToolStartUnmarked(c, k, tool) ==
  /\ pc[c] = "running"
  /\ handler[c][k] = "none"
  /\ ~ending[c]
  /\ ending' = [ending EXCEPT ![c] = TRUE]
  /\ handler' = [handler EXCEPT ![c][k] = tool]
  /\ asked' = IF tool = "transfer_to_human" THEN asked \cup {c} ELSE asked
  /\ UNCHANGED <<sessions, historyVars, pc, turnVars, grace, endTask, taskVars, peerVars>>

\* A mutant of ToolStart: the flag is looked at but not set before the await.
ToolStartUnflagged(c, k, tool) ==
  /\ pc[c] = "running"
  /\ handler[c][k] = "none"
  /\ ~ending[c]
  /\ handler' = [handler EXCEPT ![c][k] = tool]
  /\ asked' = IF tool = "transfer_to_human" THEN asked \cup {c} ELSE asked
  /\ IF tool = "transfer_to_human" THEN Mark(c) ELSE UNCHANGED meta
  /\ UNCHANGED <<sessions, buffers, rows, requests, pc, turnVars, ending, grace, endTask,
                 taskVars, peerVars>>

\* _handle_end_call and _handle_transfer, up to the await of _emit_event.
ToolStart(c, k, tool) ==
  /\ pc[c] = "running"
  /\ handler[c][k] = "none"
  /\ IF ending[c]
       THEN handler' = [handler EXCEPT ![c][k] = "returned"] /\ UNCHANGED <<ending, meta, asked>>
       ELSE /\ ending' = [ending EXCEPT ![c] = TRUE]
            /\ handler' = [handler EXCEPT ![c][k] = tool]
            /\ asked' = IF tool = "transfer_to_human" THEN asked \cup {c} ELSE asked
            /\ IF tool = "transfer_to_human" THEN Mark(c) ELSE UNCHANGED meta
  /\ UNCHANGED <<sessions, buffers, rows, requests, pc, turnVars, grace, endTask, taskVars, peerVars>>

\* A mutant of ToolFinish: with its event emitted, the handler returns first.
ToolFinishReturns(c, k) ==
  /\ pc[c] # "killed"
  /\ handler[c][k] \in Tools
  /\ AppendTool(c)
  /\ handler' = [handler EXCEPT ![c][k] = "returned"]
  /\ UNCHANGED <<sessions, meta, rows, requests, pc, turnVars, ending, grace, endTask, asked,
                 taskVars, peerVars>>

\* The rest of the handler: history_append, create_task.
ToolFinish(c, k) ==
  /\ pc[c] # "killed"
  /\ handler[c][k] \in Tools
  /\ AppendTool(c)
  /\ handler' = [handler EXCEPT ![c][k] = "returned"]
  /\ grace' = [grace EXCEPT ![c] = "sleeping"]
  /\ UNCHANGED <<sessions, meta, rows, requests, pc, turnVars, ending, endTask, asked, taskVars,
                 peerVars>>

\* The user interrupts: pipecat cancels the tool calls that are under way.
Interruption(c) ==
  /\ pc[c] = "running"
  /\ \E k \in Calls : handler[c][k] \in Tools
  /\ handler' = [handler EXCEPT ![c] = [k \in Calls |->
                   IF handler[c][k] \in Tools THEN "cancelled" ELSE handler[c][k]]]
  /\ UNCHANGED <<sessions, historyVars, pc, turnVars, ending, grace, endTask, asked, taskVars, peerVars>>

\* queue_frames([EndTaskFrame])
QueueEndTask(c) == endTask' = [endTask EXCEPT ![c] = @ + 1]

\* A mutant of GraceOver: the frame is queued first, then the row is written.
GraceOverEndsFirst(c) ==
  /\ grace[c] = "sleeping"
  /\ grace' = [grace EXCEPT ![c] = "done"]
  /\ QueueEndTask(c)
  /\ IF OutcomeIsWritten(CallIdOf[c]) THEN UNCHANGED requests
     ELSE PutOutcome(CallIdOf[c], c, "grace")
  /\ UNCHANGED <<sessions, buffers, meta, rows, pc, turnVars, ending, handler, asked, taskVars,
                 peerVars>>

\* The sleep of _grace_then_end is over; write_outcome is None for the web.
GraceOver(c) ==
  /\ grace[c] = "sleeping"
  /\ IF scope[c] = "web" \/ OutcomeIsWritten(CallIdOf[c])
       THEN /\ grace' = [grace EXCEPT ![c] = "done"]
            /\ QueueEndTask(c)
            /\ UNCHANGED requests
       ELSE /\ PutOutcome(CallIdOf[c], c, "grace")
            /\ grace' = [grace EXCEPT ![c] = "writing"]
            /\ UNCHANGED endTask
  /\ UNCHANGED <<sessions, buffers, meta, rows, pc, turnVars, ending, handler, asked, taskVars,
                 peerVars>>

-----------------------------------------------------------------------------
(* flush_turns_and_summarize *)

\* A mutant of PopAndUpdate: _meta is read, not popped.
PopAndUpdateKeepsMeta(c, m, rest) ==
  LET id == CallIdOf[c] IN
  /\ buffers' = [buffers EXCEPT ![id] = None]
  /\ meta' = m
  /\ IF m[id] = None
       THEN /\ requests' = [requests EXCEPT ![id] = rest]
            /\ flush' = [flush EXCEPT ![c] = "done"]
       ELSE /\ requests' = [requests EXCEPT ![id] =
                 Append(rest, Request("turns", c, "flush", m[id].conn, FALSE, Buffered(id), "none"))]
            /\ flush' = [flush EXCEPT ![c] = "updating"]

\* The flush after write_outcome_row, with m for _meta and rest for the other
\* requests of this call_id.
PopAndUpdate(c, m, rest) ==
  LET id == CallIdOf[c] IN
  /\ buffers' = [buffers EXCEPT ![id] = None]
  /\ meta' = [m EXCEPT ![id] = None]
  /\ IF m[id] = None
       THEN /\ requests' = [requests EXCEPT ![id] = rest]
            /\ flush' = [flush EXCEPT ![c] = "done"]
       ELSE /\ requests' = [requests EXCEPT ![id] =
                 Append(rest, Request("turns", c, "flush", m[id].conn, FALSE, Buffered(id), "none"))]
            /\ flush' = [flush EXCEPT ![c] = "updating"]

\* The task created by Cleanup starts.
FlushStart(c) ==
  /\ flush[c] = "start"
  /\ IF OutcomeIsWritten(CallIdOf[c])
       THEN PopAndUpdate(c, meta, requests[CallIdOf[c]])
       ELSE /\ PutOutcome(CallIdOf[c], c, "flush")
            /\ flush' = [flush EXCEPT ![c] = "putting"]
            /\ UNCHANGED <<buffers, meta>>
  /\ UNCHANGED <<sessions, rows, pc, turnVars, toolVars, summary, failed, peerVars>>

\* The Bedrock summary is there, or it failed or timed out.
Summarize(c) ==
  /\ summary[c] = "invoking"
  /\ summary' = [summary EXCEPT ![c] = "updating"]
  /\ \E status \in {"ok", "failed"} :
       Send(CallIdOf[c], Request("summary", c, "summary", c, FALSE, <<>>, status))
  /\ UNCHANGED <<sessions, buffers, meta, rows, pc, turnVars, toolVars, flush, failed, peerVars>>

-----------------------------------------------------------------------------
(* The requests to DynamoDB return *)

\* An outcome row: whoever wrote it goes on.
PutReturns(id, i, ok) ==
  LET r == requests[id][i]
      m == IF ok THEN OutcomeWritten(id, r) ELSE meta
  IN  /\ r.op = "put"
      /\ \/ /\ r.task = "grace"
            /\ meta' = m
            /\ grace' = [grace EXCEPT ![r.conn] = "done"]
            /\ QueueEndTask(r.conn)
            /\ requests' = [requests EXCEPT ![id] = Others(id, i)]
            /\ UNCHANGED <<buffers, flush>>
         \/ /\ r.task = "flush"
            /\ PopAndUpdate(r.conn, m, Others(id, i))
            /\ UNCHANGED <<grace, endTask>>
      /\ UNCHANGED summary

\* The transcript: the summary is scheduled if it was stored.
TurnsReturn(id, i, ok) ==
  LET r == requests[id][i] IN
  /\ r.op = "turns"
  /\ flush' = [flush EXCEPT ![r.conn] = "done"]
  /\ summary' = IF ok THEN [summary EXCEPT ![r.conn] = "invoking"] ELSE summary
  /\ requests' = [requests EXCEPT ![id] = Others(id, i)]
  /\ UNCHANGED <<buffers, meta, grace, endTask>>

SummaryReturns(id, i) ==
  LET r == requests[id][i] IN
  /\ r.op = "summary"
  /\ summary' = [summary EXCEPT ![r.conn] = "done"]
  /\ requests' = [requests EXCEPT ![id] = Others(id, i)]
  /\ UNCHANGED <<buffers, meta, grace, endTask, flush>>

\* A request that fails may have taken effect nevertheless.
Return(id, i) ==
  \E ok \in BOOLEAN, effective \in BOOLEAN :
    /\ ok => effective
    /\ Arrives(id, i, effective)
    /\ failed' = IF ok THEN failed ELSE failed \cup {<<requests[id][i].conn, requests[id][i].task>>}
    /\ PutReturns(id, i, ok) \/ TurnsReturn(id, i, ok) \/ SummaryReturns(id, i)
    /\ UNCHANGED <<sessions, pc, turnVars, ending, handler, asked, peerVars>>

-----------------------------------------------------------------------------
(* monitor_ws_endpoint, and the restart of the process *)

\* Its socket may be gone when the attachment is confirmed: that await is not
\* inside the try block whose end detaches it.
MonitorAttaches(m, id) ==
  /\ watching[m] = None
  /\ AttachMonitor(id, m)
  /\ \E outcome \in {id, "lost"} : watching' = [watching EXCEPT ![m] = outcome]
  /\ UNCHANGED <<historyVars, pc, scope, turnVars, toolVars, taskVars>>

MonitorLeaves(m) ==
  /\ watching[m] \in CallIds
  /\ DetachMonitor(watching[m], m)
  /\ watching' = [watching EXCEPT ![m] = None]
  /\ UNCHANGED <<historyVars, pc, scope, turnVars, toolVars, taskVars>>

\* What is in memory is gone; the table stays.
Crash ==
  /\ MayCrash
  /\ \E c \in Conns : pc[c] \notin {"absent", "killed"}
  /\ sessions' = [id \in CallIds |-> None]
  /\ buffers' = [id \in CallIds |-> None]
  /\ meta' = [id \in CallIds |-> None]
  /\ requests' = [id \in CallIds |-> <<>>]
  /\ pc' = [c \in Conns |-> IF pc[c] = "absent" THEN "absent" ELSE "killed"]
  /\ handler' = [c \in Conns |-> [k \in Calls |-> "none"]]
  /\ grace' = [c \in Conns |-> "none"]
  /\ flush' = [c \in Conns |-> "none"]
  /\ summary' = [c \in Conns |-> "none"]
  /\ ending' = [c \in Conns |-> FALSE]
  /\ endTask' = [c \in Conns |-> 0]
  /\ watching' = [m \in Monitors |-> None]
  /\ UNCHANGED <<rows, scope, turnVars, failed, asked>>

SessionStep(c) ==
  \/ TwilioConnects(c) \/ TwilioRefused(c)
  \/ Connect(c) \/ WebConnects(c) \/ Begin(c) \/ Run(c) \/ BuildFails(c)
  \/ PipelineEnds(c) \/ Cleanup(c)
  \/ FinalTurn(c) \/ Tee(c)
  \/ \E k \in Calls :
       \/ \E tool \in Tools : ToolStart(c, k, tool)
       \/ ToolFinish(c, k)
  \/ Interruption(c) \/ GraceOver(c)
  \/ FlushStart(c) \/ Summarize(c)

Next ==
  \/ \E c \in Conns : SessionStep(c)
  \/ \E id \in CallIds : \E i \in DOMAIN requests[id] : Return(id, i)
  \/ \E m \in Monitors, id \in CallIds : MonitorAttaches(m, id)
  \/ \E m \in Monitors : MonitorLeaves(m)
  \/ Crash

Spec == Init /\ [][Next]_vars

\* The event loop runs what is ready; sleeps, requests to DynamoDB (boto3 has
\* timeouts) and the summary (wait_for, 30 s) end; so does the call itself
\* (the maximum duration in voice-server, pipecat's idle timeout).
Fairness ==
  /\ \A c \in Conns :
       /\ WF_vars(Begin(c)) /\ WF_vars(Run(c) \/ BuildFails(c))
       /\ WF_vars(PipelineEnds(c)) /\ WF_vars(Cleanup(c))
       /\ WF_vars(GraceOver(c)) /\ WF_vars(FlushStart(c)) /\ WF_vars(Summarize(c))
       /\ \A k \in Calls : WF_vars(ToolFinish(c, k))
  /\ \A id \in CallIds : WF_vars(\E i \in DOMAIN requests[id] : Return(id, i))

FairSpec == Spec /\ Fairness

-----------------------------------------------------------------------------
(* Properties *)

TypeOK ==
  /\ RegistryTypeOK
  /\ HistoryTypeOK
  /\ pc \in [Conns -> Phases]
  /\ scope \in [Conns -> {"phone", "web"}]
  /\ observed \in [Conns -> 0..MaxTurns]
  /\ recorded \in [Conns -> 0..MaxTurns]
  /\ ending \in [Conns -> BOOLEAN]
  /\ handler \in [Conns -> [Calls -> Tools \cup {"none", "returned", "cancelled"}]]
  /\ grace \in [Conns -> {"none", "sleeping", "writing", "done"}]
  /\ endTask \in [Conns -> Nat]
  /\ flush \in [Conns -> {"none", "start", "putting", "updating", "done"}]
  /\ summary \in [Conns -> {"none", "invoking", "updating", "done"}]
  /\ watching \in [Monitors -> CallIds \cup {None, "lost"}]

\* "only one EndTaskFrame is queued per call even if the LLM invokes the tool
\* multiple times", and only after the grace period that a tool call started.
OneEndTask ==
  \A c \in Conns : endTask[c] <= 1 /\ (endTask[c] = 1 => ending[c] /\ grace[c] = "done")

\* When the bot itself ends a phone call, the outcome row is there before the
\* EndTaskFrame (and so the BYE), unless writing it failed.
OutcomeBeforeEnd ==
  \A c \in Conns :
    (pc[c] = "running" /\ scope[c] = "phone" /\ endTask[c] > 0 /\ <<c, "grace">> \notin failed)
      => rows[CallIdOf[c]].outcome

\* Every outcome row says whether a human was asked for on the phone, whichever
\* task wrote it, and however the call ended.
TransferKept ==
  \A c \in Conns :
    LET row == rows[CallIdOf[c]] IN row.outcome => (row.transfer <=> c \in asked /\ scope[c] = "phone")

\* The turns among the entries are the first n of connection c, each of them once
\* and in order.
HoldsTurns(entries, c, n) ==
  LET spoken == {i \in 1..Len(entries) : entries[i].turn # 0} IN
  /\ \A i \in spoken : entries[i].conn = c /\ entries[i].turn \in 1..n
  /\ \A i, j \in spoken : i < j => entries[i].turn < entries[j].turn
  /\ \A k \in 1..n : \E i \in spoken : entries[i].turn = k

\* A stored transcript holds every turn that was recorded, once and in order.
TranscriptIsComplete ==
  \A c \in Conns :
    LET row == rows[CallIdOf[c]] IN row.flushed => HoldsTurns(row.turns, c, recorded[c])

\* The registry holds a connection from when it is registered until its finally
\* block runs (one whose pipeline could not be built, for ever), and every monitor
\* that is attached to it is in its list, once it is and until it leaves; a
\* handshake that fails leaves nothing in it.
RegistryIsExact ==
  \A c \in Conns :
    LET session == sessions[CallIdOf[c]] IN
    /\ pc[c] \in Registered \cup {"broken"} =>
         /\ session # None
         /\ session.conn = c
         /\ \A m \in Monitors :
              /\ watching[m] = CallIdOf[c] => m \in session.monitors
              /\ m \in session.monitors => watching[m] \in {CallIdOf[c], "lost"}
    /\ pc[c] \notin Registered \cup {"broken"} => session = None

\* When the calls with a call_id are over (and their pipelines were built),
\* nothing of them is left in memory but the events that tool calls which
\* outlive the pipeline append after the flush.
NothingLeft ==
  \A id \in CallIds :
    LET over == \A c \in Conns : CallIdOf[c] = id =>
                  pc[c] \in {"absent", "handshake", "refused"}
                    \/ (pc[c] = "ended" /\ flush[c] = "done")
    IN  over => /\ sessions[id] = None
                /\ meta[id] = None
                /\ \A i \in 1..Len(Buffered(id)) : buffers[id][i].turn = 0

\* The table refines CallRecord, if requests arrive in the order they are made.
CallRecords == INSTANCE CallRecord WITH records <- rows
ImplementsCallRecord == CallRecords!Spec

\* "Idempotent ...; safe to call again": writing the outcome row again does
\* not take anything from the row that is there.
SafeToCallAgain ==
  [][\A id \in CallIds : rows[id].flushed => rows'[id].flushed]_vars

\* A call that the tools have declared to be ending is on its way to its end,
\* unless an interruption cancelled the tool call before it got there: nothing
\* else leaves `ending' set with no one to end the call.
EndingIsScheduled ==
  \A c \in Conns :
    (pc[c] = "running" /\ ending[c]) =>
      \/ \E k \in Calls : handler[c][k] \in Tools \cup {"cancelled"}
      \/ grace[c] # "none"

\* Every call gets to the end of its cleanup: the flush ends, and so does the
\* summary it scheduled.
CallsAreFlushed ==
  \A c \in Conns :
    pc[c] = "running" ~>
      (pc[c] = "ended" /\ flush[c] = "done" /\ summary[c] \in {"none", "done"})
=============================================================================
