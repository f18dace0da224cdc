# Verification of the voice agent platform

This directory holds TLA+ models of the platform's own code, the TLC runs that
check them on small instances, and TLAPS proofs of the results that matter for
every size. File and line references are to the repository.

## 1. The system

A caller reaches the platform over the telephone network, a browser, or a
Twilio media stream, and talks to an LLM-driven bot.

```
 SIP peer --UDP--> voice-server (Node) --WebSocket--> bot.py (FastAPI + Pipecat) --> Bedrock, ASR, TTS
          <--RTP-->                                      |        ^
                                                         v        | /monitor/ws, /ws, REST
                                                      DynamoDB    admin SPA (browser)
```

| Component | Source | State | Operations | Interacts with |
|---|---|---|---|---|
| SIP server and call lifecycle | `voice-server/src/server.ts`, `sip/sip-server.ts`, `pipecat-client.ts` | `dialogs`, `callEnders`, `activeSessions`, per call: `ended`, timers, the WebSocket | INVITE, BYE, CANCEL, the endCall closure, connect, its timeout, max-duration | SIP peer (UDP), bot.py (WebSocket), port pool, RTP session |
| RTP port pool | `voice-server/src/sip/port-pool.ts` | `available`, `inUse` | allocate, release | SIP server |
| RTP session | `voice-server/src/sip/rtp-session.ts`, barge-in in `server.ts` | outbound queue, `muted`, sequence number, timestamp | sendAudio, setMuted, the 20 ms send loop, stop | Pipecat client, SIP peer |
| SIP/SDP parsing | `sip-parser.ts`, `sdp-parser.ts`, `audio-utils.ts` | none | pure functions | SIP server |
| Phone session | `bot.py:6960-7115`, `call_control_tools.py` | pipeline task, `ending` flag | accept, start, end_call, transfer_to_human, disconnect | voice-server, session registry, history |
| Session registry and monitors | `bot.py:1141-1230`, `7293-7325` | `ACTIVE_SESSIONS`, monitor sets | register, unregister, attach, detach, multi-emit | phone/web sessions, admin SPA |
| Conversation history | `bot.py:1254-1425` | `HISTORY_BUFFERS`, meta, the DynamoDB row of a call | attach, append, write_outcome_row, flush, summarise | phone/web sessions, DynamoDB, Bedrock |
| Idle nudge and playout tracking | `bot.py:1447-1525`, `2505-2625` | timers, pending re-check, playout deadline | user started/stopped, idle timeout, playout frames | pipeline |
| Fillers | `timeout_filler.py`, `tool_filler.py` | pending timer | arm, cancel, fire | pipeline |
| Latency observer and event broadcaster | `latency_observer.py`, `latency_log.py`, `bot.py:1528-1669` | the open turn, LLM buffer | per-frame callbacks | pipeline, monitors, history |
| Runtime configuration | `runtime_config.py`, `mcp_config.py` | cached document, file | get, update, reload | REST, session start |
| Demo and voice stores | `demo_store.py`, `voice_store.py`, `demo_loader.py` | cached scan, DynamoDB table | rescan, put, delete, seed | REST, session start |
| Users and authentication | `user_store.py`, `bot.py:169-278`, `2721-3077` | users table, JWT cookies | setup, login, create, patch, delete | REST |
| Activity log | `activity_store.py`, `bot.py:1014` | DynamoDB table | log, query with cursor | REST |
| Twilio ingress | `twilio_sig.py`, `bot.py:7132-7288` | handshake | start frame, media stream | phone session |
| ASR test harness | `bot.py:6093-6488` | test session | start, audio, stop | admin SPA |
| Browser session | `bot.py:5949-6078` | WebSocket session | accept, start, disconnect | registry, history |

Not modelled: the vendored `pipecat/` tree (a library; the parts the platform
relies on are modelled as external where a module needs them), the Vue admin
SPA (`static/`), deployment files, scripts and smoke tests, AWS request signing
(`mcp_sigv4.py`, `twilio_sig.py`), and audio sample arithmetic
(`audio-utils.ts`, mu-law tables).

### What is hard

* **Reordered and repeated datagrams.** INVITE, BYE and CANCEL arrive over UDP;
  the maps that tie a Call-ID to its dialog, closure and timers are updated by
  handlers that call each other.
* **Who hangs up.** The peer, the bot (closing its WebSocket), the connect
  timeout and the duration limit all end a call, possibly in the same moment,
  and all of them clean up by Call-ID.
* **Awaits.** Both processes are single-threaded event loops, so the hazards are
  between an `await` and what follows it: a bind, a WebSocket handshake, a
  DynamoDB write, a sleep.
* **Late events.** A close event, a transcript or a timer of one call or turn
  that arrives after the next has begun.
* **Restarts and failed writes.** `systemd` restarts both services; every
  registry is in memory.

### What makes each component correct

* *Call lifecycle:* one dialog per Call-ID; the maps agree; a call is hung up by
  exactly one side; nothing of one call ends another; every call ends.
* *Port pool:* no port lost, handed out twice, or released while in use.
* *RTP session:* while muted nothing but silence is sent; audio is sent in order
  and without loss apart from what barge-in discards; the stream never pauses.
* *Phone session and history:* the outcome of a call is written once and is not
  overwritten by the flush; no turn is lost; a session is unregistered whatever
  happens during start-up; a monitor sees the session it asked for.
* *Idle nudge:* a silent caller is nudged after the configured silence, never
  while speaking, and never more than the limit.
* *Fillers:* the timer that may fire is the one that the next frame cancels; a
  filler does not cut into a reply. *Latency:* a measurement belongs to the turn
  that caused it.
* *Event broadcaster:* the transcript has a line for every reply, interrupted
  ones included, with what was said of it.
* *Stores and configuration:* once nothing is under way, a cache is what is
  stored, unless a read or a write failed; an edit keeps the fields it does not
  name; a seed brings nothing back; what calls use survives a restart.
* *Users:* an account is created once, changed by an edit and removed by a
  delete; no single request of a competent admin locks everybody out.
* *Activity log:* an admin who pages through it sees every row once.

## 2. Modules

| Module | Models | Role |
|---|---|---|
| `PortPool` | `sip/port-pool.ts` | the FIFO pool of RTP ports, extended by `VoiceServer` |
| `PortLease` | (abstract) | what the SIP server promises about ports |
| `VoiceServer` | `server.ts`, `sip/sip-server.ts`, `pipecat-client.ts`, life of `sip/rtp-session.ts` | the call lifecycle and its properties |
| `MCVoiceServer` | | instances of `VoiceServer` for TLC |
| `VoiceServerProofs` | | inductive invariant, safety theorems, refinement of `PortLease` |
| `RtpSession` | `sip/rtp-session.ts` (outbound), `onAudioOutput` and `onEvent` of `server.ts` | queue, barge-in, packets |
| `RtpSessionProofs` | | the loop of `drainQueue`, inductive invariant, safety theorems |
| `PhoneIds` | | the constants shared by the next three |
| `SessionRegistry` | `bot.py:1137-1215` | sessions and the monitors attached to them |
| `CallHistory` | `bot.py:1227-1421` | `HistoryRecorder` and the DynamoDB table |
| `CallRecord` | (abstract) | what the table promises to its readers |
| `PhoneSession` | `bot.py:5949-6078`, `6960-7288`, `7293-7325`, `1572-1660`, `call_control_tools.py` | one task per connection of the voice-server, Twilio or a browser; composes the registry and the history |
| `MCPhoneSession` | | instances of `PhoneSession` for TLC |
| `PhoneSessionProofs` | | inductive invariant and theorems for any connections, whether or not they share `call_id`s |
| `PhoneRecordProofs` | | registry, table and refinement of `CallRecord`, when each connection has its own `call_id` |
| `PlayoutTracker` | `bot.py:1447-1525` | the estimate of what the caller still hears |
| `IdleNudge` | `bot.py:2505-2625`, the controllers of the vendored pipecat that call it | idle timer, re-check, nudge limit |
| `IdleNudgeProofs` | | inductive invariant, safety theorems |
| `TimeoutFiller` | `timeout_filler.py` | the filler timer and its reference |
| `TurnPipeline` | processors and observers of `_build_pipeline`, `bot.py:1528-1669`, `tool_filler.py`, the vendored pipecat services that carry them | user turns, replies, fillers and the transcript, extends `TimeoutFiller` |
| `MCTurnPipeline` | | its instance for TLC |
| `TurnPipelineProofs` | | inductive invariant, safety theorems |
| `AdminRequests` | the request handlers of `bot.py` | where a handler is suspended, extended by the next five |
| `UserStore` | `user_store.py`, `bot.py:2721-3077` | accounts, `require_admin`, setup |
| `Catalogue` | `demo_store.py`, `voice_store.py`, `lifespan` | demos and voices: tables, caches, seed |
| `RuntimeConfig` | `runtime_config.py` | the document in memory and its file |
| `McpRegistry` | `mcp_config.py`, its endpoints in `bot.py` | the tool servers in memory and their file, the masked headers |
| `ActivityStore` | `activity_store.py` | the audit log and its pages |
| `AdminServer` | the admin API as a whole | composes the five, adds restarts |
| `MCAdminServer` | | its instance for TLC |
| `AdminServerProofs` | | inductive invariant, safety theorems |

Mutants (`...Keeps`, `...Unflagged`, `...Never`, and so on) are definitions
that no specification uses. Each is a plausible bug put in place of the
definition below it, to see that a property notices.

### `VoiceServer`

The process is one Node event loop. An action is one turn of it: a callback
with the promise continuations it resolves. `dialogs`, `callEnders` and
`activeSessions` are the maps of the same names, keyed by Call-ID. What the
code keeps in closures and objects of one call is a function of `Calls`:
`callId`, `port`, `rtp`, `ended`, `maxTimer` (`callTimer`), and of its
`PipecatClient` `ws` (the socket's `readyState`), `wsHeld` (`this.ws` is set),
`connecting` (the promise of `connect()` is pending) and `connTimer`. A socket
may outlive the reference to it, hence the distinction of `ws` and `wsHeld`.

| Action | Code |
|---|---|
| `InviteStart`, `Answer`, `BindFailed` | `handleInvite` up to and after `await rtpSession.start()`; `Answer` goes on with the `onIncomingCall` callback up to `await client.connect()` |
| `InviteUnchanged`, `InviteBadSdp` | its early returns; a bad SDP still moves a port to the end of the pool |
| `Bye`, `Cancel` | `handleBye`, `handleCancel`: `cleanupDialog`, then `onCallEnded`, whose closure calls `SipServer.endCall` for the dialog that is already gone |
| `WsOpen`, `WsRefused`, `BotCloses`, `WsClosed`, `ConnectTimeout` | the socket's events and the 10 s timer |
| `MaxDuration` | `callTimer` |
| `Restart` | SIGTERM or a crash, and the restart by systemd |

Datagrams are not kept in a network variable: an INVITE or CANCEL may arrive at
any time, a BYE at any time after the call was answered. That contains every
loss, delay, reordering and repetition.

`BindInNextTick` says whether the bind of a UDP socket completes in the turn
that asked for it. For the literal address that the code binds to, Node does
so; its documented API does not promise it. With FALSE an INVITE may arrive
during the `await`, pass the re-INVITE check and replace the dialog. What
depends on TRUE says so in its text (`NoLeakedSession`,
`DialogEndsWithItsCall`); the rest is checked and proved for both.

### `RtpSession`

Bytes are numbered in the order `sendAudio` accepts them, so a queued buffer is
an interval and a packet's payload a sequence of numbers. `DrainStep` is
one iteration of the loop of `drainQueue`, with a case per branch, and `Drain`
as many iterations as the queue has buffers, as a recursive function. The send loop
(`SendPacket`) writes the packet, advances the two header counters modulo
`SeqModulus` and `TsModulus` (2^16 and 2^32 in the code) and pads. `BargeIn`
and `TurnStart` are the events that mute and unmute. `accepted`, `bargeIn` and
`packet` are history.

### `SessionRegistry`, `CallHistory`, `PhoneSession`

asyncio runs one coroutine at a time, so an action is what one task does
between two awaits that can suspend it. `pc[c]` is where `_run_phone_session`
of connection `c` stands; `handler[c][k]`, `grace[c]`, `flush[c]` and
`summary[c]` are the tasks it leaves behind (a tool call, `_grace_then_end`,
`flush_turns_and_summarize`, `_summarize_and_update`), each with a value per
await it can be suspended at.

A DynamoDB operation runs in a worker thread. It is a *request* in
`requests[id]` from the await until `Return`, which decides whether it took
effect and whether the task is told so: a request that fails may have been
applied. Requests of different tasks reach the table in any order, unless
`InOrder`. `put` replaces the item and `update` sets attributes, which is the
difference that matters in `ApplyTo`.

A connection arrives at one of the `Endpoints`. Twilio's has a handshake first
(`TwilioConnects`, `TwilioRefused`; a `connected` frame leaves it where it is,
and there is no limit to their number, so leaving the handshake has no
fairness). The browser's attaches the history before its first await and has
the `scope` "web", in which the call-control tools end the call but leave no
trace in the history and write no outcome row: `Mark`, `AppendTool` and
`GraceOver`. Of building a pipeline only success or an exception is modelled.

`CallIdOf` gives the `call_id` of each connection. With
`OwnCallId` each connection has its own; with `SharedCallId` two connections
give the same one, which the code accepts. `MayCrash` adds the restart of the
process, which empties the memory and the requests under way and keeps the
table.

### `PlayoutTracker`, `IdleNudge`

Time is counted in ticks. The tracker's `left` is the value of `remaining()`,
so `Elapse` decreases it, and `add_audio` and `on_bot_turn_start` set it.
`recheck[t]` is the rest of the sleep of re-check task `t`, `pending` is
`pending_recheck`. The tasks that pipecat creates for event handlers run in the
order of their creation (`handlers`), and `Tick` is possible only when no
handler is ready and no timer is due: the loop runs what is ready before more
time passes. `UserStops(FALSE)` is a user turn without words, which a noise
opens and the stop timeout closes.

### `TimeoutFiller`, `TurnPipeline`

A pipecat processor has two queues: its input task handles a system frame at
once, its process task the others one after the other. `llmSystem` and
`ttsSystem` are the system frames on their way to the input tasks, `llmQueue`
and `ttsQueue` the process queues of the LLM service and of the TTS service;
the processors between them pass frames on. "started" stands for
`UserStartedSpeaking` and the `Interruption` that travels behind it. A context
goes straight into the LLM's process queue: the input tasks upstream move it
there within the same few turns of the event loop. A filler is injected at the
source and needs its own time (`upstream`, `FillerArrives`); the phrase with
which `with_filler` announces a tool is pushed by the LLM itself and passes by
what waits in its queue.

An interruption cancels the process task: `CutOff` is the `finally` of
`_process_context`, which pushes the end of the run, behind the frame that
interrupted it. An observer has a queue and a task of its own: `fillerSees` and
`sinkSees` are the pushes that the filler timer and the `EventBroadcaster` have
not seen yet. `timer[t]` is a task of `_fire`; one that was cancelled still has
to run its `finally` (`FillerTaskEnds`), at a time when `pending` may refer to
another.

`Settled` and `Watched` are bounds of the scheduling: the user does not start
and stop within the few turns of the loop that one frame needs, cancelled tasks
end before more is observed, observers are at most `MaxSeen` frames behind. A
text frame is one utterance. Left out are the frames that no interruption
clears, the pauses of the TTS service, and the end of the call.

### `AdminRequests` and the stores, `AdminServer`

`at[r]` is where the handler of request `r` is suspended and `job[r]` what it
serves. A step goes from one await to the next; the DynamoDB operation awaited
takes effect somewhere in between, and one that raises may have taken effect. A
request is authorised against the table as it is when it arrives
(`Authorized`) and acts later; that gap is what `UserStore` is about.

* `UserStore`: a PATCH is one check and one update per field (`CheckField`,
  `UpdateField`), then a get. `update_item` on a row that was deleted meanwhile
  creates one without a password.
* `Catalogue`: the tables `demos` and `voices`, and the caches. A rescan reads
  row by row (`ReadPage`) and replaces the cache when it returns. `draft` is
  the item that an edit merged from the cache before it awaits the write.
  `boot` is `lifespan`: scan, scan, seed, scan again. No request is served
  before it is over, so a scan of it is one step. A field's value is the request that
  set it. History: `suspect` (the cache may be stale, because a rescan or a
  write failed or two rescans overlapped), `overlap` (a write began while
  another was under way), `author` (who should own each field), `dropped`,
  `unseeded`.
* `RuntimeConfig`: no await between reading and writing, so an update is one
  step. It changes the document in memory before the file: `refused` is what
  failed writes since the last good one have left in memory.
* `McpRegistry`: like `RuntimeConfig` a document over a file. A header's value
  is the request that typed it; the UI sends the ones that were not typed anew
  back as the mask it was shown, and `Resolved` puts the stored value in its
  place or drops it. `unsaved` is what failed writes have left in memory.
* `ActivityStore`: a row is `<<day, ts_id>>`. A page is collected partition by
  partition (`ReadDay`), with the last row of the page before as its cursor;
  rows of any age below the present can be added in between, because the time
  stamp is taken before the write.

A request that is refused at once, or that asks for what does not exist,
changes nothing and is not modelled; the refusal to delete a tool server that
a demo mounts is one of these. `Restart` empties the memory and drops the
handlers.

## 3. Checks

TLC, two workers; distinct states in brackets.

| Run | What it asks | Bounds |
|---|---|---|
| `call_lifecycle` (17 thousand) | no session outlives its dialog, no late event of one call ends the next, every answered call ends (fair) | 2 Call-IDs, 2 calls, 2 ports, bind in its turn |
| `call_lifecycle_slow_bind` (212 thousand) | ports, maps, hangups, service of a dialog, and refinement of `PortLease` when binds are slow | the same with 3 calls |
| `orphan_socket` | violation, finding 1 | |
| `rtp_outbound` (12 thousand) | order and completeness of audio, barge-in, whole packets, counters, no audio stuck (fair) | packets of 3 bytes, buffers of 1, 3 and 7, 8 bytes in all |
| `phone_session` (197 thousand) | what the tools, the registry and the table promise in every interleaving, failures, reordering and a restart included | 1 connection at any endpoint, 2 tool calls, 2 turns, 2 monitors |
| `phone_history_ordered` (19 thousand) | refinement of `CallRecord`, and the end of every flush (fair) | the same without monitors and restart, ordered requests |
| `phone_session_shared_id` (6 million) | what two connections with one `call_id` leave in memory | 2 connections of the voice-server, 1 tool call, 1 turn each |
| `phone_late_put` | violation, finding 2 | |
| `idle_nudge` (96 thousand) | the limit, cancellable re-checks, no nudge in a user turn, nudges come (fair) | timeout 2 ticks, margin 1, limit 2, utterances of 1 and 3 ticks, 2 tasks |
| `idle_silence` | violation, finding 3 | the same, the LLM always answers |
| `turn_pipeline` (5.4 million) | no stray timer, no filler inside a reply, a complete transcript | 2 user turns, 2 runs of one text each, 1 filler, 2 timer tasks, observers 2 frames behind |
| `admin_server` (1.4 million) | caches, edits, seed, configuration, tool servers, log pages, accounts and who can still log in, with failing writes and restarts | 3 requests, 2 users, 2 keys, 2 fields, 2 segments, 2 tool servers with a header, 5 rows on 2 days |

Why the bounds are enough:

* *Calls.* The hazards are between a call and the next one with its Call-ID,
  and between two calls that contend for ports: three calls, two Call-IDs and
  two ports give re-use of each, and an empty pool. `VoiceServerProofs` removes
  the bounds for every safety property of these two runs.
* *Audio.* A buffer can be shorter than, as long as, and longer than two
  packets. The moduli 3 and 2 make both counters wrap. `MaxBytes` bounds what
  is accepted in a run; the queue has no other state. `RtpSessionProofs` removes
  all of these bounds for the safety properties; `MaxBytes` is any number there.
* *Phone session.* Two tool calls are needed for one to find `ending` set, two
  turns for order. A third request in flight needs a third task that writes
  the outcome; there are two. `PhoneSessionProofs` and `PhoneRecordProofs` remove
  these bounds for every safety property.
* *Shared `call_id`.* Each entry is keyed by `call_id`, so a pair shows any
  overwriting of one by another. Calls of the browser do a part of what these
  do with the entries. `PhoneSessionProofs` holds for any number of connections
  that share `call_id`s in any way; it does not assume that they are distinct.
* *Idle nudge.* The utterance of 3 ticks is heard for longer than the timeout
  of 2, so that the re-check is needed; the one of 1 tick is not. `MaxOut`
  bounds utterances at the output, `MaxReady` the handlers ready when a user
  turn changes (a `started`, a `stopped` and an `idle` can meet), `MaxLeft` the
  audio ahead of the listener (the sum of both utterances), `MaxLag` how far
  the past is told apart (the code only asks whether `remaining()` is
  positive). Two re-check identities suffice to schedule one while another is
  alive; `RecheckIsHeld` shows that only one ever is. `IdleNudgeProofs` removes the
  bounds for the safety properties.
* *Turns.* A filler, a run and an interruption of each other need one user turn
  that ends and one that begins; a cancelled and a new timer need two tasks.
  `TurnPipelineProofs` removes all of these bounds for the timer, the fillers and
  the transcript.
* *Admin requests.* The races are between two requests, and between two of them
  and a third that reads or repairs (a rescan during an edit during an edit). A
  behaviour has requests of one `Agendas` entry only: accounts, demos, voices,
  configuration and log, or tool servers, because these share nothing but the look at the
  accounts, which no other request changes. Restarts are left out for the
  accounts, which are not cached: there a restart does what a failing request
  does. Two keys tell a partial scan or seed from a whole one, two fields an
  omitted field from an edited one. Five rows on two days with pages of two
  give pages that end inside a day, on its last row, and across the two.
  `AdminServerProofs` removes the bounds for every property of this run.

Deadlock is checked in the runs of the call lifecycle, the RTP session and the
idle nudge. In those of the phone session the connections are finitely many and
used once, and a state where all are over is legitimate; so it is when the
requests of `admin_server` are served or the turns of `turn_pipeline` are used
up.

Symmetry is used in runs without liveness only: of calls and Call-IDs, which
the code treats alike, of the two connections with one `call_id`, of the filler
tasks, and of the requests, which are told apart by their jobs alone.

### Fairness

* *Voice-server:* the event loop runs what is due: a bind completes or fails, a
  socket that is closing reports `close` (the `ws` library destroys it after
  30 s if the peer is silent), the connect timer and the duration timer fire.
  Nothing obliges a handshake to complete, a bot to close or a peer to hang up.
* *RTP:* `setInterval` keeps firing, and `handleInvite` goes on to `setRemote`.
* *Phone session:* the tasks go on, sleeps end, boto3 and the summary
  (`wait_for`, 30 s) have timeouts, and a call ends (voice-server's duration
  limit and pipecat's own idle timeout). Nobody is obliged to speak or to call
  a tool.
* *Idle nudge:* handlers and timers run, the LLM and the tools answer, the
  output drains, a user turn that was opened closes (the stop timeout), time
  passes. Nobody is obliged to speak or to hang up.

## 4. Proofs

`tlapm` checks the seven proof modules for every value of the constants that
their `ASSUME`s allow: sets of any size, any port range, either value of
`BindInNextTick`, packets, buffers and counters of any size, any timeout, margin
and limit, any number of turns, timers, connections, monitors, requests, users,
items and rows. Every safety property of every passing run is proved; liveness
is not.

**`VoiceServerProofs`.** The inductive invariant `IInv` is `TypeOK`,
`PoolPartition`, `PortsAccounted`, `RegistriesAgree`, `HungUpOnce` and three
strengthenings:

* `Created`: a call object that exists has a Call-ID, and neither closure nor
  client exist before its socket is bound. Without it a timer of a call that
  was never answered could fire.
* `DialogOwner`: the call of a stored dialog runs, was not ended, has its timer
  and a socket that is not closed. It carries `DialogIsServed` and is what
  makes `cleanupDialog` release a port that really is in use.
* `OneBindAtATime`: with `BindInNextTick`, at most one bind is pending and
  nothing holds its Call-ID. It carries `NoLeakedSession`.

There is one lemma per action, and lemmas for what the helpers do
(`CleanupDialogStep`, `EndCallStep`) and for the pool (`AllocateStep`,
`ReleaseStep`). Results: `TypeCorrect`, `PortSafety`, `DialogSafety` (the maps
agree), `DialogService`, `HangupSafety`, `NoLeak`, `DialogEnds` (an action
property), and `Refinement`: the server implements
`PortLease`, with a holder of a port being the live call that has it.

**`RtpSessionProofs`.** `IInv` has the types, `Gapless` (each queued buffer begins
where the one before ends, and the last ends with the last byte accepted),
`Within` (nothing queued is older than the last barge-in) and that the queue is
empty while muted. What `SendPacket` does to these depends on `drainQueue`, and so
on a loop of any length. `Drained` is the invariant of that loop: the bytes taken
follow one another from the oldest on, the queue goes on with the byte after them,
and taken and wanted bytes add up to a packet. `DrainKeeps` has it for every
number of iterations. The induction is not an instance of the library's theorem,
whose operator parameter the provers cannot instantiate, but a fact about a set:
a set of numbers that contains 0 and with each number the next contains all
numbers, because its complement would have no least element. That the loop is
over after as many iterations as there are buffers is a case of the same
invariant. Results: `TypeCorrect`, `QueueSafety`, `BargeInSafety`, and
`PacketSafety` (an action property: what a packet carries follows the packet
before it and is padded only when the queue runs dry).

**`PhoneSessionProofs`.** Any number of connections, any `CallIdOf`, restarts,
requests in any order. `IInv` has the types, and

* `RequestsAreAwaited`: a request is awaited by the task that made it, and a task
  awaits one at most. It is what makes the answer of a request move the right
  task on;
* `OneGrace`: the first tool call sets `ending`, and as long as it has not created
  the grace task no other tool call is past the flag;
* `TasksInOrder`: the flush begins when the endpoint is over, the summary when the
  flush is;
* `MemoryIsHeld`: whatever the registry, `_meta` and the buffers hold under a
  `call_id`, some connection with that `call_id` has yet to remove it.

Results: `PhoneTypes`, `OneEndTaskPerCall`, `EndingHasATask`, `NothingIsLeft`.

**`PhoneRecordProofs`.** The theorems here have the hypothesis `OwnCallIds`: each
connection has a `call_id` of its own. That is the intention of the names
(voice-server gives the SIP Call-ID, Twilio's endpoint the `streamSid`, and
without a parameter it is the time in milliseconds), but nothing enforces it.
With a shared one `TransferKept`, `OutcomeBeforeEnd`, `TranscriptIsComplete` and
`RegistryIsExact` are each violated (TLC, constants of `phone_session_shared_id`),
since one call replaces the entries of the other; `NothingIsLeft` is what
remains. `RecordInv` follows a call through its phases:

* `MetaIsCurrent`: from attach to flush `_meta` has the dict of this connection,
  with the transfer mark exactly if a human was asked for;
* `OutcomeIsFinal`: an outcome row, in the table or on its way, says what will
  still be true at the end of the call: `transfer_to_human` sets `ending` and so
  nobody asks for a human after the row was built;
* `TurnsAreKept`: the turns of a call are in its buffer, then in a request, then
  in its row, complete and in order at each place.

`RegistryKnows` relates the registry and its monitors to the phases. For the
refinement there is the second hypothesis `InOrder`, and `OrderInv`: the requests
of a call are made in the order put, turns, summary, so that each finds the row
it was made for, and a second put finds only what an equal one stored. Without
`InOrder` the refinement does not hold (finding 2), which is why this is a
hypothesis and the runs `phone_session` and `phone_late_put` have it FALSE.
Results: `OutcomeSaysTransfer`, `OutcomeIsThereFirst`, `TranscriptIsStored`,
`RegistryIsTrue`, `TableIsACallRecord`; the first four hold for requests in any
order and with restarts.

**`IdleNudgeProofs`.** `IInv` is `TypeOK`, `RecheckIsHeld` and

* `SpeakingHasOutput`: what is being spoken is still counted as output, without
  which `BotStops` could make `out` negative;
* `UserTurnIsQuiet`: in a user turn the idle timer is off, every `idle` handler
  that is ready has a `started` handler after it, and unless a `started`
  handler is still ready there is no re-check. This is what `NoNudgeInUserTurn`
  rests on: it is an argument about the order of handler tasks.

Results: `TypeCorrect` (with the nudge limit), `RecheckSafety`, `NudgeSafety`.

**`TurnPipelineProofs`.** `NoStrayTimer` is inductive with the types of the
timers (`TimerInv`): `Finally` clears the reference only if it is its own.
`FillerKeepsOffReplies` is not; it needs `RepliesAreClosed`: of whatever the
TTS has begun, or will begin before it comes to a filler in its queue, the end
comes before the filler too (`ClosedBefore`), and while no run is in progress
that holds of the end of the queue. The lemmas `ClosedAppend`, `ClosedByEnd`,
`ClosedByOther` and `ClosedTail` say what one push and one take do to it. The
rest is that the LLM lets a filler pass only between runs, and that an
interrupted run still pushes its end.

`TranscriptHasEveryReply` is about what the `EventBroadcaster` has written once it
has seen everything, so the invariant `TranscriptInv` looks ahead: there is a
sequence of states that it will pass through while it takes the frames in its
queue (`Sees`), and the last one has a line for each reply begun so far but the
one in progress (`CaughtUp`). `SeesAppend` and `SeesTail` say what a push and a
take do to such a sequence. Results: `TimerSafety`, `FillerSafety`,
`TranscriptSafety`.

**`AdminServerProofs`.** `IInv` has the types, and

* `HandlersKnow`: what a suspended handler of the accounts still knows, for
  example that the target of an update exists or was removed;
* `CatalogueKnows`, `ServesWhenUp`: a scan is of the store its job names, and
  no request is served before `lifespan` is over;
* `ScansAgree`, `CachesAgree`: of a store that is not suspect there is one scan
  at most, and what it has read so far is what is stored. It carries
  `CacheIsCurrent`;
* `WritersAgree`: of a store whose writes never overlapped there is one writer
  at most, and an edit has merged its field onto what is stored. It carries
  `OmittedFieldsAreKept`;
* `SeedGoesOn`: what is left of the seed is what is missing from the table;
* `ConfigInv`, `RegistryInv`: `ConfigSurvivesRestart` and
  `SecretsSurviveRestart` are inductive with their types;
* `JobsKnown`: a request has a job exactly while it is served;
* `LogInv`: of a query that is under way, what was sent and what is collected is
  newest first without repetition (`Descends`), has every row that was there when
  it began of the days read and up to the cursor (`Collects`), and is newer than
  what is left to read (`GoesOn`). Rows that are added may be on any day; that
  they spoil nothing is the point.

That a day's rows can be sorted at all (`RowsCanBeSorted`) is an induction over
finite sets, done like the one above: a set of rows that cannot be sorted has a
smallest subset that cannot, and that one can, from its newest row.

The proofs assume of a request's body what its Pydantic model and the guards
checked before the first await ensure (`ServerAssumption`), that `None` is none of the values it is compared with, and
that the rows of a behaviour are finitely many, on days from 1 on
(`ActivityAssumption`). Results: `TypeCorrect`, `PagesSafety`, `AccountsChangeAsIntended` and
`LockOutOnlyStale` (action properties), `CacheSafety`, `EditSafety`,
`SeedSafety`, `ConfigSafety`, `RegistrySafety`.

**Only model-checked.** `CallsEnd`, `HeadMoves`, `CallsAreFlushed` and
`NudgeComes`: liveness, and the `ENABLED` of its fairness conditions, is out of
the prover's reach. So is of course what the violation runs show to be false.
Induction over data cannot be cited from the library; where a proof needs it
(`drainQueue`, sorting a day) it is done on a set of numbers or of sets as
described above. No module with a theorem has a RECURSIVE operator.

## 5. Findings

1. **A call that ends during the WebSocket handshake leaves its socket open**
   (`pipecat-client.ts:107`, run `orphan_socket`). `close()` closes an OPEN
   socket only and drops its reference otherwise. The socket opens afterwards
   and nothing in voice-server can close it; `server.ts:28-30` states that the
   closures exist so that bot.py does not keep the session forever.
2. **The outcome row can be put twice, the second time over the transcript**
   (`bot.py:1336`, run `phone_late_put`). `write_outcome_row` sets its flag
   after the awaited `put_item`; a hangup in between makes the flush put the
   row again, and the first put can land after the transcript was stored. The
   docstring (1305-1307) calls the function idempotent and safe to call again.
3. **After a user turn without words nobody nudges** (`bot.py:2579`, run
   `idle_silence`). A noise cancels the idle timer and interrupts the bot; with
   no transcript no LLM runs and nothing arms the timer again. The comment at
   909-915 promises a nudge after a silence on both sides.

Seen while modelling, and part of the models, without a run of its own:

* A pipeline that cannot be built leaves its session registered and its history
  attached: the `try` whose `finally` removes them begins after the build
  (`bot.py:7083-7094`). Hence the phase "broken" in `RegistryIsExact`.
* An interruption that cancels a tool call while it awaits `_emit_event` leaves
  `ending` set with nobody to end the call (`call_control_tools.py:151-153`);
  later tool calls return at once. Hence "cancelled" in `EndingIsScheduled`.
* A tool call that outlives the pipeline appends to the history after the
  flush, and so makes a buffer that nothing removes. Hence the exception in
  `NothingLeft`.
* `on_bot_turn_start` can restart the count of audio that was already added for
  the next utterance (compare the docstring at 1478-1484); the re-check speaks
  0.3 s after the end of the playout, where the log line at 2539 speaks of the
  full timeout.
* When the bot itself ends the call no client disconnects, so a pending
  re-check outlives the pipeline; it then has no effect.
* A filler that fires while the LLM streams waits in the LLM's process queue
  and is spoken after the reply. `FillerKeepsOffReplies` says that it does not
  cut in; the docstring of `timeout_filler.py:165-167` says more, that it "can
  no longer queue behind the real reply".
* `VADUserStopped` and `UserStopped` both arm the filler timer, so a pause can
  bring two fillers; and a turn without words can bring one that no reply
  follows.
* The arrival of an `asr_final` after the unmute of its turn mutes the outbound
  audio until the next event that unmutes (`server.ts:82-88`); `asr_filter.py`
  drops a hallucinated transcript only after the observers have seen it, so
  such a line is broadcast, recorded as the user's, and mutes.
* Two concurrent calls of `auth_setup` with different usernames both create an
  admin; its docstring has one winner.
* A PATCH that races a DELETE of the same account creates a row without a
  password. A PATCH of several fields has written the ones before the field
  that is refused, for example before the 400 for disabling oneself.
  Two admins who remove each other at once leave none, while setup stays
  closed because the table is not empty. `AccountLifecycle` and
  `LockOutIsStale` say how far this goes.
* `seed_if_empty` seeds an emptied table again at the next restart, where its
  docstring says that deleted voices are not re-injected; and a seed that was
  cut short, or preceded by a voice created after a failed scan, is never
  completed. Hence `unseeded` and `dropped` in `SeedFillsAnEmptyTable`.
* A configuration or tool server whose write failed with a 500 is in use
  nevertheless, and becomes durable with the next write that succeeds. Hence
  `refused` and `unsaved`.
* An edit of a demo merges its fields onto the cache: what another request
  stored meanwhile, or what a raced or failed rescan left out, is overwritten
  with the older value. Hence `overlap` and `suspect`.

Read off the code of parts without a model:

* `UserStartedSpeaking` is broadcast as two frames with different ids, so the
  `LatencyObserver` opens two turns for one of the user's and the
  `EventBroadcaster` sends `user_speaking` twice; an interrupted run pushes its
  end after the next turn has opened, so that `llm_total_ms` can be negative; a
  filler's `BotStarted` closes the turn it measures.
* Two tests of the ASR page that overlap patch the process-global
  `_stt.get_presigned_url` inside each other (`bot.py:6136-6185`), which
  the comment at 6402-6412 takes into account only for one at a time.

## 6. Plan

Done: voice-server, outbound RTP, phone session with its three endpoints,
history and registry, idle nudge, the user's turns with fillers and transcript,
and the admin API with its stores; the safety properties of all of them are
proved. In this order from here:

1. A composition of voice-server's and bot.py's view of one call, from INVITE
   to the stored record: that each session of bot.py belongs to at most one
   dialog, and ends with it.
2. `LatencyObserver`: measurements booked to the turn that caused them, as a
   third observer of `TurnPipeline`.
3. The end of a call in `TurnPipeline`: the cancellation of the pipeline under
   a run, and the frames that no interruption clears.

## 7. Not modelled

* The vendored `pipecat/` tree, except the idle controller, the turn events,
  the creation of handler tasks, the closing of the WebSocket, the queues and
  interruptions of a processor, and how the LLM and TTS services treat the
  frames that `TurnPipeline` has.
* Of the pipeline: the end of the call, the frames that no interruption clears,
  and the pauses of the TTS service.
* The latency observer: it measures and changes nothing else (section 5).
* The incoming RTP direction, SIP and SDP parsing, sample arithmetic: stateless
  functions of a packet.
* ASR, TTS and LLM adapters, request signing: no state that outlives a call.
* Login, cookies and tokens, which keep no state on the server: a request is
  looked up in the accounts, and that is modelled.
* Files and tables that cannot be read at all and are treated as empty, and
  the reload of the configuration from outside.
* The admin SPA, scripts, deployment, smoke tests and the ASR test page.
* Wording, headers of messages, logging and formatting everywhere.
* The fan-out to monitors one by one (`bot.py:1159`): an emit is one await, and
  a slow monitor is an await that takes long.
* That the BYE of voice-server is one datagram which is never sent again
  (`sip-server.ts:182`): what the peer does with it is outside the system.
