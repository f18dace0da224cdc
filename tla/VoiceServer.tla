----------------------------- MODULE VoiceServer -----------------------------
(***************************************************************************)
(* The call lifecycle of voice-server: SipServer (sip/sip-server.ts), the  *)
(* per-call closures of server.ts, the Pipecat WebSocket of each call      *)
(* (pipecat-client.ts) and the life of its RTP socket (sip/rtp-session.ts).*)
(*                                                                         *)
(* The process is a Node event loop: an action is one turn of it, that is, *)
(* one callback with the promise continuations it resolves.                *)
(*                                                                         *)
(* Requests arrive over UDP, so a datagram the peer ever sent may arrive   *)
(* late, again, or never: an INVITE or a CANCEL may arrive at any time and *)
(* a BYE at any time once the call was answered.  Responses and the        *)
(* server's own BYE are only recorded.  ACK, OPTIONS and responses to the  *)
(* BYE change no state.                                                    *)
(***************************************************************************)
EXTENDS PortPool

CONSTANTS
  CallIds,         \* SIP Call-IDs
  Calls,           \* identities of the call objects that INVITEs create
  NoCall,          \* no call object
  BindInNextTick   \* TRUE: the bind that RtpSession.start awaits completes in
                   \* the turn that asked for it (what Node does for a literal
                   \* address); FALSE: in a later turn (what its API promises)

ASSUME CallAssumption ==
  /\ NoCall \notin Calls
  /\ BindInNextTick \in BOOLEAN

VARIABLES
  \* SipServer
  dialogs,         \* Call-ID -> the call whose dialog is stored, or NoCall
  answered,        \* the Call-IDs to which a 200 OK with SDP was ever sent
  \* server.ts
  callEnders,      \* Call-ID -> the call whose endCall closure is stored
  activeSessions,  \* the Call-IDs that /health counts
  \* one call object: dialog, RtpSession, endCall closure, PipecatClient
  callId,          \* its Call-ID, once it exists
  port,            \* its RTP port
  rtp,             \* its RtpSession
  ended,           \* the closure's `ended' flag
  maxTimer,        \* callTimer is pending
  ws,              \* readyState of its WebSocket
  wsHeld,          \* client.ws still refers to the WebSocket
  connecting,      \* the promise of client.connect() is pending
  connTimer,       \* its 10 s timeout is pending
  \* history
  byes,            \* number of BYEs sent to tear down its dialog
  hungUp           \* its dialog was torn down by a BYE or CANCEL of the peer

sipVars    == <<dialogs, answered>>
appVars    == <<callEnders, activeSessions>>
closureVars == <<ended, maxTimer>>
clientVars == <<ws, wsHeld, connecting, connTimer>>
historyVars == <<byes, hungUp>>
vars == <<poolVars, sipVars, appVars, callId, port, rtp, closureVars,
          clientVars, historyVars>>

None == "none"
RtpStates == {"unused", "binding", "running", "stopped", "failed", "lost"}
WsStates  == {"none", "CONNECTING", "OPEN", "CLOSING", "CLOSED"}

LiveCalls == {c \in Calls : rtp[c] \in {"binding", "running"}}

Init ==
  /\ PoolInit
  /\ dialogs = [i \in CallIds |-> NoCall]
  /\ answered = {}
  /\ callEnders = [i \in CallIds |-> NoCall]
  /\ activeSessions = {}
  /\ callId = [c \in Calls |-> None]
  /\ port = [c \in Calls |-> 0]
  /\ rtp = [c \in Calls |-> "unused"]
  /\ ended = [c \in Calls |-> FALSE]
  /\ maxTimer = [c \in Calls |-> FALSE]
  /\ ws = [c \in Calls |-> "none"]
  /\ wsHeld = [c \in Calls |-> FALSE]
  /\ connecting = [c \in Calls |-> FALSE]
  /\ connTimer = [c \in Calls |-> FALSE]
  /\ byes = [c \in Calls |-> 0]
  /\ hungUp = [c \in Calls |-> FALSE]

\* No callback runs between a bind and its completion in the same turn.
Turn == BindInNextTick => \A c \in Calls : rtp[c] # "binding"

-----------------------------------------------------------------------------
(* Tearing down.                                                           *)

\* A mutant of CleanupDialog: the entry is left undefined, not deleted.
CleanupDialogUndefined(i) ==
  LET d == dialogs[i] IN
  IF d = NoCall
    THEN UNCHANGED <<dialogs, rtp, poolVars>>
    ELSE /\ rtp' = [rtp EXCEPT ![d] = "stopped"]
         /\ Release(port[d])
         /\ dialogs' = [dialogs EXCEPT ![i] = None]

\* A mutant of CleanupDialog: the RTP session is not stopped.
CleanupDialogKeepsSession(i) ==
  LET d == dialogs[i] IN
  IF d = NoCall
    THEN UNCHANGED <<dialogs, rtp, poolVars>>
    ELSE /\ UNCHANGED rtp
         /\ Release(port[d])
         /\ dialogs' = [dialogs EXCEPT ![i] = NoCall]

\* SipServer.cleanupDialog
CleanupDialog(i) ==
  LET d == dialogs[i] IN
  IF d = NoCall
    THEN UNCHANGED <<dialogs, rtp, poolVars>>
    ELSE /\ rtp' = [rtp EXCEPT ![d] = "stopped"]
         /\ Release(port[d])
         /\ dialogs' = [dialogs EXCEPT ![i] = NoCall]

\* A mutant of ForgetCall: the closure stays registered.
ForgetCallKeepsEnder(c) ==
  /\ activeSessions' = activeSessions \ {callId[c]}
  /\ UNCHANGED callEnders

\* endCall: activeSessions.delete(callId) and callEnders.delete(callId).
ForgetCall(c) ==
  /\ activeSessions' = activeSessions \ {callId[c]}
  /\ callEnders' = [callEnders EXCEPT ![callId[c]] = NoCall]

\* The part of endCall that server.ts and PipecatClient.close do, while the
\* WebSocket of c is in state readyState.  One that is still CONNECTING is
\* forgotten, not closed.
CloseCall(c, readyState) ==
  /\ ended' = [ended EXCEPT ![c] = TRUE]
  /\ maxTimer' = [maxTimer EXCEPT ![c] = FALSE]
  /\ ForgetCall(c)
  /\ ws' = [ws EXCEPT ![c] = IF wsHeld[c] /\ readyState = "OPEN"
                               THEN "CLOSING" ELSE readyState]
  /\ wsHeld' = [wsHeld EXCEPT ![c] = FALSE]

\* A mutant of SendBye: the dialogs before handleBye cleaned up are used.
SendByeStale(i, ds) ==
  byes' = IF dialogs[i] = NoCall THEN byes ELSE [byes EXCEPT ![dialogs[i]] = @ + 1]

\* SipServer.endCall when ds are the dialogs: a BYE for the one that is left.
SendBye(i, ds) ==
  byes' = IF ds[i] = NoCall THEN byes ELSE [byes EXCEPT ![ds[i]] = @ + 1]

\* A mutant of EndCall: no `if (ended) return'.
EndCallAgain(c, readyState) ==
  /\ CloseCall(c, readyState)
  /\ SendBye(callId[c], dialogs)
  /\ CleanupDialog(callId[c])

\* endCall(reason) for one of the closure's own events.
EndCall(c, readyState) ==
  IF ended[c]
    THEN /\ ws' = [ws EXCEPT ![c] = readyState]
         /\ UNCHANGED <<poolVars, dialogs, appVars, rtp, closureVars, wsHeld, byes>>
    ELSE /\ CloseCall(c, readyState)
         /\ SendBye(callId[c], dialogs)
         /\ CleanupDialog(callId[c])

-----------------------------------------------------------------------------
(* handleInvite                                                            *)

\* A mutant of NewCall: re-INVITEs are not recognised.
NewCallUnchecked(i) == TRUE

\* The check for a re-INVITE.
NewCall(i) == dialogs[i] = NoCall

\* A re-INVITE of an established dialog is answered from the dialog, and an
\* INVITE that finds the pool empty is rejected with 503.
InviteUnchanged(i) ==
  /\ Turn
  /\ ~NewCall(i) \/ Exhausted
  /\ UNCHANGED vars

\* 400: the SDP names no address or port.
InviteBadSdp(i) ==
  /\ Turn
  /\ NewCall(i)
  /\ AllocateAndRelease
  /\ UNCHANGED <<sipVars, appVars, callId, port, rtp, closureVars, clientVars, historyVars>>

\* Up to `await rtpSession.start()'.
InviteStart(i, c) ==
  /\ Turn
  /\ NewCall(i)
  /\ rtp[c] = "unused"
  /\ ~Exhausted
  /\ Allocate(Head(available))
  /\ callId' = [callId EXCEPT ![c] = i]
  /\ port' = [port EXCEPT ![c] = Head(available)]
  /\ rtp' = [rtp EXCEPT ![c] = "binding"]
  /\ UNCHANGED <<sipVars, appVars, closureVars, clientVars, historyVars>>

\* A mutant of BindFailed: the catch block does not release the port.
BindFailedKeepsPort(c) ==
  /\ rtp[c] = "binding"
  /\ rtp' = [rtp EXCEPT ![c] = "failed"]
  /\ UNCHANGED <<poolVars, sipVars, appVars, callId, port, closureVars, clientVars, historyVars>>

\* The bind failed: 500.
BindFailed(c) ==
  /\ rtp[c] = "binding"
  /\ rtp' = [rtp EXCEPT ![c] = "failed"]
  /\ Release(port[c])
  /\ UNCHANGED <<sipVars, appVars, callId, port, closureVars, clientVars, historyVars>>

\* A mutant of SetCallTimer: callTimer is not set.
SetCallTimerNever(c) == UNCHANGED maxTimer

\* setTimeout(() => endCall("max-duration"), MAX_CALL_DURATION_MS)
SetCallTimer(c) == maxTimer' = [maxTimer EXCEPT ![c] = TRUE]

\* The rest of handleInvite, and the onIncomingCall callback up to its await.
Answer(c) ==
  /\ rtp[c] = "binding"
  /\ rtp' = [rtp EXCEPT ![c] = "running"]
  /\ answered' = answered \cup {callId[c]}
  /\ dialogs' = [dialogs EXCEPT ![callId[c]] = c]
  /\ activeSessions' = activeSessions \cup {callId[c]}
  /\ callEnders' = [callEnders EXCEPT ![callId[c]] = c]
  /\ SetCallTimer(c)
  /\ ws' = [ws EXCEPT ![c] = "CONNECTING"]
  /\ wsHeld' = [wsHeld EXCEPT ![c] = TRUE]
  /\ connecting' = [connecting EXCEPT ![c] = TRUE]
  /\ connTimer' = [connTimer EXCEPT ![c] = TRUE]
  /\ UNCHANGED <<poolVars, callId, port, ended, historyVars>>

-----------------------------------------------------------------------------
(* handleBye and handleCancel: cleanupDialog, then the onCallEnded callback *)
(* with the endCall closure of the Call-ID, if there is one.  That closure  *)
(* calls SipServer.endCall with the dialogs that are left.                  *)

RemoteHangup(i) ==
  LET d == dialogs[i]
      e == callEnders[i]
      left == [dialogs EXCEPT ![i] = NoCall]
  IN
  /\ Turn
  /\ CleanupDialog(i)
  /\ hungUp' = IF d = NoCall THEN hungUp ELSE [hungUp EXCEPT ![d] = TRUE]
  /\ IF e # NoCall /\ ~ended[e]
       THEN /\ CloseCall(e, ws[e])
            /\ SendBye(callId[e], left)
       ELSE /\ activeSessions' = IF e = NoCall THEN activeSessions \ {i}
                                               ELSE activeSessions
            /\ UNCHANGED <<callEnders, closureVars, ws, wsHeld, byes>>
  /\ UNCHANGED <<answered, callId, port, connecting, connTimer>>

Cancel(i) == RemoteHangup(i)
Bye(i) == i \in answered /\ RemoteHangup(i)

-----------------------------------------------------------------------------
(* Events of the WebSocket, and the timers of a call.                      *)

\* "open": connect() resolves unless it was already rejected.
WsOpen(c) ==
  /\ Turn
  /\ ws[c] = "CONNECTING"
  /\ ws' = [ws EXCEPT ![c] = "OPEN"]
  /\ connecting' = [connecting EXCEPT ![c] = FALSE]
  /\ UNCHANGED <<poolVars, sipVars, appVars, callId, port, rtp, closureVars,
                 wsHeld, connTimer, historyVars>>

\* "error" and "close" before the handshake completed: onComplete.
WsRefused(c) ==
  /\ Turn
  /\ ws[c] = "CONNECTING"
  /\ EndCall(c, "CLOSED")
  /\ UNCHANGED <<answered, callId, port, connecting, connTimer, hungUp>>

\* The bot's close frame, or the end of the TCP stream, has arrived.
BotCloses(c) ==
  /\ Turn
  /\ ws[c] = "OPEN"
  /\ ws' = [ws EXCEPT ![c] = "CLOSING"]
  /\ UNCHANGED <<poolVars, sipVars, appVars, callId, port, rtp, closureVars,
                 wsHeld, connecting, connTimer, historyVars>>

\* "close": onComplete.
WsClosed(c) ==
  /\ Turn
  /\ ws[c] = "CLOSING"
  /\ EndCall(c, "CLOSED")
  /\ UNCHANGED <<answered, callId, port, connecting, connTimer, hungUp>>

\* A mutant of ConnectFailed: the catch block logs but does not end the call.
ConnectFailedLogged(c) ==
  UNCHANGED <<poolVars, dialogs, appVars, rtp, closureVars, ws, wsHeld, byes>>

\* The catch block around `await client.connect()'.
ConnectFailed(c) == EndCall(c, ws[c])

\* The 10 s timeout of connect() rejects a pending promise: `active' is TRUE
\* from "open" on, which resolves it.
ConnectTimeout(c) ==
  /\ Turn
  /\ connTimer[c]
  /\ connTimer' = [connTimer EXCEPT ![c] = FALSE]
  /\ connecting' = [connecting EXCEPT ![c] = FALSE]
  /\ IF connecting[c]
       THEN ConnectFailed(c)
       ELSE UNCHANGED <<poolVars, dialogs, appVars, rtp, closureVars, ws, wsHeld, byes>>
  /\ UNCHANGED <<answered, callId, port, hungUp>>

\* callTimer: endCall("max-duration").
MaxDuration(c) ==
  /\ Turn
  /\ maxTimer[c]
  /\ EndCall(c, ws[c])
  /\ UNCHANGED <<answered, callId, port, connecting, connTimer, hungUp>>

\* SIGTERM (sipServer.stop and process.exit) or a crash, and the service
\* manager's restart: every socket and every map of the process is gone, no
\* BYE is sent.
Restart ==
  /\ Turn
  /\ available' = [n \in 1..NumPorts |-> PortAt(n)]
  /\ inUse' = {}
  /\ dialogs' = [i \in CallIds |-> NoCall]
  /\ callEnders' = [i \in CallIds |-> NoCall]
  /\ activeSessions' = {}
  /\ rtp' = [c \in Calls |-> IF c \in LiveCalls THEN "lost" ELSE rtp[c]]
  /\ maxTimer' = [c \in Calls |-> FALSE]
  /\ connTimer' = [c \in Calls |-> FALSE]
  /\ connecting' = [c \in Calls |-> FALSE]
  /\ wsHeld' = [c \in Calls |-> FALSE]
  /\ ws' = [c \in Calls |-> IF ws[c] = "none" THEN "none" ELSE "CLOSED"]
  /\ UNCHANGED <<answered, callId, port, ended, historyVars>>

-----------------------------------------------------------------------------
Peer ==
  \E i \in CallIds :
    \/ InviteUnchanged(i)
    \/ InviteBadSdp(i)
    \/ \E c \in Calls : InviteStart(i, c)
    \/ Cancel(i)
    \/ Bye(i)

CallEvent(c) ==
  \/ BindFailed(c)
  \/ Answer(c)
  \/ WsOpen(c)
  \/ WsRefused(c)
  \/ BotCloses(c)
  \/ WsClosed(c)
  \/ ConnectTimeout(c)
  \/ MaxDuration(c)

Next == Peer \/ (\E c \in Calls : CallEvent(c)) \/ Restart

Spec == Init /\ [][Next]_vars

\* The event loop runs every callback that is due: a bind completes, a timer
\* fires, and a WebSocket that is closing reports "close" (ws destroys the
\* socket 30 s after close() if the peer does not answer).  Nothing obliges a
\* handshake to complete or the peer to hang up.
FairSpec ==
  /\ Spec
  /\ \A c \in Calls :
       /\ WF_vars(BindFailed(c) \/ Answer(c))
       /\ WF_vars(WsClosed(c))
       /\ WF_vars(ConnectTimeout(c))
       /\ WF_vars(MaxDuration(c))

-----------------------------------------------------------------------------
(* Properties.                                                             *)

TypeOK ==
  /\ PoolTypeOK
  /\ dialogs \in [CallIds -> Calls \cup {NoCall}]
  /\ answered \subseteq CallIds
  /\ callEnders \in [CallIds -> Calls \cup {NoCall}]
  /\ activeSessions \subseteq CallIds
  /\ callId \in [Calls -> CallIds \cup {None}]
  /\ port \in [Calls -> Ports \cup {0}]
  /\ rtp \in [Calls -> RtpStates]
  /\ ended \in [Calls -> BOOLEAN]
  /\ maxTimer \in [Calls -> BOOLEAN]
  /\ ws \in [Calls -> WsStates]
  /\ wsHeld \in [Calls -> BOOLEAN]
  /\ connecting \in [Calls -> BOOLEAN]
  /\ connTimer \in [Calls -> BOOLEAN]
  /\ byes \in [Calls -> Nat]
  /\ hungUp \in [Calls -> BOOLEAN]

\* The ports the pool regards as used are exactly those of the RTP sessions
\* that are bound or being bound, and no two of them share one: however
\* duplicated INVITEs, failed binds, hangups from both sides and timeouts
\* interleave, cleanupDialog never releases a port under a running session.
PortsAccounted ==
  /\ inUse = {port[c] : c \in LiveCalls}
  /\ \A c, d \in LiveCalls : port[c] = port[d] => c = d

\* A running RTP session is always reachable from its dialog, so a hangup of
\* either side stops it.  It rests on the bind completing in its own turn: a
\* second INVITE that arrives during the await of handleInvite passes the
\* re-INVITE check and later replaces the dialog of the first.
NoLeakedSession ==
  BindInNextTick => \A c \in Calls : rtp[c] = "running" => dialogs[callId[c]] = c

\* The maps of SipServer (dialogs) and of server.ts (callEnders and
\* activeSessions), which the two update one after the other in handlers that
\* call each other, name the same calls between any two turns.
RegistriesAgree ==
  /\ callEnders = dialogs
  /\ activeSessions = {i \in CallIds : dialogs[i] # NoCall}

\* A call that still has a dialog was not ended, its duration timer is
\* pending, and its bot is reachable or may still become so: the WebSocket is
\* not closed, and once the 10 s timeout has fired it is open (or its "close"
\* event is due).  No caller is left on a line that nobody will ever end.
DialogIsServed ==
  \A i \in CallIds : \A c \in Calls :
    dialogs[i] = c =>
      /\ ~ended[c]
      /\ maxTimer[c]
      /\ ws[c] # "CLOSED"
      /\ connTimer[c] \/ ws[c] \in {"OPEN", "CLOSING"}

\* The dialog of a call is torn down exactly once, by one side: the server
\* sends one BYE, or the peer hung up and gets none.  handleBye relies on
\* cleanupDialog before it runs the endCall closure, which ends in
\* SipServer.endCall for the same Call-ID.
HungUpOnce ==
  \A c \in Calls :
    /\ rtp[c] = "stopped" => (byes[c] = 1 /\ ~hungUp[c]) \/ (byes[c] = 0 /\ hungUp[c])
    /\ rtp[c] # "stopped" => byes[c] = 0 /\ ~hungUp[c]

\* A dialog is removed only together with its own call: the endCall of another
\* call with the same Call-ID (an earlier one, whose WebSocket closes late)
\* does not end it.  Both closures delete and hang up by Call-ID, so it is the
\* `ended' flag alone that protects the successor.
DialogEndsWithItsCall ==
  [][BindInNextTick =>
       \A i \in CallIds : \A c \in Calls :
         dialogs[i] = c /\ dialogs'[i] # c => ended'[c] \/ rtp'[c] = "lost"]_vars

\* The RTP session of every answered call stops: by a hangup, the bot, the
\* connect timeout or, at the latest, MAX_CALL_DURATION_MS.
CallsEnd ==
  \A c \in Calls : rtp[c] = "running" ~> rtp[c] \in {"stopped", "lost"}

\* server.ts:28-30 says that the teardown closure also closes the Pipecat
\* WebSocket, without which bot.py keeps the session live.  It does not when
\* the handshake is still in progress: client.close() only drops its
\* reference, and the socket opens afterwards.
EndedCallHasNoOpenSocket ==
  \A c \in Calls : ended[c] => ws[c] # "OPEN"

-----------------------------------------------------------------------------
(* The ports as leases.                                                    *)

HolderOf(p) ==
  IF \E c \in LiveCalls : port[c] = p
    THEN CHOOSE c \in LiveCalls : port[c] = p
    ELSE NoCall

Lease == INSTANCE PortLease
           WITH holder <- [p \in Ports |-> HolderOf(p)],
                served <- {c \in Calls : rtp[c] # "unused"}

\* Seen through its ports alone, the server is a lease manager: a port is
\* granted when it has no holder, to a call that never had one, and returns
\* one at a time, or all at once when the process restarts.
ImplementsPortLease == Lease!Spec
=============================================================================
