-------------------------- MODULE VoiceServerProofs --------------------------
(***************************************************************************)
(* Safety of the call lifecycle, for any number of calls, Call-IDs and     *)
(* ports.                                                                  *)
(***************************************************************************)
EXTENDS VoiceServer, TLAPS

-----------------------------------------------------------------------------
(* Sequences without duplicates.                                           *)

\* Taking the head of the free list: what is left has no duplicates, and it
\* is what was there before without the head.
LEMMA TailOfDistinct ==
  ASSUME NEW S, NEW s \in Seq(S), s # <<>>, Distinct(s)
  PROVE  /\ Tail(s) \in Seq(S)
         /\ Head(s) \in S
         /\ Distinct(Tail(s))
         /\ Head(s) \in Elems(s)
         /\ Elems(Tail(s)) = Elems(s) \ {Head(s)}
<1>1. /\ Len(s) \in Nat \ {0}
      /\ Tail(s) \in Seq(S)
      /\ Len(Tail(s)) = Len(s) - 1
      /\ \A i \in 1..Len(Tail(s)) : Tail(s)[i] = s[i + 1]
      /\ Head(s) = s[1]
      /\ s[1] \in S
  OBVIOUS
<1>2. Distinct(Tail(s))
  BY <1>1 DEF Distinct
<1>3. Head(s) \in Elems(s)
  BY <1>1 DEF Elems
<1>4. Elems(Tail(s)) \subseteq Elems(s) \ {Head(s)}
  BY <1>1 DEF Elems, Distinct
<1>5. ASSUME NEW x \in Elems(s), x # Head(s)
      PROVE  x \in Elems(Tail(s))
  <2>1. PICK i \in 1..Len(s) : x = s[i]
    BY DEF Elems
  <2>2. i - 1 \in 1..Len(Tail(s)) /\ Tail(s)[i - 1] = x
    BY <1>1, <1>5, <2>1
  <2>. QED
    BY <2>2 DEF Elems
<1>. QED
  BY <1>1, <1>2, <1>3, <1>4, <1>5

\* Putting a port at the end of the free list.
LEMMA AppendDistinct ==
  ASSUME NEW S, NEW s \in Seq(S), NEW x \in S, Distinct(s), x \notin Elems(s)
  PROVE  /\ Append(s, x) \in Seq(S)
         /\ Distinct(Append(s, x))
         /\ Elems(Append(s, x)) = Elems(s) \cup {x}
<1>1. /\ Len(s) \in Nat
      /\ Append(s, x) \in Seq(S)
      /\ Len(Append(s, x)) = Len(s) + 1
      /\ \A i \in 1..Len(s) : Append(s, x)[i] = s[i]
      /\ Append(s, x)[Len(s) + 1] = x
  OBVIOUS
<1>2. Distinct(Append(s, x))
  BY <1>1 DEF Distinct, Elems
<1>3. Elems(Append(s, x)) \subseteq Elems(s) \cup {x}
  BY <1>1 DEF Elems
<1>4. Elems(s) \subseteq Elems(Append(s, x))
  <2>1. SUFFICES ASSUME NEW i \in 1..Len(s)
                 PROVE  s[i] \in Elems(Append(s, x))
    BY DEF Elems
  <2>2. i \in 1..Len(Append(s, x)) /\ Append(s, x)[i] = s[i]
    BY <1>1
  <2>. QED
    BY <2>2 DEF Elems
<1>5. x \in Elems(Append(s, x))
  BY <1>1 DEF Elems
<1>. QED
  BY <1>1, <1>2, <1>3, <1>4, <1>5

-----------------------------------------------------------------------------
(* The inductive invariant.                                                *)

\* A call object that exists has a Call-ID, and nothing of its closure or its
\* client exists before its RTP socket is bound.
Created ==
  \A c \in Calls :
    /\ rtp[c] # "unused" => callId[c] \in CallIds
    /\ rtp[c] \in {"unused", "binding", "failed"} =>
         ws[c] = "none" /\ ~maxTimer[c] /\ ~connTimer[c] /\ ~connecting[c] /\ ~ended[c]
    /\ rtp[c] = "lost" =>
         ws[c] \in {"none", "CLOSED"} /\ ~maxTimer[c] /\ ~connTimer[c]

\* What holds of the call of a stored dialog.
DialogOwner ==
  \A i \in CallIds : \A c \in Calls :
    dialogs[i] = c =>
      /\ callId[c] = i
      /\ rtp[c] = "running"
      /\ ~ended[c]
      /\ maxTimer[c]
      /\ ws[c] \in {"CONNECTING", "OPEN", "CLOSING"}
      /\ connecting[c] <=> ws[c] = "CONNECTING"
      /\ connecting[c] => connTimer[c]

\* What the bind's completion in its own turn adds: between a bind and its
\* completion there is no other bind and still no dialog, so a running session
\* has a dialog and a stopped one has run its closure.
OneBindAtATime ==
  BindInNextTick =>
    /\ \A c, d \in Calls : rtp[c] = "binding" /\ rtp[d] = "binding" => c = d
    /\ \A c \in Calls :
         /\ rtp[c] = "binding" => dialogs[callId[c]] = NoCall
         /\ rtp[c] = "running" => dialogs[callId[c]] = c
         /\ rtp[c] = "stopped" => ended[c]

IInv ==
  /\ TypeOK
  /\ PoolPartition
  /\ PortsAccounted
  /\ RegistriesAgree
  /\ Created
  /\ DialogOwner
  /\ HungUpOnce
  /\ OneBindAtATime

-----------------------------------------------------------------------------
(* The pool.                                                               *)

\* The ports of the range, in order, have no duplicates.
LEMMA InitialPorts ==
  ASSUME available = [n \in 1..NumPorts |-> PortAt(n)], inUse = {}
  PROVE  PoolTypeOK /\ PoolPartition
<1>1. NumPorts \in Nat
  BY PortRangeAssumption DEF NumPorts
<1>2. \A n \in 1..NumPorts : PortAt(n) \in Ports
  BY DEF Ports
<1>3. available \in Seq(Ports) /\ Len(available) = NumPorts
  BY <1>1, <1>2
<1>4. \A i, j \in 1..NumPorts : PortAt(i) = PortAt(j) => i = j
  BY <1>1, PortRangeAssumption DEF PortAt
<1>5. Distinct(available)
  BY <1>3, <1>4 DEF Distinct
<1>6. Elems(available) = Ports
  BY <1>3 DEF Elems, Ports
<1>. QED
  BY <1>3, <1>5, <1>6 DEF PoolTypeOK, PoolPartition

\* allocate() hands out a port that nobody had.
LEMMA AllocateStep ==
  ASSUME PoolTypeOK, PoolPartition, NEW p, Allocate(p)
  PROVE  /\ PoolTypeOK' /\ PoolPartition'
         /\ p \in Ports /\ p \notin inUse /\ inUse' = inUse \cup {p}
<1>1. /\ available \in Seq(Ports) /\ available # <<>> /\ Distinct(available)
      /\ p = Head(available) /\ available' = Tail(available) /\ inUse' = inUse \cup {p}
  BY DEF PoolTypeOK, PoolPartition, Allocate
<1>2. /\ Tail(available) \in Seq(Ports)
      /\ p \in Ports
      /\ Distinct(Tail(available))
      /\ p \in Elems(available)
      /\ Elems(Tail(available)) = Elems(available) \ {p}
  BY <1>1, TailOfDistinct
<1>3. Distinct(available') /\ Elems(available') = Elems(available) \ {p}
  BY <1>1, <1>2
<1>. QED
  BY <1>1, <1>2, <1>3 DEF PoolTypeOK, PoolPartition

\* release() puts a port that was handed out back, and only that one.
LEMMA ReleaseStep ==
  ASSUME PoolTypeOK, PoolPartition, NEW p \in inUse, Release(p)
  PROVE  PoolTypeOK' /\ PoolPartition' /\ inUse' = inUse \ {p}
<1>1. /\ available \in Seq(Ports) /\ Distinct(available) /\ p \in Ports
      /\ p \notin Elems(available)
      /\ available' = Append(available, p) /\ inUse' = inUse \ {p}
  BY DEF PoolTypeOK, PoolPartition, Release
<1>2. /\ Append(available, p) \in Seq(Ports)
      /\ Distinct(Append(available, p))
      /\ Elems(Append(available, p)) = Elems(available) \cup {p}
  BY <1>1, AppendDistinct
<1>3. Distinct(available') /\ Elems(available') = Elems(available) \cup {p}
  BY <1>1, <1>2
<1>. QED
  BY <1>1, <1>2, <1>3 DEF PoolTypeOK, PoolPartition

\* The port of a rejected INVITE goes from the front of the list to its back.
LEMMA AllocateAndReleaseStep ==
  ASSUME PoolTypeOK, PoolPartition, AllocateAndRelease
  PROVE  PoolTypeOK' /\ PoolPartition' /\ inUse' = inUse
<1>. DEFINE h == Head(available)
            t == Tail(available)
<1>1. /\ available \in Seq(Ports) /\ available # <<>> /\ Distinct(available)
      /\ available' = Append(t, h) /\ inUse' = inUse
  BY DEF PoolTypeOK, PoolPartition, AllocateAndRelease
<1>2. /\ t \in Seq(Ports) /\ h \in Ports /\ Distinct(t) /\ h \in Elems(available)
      /\ Elems(t) = Elems(available) \ {h}
  BY <1>1, TailOfDistinct
<1>. HIDE DEF h, t
<1>3. /\ Append(t, h) \in Seq(Ports)
      /\ Distinct(Append(t, h))
      /\ Elems(Append(t, h)) = Elems(t) \cup {h}
  BY <1>2, AppendDistinct
<1>4. Distinct(available') /\ Elems(available') = Elems(available)
  BY <1>1, <1>2, <1>3
<1>. QED
  BY <1>1, <1>3, <1>4 DEF PoolTypeOK, PoolPartition

-----------------------------------------------------------------------------
(* The helpers of the handlers.                                            *)

\* Stopping a live session and releasing its port keeps the pool's books.
LEMMA StopAndRelease ==
  ASSUME IInv, NEW c \in LiveCalls, NEW s \in RtpStates \ {"binding", "running"},
         rtp' = [rtp EXCEPT ![c] = s], Release(port[c]), port' = port
  PROVE  PoolTypeOK' /\ PoolPartition' /\ PortsAccounted'
<1>1. PoolTypeOK /\ PoolPartition /\ port[c] \in inUse
  BY DEF IInv, TypeOK, PortsAccounted
<1>2. PoolTypeOK' /\ PoolPartition' /\ inUse' = inUse \ {port[c]}
  BY <1>1, ReleaseStep
<1>3. LiveCalls' = LiveCalls \ {c}
  BY DEF LiveCalls, IInv, TypeOK
<1>. QED
  BY <1>2, <1>3 DEF PortsAccounted, IInv

\* cleanupDialog removes the dialog, stops its session and frees its port.
LEMMA CleanupDialogStep ==
  ASSUME IInv, NEW i \in CallIds, CleanupDialog(i), port' = port
  PROVE  /\ dialogs' = [dialogs EXCEPT ![i] = NoCall]
         /\ rtp' = [c \in Calls |-> IF c = dialogs[i] THEN "stopped" ELSE rtp[c]]
         /\ PoolTypeOK' /\ PoolPartition' /\ PortsAccounted'
<1>1. CASE dialogs[i] = NoCall
  <2>1. dialogs' = dialogs /\ rtp' = rtp /\ available' = available /\ inUse' = inUse
    BY <1>1 DEF CleanupDialog, poolVars
  <2>2. LiveCalls' = LiveCalls
    BY <2>1 DEF LiveCalls
  <2>3. PoolTypeOK' /\ PoolPartition'
    BY <2>1 DEF IInv, TypeOK, PoolTypeOK, PoolPartition
  <2>4. PortsAccounted'
    BY <2>1, <2>2 DEF IInv, PortsAccounted
  <2>. QED
    BY <1>1, <2>1, <2>3, <2>4, CallAssumption DEF IInv, TypeOK
<1>2. CASE dialogs[i] # NoCall
  <2>. DEFINE d == dialogs[i]
  <2>1. d \in Calls /\ rtp[d] = "running"
    BY <1>2 DEF IInv, TypeOK, DialogOwner
  <2>2. /\ rtp' = [rtp EXCEPT ![d] = "stopped"]
        /\ Release(port[d])
        /\ dialogs' = [dialogs EXCEPT ![i] = NoCall]
    BY <1>2 DEF CleanupDialog
  <2>3. d \in LiveCalls /\ "stopped" \in RtpStates \ {"binding", "running"}
    BY <2>1 DEF LiveCalls, RtpStates
  <2>4. PoolTypeOK' /\ PoolPartition' /\ PortsAccounted'
    BY <2>2, <2>3, StopAndRelease
  <2>. QED
    BY <2>1, <2>2, <2>4 DEF IInv, TypeOK
<1>. QED
  BY <1>1, <1>2

\* endCall from an event of the call's own client or timers, whatever those
\* events do to the client: the invariant holds afterwards.
LEMMA EndCallStep ==
  ASSUME IInv, NEW c \in Calls, rtp[c] \in {"running", "stopped"},
         NEW r \in {"CLOSED", ws[c]}, EndCall(c, r),
         connecting' \in [Calls -> BOOLEAN], connTimer' \in [Calls -> BOOLEAN],
         \A d \in Calls \ {c} : connecting'[d] = connecting[d] /\ connTimer'[d] = connTimer[d],
         UNCHANGED <<answered, callId, port, hungUp>>
  PROVE  IInv'
<1>. DEFINE i == callId[c]
<1>1. i \in CallIds
  BY DEF IInv, Created
<1>2. CASE ended[c]
  <2>1. /\ ws' = [ws EXCEPT ![c] = r]
        /\ UNCHANGED <<available, inUse, dialogs, callEnders, activeSessions, rtp, ended,
                       maxTimer, wsHeld, byes>>
    BY <1>2 DEF EndCall, poolVars, appVars, closureVars
  <2>2. TypeOK' /\ PoolPartition' /\ PortsAccounted'
    <3>1. LiveCalls' = LiveCalls
      BY <2>1 DEF LiveCalls
    <3>2. PoolPartition' /\ PoolTypeOK'
      BY <2>1 DEF IInv, TypeOK, PoolTypeOK, PoolPartition
    <3>3. PortsAccounted'
      BY <2>1, <3>1 DEF IInv, PortsAccounted
    <3>. QED
      BY <2>1, <3>2, <3>3 DEF IInv, TypeOK, WsStates
  <2>3. RegistriesAgree' /\ HungUpOnce' /\ OneBindAtATime'
    BY <2>1 DEF IInv, RegistriesAgree, HungUpOnce, OneBindAtATime
  <2>4. Created'
    BY <1>2, <2>1 DEF IInv, TypeOK, Created
  <2>5. DialogOwner'
    BY <1>2, <2>1 DEF IInv, TypeOK, DialogOwner
  <2>. QED
    BY <2>2, <2>3, <2>4, <2>5 DEF IInv
<1>3. CASE ~ended[c]
  <2>. DEFINE d == dialogs[i]
  <2>1. /\ CloseCall(c, r)
        /\ byes' = IF d = NoCall THEN byes ELSE [byes EXCEPT ![d] = @ + 1]
        /\ CleanupDialog(i)
    BY <1>3 DEF EndCall, SendBye
  <2>2. /\ dialogs' = [dialogs EXCEPT ![i] = NoCall]
        /\ rtp' = [e \in Calls |-> IF e = d THEN "stopped" ELSE rtp[e]]
        /\ PoolTypeOK' /\ PoolPartition' /\ PortsAccounted'
    BY <1>1, <2>1, CleanupDialogStep
  <2>3. /\ ended' = [ended EXCEPT ![c] = TRUE]
        /\ maxTimer' = [maxTimer EXCEPT ![c] = FALSE]
        /\ activeSessions' = activeSessions \ {i}
        /\ callEnders' = [callEnders EXCEPT ![i] = NoCall]
        /\ ws' \in [Calls -> WsStates]
        /\ \A e \in Calls \ {c} : ws'[e] = ws[e]
        /\ wsHeld' = [wsHeld EXCEPT ![c] = FALSE]
    BY <2>1 DEF CloseCall, ForgetCall, IInv, TypeOK, WsStates
  <2>4. d \in Calls \cup {NoCall}
    BY <1>1 DEF IInv, TypeOK
  <2>5. TypeOK'
    <3>1. rtp' \in [Calls -> RtpStates]
      BY <2>2 DEF IInv, TypeOK, RtpStates
    <3>2. byes' \in [Calls -> Nat]
      BY <2>1, <2>4 DEF IInv, TypeOK
    <3>3. dialogs' \in [CallIds -> Calls \cup {NoCall}]
      BY <2>2 DEF IInv, TypeOK
    <3>. QED
      BY <2>2, <2>3, <3>1, <3>2, <3>3 DEF IInv, TypeOK
  <2>6. RegistriesAgree'
    BY <1>1, <2>2, <2>3 DEF IInv, TypeOK, RegistriesAgree
  <2>7. Created'
    BY <2>2, <2>3, <2>4 DEF IInv, TypeOK, Created, DialogOwner
  <2>8. DialogOwner'
    <3>1. SUFFICES ASSUME NEW j \in CallIds, NEW e \in Calls, dialogs'[j] = e
                   PROVE  /\ callId'[e] = j
                          /\ rtp'[e] = "running"
                          /\ ~ended'[e]
                          /\ maxTimer'[e]
                          /\ ws'[e] \in {"CONNECTING", "OPEN", "CLOSING"}
                          /\ connecting'[e] <=> ws'[e] = "CONNECTING"
                          /\ connecting'[e] => connTimer'[e]
      BY DEF DialogOwner
    <3>2. j # i /\ dialogs[j] = e /\ e # d
      BY <1>1, <2>2, <3>1, CallAssumption DEF IInv, TypeOK, DialogOwner
    <3>3. e # c
      BY <3>2 DEF IInv, DialogOwner
    <3>. QED
      BY <1>1, <2>2, <2>3, <3>2, <3>3 DEF IInv, TypeOK, DialogOwner
  <2>9. HungUpOnce'
    <3>1. CASE d = NoCall
      <4>1. rtp' = rtp /\ byes' = byes
        BY <2>1, <2>2, <3>1, CallAssumption DEF IInv, TypeOK
      <4>. QED
        BY <4>1 DEF IInv, HungUpOnce
    <3>2. CASE d \in Calls
      <4>1. rtp[d] = "running" /\ byes[d] = 0 /\ ~hungUp[d]
        BY <1>1, <3>2 DEF IInv, DialogOwner, HungUpOnce
      <4>2. rtp'[d] = "stopped" /\ byes'[d] = 1 /\ ~hungUp'[d]
        BY <2>1, <2>2, <3>2, <4>1, CallAssumption DEF IInv, TypeOK
      <4>3. \A e \in Calls \ {d} : rtp'[e] = rtp[e] /\ byes'[e] = byes[e]
        BY <2>1, <2>2 DEF IInv, TypeOK
      <4>. QED
        BY <4>2, <4>3 DEF IInv, HungUpOnce
    <3>. QED
      BY <2>4, <3>1, <3>2
  <2>10. OneBindAtATime'
    <3>. SUFFICES ASSUME BindInNextTick
                  PROVE  OneBindAtATime'
      BY DEF OneBindAtATime
    <3>1. c = d /\ rtp[c] = "running"
      BY <1>3 DEF IInv, OneBindAtATime
    <3>2. \A e \in Calls \ {c} : rtp'[e] = rtp[e] /\ ended'[e] = ended[e]
      BY <2>2, <2>3, <3>1 DEF IInv, TypeOK
    <3>3. rtp'[c] = "stopped" /\ ended'[c]
      BY <2>2, <2>3, <3>1 DEF IInv, TypeOK
    <3>4. ASSUME NEW e \in Calls \ {c}, rtp[e] = "binding"
          PROVE  dialogs'[callId[e]] = NoCall
      BY <1>1, <2>2, <3>4 DEF IInv, TypeOK, OneBindAtATime
    <3>5. ASSUME NEW e \in Calls \ {c}, rtp[e] = "running"
          PROVE  dialogs'[callId[e]] = e
      <4>1. callId[e] \in CallIds /\ dialogs[callId[e]] = e
        BY <3>5 DEF IInv, Created, OneBindAtATime
      <4>2. callId[e] # i
        BY <3>1, <4>1
      <4>. QED
        BY <1>1, <2>2, <4>1, <4>2 DEF IInv, TypeOK
    <3>. QED
      BY <3>2, <3>3, <3>4, <3>5 DEF IInv, OneBindAtATime
  <2>. QED
    BY <2>2, <2>5, <2>6, <2>7, <2>8, <2>9, <2>10 DEF IInv
<1>. QED
  BY <1>2, <1>3

-----------------------------------------------------------------------------
(* One lemma per handler.                                                  *)

\* The empty server.
LEMMA InitIInv == Init => IInv
<1>. SUFFICES ASSUME Init PROVE IInv
  OBVIOUS
<1>1. PoolTypeOK /\ PoolPartition
  BY InitialPorts DEF Init, PoolInit
<1>2. LiveCalls = {}
  BY DEF Init, LiveCalls
<1>3. PortsAccounted
  BY <1>2 DEF Init, PoolInit, PortsAccounted
<1>4. TypeOK
  BY <1>1 DEF Init, TypeOK, RtpStates, WsStates
<1>5. RegistriesAgree /\ Created /\ DialogOwner /\ HungUpOnce /\ OneBindAtATime
  BY CallAssumption
  DEF Init, RegistriesAgree, Created, DialogOwner, HungUpOnce, OneBindAtATime
<1>. QED
  BY <1>1, <1>3, <1>4, <1>5 DEF IInv

\* Steps that change no variable.
LEMMA StutterStep == IInv /\ UNCHANGED vars => IInv'
<1>. SUFFICES ASSUME IInv, UNCHANGED vars PROVE IInv'
  OBVIOUS
<1>1. UNCHANGED <<available, inUse, dialogs, answered, callEnders, activeSessions, callId,
                  port, rtp, ended, maxTimer, ws, wsHeld, connecting, connTimer, byes, hungUp>>
  BY DEF vars, poolVars, sipVars, appVars, closureVars, clientVars, historyVars
<1>2. TypeOK' /\ PoolPartition'
  BY <1>1 DEF IInv, TypeOK, PoolTypeOK, PoolPartition
<1>3. LiveCalls' = LiveCalls
  BY <1>1 DEF LiveCalls
<1>4. PortsAccounted'
  BY <1>1, <1>3 DEF IInv, PortsAccounted
<1>5. RegistriesAgree' /\ Created' /\ DialogOwner' /\ HungUpOnce' /\ OneBindAtATime'
  BY <1>1 DEF IInv, RegistriesAgree, Created, DialogOwner, HungUpOnce, OneBindAtATime
<1>. QED
  BY <1>2, <1>4, <1>5 DEF IInv

\* handleInvite, rejected with 400: only the order of the free list changes.
LEMMA InviteBadSdpStep ==
  ASSUME IInv, NEW i \in CallIds, InviteBadSdp(i)
  PROVE  IInv'
<1>1. UNCHANGED <<dialogs, answered, callEnders, activeSessions, callId,
                  port, rtp, ended, maxTimer, ws, wsHeld, connecting, connTimer, byes, hungUp>>
  BY DEF InviteBadSdp, sipVars, appVars, closureVars, clientVars, historyVars
<1>2. PoolTypeOK' /\ PoolPartition' /\ inUse' = inUse
  BY AllocateAndReleaseStep DEF InviteBadSdp, IInv, TypeOK
<1>3. TypeOK'
  BY <1>1, <1>2 DEF IInv, TypeOK
<1>4. LiveCalls' = LiveCalls
  BY <1>1 DEF LiveCalls
<1>5. PortsAccounted'
  BY <1>1, <1>2, <1>4 DEF IInv, PortsAccounted
<1>6. RegistriesAgree' /\ Created' /\ DialogOwner' /\ HungUpOnce' /\ OneBindAtATime'
  BY <1>1 DEF IInv, RegistriesAgree, Created, DialogOwner, HungUpOnce, OneBindAtATime
<1>. QED
  BY <1>2, <1>3, <1>5, <1>6 DEF IInv

\* handleInvite up to its await.
LEMMA InviteStartStep ==
  ASSUME IInv, NEW i \in CallIds, NEW c \in Calls, InviteStart(i, c)
  PROVE  IInv'
<1>. DEFINE p == Head(available)
<1>1. /\ rtp[c] = "unused" /\ dialogs[i] = NoCall /\ Turn /\ Allocate(p)
      /\ callId' = [callId EXCEPT ![c] = i]
      /\ port' = [port EXCEPT ![c] = p]
      /\ rtp' = [rtp EXCEPT ![c] = "binding"]
      /\ UNCHANGED <<dialogs, answered, callEnders, activeSessions, ended, maxTimer, ws,
                     wsHeld, connecting, connTimer, byes, hungUp>>
  BY DEF InviteStart, NewCall, sipVars, appVars, closureVars, clientVars, historyVars
<1>2. /\ PoolTypeOK' /\ PoolPartition'
      /\ p \in Ports /\ p \notin inUse /\ inUse' = inUse \cup {p}
  BY <1>1, AllocateStep DEF IInv, TypeOK
<1>. HIDE DEF p
<1>3. TypeOK'
  BY <1>1, <1>2 DEF IInv, TypeOK, RtpStates
<1>4. LiveCalls' = LiveCalls \cup {c} /\ c \notin LiveCalls
  BY <1>1 DEF LiveCalls, IInv, TypeOK
<1>5. PortsAccounted'
  BY <1>1, <1>2, <1>4 DEF IInv, TypeOK, LiveCalls, PortsAccounted
<1>6. RegistriesAgree' /\ HungUpOnce'
  BY <1>1 DEF IInv, TypeOK, RegistriesAgree, HungUpOnce
<1>7. Created' /\ DialogOwner'
  BY <1>1 DEF IInv, TypeOK, Created, DialogOwner
<1>8. OneBindAtATime'
  BY <1>1, CallAssumption DEF IInv, TypeOK, Turn, OneBindAtATime
<1>. QED
  BY <1>2, <1>3, <1>5, <1>6, <1>7, <1>8 DEF IInv

\* The bind failed.
LEMMA BindFailedStep ==
  ASSUME IInv, NEW c \in Calls, BindFailed(c)
  PROVE  IInv'
<1>1. /\ rtp[c] = "binding" /\ Release(port[c])
      /\ rtp' = [rtp EXCEPT ![c] = "failed"]
      /\ UNCHANGED <<dialogs, answered, callEnders, activeSessions, callId, port, ended,
                     maxTimer, ws, wsHeld, connecting, connTimer, byes, hungUp>>
  BY DEF BindFailed, sipVars, appVars, closureVars, clientVars, historyVars
<1>2. c \in LiveCalls /\ "failed" \in RtpStates \ {"binding", "running"}
  BY <1>1 DEF LiveCalls, RtpStates
<1>3. PoolTypeOK' /\ PoolPartition' /\ PortsAccounted'
  BY <1>1, <1>2, StopAndRelease
<1>4. TypeOK'
  BY <1>1, <1>3 DEF IInv, TypeOK, RtpStates
<1>5. RegistriesAgree' /\ HungUpOnce'
  BY <1>1 DEF IInv, TypeOK, RegistriesAgree, HungUpOnce
<1>6. Created' /\ DialogOwner'
  BY <1>1 DEF IInv, TypeOK, Created, DialogOwner
<1>7. OneBindAtATime'
  BY <1>1 DEF IInv, TypeOK, OneBindAtATime
<1>. QED
  BY <1>3, <1>4, <1>5, <1>6, <1>7 DEF IInv

\* The bind succeeded: the dialog and the closure are stored in one turn.
LEMMA AnswerStep ==
  ASSUME IInv, NEW c \in Calls, Answer(c)
  PROVE  IInv'
<1>. DEFINE i == callId[c]
<1>1. /\ rtp[c] = "binding"
      /\ i \in CallIds
      /\ rtp' = [rtp EXCEPT ![c] = "running"]
      /\ answered' = answered \cup {i}
      /\ dialogs' = [dialogs EXCEPT ![i] = c]
      /\ activeSessions' = activeSessions \cup {i}
      /\ callEnders' = [callEnders EXCEPT ![i] = c]
      /\ maxTimer' = [maxTimer EXCEPT ![c] = TRUE]
      /\ ws' = [ws EXCEPT ![c] = "CONNECTING"]
      /\ wsHeld' = [wsHeld EXCEPT ![c] = TRUE]
      /\ connecting' = [connecting EXCEPT ![c] = TRUE]
      /\ connTimer' = [connTimer EXCEPT ![c] = TRUE]
      /\ UNCHANGED <<available, inUse, callId, port, ended, byes, hungUp>>
  BY DEF Answer, SetCallTimer, poolVars, historyVars, IInv, Created
<1>. HIDE DEF i
<1>2. PoolTypeOK' /\ PoolPartition'
  BY <1>1 DEF IInv, TypeOK, PoolTypeOK, PoolPartition
<1>3. TypeOK'
  BY <1>1, <1>2 DEF IInv, TypeOK, RtpStates, WsStates
<1>4. LiveCalls' = LiveCalls
  BY <1>1 DEF LiveCalls, IInv, TypeOK
<1>5. PortsAccounted'
  BY <1>1, <1>4 DEF IInv, PortsAccounted
<1>6. RegistriesAgree'
  BY <1>1, CallAssumption DEF IInv, TypeOK, RegistriesAgree
<1>7. Created' /\ HungUpOnce'
  BY <1>1 DEF IInv, TypeOK, Created, HungUpOnce
<1>8. DialogOwner'
  <2>1. SUFFICES ASSUME NEW j \in CallIds, NEW e \in Calls, dialogs'[j] = e
                 PROVE  /\ callId'[e] = j
                        /\ rtp'[e] = "running"
                        /\ ~ended'[e]
                        /\ maxTimer'[e]
                        /\ ws'[e] \in {"CONNECTING", "OPEN", "CLOSING"}
                        /\ connecting'[e] <=> ws'[e] = "CONNECTING"
                        /\ connecting'[e] => connTimer'[e]
    BY DEF DialogOwner
  <2>2. CASE j = i
    <3>1. e = c /\ ~ended[c]
      BY <1>1, <2>1, <2>2 DEF IInv, TypeOK, Created
    <3>. QED
      BY <1>1, <2>2, <3>1 DEF IInv, TypeOK, i
  <2>3. CASE j # i
    <3>1. dialogs[j] = e
      BY <1>1, <2>1, <2>3 DEF IInv, TypeOK
    <3>2. e # c
      BY <1>1, <3>1 DEF IInv, DialogOwner
    <3>. QED
      BY <1>1, <3>1, <3>2 DEF IInv, TypeOK, DialogOwner
  <2>. QED
    BY <2>2, <2>3
<1>9. OneBindAtATime'
  <2>. SUFFICES ASSUME BindInNextTick
                PROVE  OneBindAtATime'
    BY DEF OneBindAtATime
  <2>1. dialogs[i] = NoCall
    BY <1>1 DEF IInv, OneBindAtATime, i
  <2>2. ASSUME NEW e \in Calls \ {c}
        PROVE  /\ rtp'[e] = rtp[e] /\ rtp[e] # "binding"
               /\ rtp[e] = "running" => dialogs'[callId[e]] = e
    BY <1>1, <2>1, <2>2, CallAssumption DEF IInv, TypeOK, Created, OneBindAtATime
  <2>3. rtp'[c] = "running" /\ dialogs'[callId[c]] = c
    BY <1>1 DEF IInv, TypeOK, i
  <2>. QED
    BY <1>1, <2>2, <2>3 DEF IInv, OneBindAtATime
<1>. QED
  BY <1>2, <1>3, <1>5, <1>6, <1>7, <1>8, <1>9 DEF IInv

\* handleBye and handleCancel: the call whose dialog they clean up is the one
\* whose closure they run, and that closure finds no dialog to hang up.
LEMMA RemoteHangupStep ==
  ASSUME IInv, NEW i \in CallIds, RemoteHangup(i)
  PROVE  IInv'
<1>. DEFINE d == dialogs[i]
<1>1. /\ dialogs' = [dialogs EXCEPT ![i] = NoCall]
      /\ rtp' = [e \in Calls |-> IF e = d THEN "stopped" ELSE rtp[e]]
      /\ PoolTypeOK' /\ PoolPartition' /\ PortsAccounted'
  BY CleanupDialogStep DEF RemoteHangup
<1>2. /\ d \in Calls \cup {NoCall}
      /\ callEnders[i] = d
      /\ hungUp' = IF d = NoCall THEN hungUp ELSE [hungUp EXCEPT ![d] = TRUE]
      /\ UNCHANGED <<answered, callId, port, connecting, connTimer>>
  BY DEF RemoteHangup, IInv, TypeOK, RegistriesAgree
<1>3. CASE d = NoCall
  <2>1. UNCHANGED <<callEnders, ended, maxTimer, ws, wsHeld, byes, hungUp>>
    BY <1>2, <1>3 DEF RemoteHangup, closureVars
  <2>2. dialogs' = dialogs /\ rtp' = rtp /\ activeSessions' = activeSessions
    BY <1>1, <1>2, <1>3, CallAssumption DEF RemoteHangup, IInv, TypeOK, RegistriesAgree
  <2>3. TypeOK'
    BY <1>1, <1>2, <2>1, <2>2 DEF IInv, TypeOK
  <2>4. RegistriesAgree' /\ Created' /\ DialogOwner' /\ HungUpOnce' /\ OneBindAtATime'
    BY <1>2, <2>1, <2>2
    DEF IInv, RegistriesAgree, Created, DialogOwner, HungUpOnce, OneBindAtATime
  <2>. QED
    BY <1>1, <2>3, <2>4 DEF IInv
<1>4. CASE d \in Calls
  <2>1. /\ callId[d] = i /\ rtp[d] = "running" /\ ~ended[d]
        /\ byes[d] = 0 /\ ~hungUp[d] /\ d # NoCall
    BY <1>4, CallAssumption DEF IInv, DialogOwner, HungUpOnce
  <2>2. /\ CloseCall(d, ws[d])
        /\ SendBye(i, [dialogs EXCEPT ![i] = NoCall])
    BY <1>2, <2>1 DEF RemoteHangup
  <2>3. /\ ended' = [ended EXCEPT ![d] = TRUE]
        /\ maxTimer' = [maxTimer EXCEPT ![d] = FALSE]
        /\ activeSessions' = activeSessions \ {i}
        /\ callEnders' = [callEnders EXCEPT ![i] = NoCall]
        /\ ws' \in [Calls -> WsStates]
        /\ \A e \in Calls \ {d} : ws'[e] = ws[e]
        /\ wsHeld' = [wsHeld EXCEPT ![d] = FALSE]
        /\ byes' = byes
    BY <2>1, <2>2 DEF CloseCall, ForgetCall, SendBye, IInv, TypeOK, WsStates
  <2>4. hungUp' = [hungUp EXCEPT ![d] = TRUE]
    BY <1>2, <2>1
  <2>. HIDE DEF d
  <2>5. TypeOK'
    <3>1. rtp' \in [Calls -> RtpStates]
      BY <1>1 DEF IInv, TypeOK, RtpStates
    <3>. QED
      BY <1>1, <1>2, <2>3, <2>4, <3>1 DEF IInv, TypeOK
  <2>6. RegistriesAgree'
    BY <1>1, <2>3 DEF IInv, TypeOK, RegistriesAgree
  <2>7. Created'
    BY <1>1, <1>2, <1>4, <2>1, <2>3 DEF IInv, TypeOK, Created
  <2>8. DialogOwner'
    <3>1. SUFFICES ASSUME NEW j \in CallIds, NEW e \in Calls, dialogs'[j] = e
                   PROVE  /\ callId'[e] = j
                          /\ rtp'[e] = "running"
                          /\ ~ended'[e]
                          /\ maxTimer'[e]
                          /\ ws'[e] \in {"CONNECTING", "OPEN", "CLOSING"}
                          /\ connecting'[e] <=> ws'[e] = "CONNECTING"
                          /\ connecting'[e] => connTimer'[e]
      BY DEF DialogOwner
    <3>2. j # i /\ dialogs[j] = e
      BY <1>1, <3>1, CallAssumption DEF IInv, TypeOK
    <3>3. e # d
      BY <2>1, <3>2 DEF IInv, DialogOwner
    <3>. QED
      BY <1>1, <1>2, <2>3, <3>2, <3>3 DEF IInv, TypeOK, DialogOwner
  <2>9. HungUpOnce'
    BY <1>1, <2>1, <2>3, <2>4 DEF IInv, TypeOK, HungUpOnce
  <2>10. OneBindAtATime'
    <3>. SUFFICES ASSUME BindInNextTick
                  PROVE  OneBindAtATime'
      BY DEF OneBindAtATime
    <3>1. ASSUME NEW e \in Calls \ {d}
          PROVE  /\ rtp'[e] = rtp[e] /\ ended'[e] = ended[e]
                 /\ rtp[e] = "binding" => dialogs'[callId[e]] = NoCall
                 /\ rtp[e] = "running" => dialogs'[callId[e]] = e
      BY <1>1, <2>1, <2>3, <3>1, CallAssumption DEF IInv, TypeOK, Created, OneBindAtATime, d
    <3>2. rtp'[d] = "stopped" /\ ended'[d]
      BY <1>1, <1>4, <2>3 DEF IInv, TypeOK
    <3>. QED
      BY <1>2, <3>1, <3>2 DEF IInv, OneBindAtATime
  <2>. QED
    BY <1>1, <2>5, <2>6, <2>7, <2>8, <2>9, <2>10 DEF IInv
<1>. QED
  BY <1>2, <1>3, <1>4

\* "open", and the arrival of the bot's close: only the client changes.
LEMMA WsOpenStep ==
  ASSUME IInv, NEW c \in Calls, WsOpen(c) \/ BotCloses(c)
  PROVE  IInv'
<1>1. /\ UNCHANGED <<available, inUse, dialogs, answered, callEnders, activeSessions, callId,
                     port, rtp, ended, maxTimer, wsHeld, connTimer, byes, hungUp>>
      /\ \/ /\ ws[c] = "CONNECTING"
            /\ ws' = [ws EXCEPT ![c] = "OPEN"]
            /\ connecting' = [connecting EXCEPT ![c] = FALSE]
         \/ /\ ws[c] = "OPEN"
            /\ ws' = [ws EXCEPT ![c] = "CLOSING"]
            /\ connecting' = connecting
  BY DEF WsOpen, BotCloses, poolVars, sipVars, appVars, closureVars, historyVars
<1>2. PoolTypeOK' /\ PoolPartition'
  BY <1>1 DEF IInv, TypeOK, PoolTypeOK, PoolPartition
<1>3. TypeOK'
  BY <1>1, <1>2 DEF IInv, TypeOK, WsStates
<1>4. LiveCalls' = LiveCalls
  BY <1>1 DEF LiveCalls
<1>5. PortsAccounted'
  BY <1>1, <1>4 DEF IInv, PortsAccounted
<1>6. RegistriesAgree' /\ HungUpOnce' /\ OneBindAtATime'
  BY <1>1 DEF IInv, RegistriesAgree, HungUpOnce, OneBindAtATime
<1>7. Created' /\ DialogOwner'
  BY <1>1 DEF IInv, TypeOK, Created, DialogOwner
<1>. QED
  BY <1>2, <1>3, <1>5, <1>6, <1>7 DEF IInv

\* "close", before or after "open".
LEMMA WsClosedStep ==
  ASSUME IInv, NEW c \in Calls, WsRefused(c) \/ WsClosed(c)
  PROVE  IInv'
<1>1. /\ ws[c] \in {"CONNECTING", "CLOSING"}
      /\ EndCall(c, "CLOSED")
      /\ UNCHANGED <<answered, callId, port, connecting, connTimer, hungUp>>
  BY DEF WsRefused, WsClosed
<1>2. rtp[c] \in {"running", "stopped"}
  BY <1>1 DEF IInv, TypeOK, RtpStates, Created
<1>. QED
  BY <1>1, <1>2, EndCallStep DEF IInv, TypeOK

\* The 10 s timeout of connect(): if the promise is settled it does nothing,
\* and then the WebSocket of a call that has a dialog is not CONNECTING.
LEMMA ConnectTimeoutStep ==
  ASSUME IInv, NEW c \in Calls, ConnectTimeout(c)
  PROVE  IInv'
<1>1. /\ connTimer[c]
      /\ connTimer' = [connTimer EXCEPT ![c] = FALSE]
      /\ connecting' = [connecting EXCEPT ![c] = FALSE]
      /\ UNCHANGED <<answered, callId, port, hungUp>>
  BY DEF ConnectTimeout, ConnectFailed
<1>2. rtp[c] \in {"running", "stopped"}
  BY <1>1 DEF IInv, TypeOK, RtpStates, Created
<1>3. CASE connecting[c]
  <2>1. EndCall(c, ws[c])
    BY <1>3 DEF ConnectTimeout, ConnectFailed
  <2>2. /\ connecting' \in [Calls -> BOOLEAN] /\ connTimer' \in [Calls -> BOOLEAN]
        /\ \A d \in Calls \ {c} : connecting'[d] = connecting[d] /\ connTimer'[d] = connTimer[d]
    BY <1>1 DEF IInv, TypeOK
  <2>. QED
    BY <1>1, <1>2, <2>1, <2>2, EndCallStep
<1>4. CASE ~connecting[c]
  <2>1. UNCHANGED <<available, inUse, dialogs, callEnders, activeSessions, rtp, ended,
                    maxTimer, ws, wsHeld, byes>>
    BY <1>4 DEF ConnectTimeout, ConnectFailed, poolVars, appVars, closureVars
  <2>2. PoolTypeOK' /\ PoolPartition'
    BY <2>1 DEF IInv, TypeOK, PoolTypeOK, PoolPartition
  <2>3. TypeOK'
    BY <1>1, <2>1, <2>2 DEF IInv, TypeOK
  <2>4. LiveCalls' = LiveCalls
    BY <2>1 DEF LiveCalls
  <2>5. PortsAccounted'
    BY <1>1, <2>1, <2>4 DEF IInv, PortsAccounted
  <2>6. RegistriesAgree' /\ HungUpOnce' /\ OneBindAtATime'
    BY <1>1, <2>1 DEF IInv, RegistriesAgree, HungUpOnce, OneBindAtATime
  <2>7. Created' /\ DialogOwner'
    BY <1>1, <1>4, <2>1 DEF IInv, TypeOK, Created, DialogOwner
  <2>. QED
    BY <2>2, <2>3, <2>5, <2>6, <2>7 DEF IInv
<1>. QED
  BY <1>3, <1>4

\* The duration timer.
LEMMA MaxDurationStep ==
  ASSUME IInv, NEW c \in Calls, MaxDuration(c)
  PROVE  IInv'
<1>1. /\ maxTimer[c]
      /\ EndCall(c, ws[c])
      /\ UNCHANGED <<answered, callId, port, connecting, connTimer, hungUp>>
  BY DEF MaxDuration
<1>2. rtp[c] \in {"running", "stopped"}
  BY <1>1 DEF IInv, TypeOK, RtpStates, Created
<1>. QED
  BY <1>1, <1>2, EndCallStep DEF IInv, TypeOK

\* The process is replaced by a new one.
LEMMA RestartStep ==
  ASSUME IInv, Restart
  PROVE  IInv'
<1>1. /\ available' = [n \in 1..NumPorts |-> PortAt(n)] /\ inUse' = {}
      /\ dialogs' = [i \in CallIds |-> NoCall]
      /\ callEnders' = [i \in CallIds |-> NoCall]
      /\ activeSessions' = {}
      /\ rtp' = [c \in Calls |-> IF c \in LiveCalls THEN "lost" ELSE rtp[c]]
      /\ maxTimer' = [c \in Calls |-> FALSE]
      /\ connTimer' = [c \in Calls |-> FALSE]
      /\ connecting' = [c \in Calls |-> FALSE]
      /\ wsHeld' = [c \in Calls |-> FALSE]
      /\ ws' = [c \in Calls |-> IF ws[c] = "none" THEN "none" ELSE "CLOSED"]
      /\ UNCHANGED <<answered, callId, port, ended, byes, hungUp>>
  BY DEF Restart, historyVars
<1>2. PoolTypeOK' /\ PoolPartition'
  <2>1. (available = [n \in 1..NumPorts |-> PortAt(n)] /\ inUse = {})'
          => (PoolTypeOK /\ PoolPartition)'
    BY InitialPorts, PTL
  <2>. QED
    BY <1>1, <2>1
<1>3. LiveCalls' = {}
  BY <1>1 DEF LiveCalls
<1>4. PortsAccounted'
  BY <1>1, <1>3 DEF PortsAccounted
<1>5. TypeOK'
  BY <1>1, <1>2 DEF IInv, TypeOK, RtpStates, WsStates
<1>6. RegistriesAgree' /\ DialogOwner'
  BY <1>1, CallAssumption DEF RegistriesAgree, DialogOwner
<1>7. Created' /\ HungUpOnce' /\ OneBindAtATime'
  BY <1>1, CallAssumption DEF IInv, TypeOK, LiveCalls, Created, HungUpOnce, OneBindAtATime
<1>. QED
  BY <1>2, <1>4, <1>5, <1>6, <1>7 DEF IInv

\* Every step of the specification.
LEMMA NextIInv == IInv /\ [Next]_vars => IInv'
<1>. SUFFICES ASSUME IInv, [Next]_vars PROVE IInv'
  OBVIOUS
<1>1. ASSUME NEW i \in CallIds, InviteUnchanged(i) PROVE IInv'
  BY <1>1, StutterStep DEF InviteUnchanged
<1>2. ASSUME NEW i \in CallIds, InviteBadSdp(i) PROVE IInv'
  BY <1>2, InviteBadSdpStep
<1>3. ASSUME NEW i \in CallIds, NEW c \in Calls, InviteStart(i, c) PROVE IInv'
  BY <1>3, InviteStartStep
<1>4. ASSUME NEW i \in CallIds, Cancel(i) \/ Bye(i) PROVE IInv'
  BY <1>4, RemoteHangupStep DEF Cancel, Bye
<1>5. ASSUME NEW c \in Calls, CallEvent(c) PROVE IInv'
  BY <1>5, BindFailedStep, AnswerStep, WsOpenStep, WsClosedStep, ConnectTimeoutStep,
     MaxDurationStep DEF CallEvent
<1>6. ASSUME Restart PROVE IInv'
  BY <1>6, RestartStep
<1>7. ASSUME UNCHANGED vars PROVE IInv'
  BY <1>7, StutterStep
<1>. QED
  BY <1>1, <1>2, <1>3, <1>4, <1>5, <1>6, <1>7 DEF Next, Peer

-----------------------------------------------------------------------------
(* The theorems.                                                           *)

\* Every reachable state of the server satisfies the inductive invariant.
THEOREM Invariance == Spec => []IInv
BY InitIInv, NextIInv, PTL DEF Spec

\* Every variable has its type in every reachable state.
THEOREM TypeCorrect == Spec => []TypeOK
<1>1. IInv => TypeOK
  BY DEF IInv
<1>. QED
  BY <1>1, Invariance, PTL

\* cleanupDialog, the failure path of handleInvite and the rejected INVITE
\* never lose an RTP port, never hand one out twice, and never release one
\* under a session that still runs.
THEOREM PortSafety == Spec => [](PoolPartition /\ PortsAccounted)
<1>1. IInv => PoolPartition /\ PortsAccounted
  BY DEF IInv
<1>. QED
  BY <1>1, Invariance, PTL

\* The dialogs of SipServer and the maps of server.ts, which different handlers
\* update, always agree.
THEOREM DialogSafety == Spec => []RegistriesAgree
<1>1. IInv => RegistriesAgree
  BY DEF IInv
<1>. QED
  BY <1>1, Invariance, PTL

\* Each dialog of SipServer belongs to a call that is not over and that a timer
\* of server.ts will end.
THEOREM DialogService == Spec => []DialogIsServed
<1>1. IInv => DialogIsServed
  BY DEF IInv, TypeOK, DialogOwner, DialogIsServed
<1>. QED
  BY <1>1, Invariance, PTL

\* Of the peer's BYE or CANCEL and the BYE that endCall sends only one ends a
\* call, whichever handler comes first.
THEOREM HangupSafety == Spec => []HungUpOnce
<1>1. IInv => HungUpOnce
  BY DEF IInv
<1>. QED
  BY <1>1, Invariance, PTL

\* If the bind completes in its own turn, no RTP session outlives its dialog.
THEOREM NoLeak == Spec => []NoLeakedSession
<1>1. IInv => NoLeakedSession
  BY DEF IInv, OneBindAtATime, NoLeakedSession
<1>. QED
  BY <1>1, Invariance, PTL

-----------------------------------------------------------------------------
(* Which handlers remove a dialog, and what that does to the ports.        *)

\* The steps of a closure's own events that reach EndCall.
Closing(c) == WsRefused(c) \/ WsClosed(c) \/ MaxDuration(c)
                \/ (ConnectTimeout(c) /\ connecting[c])

\* Such a step either finds the closure ended and touches no dialog, or ends
\* it and removes the dialog of its Call-ID.
LEMMA ClosingEffect ==
  ASSUME IInv, NEW c \in Calls, Closing(c)
  PROVE  /\ rtp[c] \in {"running", "stopped"}
         /\ port' = port
         /\ \/ dialogs' = dialogs /\ rtp' = rtp
            \/ /\ ~ended[c] /\ ended'[c]
               /\ callId[c] \in CallIds
               /\ CleanupDialog(callId[c])
<1>1. /\ \E r : EndCall(c, r)
      /\ port' = port
      /\ ws[c] \in {"CONNECTING", "CLOSING"} \/ connTimer[c] \/ maxTimer[c]
  BY DEF Closing, WsRefused, WsClosed, MaxDuration, ConnectTimeout, ConnectFailed
<1>2. rtp[c] \in {"running", "stopped"}
  BY <1>1 DEF IInv, TypeOK, RtpStates, Created
<1>. QED
  BY <1>1, <1>2 DEF EndCall, CloseCall, IInv, TypeOK, Created

\* Every other step of a call or of the peer, by what it does to the sessions.
LEMMA StepKinds ==
  ASSUME IInv, Next
  PROVE  \/ dialogs' = dialogs /\ rtp' = rtp /\ port' = port
         \/ \E i \in CallIds, c \in Calls : InviteStart(i, c)
         \/ \E c \in Calls : BindFailed(c)
         \/ \E c \in Calls : Answer(c)
         \/ \E i \in CallIds : RemoteHangup(i)
         \/ \E c \in Calls : Closing(c)
         \/ Restart
<1>1. ASSUME NEW i \in CallIds, InviteUnchanged(i) \/ InviteBadSdp(i)
      PROVE  dialogs' = dialogs /\ rtp' = rtp /\ port' = port
  BY <1>1 DEF InviteUnchanged, InviteBadSdp, vars, sipVars
<1>2. ASSUME NEW c \in Calls, WsOpen(c) \/ BotCloses(c)
                                \/ (ConnectTimeout(c) /\ ~connecting[c])
      PROVE  dialogs' = dialogs /\ rtp' = rtp /\ port' = port
  BY <1>2 DEF WsOpen, BotCloses, ConnectTimeout, sipVars
<1>. QED
  BY <1>1, <1>2 DEF Next, Peer, CallEvent, Cancel, Bye, Closing

\* A late event of an earlier call never ends the dialog of its successor.
THEOREM DialogEnds == Spec => DialogEndsWithItsCall
<1>. DEFINE A == BindInNextTick =>
                   \A i \in CallIds : \A c \in Calls :
                     dialogs[i] = c /\ dialogs'[i] # c => ended'[c] \/ rtp'[c] = "lost"
<1>1. IInv /\ [Next]_vars => [A]_vars
  <2>. SUFFICES ASSUME IInv, Next, BindInNextTick, NEW i \in CallIds, NEW c \in Calls,
                       dialogs[i] = c, dialogs'[i] # c
                PROVE  ended'[c] \/ rtp'[c] = "lost"
    OBVIOUS
  <2>0. callId[c] = i /\ rtp[c] = "running" /\ ~ended[c] /\ c # NoCall
    BY CallAssumption DEF IInv, DialogOwner
  <2>1. ASSUME NEW j \in CallIds, NEW d \in Calls, InviteStart(j, d) PROVE FALSE
    BY <2>1 DEF InviteStart, NewCall, sipVars
  <2>2. ASSUME NEW d \in Calls, BindFailed(d) PROVE FALSE
    BY <2>2 DEF BindFailed, sipVars
  <2>3. ASSUME NEW d \in Calls, Answer(d) PROVE FALSE
    <3>1. rtp[d] = "binding" /\ dialogs' = [dialogs EXCEPT ![callId[d]] = d]
      BY <2>3 DEF Answer, SetCallTimer
    <3>2. dialogs[callId[d]] = NoCall
      BY <3>1 DEF IInv, OneBindAtATime
    <3>. QED
      BY <2>0, <3>1, <3>2 DEF IInv, TypeOK
  <2>4. ASSUME NEW j \in CallIds, RemoteHangup(j) PROVE ended'[c]
    <3>1. dialogs' = [dialogs EXCEPT ![j] = NoCall]
      BY <2>4, CleanupDialogStep DEF RemoteHangup
    <3>2. j = i
      BY <3>1 DEF IInv, TypeOK
    <3>3. callEnders[j] = c
      BY <3>2 DEF IInv, RegistriesAgree
    <3>4. CloseCall(c, ws[c])
      BY <2>0, <2>4, <3>3 DEF RemoteHangup
    <3>. QED
      BY <3>4 DEF CloseCall, ForgetCall, IInv, TypeOK
  <2>5. ASSUME NEW d \in Calls, Closing(d) PROVE ended'[c]
    <3>1. /\ rtp[d] \in {"running", "stopped"} /\ port' = port
          /\ ~ended[d] /\ ended'[d] /\ callId[d] \in CallIds /\ CleanupDialog(callId[d])
      BY <2>5, ClosingEffect
    <3>2. dialogs' = [dialogs EXCEPT ![callId[d]] = NoCall]
      BY <3>1, CleanupDialogStep
    <3>3. callId[d] = i
      BY <3>1, <3>2 DEF IInv, TypeOK
    <3>4. dialogs[callId[d]] = d
      BY <3>1 DEF IInv, OneBindAtATime
    <3>. QED
      BY <3>1, <3>3, <3>4
  <2>6. ASSUME Restart PROVE rtp'[c] = "lost"
    BY <2>0, <2>6 DEF Restart, LiveCalls
  <2>. QED
    BY <2>1, <2>2, <2>3, <2>4, <2>5, <2>6, StepKinds
<1>. QED
  BY <1>1, Invariance, PTL DEF Spec, DialogEndsWithItsCall

-----------------------------------------------------------------------------
(* The refinement.                                                         *)

served == {c \in Calls : rtp[c] # "unused"}

\* The holder of a used port is the live call it belongs to; a free port has
\* none.
LEMMA HolderFacts ==
  PortsAccounted =>
    /\ \A d \in LiveCalls : HolderOf(port[d]) = d
    /\ \A p : p \notin inUse => HolderOf(p) = NoCall
<1>. SUFFICES ASSUME PortsAccounted
              PROVE  /\ \A d \in LiveCalls : HolderOf(port[d]) = d
                     /\ \A p : p \notin inUse => HolderOf(p) = NoCall
  OBVIOUS
<1>1. ASSUME NEW c \in LiveCalls PROVE HolderOf(port[c]) = c
  <2>1. \A d \in LiveCalls : port[d] = port[c] => d = c
    BY DEF PortsAccounted
  <2>. QED
    BY <2>1 DEF HolderOf
<1>2. ASSUME NEW p, p \notin inUse PROVE HolderOf(p) = NoCall
  BY <1>2 DEF HolderOf, PortsAccounted
<1>. QED
  BY <1>1, <1>2

\* A step that changes no live session and no port is a stutter of the leases.
LEMMA LeaseStutter ==
  ASSUME port' = port, LiveCalls' = LiveCalls, served' = served
  PROVE  UNCHANGED Lease!leaseVars
<1>1. \A p \in Ports : HolderOf(p)' = HolderOf(p)
  BY DEF HolderOf
<1>. QED
  BY <1>1 DEF Lease!leaseVars, served

\* A step that stops one session returns its port.
LEMMA LeaseReturn ==
  ASSUME IInv, IInv', NEW c \in LiveCalls, port' = port,
         LiveCalls' = LiveCalls \ {c}, served' = served
  PROVE  Lease!Return(port[c])
<1>. DEFINE q == port[c]
<1>1. PortsAccounted /\ PortsAccounted' /\ q \in inUse
  BY DEF IInv, PortsAccounted
<1>2. q \in Ports
  BY <1>1 DEF IInv, TypeOK, PoolTypeOK
<1>3. HolderOf(q) = c /\ c # NoCall
  BY <1>1, HolderFacts, CallAssumption DEF LiveCalls
<1>4. q \notin inUse'
  BY <1>1 DEF PortsAccounted
<1>5. HolderOf(q)' = NoCall
  <2>1. (PortsAccounted => \A p : p \notin inUse => HolderOf(p) = NoCall)'
    BY HolderFacts, PTL
  <2>. QED
    BY <1>1, <1>4, <2>1
<1>6. ASSUME NEW p \in Ports, p # q PROVE HolderOf(p)' = HolderOf(p)
  <2>1. \A d : d \in LiveCalls' /\ port'[d] = p <=> d \in LiveCalls /\ port[d] = p
    BY <1>6
  <2>. QED
    BY <2>1 DEF HolderOf
<1>7. [p \in Ports |-> HolderOf(p)]' = [[p \in Ports |-> HolderOf(p)] EXCEPT ![q] = NoCall]
  BY <1>2, <1>5, <1>6
<1>. QED
  BY <1>2, <1>3, <1>7 DEF Lease!Return, served

\* handleInvite grants a port that has no holder.
LEMMA LeaseGrant ==
  ASSUME IInv, IInv', NEW i \in CallIds, NEW c \in Calls, InviteStart(i, c)
  PROVE  \E q \in Ports : Lease!Grant(c, q)
<1>0. PICK q : q = Head(available)
  OBVIOUS
<1>1. /\ rtp[c] = "unused" /\ Allocate(q)
      /\ port' = [port EXCEPT ![c] = q]
      /\ rtp' = [rtp EXCEPT ![c] = "binding"]
  BY <1>0 DEF InviteStart, NewCall
<1>2. q \in Ports /\ q \notin inUse
  BY <1>1, AllocateStep DEF IInv, TypeOK
<1>3. HolderOf(q) = NoCall
  BY <1>2, HolderFacts DEF IInv
<1>4. /\ c \in LiveCalls' /\ port'[c] = q
      /\ \A d \in Calls \ {c} : (d \in LiveCalls' <=> d \in LiveCalls) /\ port'[d] = port[d]
      /\ c \notin LiveCalls
  BY <1>1 DEF LiveCalls, IInv, TypeOK
<1>5. HolderOf(q)' = c
  <2>1. (PortsAccounted =>
           /\ \A d \in LiveCalls : HolderOf(port[d]) = d
           /\ \A p : p \notin inUse => HolderOf(p) = NoCall)'
    BY HolderFacts, PTL
  <2>2. HolderOf(port[c])' = c
    BY <1>4, <2>1 DEF IInv
  <2>. QED
    BY <1>4, <2>2
<1>6. ASSUME NEW p \in Ports, p # q PROVE HolderOf(p)' = HolderOf(p)
  <2>1. \A d : d \in LiveCalls' /\ port'[d] = p <=> d \in LiveCalls /\ port[d] = p
    BY <1>4, <1>6 DEF LiveCalls
  <2>. QED
    BY <2>1 DEF HolderOf
<1>7. [p \in Ports |-> HolderOf(p)]' = [[p \in Ports |-> HolderOf(p)] EXCEPT ![q] = c]
  BY <1>2, <1>5, <1>6
<1>8. c \notin served /\ served' = served \cup {c}
  BY <1>1 DEF served, IInv, TypeOK
<1>. QED
  BY <1>0, <1>2, <1>3, <1>7, <1>8 DEF Lease!Grant, served

\* cleanupDialog is a return of the port, or nothing.
LEMMA LeaseCleanup ==
  ASSUME IInv, IInv', NEW i \in CallIds, CleanupDialog(i), port' = port
  PROVE  (\E p \in Ports : Lease!Return(p)) \/ UNCHANGED Lease!leaseVars
<1>1. rtp' = [c \in Calls |-> IF c = dialogs[i] THEN "stopped" ELSE rtp[c]]
  BY CleanupDialogStep
<1>2. CASE dialogs[i] = NoCall
  <2>1. rtp' = rtp
    BY <1>2 DEF CleanupDialog
  <2>. QED
    BY <2>1, LeaseStutter DEF LiveCalls, served
<1>3. CASE dialogs[i] \in Calls
  <2>. DEFINE d == dialogs[i]
  <2>1. rtp[d] = "running"
    BY <1>3 DEF IInv, DialogOwner
  <2>2. d \in LiveCalls /\ LiveCalls' = LiveCalls \ {d} /\ served' = served
    BY <1>1, <1>3, <2>1 DEF LiveCalls, served, IInv, TypeOK
  <2>3. Lease!Return(port[d])
    BY <2>2, LeaseReturn
  <2>4. port[d] \in Ports
    BY <2>2 DEF IInv, TypeOK, PoolTypeOK, PortsAccounted
  <2>. QED
    BY <2>3, <2>4
<1>. QED
  BY <1>2, <1>3 DEF IInv, TypeOK

\* Every step of the server is a step of the lease manager or a stutter.
LEMMA LeaseNext ==
  ASSUME IInv, IInv', Next
  PROVE  Lease!Next \/ UNCHANGED Lease!leaseVars
<1>1. CASE dialogs' = dialogs /\ rtp' = rtp /\ port' = port
  BY <1>1, LeaseStutter DEF LiveCalls, served
<1>2. ASSUME NEW i \in CallIds, NEW c \in Calls, InviteStart(i, c)
      PROVE  Lease!Next
  BY <1>2, LeaseGrant DEF Lease!Next
<1>3. ASSUME NEW c \in Calls, BindFailed(c)
      PROVE  Lease!Next
  <2>1. c \in LiveCalls /\ port' = port /\ LiveCalls' = LiveCalls \ {c} /\ served' = served
    BY <1>3 DEF BindFailed, LiveCalls, served, IInv, TypeOK
  <2>2. Lease!Return(port[c]) /\ port[c] \in Ports
    BY <2>1, LeaseReturn DEF IInv, TypeOK, PoolTypeOK, PortsAccounted
  <2>. QED
    BY <2>2 DEF Lease!Next
<1>4. ASSUME NEW c \in Calls, Answer(c)
      PROVE  UNCHANGED Lease!leaseVars
  <2>1. port' = port /\ LiveCalls' = LiveCalls /\ served' = served
    BY <1>4 DEF Answer, SetCallTimer, LiveCalls, served, IInv, TypeOK
  <2>. QED
    BY <2>1, LeaseStutter
<1>5. ASSUME NEW i \in CallIds, RemoteHangup(i)
      PROVE  Lease!Next \/ UNCHANGED Lease!leaseVars
  <2>1. CleanupDialog(i) /\ port' = port
    BY <1>5 DEF RemoteHangup
  <2>. QED
    BY <2>1, LeaseCleanup DEF Lease!Next
<1>6. ASSUME NEW c \in Calls, Closing(c)
      PROVE  Lease!Next \/ UNCHANGED Lease!leaseVars
  <2>1. CASE dialogs' = dialogs /\ rtp' = rtp
    BY <1>6, <2>1, ClosingEffect, LeaseStutter DEF LiveCalls, served
  <2>2. CASE CleanupDialog(callId[c]) /\ callId[c] \in CallIds
    BY <1>6, <2>2, ClosingEffect, LeaseCleanup DEF Lease!Next
  <2>. QED
    BY <1>6, <2>1, <2>2, ClosingEffect
<1>7. ASSUME Restart
      PROVE  Lease!Next
  <2>1. /\ rtp' = [c \in Calls |-> IF c \in LiveCalls THEN "lost" ELSE rtp[c]]
        /\ inUse' = {}
    BY <1>7 DEF Restart
  <2>2. (PortsAccounted =>
           /\ \A d \in LiveCalls : HolderOf(port[d]) = d
           /\ \A p : p \notin inUse => HolderOf(p) = NoCall)'
    BY HolderFacts, PTL
  <2>3. \A p \in Ports : HolderOf(p)' = NoCall
    BY <2>1, <2>2 DEF IInv
  <2>4. served' = served
    BY <2>1 DEF served, LiveCalls, IInv, TypeOK
  <2>. QED
    BY <2>3, <2>4 DEF Lease!Next, Lease!ReturnAll, served
<1>. QED
  BY <1>1, <1>2, <1>3, <1>4, <1>5, <1>6, <1>7, StepKinds

\* The server implements the lease manager: no port is ever granted while a
\* session holds it, and every session that ends returns its port.
THEOREM Refinement == Spec => ImplementsPortLease
<1>1. Init => Lease!Init
  <2>. SUFFICES ASSUME Init PROVE Lease!Init
    OBVIOUS
  <2>1. LiveCalls = {} /\ served = {}
    BY DEF Init, LiveCalls, served
  <2>2. \A p \in Ports : HolderOf(p) = NoCall
    BY <2>1 DEF HolderOf
  <2>. QED
    BY <2>1, <2>2 DEF Lease!Init, served
<1>2. IInv /\ IInv' /\ [Next]_vars => [Lease!Next]_(Lease!leaseVars)
  <2>. SUFFICES ASSUME IInv, IInv', [Next]_vars
                PROVE  [Lease!Next]_(Lease!leaseVars)
    OBVIOUS
  <2>1. CASE Next
    BY <2>1, LeaseNext
  <2>2. CASE UNCHANGED vars
    <3>1. port' = port /\ rtp' = rtp
      BY <2>2 DEF vars
    <3>. QED
      BY <3>1, LeaseStutter DEF LiveCalls, served
  <2>. QED
    BY <2>1, <2>2
<1>. QED
  BY <1>1, <1>2, Invariance, PTL DEF Spec, Lease!Spec, ImplementsPortLease
=============================================================================
