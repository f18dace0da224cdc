----------------------------- MODULE RtpSession -----------------------------
(***************************************************************************)
(* The outbound audio of one call: sip/rtp-session.ts, driven by the audio *)
(* and the events that arrive on the Pipecat WebSocket (the onAudioOutput  *)
(* and onEvent handlers of server.ts).                                     *)
(*                                                                         *)
(* The bytes that onAudioOutput passes to sendAudio and that sendAudio     *)
(* accepts are numbered 1, 2, ... in the order they arrive; a queued       *)
(* buffer is the interval of numbers it holds.  Samples and the mu-law     *)
(* encoding are abstracted: a payload is a sequence of byte numbers.       *)
(***************************************************************************)
EXTENDS Integers, Sequences

CONSTANTS
  PacketBytes,       \* SAMPLES_PER_PACKET * 2
  SamplesPerPacket,  \* SAMPLES_PER_PACKET
  SeqModulus,        \* 2^16: & 0xFFFF
  TsModulus,         \* 2^32: >>> 0
  ChunkSizes,        \* the sizes of the buffers that arrive
  MaxBytes           \* bound: bytes accepted in a run

ASSUME RtpAssumption ==
  /\ PacketBytes \in Nat \ {0}
  /\ SamplesPerPacket \in Nat
  /\ SeqModulus \in Nat \ {0, 1}
  /\ TsModulus \in Nat \ {0, 1}
  /\ ChunkSizes \subseteq Nat
  /\ MaxBytes \in Nat

VARIABLES
  phase,          \* "new", "running" or "stopped": `running', the socket and
                  \* the send timer, which start() and stop() change together
  remoteSet,      \* setRemote was called
  muted,
  outboundQueue,
  sequenceNumber,
  timestamp,
  \* history
  accepted,       \* number of bytes accepted so far
  bargeIn,        \* the value of `accepted' at the last barge-in event
  packet          \* the last packet sent

queueVars == <<outboundQueue, accepted>>
headerVars == <<sequenceNumber, timestamp>>
vars == <<phase, remoteSet, muted, outboundQueue, sequenceNumber, timestamp,
          accepted, bargeIn, packet>>

Chunk(first, n) == [first |-> first, len |-> n]
BytesOf(chunk) == [i \in 1..chunk.len |-> chunk.first + i - 1]

Pad == 0
Silence == [i \in 1..PacketBytes |-> Pad]
NoPacket == [seq |-> 0, ts |-> 0, payload |-> Silence]

Init ==
  /\ phase = "new"
  /\ remoteSet = FALSE
  /\ muted = FALSE
  /\ outboundQueue = <<>>
  /\ sequenceNumber \in 0..(SeqModulus - 2)
  /\ timestamp \in 0..(TsModulus - 2)
  /\ accepted = 0
  /\ bargeIn = 0
  /\ packet = NoPacket

\* The "listening" callback of start(), and setRemote, which handleInvite
\* calls when the start() it awaits has resolved.
Start ==
  /\ phase = "new"
  /\ phase' = "running"
  /\ UNCHANGED <<remoteSet, muted, queueVars, headerVars, bargeIn, packet>>

SetRemote ==
  /\ phase = "running"
  /\ ~remoteSet
  /\ remoteSet' = TRUE
  /\ UNCHANGED <<phase, muted, queueVars, headerVars, bargeIn, packet>>

\* The early returns of sendAudio.
Accepts == phase = "running" /\ ~muted

\* onAudioOutput: a buffer of n bytes; the WebSocket of a call that ended may
\* still deliver some.
SendAudio(n) ==
  /\ phase # "new"
  /\ accepted + n <= MaxBytes
  /\ IF Accepts
       THEN /\ outboundQueue' = Append(outboundQueue, Chunk(accepted + 1, n))
            /\ accepted' = accepted + n
       ELSE UNCHANGED queueVars
  /\ UNCHANGED <<phase, remoteSet, muted, headerVars, bargeIn, packet>>

\* A mutant of SetMuted: the queue is kept.
SetMutedKeepsQueue(value) ==
  /\ muted' = value
  /\ UNCHANGED outboundQueue

SetMuted(value) ==
  /\ muted' = value
  /\ outboundQueue' = IF value /\ ~muted THEN <<>> ELSE outboundQueue

\* onEvent: user_speaking true, asr_partial, asr_final.
BargeIn ==
  /\ phase # "new"
  /\ SetMuted(TRUE)
  /\ bargeIn' = accepted
  /\ UNCHANGED <<phase, remoteSet, accepted, headerVars, packet>>

\* onEvent: llm_start, tts_start, user_speaking false.
TurnStart ==
  /\ phase # "new"
  /\ SetMuted(FALSE)
  /\ UNCHANGED <<phase, remoteSet, accepted, headerVars, bargeIn, packet>>

Front(chunk, n) == Chunk(chunk.first, n)

\* A mutant of Back: the split buffer stays queued as it was.
BackWhole(chunk, n) == chunk

Back(chunk, n) == Chunk(chunk.first + n, chunk.len - n)

\* A mutant of DrainStep: the rest of a split buffer is queued again, at the end.
DrainStepRequeues(state) ==
  LET chunk == Head(state.rest) IN
  IF state.remaining = 0 \/ state.rest = <<>> THEN state
  ELSE IF chunk.len <= state.remaining
    THEN [out |-> state.out \o BytesOf(chunk), remaining |-> state.remaining - chunk.len,
          rest |-> Tail(state.rest)]
    ELSE [out |-> state.out \o BytesOf(Front(chunk, state.remaining)), remaining |-> 0,
          rest |-> Append(Tail(state.rest), Back(chunk, state.remaining))]

\* A mutant of DrainStep: a buffer that does not fit waits for the next packet.
DrainStepWaits(state) ==
  LET chunk == Head(state.rest) IN
  IF state.remaining = 0 \/ state.rest = <<>> THEN state
  ELSE IF chunk.len <= state.remaining
    THEN [out |-> state.out \o BytesOf(chunk), remaining |-> state.remaining - chunk.len,
          rest |-> Tail(state.rest)]
    ELSE [out |-> state.out, remaining |-> 0, rest |-> state.rest]

\* One iteration of drainQueue's loop: what was taken, how many bytes are
\* still wanted, and the queue.
DrainStep(state) ==
  LET chunk == Head(state.rest) IN
  IF state.remaining = 0 \/ state.rest = <<>> THEN state
  ELSE IF chunk.len <= state.remaining
    THEN [out |-> state.out \o BytesOf(chunk), remaining |-> state.remaining - chunk.len,
          rest |-> Tail(state.rest)]
    ELSE [out |-> state.out \o BytesOf(Front(chunk, state.remaining)), remaining |-> 0,
          rest |-> <<Back(chunk, state.remaining)>> \o Tail(state.rest)]

\* drainQueue(PacketBytes), before padding: an iteration that is not the last
\* takes a buffer off the queue, so there are no more than it has buffers.
Drain(queue) ==
  LET after[n \in 0..Len(queue)] ==
        IF n = 0 THEN [out |-> <<>>, remaining |-> PacketBytes, rest |-> queue]
        ELSE DrainStep(after[n - 1])
  IN  after[Len(queue)]

Padded(drained) == drained.out \o [i \in 1..drained.remaining |-> Pad]

\* A mutant of NextSequence: no & 0xFFFF.
NextSequenceUnmasked == sequenceNumber + 1

NextSequence == (sequenceNumber + 1) % SeqModulus

\* The send loop, every 20 ms.
SendPacket ==
  LET drained == Drain(outboundQueue) IN
  /\ phase = "running"
  /\ remoteSet
  /\ packet' = [seq |-> sequenceNumber, ts |-> timestamp,
                payload |-> IF outboundQueue = <<>> THEN Silence ELSE Padded(drained)]
  /\ outboundQueue' = IF outboundQueue = <<>> THEN <<>> ELSE drained.rest
  /\ sequenceNumber' = NextSequence
  /\ timestamp' = (timestamp + SamplesPerPacket) % TsModulus
  /\ UNCHANGED <<phase, remoteSet, muted, accepted, bargeIn>>

Stop ==
  /\ phase = "running"
  /\ phase' = "stopped"
  /\ outboundQueue' = <<>>
  /\ UNCHANGED <<remoteSet, muted, accepted, headerVars, bargeIn, packet>>

Next ==
  \/ Start
  \/ SetRemote
  \/ \E n \in ChunkSizes : SendAudio(n)
  \/ BargeIn
  \/ TurnStart
  \/ SendPacket
  \/ Stop

Spec == Init /\ [][Next]_vars

\* setInterval keeps firing and handleInvite goes on to setRemote.
FairSpec == Spec /\ WF_vars(SendPacket) /\ WF_vars(SetRemote)

-----------------------------------------------------------------------------
\* The header fields stay within their 16 and 32 bits, which
\* writeUInt16BE and writeUInt32BE require.
TypeOK ==
  /\ phase \in {"new", "running", "stopped"}
  /\ remoteSet \in BOOLEAN
  /\ muted \in BOOLEAN
  /\ \A i \in DOMAIN outboundQueue : outboundQueue[i] \in [first : Nat, len : Nat]
  /\ sequenceNumber \in 0..(SeqModulus - 1)
  /\ timestamp \in 0..(TsModulus - 1)
  /\ accepted \in 0..MaxBytes
  /\ bargeIn \in 0..MaxBytes

\* What is queued is a gapless run of the accepted bytes up to the newest:
\* splitting buffers into packets neither loses, repeats nor reorders audio.
QueueIsContiguous ==
  \A i \in 1..Len(outboundQueue) :
    outboundQueue[i].first + outboundQueue[i].len =
      IF i = Len(outboundQueue) THEN accepted + 1 ELSE outboundQueue[i + 1].first

\* The number of the byte that is to be sent next.
Oldest == IF outboundQueue = <<>> THEN accepted + 1 ELSE outboundQueue[1].first

\* No audio that was accepted before the last barge-in event is waiting to be
\* sent, in particular none that slipped in while muted: "while muted, the
\* queue stays empty".
BargeInDropsAudio ==
  /\ \A i \in DOMAIN outboundQueue : outboundQueue[i].first > bargeIn
  /\ muted => outboundQueue = <<>>

\* A packet carries exactly one frame: the oldest bytes that are waiting, padded
\* only if they run out (silence if none are waiting), and the next packet goes
\* on with the byte after them.
PacketsContinue ==
  [][packet' # packet =>
       LET payload == packet'.payload
       IN  /\ Len(payload) = PacketBytes
           /\ \A i \in 1..PacketBytes :
                payload[i] = IF Oldest + i - 1 <= accepted THEN Oldest + i - 1 ELSE Pad
           /\ Oldest' = IF Oldest + PacketBytes <= accepted THEN Oldest + PacketBytes
                        ELSE accepted + 1]_vars

\* The oldest queued audio does not stay at the head of the queue: the queue
\* runs empty, or what is at its head is sent, again and again, even when it
\* does not fill a packet or is longer than one.
HeadMoves == []<>(outboundQueue = <<>>) \/ []<><<Oldest' # Oldest>>_Oldest
=============================================================================
