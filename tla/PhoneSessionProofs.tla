------------------------- MODULE PhoneSessionProofs -------------------------
(***************************************************************************)
(* Proofs about PhoneSession, for any number of connections, whether or    *)
(* not they share call_ids: that each tool call that ends a call leads to  *)
(* one EndTaskFrame, and that a call that is over leaves nothing behind.   *)
(***************************************************************************)
EXTENDS PhoneSession, SequenceTheorems, TLAPS

Tasks == {"grace", "flush", "summary"}

RequestRecord ==
  [op : {"put", "turns", "summary"}, conn : Conns, task : Tasks, owner : Conns,
   transfer : BOOLEAN, turns : Seq(Entry), status : Statuses]

Row == [outcome : BOOLEAN, transfer : BOOLEAN, flushed : BOOLEAN,
        turns : Seq(Entry), status : Statuses]

\* TypeOK, and what it does not say of the sequences and the histories.
TypeInv ==
  /\ sessions \in [CallIds -> Session \cup {None}]
  /\ buffers \in [CallIds -> Seq(Entry) \cup {None}]
  /\ meta \in [CallIds -> Meta \cup {None}]
  /\ rows \in [CallIds -> Row]
  /\ requests \in [CallIds -> Seq(RequestRecord)]
  /\ pc \in [Conns -> Phases]
  /\ scope \in [Conns -> {"phone", "web"}]
  /\ observed \in [Conns -> 0..MaxTurns]
  /\ recorded \in [Conns -> 0..MaxTurns]
  /\ ending \in [Conns -> BOOLEAN]
  /\ handler \in [Conns -> [Calls -> Tools \cup {"none", "returned", "cancelled"}]]
  /\ grace \in [Conns -> {"none", "sleeping", "writing", "done"}]
  /\ endTask \in [Conns -> Nat]
  /\ flush \in [Conns -> {"none", "start", "putting", "updating", "done"}]
  /\ summary \in [Conns -> {"none", "invoking", "updating", "done"}]
  /\ watching \in [Monitors -> CallIds \cup {None, "lost"}]
  /\ failed \subseteq Conns \X Tasks
  /\ asked \subseteq Conns

\* A request is awaited by the task that made it, and a task awaits one.
Awaited(id, r) ==
  /\ CallIdOf[r.conn] = id
  /\ r.task = "grace" => r.op = "put" /\ grace[r.conn] = "writing"
  /\ r.task = "flush" => \/ r.op = "put" /\ flush[r.conn] = "putting"
                         \/ r.op = "turns" /\ flush[r.conn] = "updating"
  /\ r.task = "summary" => r.op = "summary" /\ summary[r.conn] = "updating"

RequestsAreAwaited ==
  \A id \in CallIds :
    /\ \A i \in 1..Len(requests[id]) : Awaited(id, requests[id][i])
    /\ \A i, j \in 1..Len(requests[id]) :
         /\ requests[id][i].conn = requests[id][j].conn
         /\ requests[id][i].task = requests[id][j].task
         => i = j

\* The first tool call sets the flag, and no other goes on to the grace task.
OneGrace(c) ==
  /\ \A k \in Calls : handler[c][k] \in Tools =>
       /\ ending[c] /\ grace[c] = "none"
       /\ \A l \in Calls : handler[c][l] \in Tools => l = k
  /\ grace[c] # "none" => ending[c]
  /\ endTask[c] = IF grace[c] = "done" THEN 1 ELSE 0
  /\ ending[c] => \/ \E k \in Calls : handler[c][k] \in Tools \cup {"cancelled"}
                  \/ grace[c] # "none"

\* The flush starts when the endpoint is done, and the summary when the flush is.
TasksInOrder ==
  \A c \in Conns :
    /\ flush[c] # "none" => pc[c] = "ended"
    /\ summary[c] # "none" => flush[c] = "done"

\* Somebody will still remove what the memory holds of a call.
Holds(c) == pc[c] \in {"building", "running", "stopping", "broken"} \/ flush[c] \in {"start", "putting"}

Held(id) == \E c \in Conns : CallIdOf[c] = id /\ Holds(c)

Kept(id) == meta[id] # None \/ \E i \in 1..Len(Buffered(id)) : Buffered(id)[i].turn # 0

SessionHeld(id) ==
  sessions[id] # None =>
    \E c \in Conns : CallIdOf[c] = id /\ pc[c] \in Registered \cup {"broken"}

MemoryIsHeld == \A id \in CallIds : SessionHeld(id) /\ (Kept(id) => Held(id))

IInv ==
  /\ TypeInv
  /\ TasksInOrder
  /\ RequestsAreAwaited
  /\ \A c \in Conns : OneGrace(c)
  /\ MemoryIsHeld

-----------------------------------------------------------------------------
(* The requests of one call_id *)

\* RemoveAt takes one element out, and the later ones move up.
LEMMA RemoveAtSeq ==
  ASSUME NEW S, NEW s \in Seq(S), NEW i \in 1..Len(s)
  PROVE  /\ RemoveAt(s, i) \in Seq(S)
         /\ Len(RemoveAt(s, i)) = Len(s) - 1
         /\ \A j \in 1..Len(s) - 1 : RemoveAt(s, i)[j] = s[IF j < i THEN j ELSE j + 1]
<1> DEFINE before == SubSeq(s, 1, i - 1)
           after  == SubSeq(s, i + 1, Len(s))
<1>1. Len(s) \in Nat /\ \A j \in 1..Len(s) : s[j] \in S
  BY LenProperties, ElementOfSeq
<1>2. before \in Seq(S) /\ Len(before) = i - 1 /\ \A j \in 1..i - 1 : before[j] = s[j]
  <2>1. \A j \in 1..i - 1 : s[j] \in S
    BY <1>1
  <2>. QED  BY <1>1, <2>1, SubSeqProperties, Z3
<1>3. /\ after \in Seq(S)
      /\ Len(after) = Len(s) - i
      /\ \A j \in 1..Len(s) - i : after[j] = s[i + j]
  <2>1. \A j \in i + 1..Len(s) : s[j] \in S
    BY <1>1
  <2>. QED  BY <1>1, <2>1, SubSeqProperties, Z3
<1>4. /\ before \o after \in Seq(S)
      /\ Len(before \o after) = Len(s) - 1
      /\ \A j \in 1..Len(s) - 1 :
           (before \o after)[j] = IF j <= i - 1 THEN before[j] ELSE after[j - (i - 1)]
  <2>. HIDE DEF before, after
  <2>1. /\ before \o after \in Seq(S)
        /\ Len(before \o after) = Len(before) + Len(after)
        /\ \A j \in 1..Len(before) + Len(after) :
             (before \o after)[j] = IF j <= Len(before) THEN before[j] ELSE after[j - Len(before)]
    BY <1>2, <1>3, ConcatProperties, Zenon
  <2>2. Len(before) + Len(after) = Len(s) - 1
    BY <1>1, <1>2, <1>3
  <2>. QED  BY <1>2, <2>1, <2>2, Zenon
<1>5. RemoveAt(s, i) = before \o after
  BY DEF RemoveAt
<1>6. ASSUME NEW j \in 1..Len(s) - 1
      PROVE  (before \o after)[j] = s[IF j < i THEN j ELSE j + 1]
  <2>. HIDE DEF before, after
  <2>. QED  BY <1>1, <1>2, <1>3, <1>4
<1>. QED  BY <1>4, <1>5, <1>6

\* What a step does to the requests: the one at position i of id, if there is
\* one, is over, and those in new are made.
Older(i, j) == IF j < i THEN j ELSE j + 1

Requested(id, i, new) ==
  /\ requests' \in [CallIds -> Seq(RequestRecord)]
  /\ \A d \in CallIds : d # id => requests'[d] = requests[d]
  /\ \A j \in 1..Len(requests'[id]) :
       \/ /\ Older(i, j) \in 1..Len(requests[id])
          /\ requests'[id][j] = requests[id][Older(i, j)]
       \/ /\ j = Len(requests'[id])
          /\ requests'[id][j] \in new

LEMMA AppendRequested ==
  ASSUME requests \in [CallIds -> Seq(RequestRecord)], NEW id \in CallIds,
         NEW r \in RequestRecord,
         requests' = [requests EXCEPT ![id] = Append(requests[id], r)]
  PROVE  Requested(id, Len(requests[id]) + 1, {r})
<1> DEFINE s == requests[id]
<1>1. s \in Seq(RequestRecord) /\ Len(s) \in Nat
  BY LenProperties
<1>2. /\ Append(s, r) \in Seq(RequestRecord)
      /\ Len(Append(s, r)) = Len(s) + 1
      /\ \A j \in 1..Len(s) : Append(s, r)[j] = s[j]
      /\ Append(s, r)[Len(s) + 1] = r
  BY <1>1, AppendProperties
<1>3. requests'[id] = Append(s, r)
  OBVIOUS
<1>4. ASSUME NEW j \in 1..Len(requests'[id])
      PROVE  \/ Older(Len(s) + 1, j) \in 1..Len(s) /\ requests'[id][j] = s[Older(Len(s) + 1, j)]
             \/ j = Len(requests'[id]) /\ requests'[id][j] \in {r}
  <2>. HIDE DEF s
  <2>1. CASE j = Len(s) + 1
    BY <1>1, <1>2, <1>3, <2>1
  <2>2. CASE j # Len(s) + 1
    BY <1>1, <1>2, <1>3, <2>2 DEF Older
  <2>. QED  BY <2>1, <2>2
<1>5. requests' \in [CallIds -> Seq(RequestRecord)]
  BY <1>2
<1>. QED  BY <1>4, <1>5 DEF Requested

LEMMA OthersRequested ==
  ASSUME requests \in [CallIds -> Seq(RequestRecord)], NEW id \in CallIds,
         NEW i \in 1..Len(requests[id]),
         requests' = [requests EXCEPT ![id] = Others(id, i)]
  PROVE  Requested(id, i, {})
<1> DEFINE s == requests[id]
<1>1. s \in Seq(RequestRecord) /\ Len(s) \in Nat
  BY LenProperties
<1>2. /\ RemoveAt(s, i) \in Seq(RequestRecord)
      /\ Len(RemoveAt(s, i)) = Len(s) - 1
      /\ \A j \in 1..Len(s) - 1 : RemoveAt(s, i)[j] = s[Older(i, j)]
  BY <1>1, RemoveAtSeq DEF Older
<1>3. requests'[id] = RemoveAt(s, i)
  BY DEF Others
<1>4. ASSUME NEW j \in 1..Len(requests'[id])
      PROVE  Older(i, j) \in 1..Len(s) /\ requests'[id][j] = s[Older(i, j)]
  <2>. HIDE DEF s
  <2>. QED  BY <1>1, <1>2, <1>3 DEF Older
<1>5. requests' \in [CallIds -> Seq(RequestRecord)]
  BY <1>2 DEF Others
<1>. QED  BY <1>4, <1>5 DEF Requested

LEMMA ReplacedRequested ==
  ASSUME requests \in [CallIds -> Seq(RequestRecord)], NEW id \in CallIds,
         NEW i \in 1..Len(requests[id]), NEW r \in RequestRecord,
         requests' = [requests EXCEPT ![id] = Append(Others(id, i), r)]
  PROVE  Requested(id, i, {r})
<1> DEFINE s == requests[id]
           t == RemoveAt(s, i)
<1>1. s \in Seq(RequestRecord) /\ Len(s) \in Nat
  BY LenProperties
<1>2. /\ t \in Seq(RequestRecord)
      /\ Len(t) = Len(s) - 1
      /\ \A j \in 1..Len(s) - 1 : t[j] = s[Older(i, j)]
  BY <1>1, RemoveAtSeq DEF Older
<1>3. /\ Append(t, r) \in Seq(RequestRecord)
      /\ Len(Append(t, r)) = Len(t) + 1
      /\ \A j \in 1..Len(t) : Append(t, r)[j] = t[j]
      /\ Append(t, r)[Len(t) + 1] = r
  <2>. HIDE DEF t
  <2>. QED  BY <1>2, AppendProperties
<1>4. requests'[id] = Append(t, r)
  BY DEF Others
<1>5. ASSUME NEW j \in 1..Len(requests'[id])
      PROVE  \/ Older(i, j) \in 1..Len(s) /\ requests'[id][j] = s[Older(i, j)]
             \/ j = Len(requests'[id]) /\ requests'[id][j] \in {r}
  <2>. HIDE DEF s, t
  <2>1. CASE j = Len(t) + 1
    BY <1>1, <1>2, <1>3, <1>4, <2>1
  <2>2. CASE j # Len(t) + 1
    BY <1>1, <1>2, <1>3, <1>4, <2>2 DEF Older
  <2>. QED  BY <2>1, <2>2
<1>6. requests' \in [CallIds -> Seq(RequestRecord)]
  BY <1>3 DEF Others
<1>. QED  BY <1>5, <1>6 DEF Requested

-----------------------------------------------------------------------------
(* Types *)

LEMMA InitTypes == Init => TypeInv
<1>1. SUFFICES ASSUME Init PROVE TypeInv
  OBVIOUS
<1>2. <<>> \in Seq(Entry) /\ <<>> \in Seq(RequestRecord)
  BY EmptySeq
<1>3. NoRow \in Row
  BY <1>2 DEF NoRow, Row, Statuses
<1>4. /\ sessions \in [CallIds -> Session \cup {None}]
      /\ buffers \in [CallIds -> Seq(Entry) \cup {None}]
      /\ meta \in [CallIds -> Meta \cup {None}]
      /\ rows \in [CallIds -> Row]
      /\ requests \in [CallIds -> Seq(RequestRecord)]
  BY <1>1, <1>2, <1>3 DEF Init, RegistryInit, HistoryInit
<1>5. 0 \in 0..MaxTurns
  BY SessionAssumption
<1>. QED  BY <1>1, <1>4, <1>5 DEF Init, TypeInv, Phases, Tools

\* What the buffers hold once an entry is appended.
LEMMA AppendEntryTypes ==
  ASSUME TypeInv, NEW c \in Conns, NEW turn \in Nat, NEW id \in CallIds, AppendEntry(id, c, turn)
  PROVE  buffers' \in [CallIds -> Seq(Entry) \cup {None}]
<1>1. Buffered(id) \in Seq(Entry)
  BY EmptySeq DEF Buffered, TypeInv
<1>2. [conn |-> c, turn |-> turn] \in Entry
  BY DEF Entry
<1>3. Append(Buffered(id), [conn |-> c, turn |-> turn]) \in Seq(Entry)
  BY <1>1, <1>2, AppendProperties
<1>. QED  BY <1>3 DEF AppendEntry, TypeInv

\* The request of an outcome row is a request.
LEMMA PutIsARequest ==
  ASSUME TypeInv, NEW id \in CallIds, NEW c \in Conns, NEW task \in Tasks, meta[id] # None
  PROVE  Request("put", c, task, meta[id].conn, meta[id].transfer, <<>>, "pending") \in RequestRecord
<1>1. meta[id] \in Meta
  BY DEF TypeInv
<1>. QED  BY <1>1, EmptySeq DEF Request, RequestRecord, Meta, Statuses, Tasks

\* So is that of a transcript.
LEMMA TurnsIsARequest ==
  ASSUME TypeInv, NEW id \in CallIds, NEW c \in Conns, NEW m \in [CallIds -> Meta \cup {None}],
         m[id] # None
  PROVE  Request("turns", c, "flush", m[id].conn, FALSE, Buffered(id), "none") \in RequestRecord
<1>1. m[id] \in Meta
  OBVIOUS
<1>2. Buffered(id) \in Seq(Entry)
  BY EmptySeq DEF Buffered, TypeInv
<1>. QED  BY <1>1, <1>2 DEF Request, RequestRecord, Meta, Statuses, Tasks

\* And that of a summary.
LEMMA SummaryIsARequest ==
  ASSUME NEW c \in Conns, NEW status \in {"ok", "failed"}
  PROVE  Request("summary", c, "summary", c, FALSE, <<>>, status) \in RequestRecord
BY EmptySeq DEF Request, RequestRecord, Statuses, Tasks

\* What PopAndUpdate leaves, of a meta and of the other requests.
LEMMA PopAndUpdateTypes ==
  ASSUME TypeInv, NEW c \in Conns, NEW m \in [CallIds -> Meta \cup {None}],
         NEW rest \in Seq(RequestRecord), PopAndUpdate(c, m, rest)
  PROVE  /\ buffers' \in [CallIds -> Seq(Entry) \cup {None}]
         /\ meta' \in [CallIds -> Meta \cup {None}]
         /\ requests' \in [CallIds -> Seq(RequestRecord)]
         /\ flush' \in [Conns -> {"none", "start", "putting", "updating", "done"}]
<1> DEFINE id == CallIdOf[c]
           r == Request("turns", c, "flush", m[id].conn, FALSE, Buffered(id), "none")
<1>1. id \in CallIds
  BY SessionAssumption
<1>2. m[id] # None => Append(rest, r) \in Seq(RequestRecord)
  <2>1. SUFFICES ASSUME m[id] # None PROVE Append(rest, r) \in Seq(RequestRecord)
    OBVIOUS
  <2>2. r \in RequestRecord
    BY <1>1, <2>1, TurnsIsARequest
  <2>. HIDE DEF r
  <2>. QED  BY <2>2, AppendProperties
<1>3. requests' \in [CallIds -> Seq(RequestRecord)]
  <2>. HIDE DEF r
  <2>1. CASE m[id] = None
    <3>1. requests' = [requests EXCEPT ![id] = rest]
      BY <2>1 DEF PopAndUpdate
    <3>. QED  BY <1>1, <3>1 DEF TypeInv
  <2>2. CASE m[id] # None
    <3>1. requests' = [requests EXCEPT ![id] = Append(rest, r)]
      BY <2>2 DEF PopAndUpdate, r
    <3>. QED  BY <1>1, <1>2, <2>2, <3>1 DEF TypeInv
  <2>. QED  BY <2>1, <2>2
<1>. QED  BY <1>1, <1>3 DEF PopAndUpdate, TypeInv

\* A request leaves a row of the table a row.
LEMMA ApplyToTypes ==
  ASSUME NEW row \in Row, NEW r \in RequestRecord
  PROVE  ApplyTo(row, r) \in Row
<1>1. CASE r.op = "put"
  BY <1>1, EmptySeq DEF ApplyTo, Row, RequestRecord, Statuses
<1>2. CASE r.op = "turns"
  BY <1>2 DEF ApplyTo, Row, RequestRecord
<1>3. CASE r.op = "summary"
  BY <1>3 DEF ApplyTo, Row, RequestRecord
<1>. QED  BY <1>1, <1>2, <1>3 DEF RequestRecord

\* An outcome row that is written marks the dict of its call, if it is there.
LEMMA OutcomeWrittenTypes ==
  ASSUME TypeInv, NEW id \in CallIds, NEW r \in RequestRecord
  PROVE  OutcomeWritten(id, r) \in [CallIds -> Meta \cup {None}]
<1>1. CASE meta[id] # None /\ meta[id].conn = r.owner
  <2>1. [meta[id] EXCEPT !.written = TRUE] \in Meta
    <3>1. meta[id] \in Meta
      BY <1>1 DEF TypeInv
    <3>. QED  BY <3>1 DEF Meta
  <2>. QED  BY <1>1, <2>1 DEF OutcomeWritten, TypeInv
<1>2. CASE ~(meta[id] # None /\ meta[id].conn = r.owner)
  BY <1>2 DEF OutcomeWritten, TypeInv
<1>. QED  BY <1>1, <1>2

\* Asking for a human marks the dict of the call, if it is there.
LEMMA MarkTypes ==
  ASSUME TypeInv, NEW c \in Conns, Mark(c)
  PROVE  meta' \in [CallIds -> Meta \cup {None}]
<1> DEFINE id == CallIdOf[c]
<1>1. id \in CallIds
  BY SessionAssumption
<1>2. CASE scope[c] = "phone" /\ meta[id] # None
  <2>1. [meta[id] EXCEPT !.transfer = TRUE] \in Meta
    <3>1. meta[id] \in Meta
      BY <1>1, <1>2 DEF TypeInv
    <3>. QED  BY <3>1 DEF Meta
  <2>2. meta' = [meta EXCEPT ![id].transfer = TRUE]
    BY <1>2 DEF Mark, MarkTransfer
  <2>. QED  BY <1>1, <2>1, <2>2 DEF TypeInv
<1>3. CASE ~(scope[c] = "phone" /\ meta[id] # None)
  BY <1>3 DEF Mark, MarkTransfer, TypeInv
<1>. QED  BY <1>2, <1>3

\* The steps of a connection that move its endpoint and nothing else.
Moves(c) == TwilioConnects(c) \/ TwilioRefused(c) \/ Run(c) \/ BuildFails(c) \/ PipelineEnds(c)

LEMMA EndpointTypes ==
  ASSUME TypeInv, NEW c \in Conns,
         Moves(c) \/ Connect(c) \/ Begin(c) \/ WebConnects(c) \/ Cleanup(c)
  PROVE  TypeInv'
<1>1. CallIdOf[c] \in CallIds
  BY SessionAssumption
<1>2. CASE Moves(c)
  BY <1>2 DEF Moves, TwilioConnects, TwilioRefused, Run, BuildFails, PipelineEnds, Goto, TypeInv,
              Phases, historyVars, turnVars, toolVars, taskVars, peerVars
<1>3. CASE Connect(c)
  <2>1. [conn |-> c, monitors |-> {}] \in Session
    BY DEF Session
  <2>. QED  BY <1>1, <1>3, <2>1 DEF Connect, Register, Goto, TypeInv, Phases, historyVars, turnVars,
                                    toolVars, taskVars, peerVars
<1>4. ASSUME Attach(CallIdOf[c], c)
      PROVE  /\ buffers' \in [CallIds -> Seq(Entry) \cup {None}]
             /\ meta' \in [CallIds -> Meta \cup {None}]
  <2>1. [conn |-> c, transfer |-> FALSE, written |-> FALSE] \in Meta
    BY DEF Meta
  <2>2. Buffered(CallIdOf[c]) \in Seq(Entry)
    BY <1>1, EmptySeq DEF Buffered, TypeInv
  <2>. QED  BY <1>1, <1>4, <2>1, <2>2 DEF Attach, TypeInv
<1>5. CASE Begin(c)
  BY <1>4, <1>5 DEF Begin, Attach, Goto, TypeInv, Phases, turnVars, toolVars, taskVars, peerVars
<1>6. CASE WebConnects(c)
  <2>1. [conn |-> c, monitors |-> {}] \in Session
    BY DEF Session
  <2>2. /\ sessions' \in [CallIds -> Session \cup {None}]
        /\ scope' \in [Conns -> {"phone", "web"}]
        /\ pc' \in [Conns -> Phases]
    BY <1>1, <1>6, <2>1 DEF WebConnects, Register, Goto, TypeInv, Phases
  <2>. QED  BY <1>4, <1>6, <2>2 DEF WebConnects, Attach, TypeInv, turnVars, toolVars, taskVars
<1>7. CASE Cleanup(c)
  BY <1>1, <1>7 DEF Cleanup, Unregister, Goto, TypeInv, Phases, historyVars, turnVars, toolVars,
                    peerVars
<1>. QED  BY <1>2, <1>3, <1>5, <1>6, <1>7

LEMMA TurnTypes ==
  ASSUME TypeInv, NEW c \in Conns, FinalTurn(c) \/ Tee(c)
  PROVE  TypeInv'
<1>1. CallIdOf[c] \in CallIds
  BY SessionAssumption
<1>2. CASE FinalTurn(c)
  <2>1. observed[c] + 1 \in 0..MaxTurns
    BY <1>2, SessionAssumption DEF FinalTurn, TypeInv
  <2>. QED  BY <1>2, <2>1 DEF FinalTurn, TypeInv, historyVars, toolVars, taskVars, peerVars
<1>3. CASE Tee(c)
  <2>1. recorded[c] + 1 \in 0..MaxTurns /\ recorded[c] + 1 \in Nat
    BY <1>3, SessionAssumption DEF Tee, TypeInv
  <2>2. buffers' \in [CallIds -> Seq(Entry) \cup {None}]
    BY <1>1, <1>3, <2>1, AppendEntryTypes DEF Tee
  <2>. QED  BY <1>3, <2>1, <2>2 DEF Tee, TypeInv, toolVars, taskVars, peerVars
<1>. QED  BY <1>2, <1>3

LEMMA ToolTypes ==
  ASSUME TypeInv, NEW c \in Conns, NEW k \in Calls,
         (\E tool \in Tools : ToolStart(c, k, tool)) \/ ToolFinish(c, k)
  PROVE  TypeInv'
<1>1. CallIdOf[c] \in CallIds
  BY SessionAssumption
<1>2. ASSUME NEW tool \in Tools, ToolStart(c, k, tool)
      PROVE  TypeInv'
  <2>1. meta' \in [CallIds -> Meta \cup {None}]
    BY <1>2, MarkTypes DEF ToolStart, TypeInv
  <2>2. handler' \in [Conns -> [Calls -> Tools \cup {"none", "returned", "cancelled"}]]
    <3>1. PICK state \in Tools \cup {"returned"} : handler' = [handler EXCEPT ![c][k] = state]
      BY <1>2 DEF ToolStart
    <3>2. [handler[c] EXCEPT ![k] = state] \in [Calls -> Tools \cup {"none", "returned", "cancelled"}]
      BY DEF TypeInv
    <3>. QED  BY <3>1, <3>2 DEF TypeInv
  <2>3. ending' \in [Conns -> BOOLEAN]
    BY <1>2 DEF ToolStart, TypeInv
  <2>4. asked' \subseteq Conns
    <3>1. asked' = asked \/ asked' = asked \cup {c}
      BY <1>2, Zenon DEF ToolStart
    <3>. QED  BY <3>1 DEF TypeInv
  <2>. QED  BY <1>2, <2>1, <2>2, <2>3, <2>4 DEF ToolStart, TypeInv, turnVars, taskVars, peerVars
<1>3. ASSUME ToolFinish(c, k)
      PROVE  TypeInv'
  <2>1. buffers' \in [CallIds -> Seq(Entry) \cup {None}]
    BY <1>1, <1>3, AppendEntryTypes DEF ToolFinish, AppendTool, TypeInv
  <2>. QED  BY <1>3, <2>1 DEF ToolFinish, TypeInv, turnVars, taskVars, peerVars
<1>. QED  BY <1>2, <1>3

LEMMA TaskTypes ==
  ASSUME TypeInv, NEW c \in Conns,
         Interruption(c) \/ GraceOver(c) \/ FlushStart(c) \/ Summarize(c)
  PROVE  TypeInv'
<1> DEFINE id == CallIdOf[c]
<1>1. id \in CallIds
  BY SessionAssumption
<1>2. ASSUME NEW task \in Tasks, PutOutcome(id, c, task), ~OutcomeIsWritten(id)
      PROVE  requests' \in [CallIds -> Seq(RequestRecord)]
  <2> DEFINE r == Request("put", c, task, meta[id].conn, meta[id].transfer, <<>>, "pending")
  <2>1. r \in RequestRecord
    BY <1>1, <1>2, PutIsARequest DEF OutcomeIsWritten
  <2>2. requests' = [requests EXCEPT ![id] = Append(requests[id], r)]
    BY <1>2 DEF PutOutcome, Send
  <2>. QED  BY <1>1, <2>1, <2>2, AppendRequested DEF TypeInv, Requested
<1>3. CASE Interruption(c)
  <2>1. [k \in Calls |-> IF handler[c][k] \in Tools THEN "cancelled" ELSE handler[c][k]]
          \in [Calls -> Tools \cup {"none", "returned", "cancelled"}]
    BY DEF TypeInv
  <2>. QED  BY <1>3, <2>1 DEF Interruption, TypeInv, historyVars, turnVars, taskVars, peerVars
<1>4. CASE GraceOver(c)
  <2>1. requests' \in [CallIds -> Seq(RequestRecord)]
    <3>1. requests' = requests \/ (PutOutcome(id, c, "grace") /\ ~OutcomeIsWritten(id))
      BY <1>4, Zenon DEF GraceOver
    <3>2. CASE requests' = requests
      BY <3>2 DEF TypeInv
    <3>3. CASE PutOutcome(id, c, "grace") /\ ~OutcomeIsWritten(id)
      BY <1>2, <3>3 DEF Tasks
    <3>. QED  BY <3>1, <3>2, <3>3
  <2>2. grace' \in [Conns -> {"none", "sleeping", "writing", "done"}]
    <3>1. PICK state \in {"writing", "done"} : grace' = [grace EXCEPT ![c] = state]
      BY <1>4 DEF GraceOver
    <3>. QED  BY <3>1 DEF TypeInv
  <2>3. endTask' \in [Conns -> Nat]
    <3>1. endTask' = endTask \/ endTask' = [endTask EXCEPT ![c] = @ + 1]
      BY <1>4 DEF GraceOver, QueueEndTask
    <3>2. endTask \in [Conns -> Nat]
      BY DEF TypeInv
    <3>. QED  BY <3>1, <3>2
  <2>. QED  BY <1>4, <2>1, <2>2, <2>3 DEF GraceOver, TypeInv, turnVars, taskVars, peerVars
<1>5. CASE FlushStart(c)
  <2>1. CASE OutcomeIsWritten(id)
    <3>1. /\ buffers' \in [CallIds -> Seq(Entry) \cup {None}]
          /\ meta' \in [CallIds -> Meta \cup {None}]
          /\ requests' \in [CallIds -> Seq(RequestRecord)]
          /\ flush' \in [Conns -> {"none", "start", "putting", "updating", "done"}]
      BY <1>1, <1>5, <2>1, PopAndUpdateTypes DEF FlushStart, TypeInv
    <3>. QED  BY <1>5, <3>1 DEF FlushStart, TypeInv, turnVars, toolVars, peerVars
  <2>2. CASE ~OutcomeIsWritten(id)
    <3>1. requests' \in [CallIds -> Seq(RequestRecord)]
      BY <1>2, <1>5, <2>2 DEF FlushStart, Tasks
    <3>. QED  BY <1>5, <2>2, <3>1 DEF FlushStart, TypeInv, turnVars, toolVars, peerVars
  <2>. QED  BY <2>1, <2>2
<1>6. CASE Summarize(c)
  <2>1. PICK status \in {"ok", "failed"} :
          Send(id, Request("summary", c, "summary", c, FALSE, <<>>, status))
    BY <1>6 DEF Summarize
  <2>2. requests' \in [CallIds -> Seq(RequestRecord)]
    BY <1>1, <2>1, SummaryIsARequest, AppendRequested DEF Send, TypeInv, Requested
  <2>. QED  BY <1>6, <2>2 DEF Summarize, TypeInv, turnVars, toolVars, peerVars
<1>. QED  BY <1>3, <1>4, <1>5, <1>6

LEMMA ReturnTypes ==
  ASSUME TypeInv, NEW id \in CallIds, NEW i \in DOMAIN requests[id], Return(id, i)
  PROVE  TypeInv'
<1> DEFINE r == requests[id][i]
<1>1. requests[id] \in Seq(RequestRecord) /\ i \in 1..Len(requests[id])
  BY LenProperties DEF TypeInv
<1>2. r \in RequestRecord
  BY <1>1, ElementOfSeq
<1>3. r.conn \in Conns /\ r.task \in Tasks
  BY <1>2 DEF RequestRecord
<1>4. PICK ok \in BOOLEAN, effective \in BOOLEAN :
        /\ ok => effective
        /\ Arrives(id, i, effective)
        /\ failed' = IF ok THEN failed ELSE failed \cup {<<r.conn, r.task>>}
        /\ PutReturns(id, i, ok) \/ TurnsReturn(id, i, ok) \/ SummaryReturns(id, i)
        /\ UNCHANGED <<sessions, pc, turnVars, ending, handler, asked, peerVars>>
  BY DEF Return
<1>5. rows' \in [CallIds -> Row]
  <2>1. rows[id] \in Row
    BY DEF TypeInv
  <2>2. ApplyTo(rows[id], r) \in Row
    BY <1>2, <2>1, ApplyToTypes
  <2>3. rows' = rows \/ rows' = [rows EXCEPT ![id] = ApplyTo(rows[id], r)]
    BY <1>4 DEF Arrives
  <2>. QED  BY <2>2, <2>3 DEF TypeInv
<1>6. failed' \subseteq Conns \X Tasks
  BY <1>3, <1>4 DEF TypeInv
<1>7. Others(id, i) \in Seq(RequestRecord)
  BY <1>1, RemoveAtSeq DEF Others
<1>8. /\ buffers' \in [CallIds -> Seq(Entry) \cup {None}]
      /\ meta' \in [CallIds -> Meta \cup {None}]
      /\ requests' \in [CallIds -> Seq(RequestRecord)]
      /\ flush' \in [Conns -> {"none", "start", "putting", "updating", "done"}]
      /\ summary' \in [Conns -> {"none", "invoking", "updating", "done"}]
      /\ grace' \in [Conns -> {"none", "sleeping", "writing", "done"}]
      /\ endTask' \in [Conns -> Nat]
  <2>1. CASE PutReturns(id, i, ok)
    <3> DEFINE m == IF ok THEN OutcomeWritten(id, r) ELSE meta
    <3>1. m \in [CallIds -> Meta \cup {None}]
      BY <1>2, OutcomeWrittenTypes DEF TypeInv
    <3>2. \/ /\ meta' = m
             /\ grace' = [grace EXCEPT ![r.conn] = "done"]
             /\ QueueEndTask(r.conn)
             /\ requests' = [requests EXCEPT ![id] = Others(id, i)]
             /\ UNCHANGED <<buffers, flush, summary>>
          \/ /\ PopAndUpdate(r.conn, m, Others(id, i))
             /\ UNCHANGED <<grace, endTask, summary>>
      BY <2>1 DEF PutReturns
    <3>. HIDE DEF m, r
    <3>3. CASE PopAndUpdate(r.conn, m, Others(id, i)) /\ UNCHANGED <<grace, endTask, summary>>
      <4>1. /\ buffers' \in [CallIds -> Seq(Entry) \cup {None}]
            /\ meta' \in [CallIds -> Meta \cup {None}]
            /\ requests' \in [CallIds -> Seq(RequestRecord)]
            /\ flush' \in [Conns -> {"none", "start", "putting", "updating", "done"}]
        BY <1>3, <1>7, <3>1, <3>3, PopAndUpdateTypes
      <4>. QED  BY <3>3, <4>1 DEF TypeInv
    <3>4. CASE /\ meta' = m
               /\ grace' = [grace EXCEPT ![r.conn] = "done"]
               /\ QueueEndTask(r.conn)
               /\ requests' = [requests EXCEPT ![id] = Others(id, i)]
               /\ UNCHANGED <<buffers, flush, summary>>
      BY <1>3, <1>7, <3>1, <3>4 DEF QueueEndTask, TypeInv
    <3>. QED  BY <3>2, <3>3, <3>4
  <2>2. CASE TurnsReturn(id, i, ok)
    BY <1>3, <1>7, <2>2 DEF TurnsReturn, TypeInv
  <2>3. CASE SummaryReturns(id, i)
    BY <1>3, <1>7, <2>3 DEF SummaryReturns, TypeInv
  <2>. QED  BY <1>4, <2>1, <2>2, <2>3
<1>. QED  BY <1>4, <1>5, <1>6, <1>8 DEF TypeInv, turnVars, peerVars

LEMMA MonitorTypes ==
  ASSUME TypeInv, NEW m \in Monitors,
         (\E id \in CallIds : MonitorAttaches(m, id)) \/ MonitorLeaves(m)
  PROVE  TypeInv'
<1>1. ASSUME NEW id \in CallIds, MonitorAttaches(m, id)
      PROVE  TypeInv'
  <2>1. sessions[id] \in Session
    BY <1>1 DEF MonitorAttaches, AttachMonitor, TypeInv
  <2>2. [sessions[id] EXCEPT !.monitors = sessions[id].monitors \cup {m}] \in Session
    BY <2>1 DEF Session
  <2>3. sessions' \in [CallIds -> Session \cup {None}]
    BY <1>1, <2>2 DEF MonitorAttaches, AttachMonitor, TypeInv
  <2>4. watching' \in [Monitors -> CallIds \cup {None, "lost"}]
    BY <1>1 DEF MonitorAttaches, TypeInv
  <2>. QED  BY <1>1, <2>3, <2>4 DEF MonitorAttaches, TypeInv, historyVars, turnVars, toolVars,
                                    taskVars
<1>2. CASE MonitorLeaves(m)
  <2> DEFINE id == watching[m]
  <2>1. sessions' \in [CallIds -> Session \cup {None}]
    <3>1. CASE sessions[id] = None
      BY <1>2, <3>1 DEF MonitorLeaves, DetachMonitor, TypeInv
    <3>2. CASE sessions[id] # None
      <4>1. sessions[id] \in Session
        BY <1>2, <3>2 DEF MonitorLeaves, TypeInv
      <4>2. [sessions[id] EXCEPT !.monitors = sessions[id].monitors \ {m}] \in Session
        BY <4>1 DEF Session
      <4>3. sessions' = [sessions EXCEPT ![id].monitors = @ \ {m}]
        BY <1>2, <3>2 DEF MonitorLeaves, DetachMonitor
      <4>. QED  BY <1>2, <4>2, <4>3 DEF MonitorLeaves, TypeInv
    <3>. QED  BY <3>1, <3>2
  <2>2. watching' \in [Monitors -> CallIds \cup {None, "lost"}]
    BY <1>2 DEF MonitorLeaves, TypeInv
  <2>. QED  BY <1>2, <2>1, <2>2 DEF MonitorLeaves, TypeInv, historyVars, turnVars, toolVars, taskVars
<1>. QED  BY <1>1, <1>2

LEMMA CrashTypes ==
  ASSUME TypeInv, Crash
  PROVE  TypeInv'
<1>1. <<>> \in Seq(RequestRecord)
  BY EmptySeq
<1>2. requests' \in [CallIds -> Seq(RequestRecord)]
  BY <1>1 DEF Crash
<1>3. UNCHANGED <<rows, scope, observed, recorded, failed, asked>>
  BY DEF Crash, turnVars
<1>4. pc' \in [Conns -> Phases]
  BY DEF Crash, TypeInv, Phases
<1>. QED  BY <1>2, <1>3, <1>4 DEF Crash, TypeInv

\* The steps of the program, by the lemmas that are about them.
LEMMA Steps ==
  ASSUME Next
  PROVE  \/ \E c \in Conns : Moves(c) \/ Connect(c) \/ Begin(c) \/ WebConnects(c) \/ Cleanup(c)
         \/ \E c \in Conns : FinalTurn(c) \/ Tee(c)
         \/ \E c \in Conns, k \in Calls :
              (\E tool \in Tools : ToolStart(c, k, tool)) \/ ToolFinish(c, k)
         \/ \E c \in Conns : Interruption(c) \/ GraceOver(c) \/ FlushStart(c) \/ Summarize(c)
         \/ \E id \in CallIds : \E i \in DOMAIN requests[id] : Return(id, i)
         \/ \E m \in Monitors : (\E id \in CallIds : MonitorAttaches(m, id)) \/ MonitorLeaves(m)
         \/ Crash
<1>1. ASSUME NEW c \in Conns, SessionStep(c)
      PROVE  \/ Moves(c) \/ Connect(c) \/ Begin(c) \/ WebConnects(c) \/ Cleanup(c)
             \/ FinalTurn(c) \/ Tee(c)
             \/ \E k \in Calls : (\E tool \in Tools : ToolStart(c, k, tool)) \/ ToolFinish(c, k)
             \/ Interruption(c) \/ GraceOver(c) \/ FlushStart(c) \/ Summarize(c)
  BY <1>1, Zenon DEF SessionStep, Moves
<1>. QED  BY <1>1, Zenon DEF Next

LEMMA StepTypes == TypeInv /\ [Next]_vars => TypeInv'
<1>1. SUFFICES ASSUME TypeInv, [Next]_vars PROVE TypeInv'
  OBVIOUS
<1>2. CASE UNCHANGED vars
  BY <1>1, <1>2 DEF TypeInv, vars, turnVars, toolVars, taskVars, peerVars
<1>3. CASE Next
  BY <1>1, <1>3, Steps, EndpointTypes, TurnTypes, ToolTypes, TaskTypes, ReturnTypes, MonitorTypes,
     CrashTypes, Zenon
<1>. QED  BY <1>1, <1>2, <1>3

-----------------------------------------------------------------------------
(* What the steps that make requests, or end them, do to them *)

TurnsRequest(c, m) ==
  Request("turns", c, "flush", m[CallIdOf[c]].conn, FALSE, Buffered(CallIdOf[c]), "none")

\* PopAndUpdate, with m for _meta, when the request at position i is over.
Popped(c, m, i) ==
  LET id == CallIdOf[c] IN
  /\ buffers' = [buffers EXCEPT ![id] = None]
  /\ meta' = [m EXCEPT ![id] = None]
  /\ \/ /\ m[id] = None
        /\ flush' = [flush EXCEPT ![c] = "done"]
        /\ Requested(id, i, {})
     \/ /\ m[id] # None
        /\ flush' = [flush EXCEPT ![c] = "updating"]
        /\ Requested(id, i, {TurnsRequest(c, m)})

LEMMA FlushStartCases ==
  ASSUME TypeInv, NEW c \in Conns, FlushStart(c)
  PROVE  LET id == CallIdOf[c] IN
         /\ flush[c] = "start"
         /\ UNCHANGED <<sessions, rows, pc, turnVars, toolVars, summary, failed, peerVars>>
         /\ \/ /\ OutcomeIsWritten(id)
               /\ Popped(c, meta, Len(requests[id]) + 1)
            \/ /\ ~OutcomeIsWritten(id)
               /\ flush' = [flush EXCEPT ![c] = "putting"]
               /\ UNCHANGED <<buffers, meta>>
               /\ Requested(id, Len(requests[id]) + 1,
                    {Request("put", c, "flush", meta[id].conn, meta[id].transfer, <<>>, "pending")})
<1> DEFINE id == CallIdOf[c]
           put == Request("put", c, "flush", meta[id].conn, meta[id].transfer, <<>>, "pending")
<1>1. id \in CallIds
  BY SessionAssumption
<1>2. CASE OutcomeIsWritten(id)
  <2>1. PopAndUpdate(c, meta, requests[id])
    BY <1>2 DEF FlushStart
  <2>2. CASE meta[id] = None
    <3>1. requests' = requests
      BY <1>1, <2>1, <2>2 DEF PopAndUpdate, TypeInv
    <3>2. Requested(id, Len(requests[id]) + 1, {})
      <4>1. requests \in [CallIds -> Seq(RequestRecord)]
        BY DEF TypeInv
      <4>2. Len(requests[id]) \in Nat
        BY <1>1, <4>1, LenProperties
      <4>. QED  BY <1>1, <3>1, <4>1, <4>2 DEF Requested, Older
    <3>. QED  BY <1>2, <2>1, <2>2, <3>2 DEF FlushStart, PopAndUpdate, Popped
  <2>3. CASE meta[id] # None
    <3>1. TurnsRequest(c, meta) \in RequestRecord
      BY <1>1, <2>3, TurnsIsARequest DEF TurnsRequest, TypeInv
    <3>2. requests' = [requests EXCEPT ![id] = Append(requests[id], TurnsRequest(c, meta))]
      BY <2>1, <2>3 DEF PopAndUpdate, TurnsRequest
    <3>3. Requested(id, Len(requests[id]) + 1, {TurnsRequest(c, meta)})
      BY <1>1, <3>1, <3>2, AppendRequested DEF TypeInv
    <3>. QED  BY <1>2, <2>1, <2>3, <3>3 DEF FlushStart, PopAndUpdate, Popped
  <2>. QED  BY <2>2, <2>3
<1>3. CASE ~OutcomeIsWritten(id)
  <2>1. put \in RequestRecord
    BY <1>1, <1>3, PutIsARequest DEF OutcomeIsWritten, Tasks
  <2>2. requests' = [requests EXCEPT ![id] = Append(requests[id], put)]
    BY <1>3 DEF FlushStart, PutOutcome, Send
  <2>3. Requested(id, Len(requests[id]) + 1, {put})
    BY <1>1, <2>1, <2>2, AppendRequested DEF TypeInv
  <2>. QED  BY <1>3, <2>3 DEF FlushStart
<1>. QED  BY <1>2, <1>3

LEMMA GraceOverCases ==
  ASSUME TypeInv, NEW c \in Conns, GraceOver(c)
  PROVE  LET id == CallIdOf[c] IN
         /\ grace[c] = "sleeping"
         /\ UNCHANGED <<sessions, buffers, meta, rows, pc, turnVars, ending, handler, asked,
                        taskVars, peerVars>>
         /\ \/ /\ scope[c] = "web" \/ OutcomeIsWritten(id)
               /\ grace' = [grace EXCEPT ![c] = "done"]
               /\ endTask' = [endTask EXCEPT ![c] = @ + 1]
               /\ UNCHANGED requests
            \/ /\ ~(scope[c] = "web" \/ OutcomeIsWritten(id))
               /\ grace' = [grace EXCEPT ![c] = "writing"]
               /\ UNCHANGED endTask
               /\ Requested(id, Len(requests[id]) + 1,
                    {Request("put", c, "grace", meta[id].conn, meta[id].transfer, <<>>, "pending")})
<1> DEFINE id == CallIdOf[c]
           put == Request("put", c, "grace", meta[id].conn, meta[id].transfer, <<>>, "pending")
<1>1. id \in CallIds
  BY SessionAssumption
<1>2. CASE scope[c] = "web" \/ OutcomeIsWritten(id)
  BY <1>2 DEF GraceOver, QueueEndTask
<1>3. CASE ~(scope[c] = "web" \/ OutcomeIsWritten(id))
  <2>1. put \in RequestRecord
    BY <1>1, <1>3, PutIsARequest DEF OutcomeIsWritten, Tasks
  <2>2. requests' = [requests EXCEPT ![id] = Append(requests[id], put)]
    BY <1>3 DEF GraceOver, PutOutcome, Send
  <2>3. Requested(id, Len(requests[id]) + 1, {put})
    BY <1>1, <2>1, <2>2, AppendRequested DEF TypeInv
  <2>. QED  BY <1>3, <2>3 DEF GraceOver
<1>. QED  BY <1>2, <1>3

LEMMA SummarizeCases ==
  ASSUME TypeInv, NEW c \in Conns, Summarize(c)
  PROVE  LET id == CallIdOf[c] IN
         /\ summary[c] = "invoking"
         /\ summary' = [summary EXCEPT ![c] = "updating"]
         /\ UNCHANGED <<sessions, buffers, meta, rows, pc, turnVars, toolVars, flush, failed, peerVars>>
         /\ \E status \in {"ok", "failed"} :
              Requested(id, Len(requests[id]) + 1,
                {Request("summary", c, "summary", c, FALSE, <<>>, status)})
<1> DEFINE id == CallIdOf[c]
<1>1. id \in CallIds
  BY SessionAssumption
<1>2. PICK status \in {"ok", "failed"} :
        Send(id, Request("summary", c, "summary", c, FALSE, <<>>, status))
  BY DEF Summarize
<1>3. Requested(id, Len(requests[id]) + 1, {Request("summary", c, "summary", c, FALSE, <<>>, status)})
  BY <1>1, <1>2, SummaryIsARequest, AppendRequested DEF Send, TypeInv
<1>. QED  BY <1>3 DEF Summarize

\* The four ways for a request to end, r of connection r.conn, with m for _meta.
GraceReturned(id, i, r, m) ==
  /\ r.op = "put" /\ r.task = "grace" /\ grace[r.conn] = "writing"
  /\ meta' = m
  /\ grace' = [grace EXCEPT ![r.conn] = "done"]
  /\ endTask' = [endTask EXCEPT ![r.conn] = @ + 1]
  /\ Requested(id, i, {})
  /\ UNCHANGED <<buffers, flush, summary>>

FlushReturned(id, i, r, m) ==
  /\ r.op = "put" /\ r.task = "flush" /\ flush[r.conn] = "putting"
  /\ Popped(r.conn, m, i)
  /\ UNCHANGED <<grace, endTask, summary>>

TurnsReturned(id, i, r, ok) ==
  /\ r.op = "turns" /\ r.task = "flush" /\ flush[r.conn] = "updating"
  /\ flush' = [flush EXCEPT ![r.conn] = "done"]
  /\ summary' = IF ok THEN [summary EXCEPT ![r.conn] = "invoking"] ELSE summary
  /\ Requested(id, i, {})
  /\ UNCHANGED <<buffers, meta, grace, endTask>>

SummaryReturned(id, i, r) ==
  /\ r.op = "summary" /\ r.task = "summary" /\ summary[r.conn] = "updating"
  /\ summary' = [summary EXCEPT ![r.conn] = "done"]
  /\ Requested(id, i, {})
  /\ UNCHANGED <<buffers, meta, grace, endTask, flush>>

LEMMA ReturnCases ==
  ASSUME TypeInv, RequestsAreAwaited, NEW id \in CallIds, NEW i \in DOMAIN requests[id],
         Return(id, i)
  PROVE  LET r == requests[id][i] IN
         /\ i \in 1..Len(requests[id])
         /\ r \in RequestRecord /\ r.conn \in Conns /\ CallIdOf[r.conn] = id
         /\ UNCHANGED <<sessions, pc, turnVars, ending, handler, asked, peerVars>>
         /\ \E ok, effective \in BOOLEAN :
              LET m == IF ok THEN OutcomeWritten(id, r) ELSE meta IN
              /\ ok => effective
              /\ Arrives(id, i, effective)
              /\ failed' = IF ok THEN failed ELSE failed \cup {<<r.conn, r.task>>}
              /\ m \in [CallIds -> Meta \cup {None}]
              /\ \/ GraceReturned(id, i, r, m) \/ FlushReturned(id, i, r, m)
                 \/ TurnsReturned(id, i, r, ok) \/ SummaryReturned(id, i, r)
<1> DEFINE r == requests[id][i]
           M(ok) == IF ok THEN OutcomeWritten(id, r) ELSE meta
<1>1. requests[id] \in Seq(RequestRecord) /\ i \in 1..Len(requests[id])
  BY LenProperties DEF TypeInv
<1>2. r \in RequestRecord
  BY <1>1, ElementOfSeq
<1>3. r.conn \in Conns /\ r.task \in Tasks /\ Awaited(id, r)
  BY <1>1, <1>2 DEF RequestRecord, RequestsAreAwaited
<1>4. CallIdOf[r.conn] = id
  BY <1>3 DEF Awaited
<1>5. PICK ok \in BOOLEAN, effective \in BOOLEAN :
        /\ ok => effective
        /\ Arrives(id, i, effective)
        /\ failed' = IF ok THEN failed ELSE failed \cup {<<r.conn, r.task>>}
        /\ PutReturns(id, i, ok) \/ TurnsReturn(id, i, ok) \/ SummaryReturns(id, i)
        /\ UNCHANGED <<sessions, pc, turnVars, ending, handler, asked, peerVars>>
  BY DEF Return
<1>6. M(ok) \in [CallIds -> Meta \cup {None}]
  BY <1>2, OutcomeWrittenTypes DEF TypeInv
<1>7. requests' = [requests EXCEPT ![id] = Others(id, i)] => Requested(id, i, {})
  BY <1>1, OthersRequested DEF TypeInv
<1>8. ASSUME PutReturns(id, i, ok)
      PROVE  GraceReturned(id, i, r, M(ok)) \/ FlushReturned(id, i, r, M(ok))
  <2>1. r.op = "put" /\ UNCHANGED summary
    BY <1>8 DEF PutReturns
  <2>2. CASE /\ r.task = "grace"
             /\ meta' = M(ok)
             /\ grace' = [grace EXCEPT ![r.conn] = "done"]
             /\ QueueEndTask(r.conn)
             /\ requests' = [requests EXCEPT ![id] = Others(id, i)]
             /\ UNCHANGED <<buffers, flush>>
    <3>1. grace[r.conn] = "writing"
      BY <1>3, <2>2 DEF Awaited
    <3>. HIDE DEF r, M
    <3>2. GraceReturned(id, i, r, M(ok))
      BY <1>7, <2>1, <2>2, <3>1 DEF GraceReturned, QueueEndTask
    <3>. QED  BY <3>2
  <2>3. CASE /\ r.task = "flush"
             /\ PopAndUpdate(r.conn, M(ok), Others(id, i))
             /\ UNCHANGED <<grace, endTask>>
    <3>1. flush[r.conn] = "putting"
      BY <1>3, <2>1, <2>3 DEF Awaited
    <3>. HIDE DEF r, M
    <3>2. CASE M(ok)[id] = None
      <4>1. requests' = [requests EXCEPT ![id] = Others(id, i)]
        BY <1>4, <2>3, <3>2 DEF PopAndUpdate
      <4>2. Popped(r.conn, M(ok), i)
        BY <1>4, <1>7, <2>3, <3>2, <4>1 DEF PopAndUpdate, Popped
      <4>. QED  BY <2>1, <2>3, <3>1, <4>2 DEF FlushReturned
    <3>3. CASE M(ok)[id] # None
      <4>1. TurnsRequest(r.conn, M(ok)) \in RequestRecord
        BY <1>3, <1>4, <1>6, <3>3, TurnsIsARequest DEF TurnsRequest
      <4>2. requests' = [requests EXCEPT ![id] = Append(Others(id, i), TurnsRequest(r.conn, M(ok)))]
        BY <1>4, <2>3, <3>3 DEF PopAndUpdate, TurnsRequest
      <4>3. Requested(id, i, {TurnsRequest(r.conn, M(ok))})
        BY <1>1, <4>1, <4>2, ReplacedRequested DEF TypeInv
      <4>4. Popped(r.conn, M(ok), i)
        BY <1>4, <2>3, <3>3, <4>3 DEF PopAndUpdate, Popped
      <4>. QED  BY <2>1, <2>3, <3>1, <4>4 DEF FlushReturned
    <3>. QED  BY <3>2, <3>3
  <2>. QED  BY <1>8, <2>2, <2>3 DEF PutReturns
<1>9. ASSUME TurnsReturn(id, i, ok)
      PROVE  TurnsReturned(id, i, r, ok)
  <2>1. r.op = "turns"
    BY <1>9 DEF TurnsReturn
  <2>2. r.task = "flush" /\ flush[r.conn] = "updating"
    BY <1>3, <2>1 DEF Awaited, Tasks
  <2>. QED  BY <1>7, <1>9, <2>1, <2>2 DEF TurnsReturn, TurnsReturned
<1>10. ASSUME SummaryReturns(id, i)
       PROVE  SummaryReturned(id, i, r)
  <2>1. r.op = "summary"
    BY <1>10 DEF SummaryReturns
  <2>2. r.task = "summary" /\ summary[r.conn] = "updating"
    BY <1>3, <2>1 DEF Awaited, Tasks
  <2>. QED  BY <1>7, <1>10, <2>1, <2>2 DEF SummaryReturns, SummaryReturned
<1>11. \/ GraceReturned(id, i, r, M(ok)) \/ FlushReturned(id, i, r, M(ok))
       \/ TurnsReturned(id, i, r, ok) \/ SummaryReturned(id, i, r)
  BY <1>5, <1>8, <1>9, <1>10
<1>. HIDE DEF M
<1>12. /\ ok => effective
       /\ Arrives(id, i, effective)
       /\ failed' = IF ok THEN failed ELSE failed \cup {<<r.conn, r.task>>}
       /\ UNCHANGED <<sessions, pc, turnVars, ending, handler, asked, peerVars>>
  BY <1>5
<1>. QED  BY <1>1, <1>2, <1>3, <1>4, <1>6, <1>11, <1>12, Zenon DEF M

-----------------------------------------------------------------------------
(* The tasks of a call, and their requests *)

LEMMA EndpointTasks ==
  ASSUME TypeInv, TasksInOrder, NEW c \in Conns,
         Moves(c) \/ Connect(c) \/ Begin(c) \/ WebConnects(c) \/ Cleanup(c)
  PROVE  /\ UNCHANGED <<requests, grace, summary, handler, ending, endTask>>
         /\ pc[c] # "ended"
         /\ \A d \in Conns : d # c => pc'[d] = pc[d]
         /\ \/ flush' = flush
            \/ flush' = [flush EXCEPT ![c] = "start"] /\ pc'[c] = "ended"
<1>1. CASE Moves(c)
  BY <1>1 DEF Moves, TwilioConnects, TwilioRefused, Run, BuildFails, PipelineEnds, Goto, TypeInv,
              historyVars, toolVars, taskVars
<1>2. CASE Connect(c)
  BY <1>2 DEF Connect, Goto, TypeInv, historyVars, toolVars, taskVars
<1>3. CASE Begin(c)
  BY <1>3 DEF Begin, Attach, Goto, TypeInv, toolVars, taskVars
<1>4. CASE WebConnects(c)
  BY <1>4 DEF WebConnects, Attach, Goto, TypeInv, toolVars, taskVars
<1>5. CASE Cleanup(c)
  BY <1>5 DEF Cleanup, Goto, TypeInv, historyVars, toolVars
<1>. QED  BY <1>1, <1>2, <1>3, <1>4, <1>5

LEMMA InitTasks == Init => TasksInOrder
BY DEF Init, TasksInOrder

LEMMA StepTasks ==
  ASSUME TypeInv, TasksInOrder, RequestsAreAwaited, Next
  PROVE  TasksInOrder'
<1>1. ASSUME UNCHANGED <<pc, flush, summary>>
      PROVE  TasksInOrder'
  BY <1>1 DEF TasksInOrder
<1>2. ASSUME NEW c \in Conns, Moves(c) \/ Connect(c) \/ Begin(c) \/ WebConnects(c) \/ Cleanup(c)
      PROVE  TasksInOrder'
  <2>1. /\ UNCHANGED summary
        /\ pc[c] # "ended"
        /\ \A d \in Conns : d # c => pc'[d] = pc[d]
        /\ \/ flush' = flush
           \/ flush' = [flush EXCEPT ![c] = "start"] /\ pc'[c] = "ended"
    BY <1>2, EndpointTasks
  <2>2. flush[c] = "none" /\ summary[c] = "none"
    BY <2>1 DEF TasksInOrder, TypeInv
  <2>3. ASSUME NEW d \in Conns
        PROVE  /\ flush'[d] # "none" => pc'[d] = "ended"
               /\ summary'[d] # "none" => flush'[d] = "done"
    <3>1. CASE d = c
      BY <2>1, <2>2, <3>1 DEF TypeInv
    <3>2. CASE d # c
      <4>1. flush'[d] = flush[d] /\ pc'[d] = pc[d] /\ summary'[d] = summary[d]
        BY <2>1, <3>2 DEF TypeInv
      <4>. QED  BY <4>1 DEF TasksInOrder
    <3>. QED  BY <3>1, <3>2
  <2>. QED  BY <2>3 DEF TasksInOrder
<1>3. ASSUME NEW c \in Conns, FinalTurn(c) \/ Tee(c)
      PROVE  TasksInOrder'
  BY <1>1, <1>3 DEF FinalTurn, Tee, taskVars
<1>4. ASSUME NEW c \in Conns, NEW k \in Calls,
             (\E tool \in Tools : ToolStart(c, k, tool)) \/ ToolFinish(c, k)
      PROVE  TasksInOrder'
  BY <1>1, <1>4 DEF ToolStart, ToolFinish, taskVars
<1>5. ASSUME NEW c \in Conns, Interruption(c) \/ GraceOver(c)
      PROVE  TasksInOrder'
  BY <1>1, <1>5 DEF Interruption, GraceOver, taskVars
<1>6. ASSUME NEW c \in Conns, FlushStart(c)
      PROVE  TasksInOrder'
  <2>1. PICK state \in {"putting", "updating", "done"} :
          /\ flush[c] = "start"
          /\ flush' = [flush EXCEPT ![c] = state]
          /\ UNCHANGED <<pc, summary>>
    BY <1>6, FlushStartCases DEF Popped
  <2>. QED  BY <2>1 DEF TasksInOrder, TypeInv
<1>7. ASSUME NEW c \in Conns, Summarize(c)
      PROVE  TasksInOrder'
  BY <1>7 DEF Summarize, TasksInOrder, TypeInv
<1>8. ASSUME NEW id \in CallIds, NEW i \in DOMAIN requests[id], Return(id, i)
      PROVE  TasksInOrder'
  <2> DEFINE r == requests[id][i]
             c == r.conn
  <2>1. c \in Conns /\ UNCHANGED pc
    BY <1>8, ReturnCases
  <2>2. PICK ok \in BOOLEAN, m \in [CallIds -> Meta \cup {None}] :
          \/ GraceReturned(id, i, r, m) \/ FlushReturned(id, i, r, m)
          \/ TurnsReturned(id, i, r, ok) \/ SummaryReturned(id, i, r)
    BY <1>8, ReturnCases, Zenon
  <2>. HIDE DEF r
  <2>3. CASE GraceReturned(id, i, r, m)
    BY <1>1, <2>1, <2>3 DEF GraceReturned
  <2>4. CASE FlushReturned(id, i, r, m)
    BY <2>1, <2>4 DEF FlushReturned, Popped, TasksInOrder, TypeInv
  <2>5. CASE TurnsReturned(id, i, r, ok)
    BY <2>1, <2>5 DEF TurnsReturned, TasksInOrder, TypeInv
  <2>6. CASE SummaryReturned(id, i, r)
    BY <2>1, <2>6 DEF SummaryReturned, TasksInOrder, TypeInv
  <2>. QED  BY <2>2, <2>3, <2>4, <2>5, <2>6
<1>9. ASSUME NEW m \in Monitors, (\E id \in CallIds : MonitorAttaches(m, id)) \/ MonitorLeaves(m)
      PROVE  TasksInOrder'
  BY <1>1, <1>9 DEF MonitorAttaches, MonitorLeaves, taskVars
<1>10. CASE Crash
  BY <1>10 DEF Crash, TasksInOrder
<1>. QED  BY <1>2, <1>3, <1>4, <1>5, <1>6, <1>7, <1>8, <1>9, <1>10, Steps, Zenon

\* The request at position i is over and those in new are made: the others are
\* still awaited, and the new ones are the first of their tasks.
LEMMA AwaitedStep ==
  ASSUME TypeInv, RequestsAreAwaited, NEW id \in CallIds, NEW i \in 1..Len(requests[id]) + 1,
         NEW new, Requested(id, i, new),
         \A d \in CallIds : \A j \in 1..Len(requests[d]) : \A r \in RequestRecord :
           r = requests[d][j] /\ ~(d = id /\ j = i) => Awaited(d, r)',
         \A r \in new :
           /\ r \in RequestRecord /\ Awaited(id, r)'
           /\ \A j \in 1..Len(requests[id]) : j # i =>
                ~(requests[id][j].conn = r.conn /\ requests[id][j].task = r.task)
  PROVE  RequestsAreAwaited'
<1> DEFINE s == requests[id]
           t == requests'[id]
<1>1. s \in Seq(RequestRecord) /\ Len(s) \in Nat
  BY LenProperties DEF TypeInv
<1>2. t \in Seq(RequestRecord) /\ Len(t) \in Nat
  BY LenProperties DEF Requested
<1>3. \A j \in 1..Len(t) : \/ Older(i, j) \in 1..Len(s) /\ t[j] = s[Older(i, j)]
                           \/ j = Len(t) /\ t[j] \in new
  BY DEF Requested
<1>4. ASSUME NEW d \in CallIds, d # id
      PROVE  /\ \A j \in 1..Len(requests'[d]) : Awaited(d, requests[d][j])'
             /\ \A j, k \in 1..Len(requests'[d]) :
                  /\ requests'[d][j].conn = requests'[d][k].conn
                  /\ requests'[d][j].task = requests'[d][k].task
                  => j = k
  <2>1. requests'[d] = requests[d] /\ requests[d] \in Seq(RequestRecord)
    BY <1>4 DEF Requested, TypeInv
  <2>2. \A j \in 1..Len(requests[d]) : requests[d][j] \in RequestRecord
    BY <2>1, ElementOfSeq
  <2>3. \A j \in 1..Len(requests'[d]) : Awaited(d, requests[d][j])'
    BY <1>4, <2>1, <2>2 DEF Awaited
  <2>. QED  BY <2>1, <2>3 DEF RequestsAreAwaited
<1>5. \A j \in 1..Len(t) : Older(i, j) # i /\ \A k \in 1..Len(t) : Older(i, j) = Older(i, k) => j = k
  BY <1>1, <1>2 DEF Older
<1>6. \A j \in 1..Len(s) : s[j] \in RequestRecord
  BY <1>1, ElementOfSeq
<1>7. ASSUME NEW j \in 1..Len(t)
      PROVE  Awaited(id, requests[id][j])'
  <2>1. CASE Older(i, j) \in 1..Len(s) /\ t[j] = s[Older(i, j)]
    <3>1. Older(i, j) # i
      BY <1>5
    <3>. QED  BY <1>6, <2>1, <3>1 DEF Awaited
  <2>2. CASE t[j] \in new
    BY <2>2 DEF Awaited
  <2>. QED  BY <1>3, <2>1, <2>2
<1>8. ASSUME NEW j \in 1..Len(t), NEW k \in 1..Len(t), t[j].conn = t[k].conn, t[j].task = t[k].task
      PROVE  j = k
  <2>. HIDE DEF s, t
  <2>1. \A a, b \in 1..Len(s) : s[a].conn = s[b].conn /\ s[a].task = s[b].task => a = b
    BY DEF RequestsAreAwaited, s
  <2>2. \A r \in new : \A a \in 1..Len(s) : a # i => ~(s[a].conn = r.conn /\ s[a].task = r.task)
    BY DEF s
  <2>3. /\ Older(i, j) # i /\ Older(i, k) # i
        /\ Older(i, j) = Older(i, k) => j = k
    BY <1>5
  <2>4. \/ Older(i, j) \in 1..Len(s) /\ t[j] = s[Older(i, j)]
        \/ j = Len(t) /\ t[j] \in new
    BY <1>3
  <2>5. \/ Older(i, k) \in 1..Len(s) /\ t[k] = s[Older(i, k)]
        \/ k = Len(t) /\ t[k] \in new
    BY <1>3
  <2>. QED  BY <1>8, <2>1, <2>2, <2>3, <2>4, <2>5, Zenon
<1>. QED  BY <1>4, <1>7, <1>8 DEF RequestsAreAwaited

\* No request is made and none is over: those under way are still awaited.
LEMMA AwaitedStill ==
  ASSUME TypeInv, RequestsAreAwaited, requests' = requests,
         \A d \in CallIds : \A j \in 1..Len(requests[d]) : \A r \in RequestRecord :
           r = requests[d][j] => Awaited(d, r)'
  PROVE  RequestsAreAwaited'
<1>1. ASSUME NEW d \in CallIds
      PROVE  \A j \in 1..Len(requests[d]) : requests[d][j] \in RequestRecord
  <2>1. requests[d] \in Seq(RequestRecord)
    BY DEF TypeInv
  <2>. QED  BY <2>1, ElementOfSeq
<1>2. \A d \in CallIds : \A j \in 1..Len(requests'[d]) : Awaited(d, requests[d][j])'
  BY <1>1 DEF Awaited
<1>. QED  BY <1>2 DEF RequestsAreAwaited

LEMMA InitAwaited == Init => RequestsAreAwaited
<1>1. SUFFICES ASSUME Init PROVE RequestsAreAwaited
  OBVIOUS
<1>2. \A d \in CallIds : requests[d] = <<>>
  BY <1>1 DEF Init, HistoryInit
<1>3. Len(<<>>) = 0
  BY EmptySeq
<1>. QED  BY <1>2, <1>3 DEF RequestsAreAwaited

\* What the record of a request that is under way says.
LEMMA UnderWay ==
  ASSUME TypeInv, RequestsAreAwaited, NEW d \in CallIds, NEW j \in 1..Len(requests[d])
  PROVE  /\ requests[d][j] \in RequestRecord
         /\ requests[d][j].conn \in Conns
         /\ requests[d][j].task \in Tasks
         /\ Awaited(d, requests[d][j])
<1>1. requests[d] \in Seq(RequestRecord)
  BY DEF TypeInv
<1>2. requests[d][j] \in RequestRecord
  BY <1>1, ElementOfSeq
<1>. QED  BY <1>2 DEF RequestsAreAwaited, RequestRecord

LEMMA StepAwaited ==
  ASSUME TypeInv, TasksInOrder, RequestsAreAwaited, \A c \in Conns : OneGrace(c), Next
  PROVE  RequestsAreAwaited'
<1>1. ASSUME UNCHANGED <<requests, grace, flush, summary>>
      PROVE  RequestsAreAwaited'
  BY <1>1 DEF RequestsAreAwaited, Awaited
<1>2. ASSUME NEW c \in Conns, Moves(c) \/ Connect(c) \/ Begin(c) \/ WebConnects(c) \/ Cleanup(c)
      PROVE  RequestsAreAwaited'
  <2>1. CASE flush' = flush
    BY <1>1, <1>2, <2>1, EndpointTasks
  <2>2. CASE flush' = [flush EXCEPT ![c] = "start"]
    <3>1. flush[c] = "none" /\ UNCHANGED <<requests, grace, summary>>
      BY <1>2, EndpointTasks DEF TasksInOrder
    <3>2. ASSUME NEW d \in CallIds, NEW j \in 1..Len(requests[d]), NEW r \in RequestRecord,
                 r = requests[d][j]
          PROVE  Awaited(d, r)'
      <4>1. Awaited(d, r) /\ r.conn \in Conns
        BY <3>2, UnderWay
      <4>. QED  BY <2>2, <3>1, <4>1 DEF Awaited, TypeInv
    <3>. QED  BY <3>1, <3>2, AwaitedStill
  <2>. QED  BY <1>2, <2>1, <2>2, EndpointTasks
<1>3. ASSUME NEW c \in Conns, FinalTurn(c) \/ Tee(c)
      PROVE  RequestsAreAwaited'
  BY <1>1, <1>3 DEF FinalTurn, Tee, historyVars, toolVars, taskVars
<1>4. ASSUME NEW c \in Conns, NEW k \in Calls,
             (\E tool \in Tools : ToolStart(c, k, tool)) \/ ToolFinish(c, k)
      PROVE  RequestsAreAwaited'
  <2>1. CASE \E tool \in Tools : ToolStart(c, k, tool)
    BY <1>1, <2>1 DEF ToolStart, taskVars
  <2>2. CASE ToolFinish(c, k)
    <3>1. /\ grace[c] = "none" /\ grace' = [grace EXCEPT ![c] = "sleeping"]
          /\ UNCHANGED <<requests, flush, summary>>
      BY <2>2 DEF ToolFinish, taskVars, OneGrace
    <3>2. ASSUME NEW d \in CallIds, NEW j \in 1..Len(requests[d]), NEW r \in RequestRecord,
                 r = requests[d][j]
          PROVE  Awaited(d, r)'
      <4>1. Awaited(d, r) /\ r.conn \in Conns
        BY <3>2, UnderWay
      <4>. QED  BY <3>1, <4>1 DEF Awaited, TypeInv
    <3>. QED  BY <3>1, <3>2, AwaitedStill
  <2>. QED  BY <1>4, <2>1, <2>2
<1>5. ASSUME NEW c \in Conns, Interruption(c)
      PROVE  RequestsAreAwaited'
  BY <1>1, <1>5 DEF Interruption, historyVars, taskVars
<1>6. ASSUME NEW c \in Conns, GraceOver(c)
      PROVE  RequestsAreAwaited'
  <2> DEFINE id == CallIdOf[c]
             put == Request("put", c, "grace", meta[id].conn, meta[id].transfer, <<>>, "pending")
             n == Len(requests[id]) + 1
  <2>1. PICK state \in {"writing", "done"} :
          /\ grace[c] = "sleeping"
          /\ grace' = [grace EXCEPT ![c] = state]
          /\ UNCHANGED <<flush, summary>>
          /\ state = "done" => UNCHANGED requests
          /\ state = "writing" => Requested(id, n, {put}) /\ meta[id] # None
    BY <1>6, GraceOverCases DEF taskVars, OutcomeIsWritten
  <2>2. ASSUME NEW d \in CallIds, NEW j \in 1..Len(requests[d]), NEW r \in RequestRecord,
               r = requests[d][j]
        PROVE  Awaited(d, r)'
    <3>1. Awaited(d, r) /\ r.conn \in Conns
      BY <2>2, UnderWay
    <3>. QED  BY <2>1, <3>1 DEF Awaited, TypeInv
  <2>3. CASE state = "done"
    BY <2>1, <2>2, <2>3, AwaitedStill
  <2>4. CASE state = "writing"
    <3>1. id \in CallIds /\ requests[id] \in Seq(RequestRecord)
      BY SessionAssumption DEF TypeInv
    <3>2. n \in 1..Len(requests[id]) + 1
      BY <3>1, LenProperties
    <3>3. put \in RequestRecord
      BY <2>1, <2>4, <3>1, PutIsARequest DEF Tasks
    <3>4. put.conn = c /\ put.task = "grace" /\ put.op = "put"
      BY DEF Request
    <3>5. ASSUME NEW r \in {put}
          PROVE  /\ r \in RequestRecord
                 /\ Awaited(id, r)'
                 /\ \A j \in 1..Len(requests[id]) :
                      ~(requests[id][j].conn = r.conn /\ requests[id][j].task = r.task)
      <4>1. r \in RequestRecord /\ r.conn = c /\ r.task = "grace" /\ r.op = "put"
        BY <3>3, <3>4
      <4>2. Awaited(id, r)'
        BY <2>1, <2>4, <4>1 DEF Awaited, TypeInv
      <4>3. \A j \in 1..Len(requests[id]) :
              ~(requests[id][j].conn = c /\ requests[id][j].task = "grace")
        BY <2>1, <3>1, UnderWay DEF Awaited
      <4>. QED  BY <4>1, <4>2, <4>3
    <3>. HIDE DEF put, id, n
    <3>. QED  BY <2>1, <2>2, <2>4, <3>1, <3>2, <3>5, AwaitedStep
  <2>. QED  BY <2>3, <2>4
<1>7. ASSUME NEW m \in Monitors, (\E id \in CallIds : MonitorAttaches(m, id)) \/ MonitorLeaves(m)
      PROVE  RequestsAreAwaited'
  BY <1>1, <1>7 DEF MonitorAttaches, MonitorLeaves, historyVars, toolVars, taskVars
<1>8. CASE Crash
  <2>1. \A d \in CallIds : requests'[d] = <<>>
    BY <1>8 DEF Crash
  <2>. QED  BY <2>1, EmptySeq DEF RequestsAreAwaited
<1>9. ASSUME NEW c \in Conns, FlushStart(c)
      PROVE  RequestsAreAwaited'
  <2> DEFINE id == CallIdOf[c]
             n == Len(requests[id]) + 1
  <2>1. id \in CallIds /\ requests[id] \in Seq(RequestRecord)
    BY SessionAssumption DEF TypeInv
  <2>2. n \in 1..Len(requests[id]) + 1
    BY <2>1, LenProperties
  <2>3. flush[c] = "start" /\ UNCHANGED <<grace, summary>>
    BY <1>9, FlushStartCases DEF toolVars
  <2>4. PICK state \in {"putting", "updating", "done"} : flush' = [flush EXCEPT ![c] = state]
    BY <1>9, FlushStartCases DEF Popped
  <2>5. ASSUME NEW d \in CallIds, NEW j \in 1..Len(requests[d]), NEW r \in RequestRecord,
               r = requests[d][j]
        PROVE  Awaited(d, r)'
    <3>1. Awaited(d, r) /\ r.conn \in Conns
      BY <2>5, UnderWay
    <3>. QED  BY <2>3, <2>4, <3>1 DEF Awaited, TypeInv
  <2>6. ASSUME NEW r \in RequestRecord, r.conn = c, r.task = "flush",
               r.op = IF state = "putting" THEN "put" ELSE "turns", state # "done"
        PROVE  /\ Awaited(id, r)'
               /\ \A j \in 1..Len(requests[id]) :
                    ~(requests[id][j].conn = r.conn /\ requests[id][j].task = r.task)
    <3>1. Awaited(id, r)'
      BY <2>4, <2>6 DEF Awaited, TypeInv
    <3>2. \A j \in 1..Len(requests[id]) :
            ~(requests[id][j].conn = c /\ requests[id][j].task = "flush")
      BY <2>1, <2>3, UnderWay DEF Awaited
    <3>. QED  BY <2>6, <3>1, <3>2
  <2>7. PICK new :
          /\ Requested(id, n, new)
          /\ \A r \in new : /\ r \in RequestRecord /\ r.conn = c /\ r.task = "flush" /\ state # "done"
                            /\ r.op = IF state = "putting" THEN "put" ELSE "turns"
    <3> DEFINE put == Request("put", c, "flush", meta[id].conn, meta[id].transfer, <<>>, "pending")
    <3>1. CASE Requested(id, n, {}) /\ flush' = [flush EXCEPT ![c] = "done"]
      BY <3>1
    <3>2. CASE /\ meta[id] # None
               /\ flush' = [flush EXCEPT ![c] = "updating"]
               /\ Requested(id, n, {TurnsRequest(c, meta)})
      <4>1. state = "updating"
        BY <2>4, <3>2 DEF TypeInv
      <4>2. TurnsRequest(c, meta) \in RequestRecord
        BY <2>1, <3>2, TurnsIsARequest DEF TurnsRequest, TypeInv
      <4>3. TurnsRequest(c, meta).conn = c /\ TurnsRequest(c, meta).task = "flush"
            /\ TurnsRequest(c, meta).op = "turns"
        BY DEF TurnsRequest, Request
      <4>. QED  BY <3>2, <4>1, <4>2, <4>3
    <3>3. CASE /\ ~OutcomeIsWritten(id)
               /\ flush' = [flush EXCEPT ![c] = "putting"]
               /\ Requested(id, n, {put})
      <4>1. state = "putting"
        BY <2>4, <3>3 DEF TypeInv
      <4>2. put \in RequestRecord
        BY <2>1, <3>3, PutIsARequest DEF Tasks, OutcomeIsWritten
      <4>3. put.conn = c /\ put.task = "flush" /\ put.op = "put"
        BY DEF Request
      <4>. HIDE DEF put
      <4>. QED  BY <3>3, <4>1, <4>2, <4>3
    <3>. QED  BY <1>9, <3>1, <3>2, <3>3, FlushStartCases DEF Popped
  <2>. HIDE DEF id, n
  <2>. QED  BY <2>1, <2>2, <2>5, <2>6, <2>7, AwaitedStep
<1>10. ASSUME NEW c \in Conns, Summarize(c)
       PROVE  RequestsAreAwaited'
  <2> DEFINE id == CallIdOf[c]
             n == Len(requests[id]) + 1
  <2>1. id \in CallIds /\ requests[id] \in Seq(RequestRecord)
    BY SessionAssumption DEF TypeInv
  <2>2. n \in 1..Len(requests[id]) + 1
    BY <2>1, LenProperties
  <2>3. /\ summary[c] = "invoking" /\ summary' = [summary EXCEPT ![c] = "updating"]
        /\ UNCHANGED <<grace, flush>>
    BY <1>10, SummarizeCases DEF toolVars
  <2>4. PICK status \in {"ok", "failed"} :
          Requested(id, n, {Request("summary", c, "summary", c, FALSE, <<>>, status)})
    BY <1>10, SummarizeCases
  <2> DEFINE new == {Request("summary", c, "summary", c, FALSE, <<>>, status)}
  <2>5. ASSUME NEW d \in CallIds, NEW j \in 1..Len(requests[d]), NEW r \in RequestRecord,
               r = requests[d][j]
        PROVE  Awaited(d, r)'
    <3>1. Awaited(d, r) /\ r.conn \in Conns
      BY <2>5, UnderWay
    <3>. QED  BY <2>3, <3>1 DEF Awaited, TypeInv
  <2>6. ASSUME NEW r \in new
        PROVE  /\ r \in RequestRecord
               /\ Awaited(id, r)'
               /\ \A j \in 1..Len(requests[id]) :
                    ~(requests[id][j].conn = r.conn /\ requests[id][j].task = r.task)
    <3>1. r \in RequestRecord /\ r.conn = c /\ r.task = "summary" /\ r.op = "summary"
      <4>1. r \in RequestRecord
        BY SummaryIsARequest
      <4>2. r.conn = c /\ r.task = "summary" /\ r.op = "summary"
        BY DEF Request
      <4>. QED  BY <4>1, <4>2
    <3>2. Awaited(id, r)'
      BY <2>3, <3>1 DEF Awaited, TypeInv
    <3>3. \A j \in 1..Len(requests[id]) :
            ~(requests[id][j].conn = c /\ requests[id][j].task = "summary")
      BY <2>1, <2>3, UnderWay DEF Awaited
    <3>. QED  BY <3>1, <3>2, <3>3
  <2>7. Requested(id, n, new)
    BY <2>4
  <2>8. \A r \in new :
          /\ r \in RequestRecord /\ Awaited(id, r)'
          /\ \A j \in 1..Len(requests[id]) : j # n =>
               ~(requests[id][j].conn = r.conn /\ requests[id][j].task = r.task)
    BY <2>6
  <2>. HIDE DEF id, n, new
  <2>. QED  BY <2>1, <2>2, <2>5, <2>7, <2>8, AwaitedStep
<1>11. ASSUME NEW id \in CallIds, NEW i \in DOMAIN requests[id], Return(id, i)
       PROVE  RequestsAreAwaited'
  <2> DEFINE q == requests[id][i]
             c == q.conn
  <2>1. /\ i \in 1..Len(requests[id])
        /\ q \in RequestRecord /\ c \in Conns /\ CallIdOf[c] = id
    BY <1>11, ReturnCases
  <2>2. i \in 1..Len(requests[id]) + 1
    <3>1. Len(requests[id]) \in Nat
      BY LenProperties DEF TypeInv
    <3>. QED  BY <2>1, <3>1
  <2>3. PICK ok \in BOOLEAN, m \in [CallIds -> Meta \cup {None}] :
          \/ GraceReturned(id, i, q, m) \/ FlushReturned(id, i, q, m)
          \/ TurnsReturned(id, i, q, ok) \/ SummaryReturned(id, i, q)
    BY <1>11, ReturnCases, Zenon
  <2>4. ASSUME NEW d \in CallIds, NEW j \in 1..Len(requests[d]), NEW r \in RequestRecord,
               r = requests[d][j], ~(d = id /\ j = i)
        PROVE  Awaited(d, r) /\ r.conn \in Conns /\ ~(r.conn = c /\ r.task = q.task)
    <3>1. Awaited(d, r) /\ r.conn \in Conns
      BY <2>4, UnderWay
    <3>2. r.conn = c => d = id
      BY <2>1, <3>1 DEF Awaited
    <3>3. d = id => ~(r.conn = c /\ r.task = q.task)
      BY <2>1, <2>4 DEF RequestsAreAwaited
    <3>. QED  BY <3>1, <3>2, <3>3
  <2>. HIDE DEF q
  <2>5. ASSUME NEW d \in CallIds, NEW j \in 1..Len(requests[d]), NEW r \in RequestRecord,
               r = requests[d][j], ~(d = id /\ j = i)
        PROVE  Awaited(d, r)'
    <3>1. Awaited(d, r) /\ r.conn \in Conns /\ ~(r.conn = c /\ r.task = q.task)
      BY <2>4, <2>5
    <3>2. CASE GraceReturned(id, i, q, m)
      BY <2>1, <3>1, <3>2 DEF GraceReturned, Awaited, TypeInv
    <3>3. CASE FlushReturned(id, i, q, m)
      BY <2>1, <3>1, <3>3 DEF FlushReturned, Popped, Awaited, TypeInv
    <3>4. CASE TurnsReturned(id, i, q, ok)
      <4>1. summary[c] = "none" /\ q.task = "flush"
        BY <2>1, <3>4 DEF TurnsReturned, TasksInOrder, TypeInv
      <4>. QED  BY <2>1, <3>1, <3>4, <4>1 DEF TurnsReturned, Awaited, TypeInv
    <3>5. CASE SummaryReturned(id, i, q)
      BY <2>1, <3>1, <3>5 DEF SummaryReturned, Awaited, TypeInv
    <3>. QED  BY <2>3, <3>2, <3>3, <3>4, <3>5
  <2>6. CASE Requested(id, i, {})
    BY <2>2, <2>5, <2>6, AwaitedStep
  <2>7. CASE FlushReturned(id, i, q, m) /\ m[id] # None
    <3> DEFINE new == {TurnsRequest(c, m)}
    <3>1. Requested(id, i, new) /\ flush' = [flush EXCEPT ![c] = "updating"]
      BY <2>1, <2>7 DEF FlushReturned, Popped
    <3>2. ASSUME NEW r \in new
          PROVE  /\ r \in RequestRecord
                 /\ Awaited(id, r)'
                 /\ \A j \in 1..Len(requests[id]) : j # i =>
                      ~(requests[id][j].conn = r.conn /\ requests[id][j].task = r.task)
      <4>1. r \in RequestRecord
        BY <2>1, <2>7, TurnsIsARequest DEF TurnsRequest
      <4>2. r.conn = c /\ r.task = "flush" /\ r.op = "turns"
        BY DEF TurnsRequest, Request
      <4>3. Awaited(id, r)'
        BY <2>1, <3>1, <4>1, <4>2 DEF Awaited, TypeInv
      <4>4. q.task = "flush"
        BY <2>7 DEF FlushReturned
      <4>5. \A j \in 1..Len(requests[id]) : requests[id][j] \in RequestRecord
        BY UnderWay
      <4>. QED  BY <2>4, <4>1, <4>2, <4>3, <4>4, <4>5
    <3>. HIDE DEF new, c
    <3>. QED  BY <2>2, <2>5, <3>1, <3>2, AwaitedStep
  <2>8. \/ Requested(id, i, {})
        \/ FlushReturned(id, i, q, m) /\ m[id] # None
    BY <2>1, <2>3 DEF GraceReturned, FlushReturned, Popped, TurnsReturned, SummaryReturned
  <2>. QED  BY <2>6, <2>7, <2>8
<1>. QED  BY <1>2, <1>3, <1>4, <1>5, <1>6, <1>7, <1>8, <1>9, <1>10, <1>11, Steps, Zenon

-----------------------------------------------------------------------------
(* One tool call ends the call *)

LEMMA InitGrace == Init => \A c \in Conns : OneGrace(c)
BY DEF Init, OneGrace, Tools

LEMMA StepGrace ==
  ASSUME TypeInv, TasksInOrder, RequestsAreAwaited, \A c \in Conns : OneGrace(c), Next
  PROVE  \A c \in Conns : OneGrace(c)'
<1> DEFINE Result == \A d \in Conns : OneGrace(d)'
<1>1. ASSUME UNCHANGED <<handler, ending, grace, endTask>>
      PROVE  Result
  BY <1>1 DEF OneGrace
<1>2. ASSUME NEW c \in Conns, OneGrace(c)',
             \A d \in Conns : d # c => /\ handler'[d] = handler[d] /\ ending'[d] = ending[d]
                                       /\ grace'[d] = grace[d] /\ endTask'[d] = endTask[d]
      PROVE  Result
  <2>1. ASSUME NEW d \in Conns, d # c
        PROVE  OneGrace(d)'
    BY <1>2, <2>1 DEF OneGrace
  <2>. QED  BY <1>2, <2>1
<1>3. ASSUME NEW c \in Conns, Moves(c) \/ Connect(c) \/ Begin(c) \/ WebConnects(c) \/ Cleanup(c)
      PROVE  Result
  BY <1>1, <1>3, EndpointTasks
<1>4. ASSUME NEW c \in Conns, FinalTurn(c) \/ Tee(c)
      PROVE  Result
  BY <1>1, <1>4 DEF FinalTurn, Tee, toolVars
<1>5. ASSUME NEW c \in Conns, NEW k \in Calls, NEW tool \in Tools, ToolStart(c, k, tool)
      PROVE  Result
  <2>1. /\ \A d \in Conns : d # c => handler'[d] = handler[d] /\ ending'[d] = ending[d]
        /\ UNCHANGED <<grace, endTask>>
    BY <1>5 DEF ToolStart, TypeInv
  <2>2. CASE ending[c]
    <3>1. handler'[c] = [handler[c] EXCEPT ![k] = "returned"] /\ ending' = ending
          /\ handler[c][k] = "none"
      BY <1>5, <2>2 DEF ToolStart, TypeInv
    <3>2. \A l \in Calls : /\ handler'[c][l] \in Tools <=> handler[c][l] \in Tools
                           /\ handler'[c][l] = "cancelled" <=> handler[c][l] = "cancelled"
      BY <3>1 DEF TypeInv, Tools
    <3>3. OneGrace(c)'
      BY <2>1, <3>1, <3>2 DEF OneGrace
    <3>. QED  BY <1>2, <2>1, <3>3
  <2>3. CASE ~ending[c]
    <3>1. handler'[c] = [handler[c] EXCEPT ![k] = tool] /\ ending'[c]
      BY <1>5, <2>3 DEF ToolStart, TypeInv
    <3>2. grace[c] = "none" /\ \A l \in Calls : handler[c][l] \notin Tools
      BY <2>3 DEF OneGrace
    <3>3. /\ handler'[c][k] \in Tools
          /\ \A l \in Calls : handler'[c][l] \in Tools => l = k
      BY <3>1, <3>2 DEF TypeInv
    <3>4. OneGrace(c)'
      BY <2>1, <3>1, <3>2, <3>3 DEF OneGrace
    <3>. QED  BY <1>2, <2>1, <3>4
  <2>. QED  BY <2>2, <2>3
<1>6. ASSUME NEW c \in Conns, NEW k \in Calls, ToolFinish(c, k)
      PROVE  Result
  <2>1. /\ \A d \in Conns : d # c => handler'[d] = handler[d] /\ grace'[d] = grace[d]
        /\ handler'[c] = [handler[c] EXCEPT ![k] = "returned"]
        /\ grace'[c] = "sleeping"
        /\ handler[c][k] \in Tools
        /\ UNCHANGED <<ending, endTask>>
    BY <1>6 DEF ToolFinish, TypeInv
  <2>2. \A l \in Calls : handler'[c][l] \notin Tools
    BY <2>1 DEF OneGrace, TypeInv, Tools
  <2>3. OneGrace(c)'
    BY <2>1, <2>2 DEF OneGrace
  <2>. QED  BY <1>2, <2>1, <2>3
<1>7. ASSUME NEW c \in Conns, Interruption(c)
      PROVE  Result
  <2>1. /\ \A d \in Conns : d # c => handler'[d] = handler[d]
        /\ handler'[c] = [k \in Calls |-> IF handler[c][k] \in Tools THEN "cancelled" ELSE handler[c][k]]
        /\ UNCHANGED <<ending, grace, endTask>>
    BY <1>7 DEF Interruption, TypeInv
  <2>2. \A l \in Calls : handler'[c][l] \notin Tools
    BY <2>1 DEF Tools
  <2>3. \A l \in Calls : handler[c][l] \in Tools \cup {"cancelled"} => handler'[c][l] = "cancelled"
    BY <2>1 DEF Tools
  <2>4. OneGrace(c)'
    BY <2>1, <2>2, <2>3 DEF OneGrace
  <2>. QED  BY <1>2, <2>1, <2>4
<1>8. ASSUME NEW c \in Conns, GraceOver(c)
      PROVE  Result
  <2>1. PICK state \in {"writing", "done"} :
          /\ grace[c] = "sleeping"
          /\ grace' = [grace EXCEPT ![c] = state]
          /\ endTask' = IF state = "done" THEN [endTask EXCEPT ![c] = @ + 1] ELSE endTask
          /\ UNCHANGED <<ending, handler>>
    BY <1>8, GraceOverCases
  <2>2. OneGrace(c)'
    BY <2>1 DEF OneGrace, TypeInv
  <2>. QED  BY <1>2, <2>1, <2>2 DEF TypeInv
<1>9. ASSUME NEW c \in Conns, FlushStart(c) \/ Summarize(c)
      PROVE  Result
  BY <1>1, <1>9 DEF FlushStart, Summarize, toolVars
<1>10. ASSUME NEW id \in CallIds, NEW i \in DOMAIN requests[id], Return(id, i)
       PROVE  Result
  <2> DEFINE r == requests[id][i]
             c == r.conn
  <2>1. c \in Conns /\ UNCHANGED <<ending, handler>>
    BY <1>10, ReturnCases
  <2>2. PICK ok \in BOOLEAN, m \in [CallIds -> Meta \cup {None}] :
          \/ GraceReturned(id, i, r, m) \/ FlushReturned(id, i, r, m)
          \/ TurnsReturned(id, i, r, ok) \/ SummaryReturned(id, i, r)
    BY <1>10, ReturnCases, Zenon
  <2>. HIDE DEF r, Result
  <2>3. CASE GraceReturned(id, i, r, m)
    <3>1. /\ grace[c] = "writing" /\ grace' = [grace EXCEPT ![c] = "done"]
          /\ endTask' = [endTask EXCEPT ![c] = @ + 1]
      BY <2>3 DEF GraceReturned
    <3>2. PICK d \in Conns : d = c
      BY <2>1
    <3>. HIDE DEF c
    <3>3. /\ grace[d] = "writing" /\ grace'[d] = "done" /\ endTask'[d] = endTask[d] + 1
          /\ \A e \in Conns : e # d => grace'[e] = grace[e] /\ endTask'[e] = endTask[e]
      BY <3>1, <3>2 DEF TypeInv
    <3>4. OneGrace(d)'
      BY <2>1, <3>3 DEF OneGrace
    <3>. QED  BY <1>2, <2>1, <3>3, <3>4
  <2>4. CASE FlushReturned(id, i, r, m) \/ TurnsReturned(id, i, r, ok) \/ SummaryReturned(id, i, r)
    BY <1>1, <2>1, <2>4 DEF FlushReturned, TurnsReturned, SummaryReturned
  <2>. QED  BY <2>2, <2>3, <2>4
<1>11. ASSUME NEW m \in Monitors, (\E id \in CallIds : MonitorAttaches(m, id)) \/ MonitorLeaves(m)
       PROVE  Result
  BY <1>1, <1>11 DEF MonitorAttaches, MonitorLeaves, toolVars
<1>12. ASSUME Crash
       PROVE  Result
  BY <1>12 DEF Crash, OneGrace, Tools
<1>. HIDE DEF Result
<1>13. ASSUME NEW c \in Conns, NEW k \in Calls,
              (\E tool \in Tools : ToolStart(c, k, tool)) \/ ToolFinish(c, k)
       PROVE  Result
  BY <1>5, <1>6, <1>13
<1>14. Result
  BY <1>3, <1>4, <1>7, <1>8, <1>9, <1>10, <1>11, <1>12, <1>13, Steps, Zenon
<1>. QED  BY <1>14 DEF Result

-----------------------------------------------------------------------------
(* What is in memory belongs to a call that is not over *)

LEMMA InitHeld == Init => MemoryIsHeld
<1>1. SUFFICES ASSUME Init PROVE MemoryIsHeld
  OBVIOUS
<1>2. \A id \in CallIds : sessions[id] = None /\ meta[id] = None /\ Buffered(id) = <<>>
  BY <1>1 DEF Init, RegistryInit, HistoryInit, Buffered
<1>3. ASSUME NEW id \in CallIds
      PROVE  ~Kept(id)
  <2>1. Len(Buffered(id)) = 0
    BY <1>2, EmptySeq
  <2>. QED  BY <1>2, <2>1 DEF Kept
<1>. QED  BY <1>2, <1>3 DEF MemoryIsHeld, SessionHeld

\* An entry is appended to one buffer.
LEMMA AppendEntryBuffers ==
  ASSUME TypeInv, NEW c \in Conns, NEW turn \in Nat, NEW id \in CallIds, AppendEntry(id, c, turn)
  PROVE  /\ Buffered(id) \in Seq(Entry)
         /\ Len(Buffered(id)) \in Nat
         /\ Buffered(id)' \in Seq(Entry)
         /\ Len(Buffered(id)') = Len(Buffered(id)) + 1
         /\ \A i \in 1..Len(Buffered(id)) : Buffered(id)'[i] = Buffered(id)[i]
         /\ Buffered(id)'[Len(Buffered(id)) + 1] = [conn |-> c, turn |-> turn]
         /\ \A d \in CallIds : d # id => Buffered(d)' = Buffered(d)
<1> DEFINE e == [conn |-> c, turn |-> turn]
           s == Buffered(id)
<1>1. s \in Seq(Entry) /\ Len(s) \in Nat
  <2>1. s \in Seq(Entry)
    BY EmptySeq DEF Buffered, TypeInv
  <2>. HIDE DEF s
  <2>. QED  BY <2>1, LenProperties
<1>2. e \in Entry
  BY DEF Entry
<1>3. /\ Append(s, e) \in Seq(Entry)
      /\ Len(Append(s, e)) = Len(s) + 1
      /\ \A i \in 1..Len(s) : Append(s, e)[i] = s[i]
      /\ Append(s, e)[Len(s) + 1] = e
  <2>. HIDE DEF s, e
  <2>. QED  BY <1>1, <1>2, AppendProperties
<1>4. buffers' = [buffers EXCEPT ![id] = Append(s, e)]
  BY DEF AppendEntry
<1>5. Buffered(id)' = Append(s, e)
  <2>1. buffers'[id] = Append(s, e)
    BY <1>4 DEF TypeInv
  <2>2. Append(s, e) # None
    <3>. HIDE DEF s, e
    <3>. QED  BY <1>3, HistoryAssumption
  <2>. QED  BY <2>1, <2>2 DEF Buffered
<1>6. \A d \in CallIds : d # id => Buffered(d)' = Buffered(d)
  <2>. HIDE DEF s, e
  <2>. QED  BY <1>4 DEF Buffered, TypeInv
<1>7. Buffered(id)' \in Seq(Entry) /\ Len(Buffered(id)') = Len(s) + 1
  BY <1>3, <1>5
<1>. QED  BY <1>1, <1>3, <1>5, <1>6, <1>7

\* Sessions leave the registry, or are where they were.
LEMMA SessionsStill ==
  ASSUME MemoryIsHeld, NEW id \in CallIds,
         sessions'[id] # None => sessions[id] # None,
         \A c \in Conns : pc[c] \in Registered \cup {"broken"} => pc'[c] \in Registered \cup {"broken"}
  PROVE  SessionHeld(id)'
BY DEF MemoryIsHeld, SessionHeld

\* What is kept is not more, and who holds it holds it still.
LEMMA HeldStill ==
  ASSUME MemoryIsHeld, NEW id \in CallIds,
         Kept(id)' => Kept(id),
         \A c \in Conns : CallIdOf[c] = id /\ Holds(c) => Holds(c)'
  PROVE  (Kept(id) => Held(id))'
BY DEF MemoryIsHeld, Held

LEMMA OutcomeWrittenKeeps ==
  ASSUME TypeInv, NEW id \in CallIds, NEW r \in RequestRecord, NEW d \in CallIds
  PROVE  /\ OutcomeWritten(id, r)[d] = None <=> meta[d] = None
         /\ d # id => OutcomeWritten(id, r)[d] = meta[d]
<1>1. CASE meta[id] # None /\ meta[id].conn = r.owner
  <2>1. [meta[id] EXCEPT !.written = TRUE] \in Meta
    <3>1. meta[id] \in Meta
      BY <1>1 DEF TypeInv
    <3>. QED  BY <3>1 DEF Meta
  <2>2. [meta[id] EXCEPT !.written = TRUE] # None
    BY <2>1, HistoryAssumption
  <2>3. OutcomeWritten(id, r) = [meta EXCEPT ![id] = [meta[id] EXCEPT !.written = TRUE]]
    BY <1>1 DEF OutcomeWritten
  <2>. QED  BY <1>1, <2>2, <2>3 DEF TypeInv
<1>2. CASE ~(meta[id] # None /\ meta[id].conn = r.owner)
  BY <1>2 DEF OutcomeWritten
<1>. QED  BY <1>1, <1>2

\* A step that leaves the memory alone, and moves no endpoint backwards.
LEMMA MemoryStill ==
  ASSUME MemoryIsHeld, UNCHANGED <<sessions, meta, buffers>>,
         \A c \in Conns : /\ pc[c] \in Registered \cup {"broken"} => pc'[c] \in Registered \cup {"broken"}
                          /\ Holds(c) => Holds(c)'
  PROVE  MemoryIsHeld'
<1>1. \A id \in CallIds : Kept(id)' => Kept(id)
  BY DEF Kept, Buffered
<1>2. ASSUME NEW id \in CallIds
      PROVE  SessionHeld(id)' /\ (Kept(id) => Held(id))'
  BY <1>1, SessionsStill, HeldStill
<1>. QED  BY <1>2 DEF MemoryIsHeld

LEMMA EndpointHeld ==
  ASSUME TypeInv, TasksInOrder, MemoryIsHeld, NEW c \in Conns,
         Moves(c) \/ Connect(c) \/ Begin(c) \/ WebConnects(c) \/ Cleanup(c)
  PROVE  MemoryIsHeld'
<1> DEFINE id == CallIdOf[c]
<1>1. id \in CallIds
  BY SessionAssumption
<1>2. CASE Moves(c)
  <2>1. /\ UNCHANGED <<sessions, meta, buffers, flush>>
        /\ \A d \in Conns : d # c => pc'[d] = pc[d]
        /\ pc[c] \in {"building", "running"} => pc'[c] \in {"running", "broken", "stopping"}
        /\ pc[c] \in {"absent", "handshake", "building", "running"}
    BY <1>2 DEF Moves, TwilioConnects, TwilioRefused, Run, BuildFails, PipelineEnds, Goto, TypeInv,
                historyVars, taskVars
  <2>2. ASSUME NEW d \in Conns
        PROVE  /\ pc[d] \in Registered \cup {"broken"} => pc'[d] \in Registered \cup {"broken"}
               /\ Holds(d) => Holds(d)'
    BY <2>1 DEF Registered, Holds
  <2>. QED  BY <2>1, <2>2, MemoryStill
<1>3. CASE Connect(c)
  <2>1. /\ UNCHANGED <<meta, buffers, flush>>
        /\ \A d \in CallIds : d # id => sessions'[d] = sessions[d]
        /\ \A d \in Conns : d # c => pc'[d] = pc[d]
        /\ pc[c] \in {"absent", "handshake"} /\ pc'[c] = "starting"
    BY <1>3 DEF Connect, Register, Goto, TypeInv, historyVars, taskVars
  <2>2. \A d \in Conns : /\ pc[d] \in Registered \cup {"broken"} => pc'[d] \in Registered \cup {"broken"}
                         /\ Holds(d) => Holds(d)'
    BY <2>1 DEF Registered, Holds
  <2>3. ASSUME NEW d \in CallIds
        PROVE  SessionHeld(d)'
    <3>1. CASE d = id
      BY <2>1, <3>1 DEF SessionHeld, Registered
    <3>2. CASE d # id
      BY <2>1, <2>2, <3>2, SessionsStill
    <3>. QED  BY <3>1, <3>2
  <2>4. ASSUME NEW d \in CallIds
        PROVE  (Kept(d) => Held(d))'
    <3>1. Kept(d)' => Kept(d)
      BY <2>1 DEF Kept, Buffered
    <3>. QED  BY <2>2, <3>1, HeldStill
  <2>. QED  BY <2>3, <2>4 DEF MemoryIsHeld
<1>4. CASE Begin(c) \/ WebConnects(c)
  <2>1. /\ \A d \in CallIds : d # id => /\ sessions'[d] = sessions[d] /\ meta'[d] = meta[d]
                                        /\ buffers'[d] = buffers[d]
        /\ \A d \in Conns : d # c => pc'[d] = pc[d]
        /\ pc[c] \in {"absent", "starting"} /\ pc'[c] = "building"
        /\ flush' = flush
    BY <1>1, <1>4 DEF Begin, WebConnects, Register, Attach, Goto, TypeInv, taskVars
  <2>2. \A d \in Conns : /\ pc[d] \in Registered \cup {"broken"} => pc'[d] \in Registered \cup {"broken"}
                         /\ Holds(d) => Holds(d)'
    BY <2>1 DEF Registered, Holds
  <2>3. ASSUME NEW d \in CallIds
        PROVE  SessionHeld(d)' /\ (Kept(d) => Held(d))'
    <3>1. CASE d = id
      BY <2>1, <3>1 DEF SessionHeld, Registered, Held, Holds
    <3>2. CASE d # id
      <4>1. Kept(d)' => Kept(d)
        BY <2>1, <3>2 DEF Kept, Buffered
      <4>2. sessions'[d] = sessions[d]
        BY <2>1, <3>2
      <4>. QED  BY <2>2, <4>1, <4>2, SessionsStill, HeldStill
    <3>. QED  BY <3>1, <3>2
  <2>. QED  BY <2>3 DEF MemoryIsHeld
<1>5. CASE Cleanup(c)
  <2>1. /\ UNCHANGED <<meta, buffers>>
        /\ \A d \in CallIds : d # id => sessions'[d] = sessions[d]
        /\ sessions'[id] = None
        /\ \A d \in Conns : d # c => pc'[d] = pc[d] /\ flush'[d] = flush[d]
        /\ pc[c] = "stopping" /\ flush'[c] = "start"
    BY <1>1, <1>5 DEF Cleanup, Unregister, Goto, TypeInv, historyVars
  <2>2. \A d \in Conns : Holds(d) => Holds(d)'
    BY <2>1 DEF Holds
  <2>3. ASSUME NEW d \in CallIds
        PROVE  SessionHeld(d)'
    <3>1. CASE d = id
      BY <2>1, <3>1 DEF SessionHeld
    <3>2. CASE d # id
      BY <2>1, <3>2 DEF SessionHeld, MemoryIsHeld
    <3>. QED  BY <3>1, <3>2
  <2>4. ASSUME NEW d \in CallIds
        PROVE  (Kept(d) => Held(d))'
    <3>1. Kept(d)' => Kept(d)
      BY <2>1 DEF Kept, Buffered
    <3>. QED  BY <2>2, <3>1, HeldStill
  <2>. QED  BY <2>3, <2>4 DEF MemoryIsHeld
<1>. QED  BY <1>2, <1>3, <1>4, <1>5

LEMMA TurnHeld ==
  ASSUME TypeInv, MemoryIsHeld, NEW c \in Conns, FinalTurn(c) \/ Tee(c)
  PROVE  MemoryIsHeld'
<1> DEFINE id == CallIdOf[c]
<1>1. id \in CallIds
  BY SessionAssumption
<1>2. CASE FinalTurn(c)
  BY <1>2, MemoryStill DEF FinalTurn, historyVars, taskVars, Holds
<1>3. CASE Tee(c)
  <2>1. pc[c] = "running" /\ UNCHANGED <<sessions, meta, pc, flush>>
    BY <1>3 DEF Tee, taskVars
  <2>2. \A d \in CallIds : d # id => buffers'[d] = buffers[d]
    BY <1>3 DEF Tee, AppendEntry, TypeInv
  <2>3. \A d \in Conns : Holds(d) => Holds(d)'
    BY <2>1 DEF Holds
  <2>4. ASSUME NEW d \in CallIds
        PROVE  SessionHeld(d)' /\ (Kept(d) => Held(d))'
    <3>1. SessionHeld(d)'
      BY <2>1 DEF MemoryIsHeld, SessionHeld
    <3>2. CASE d = id
      BY <2>1, <3>1, <3>2 DEF Held, Holds
    <3>3. CASE d # id
      <4>1. Kept(d)' => Kept(d)
        BY <2>1, <2>2, <3>3 DEF Kept, Buffered
      <4>. QED  BY <2>3, <3>1, <4>1, HeldStill
    <3>. QED  BY <3>2, <3>3
  <2>. QED  BY <2>4 DEF MemoryIsHeld
<1>. QED  BY <1>2, <1>3

\* Nobody but the flush removes a dict from _meta, and only attach adds one.
LEMMA MarkKeeps ==
  ASSUME TypeInv, NEW c \in Conns, Mark(c)
  PROVE  \A d \in CallIds : meta'[d] = None <=> meta[d] = None
<1> DEFINE id == CallIdOf[c]
<1>1. id \in CallIds
  BY SessionAssumption
<1>2. CASE scope[c] = "phone" /\ meta[id] # None
  <2>1. [meta[id] EXCEPT !.transfer = TRUE] \in Meta
    <3>1. meta[id] \in Meta
      BY <1>1, <1>2 DEF TypeInv
    <3>. QED  BY <3>1 DEF Meta
  <2>2. [meta[id] EXCEPT !.transfer = TRUE] # None
    BY <2>1, HistoryAssumption
  <2>3. meta' = [meta EXCEPT ![id] = [meta[id] EXCEPT !.transfer = TRUE]]
    BY <1>2 DEF Mark, MarkTransfer
  <2>. QED  BY <1>1, <1>2, <2>2, <2>3 DEF TypeInv
<1>3. CASE ~(scope[c] = "phone" /\ meta[id] # None)
  BY <1>3 DEF Mark, MarkTransfer
<1>. QED  BY <1>2, <1>3

LEMMA ToolHeld ==
  ASSUME TypeInv, MemoryIsHeld, NEW c \in Conns, NEW k \in Calls,
         (\E tool \in Tools : ToolStart(c, k, tool)) \/ ToolFinish(c, k)
  PROVE  MemoryIsHeld'
<1> DEFINE id == CallIdOf[c]
<1>1. id \in CallIds
  BY SessionAssumption
<1>2. ASSUME UNCHANGED <<sessions, pc, flush>>, \A d \in CallIds : Kept(d)' => Kept(d)
      PROVE  MemoryIsHeld'
  <2>1. \A d \in Conns : Holds(d) => Holds(d)'
    BY <1>2 DEF Holds
  <2>2. ASSUME NEW d \in CallIds
        PROVE  SessionHeld(d)' /\ (Kept(d) => Held(d))'
    BY <1>2, <2>1, HeldStill DEF MemoryIsHeld, SessionHeld
  <2>. QED  BY <2>2 DEF MemoryIsHeld
<1>3. ASSUME NEW tool \in Tools, ToolStart(c, k, tool)
      PROVE  MemoryIsHeld'
  <2>1. UNCHANGED <<sessions, pc, flush, buffers>>
    BY <1>3 DEF ToolStart, taskVars
  <2>2. \A d \in CallIds : meta'[d] = None <=> meta[d] = None
    <3>1. meta' = meta \/ Mark(c)
      BY <1>3, Zenon DEF ToolStart
    <3>. QED  BY <3>1, MarkKeeps
  <2>3. \A d \in CallIds : Kept(d)' => Kept(d)
    BY <2>1, <2>2 DEF Kept, Buffered
  <2>. QED  BY <1>2, <2>1, <2>3
<1>4. CASE ToolFinish(c, k)
  <2>1. UNCHANGED <<sessions, pc, flush, meta>>
    BY <1>4 DEF ToolFinish, taskVars
  <2>2. CASE scope[c] = "phone"
    <3> DEFINE s == Buffered(id)
               t == Buffered(id)'
    <3>1. AppendEntry(id, c, 0)
      BY <1>4, <2>2 DEF ToolFinish, AppendTool
    <3>2. /\ Len(s) \in Nat
          /\ Len(t) = Len(s) + 1
          /\ \A i \in 1..Len(s) : t[i] = s[i]
          /\ t[Len(s) + 1] = [conn |-> c, turn |-> 0]
          /\ \A d \in CallIds : d # id => Buffered(d)' = Buffered(d)
      BY <1>1, <3>1, AppendEntryBuffers
    <3>3. ASSUME NEW i \in 1..Len(t), t[i].turn # 0
          PROVE  i \in 1..Len(s) /\ s[i].turn # 0
      <4>. HIDE DEF s, t
      <4>1. i # Len(s) + 1
        BY <3>2, <3>3
      <4>2. i \in 1..Len(s)
        BY <3>2, <4>1
      <4>. QED  BY <3>2, <3>3, <4>2
    <3>4. \A d \in CallIds : Kept(d)' => Kept(d)
      BY <2>1, <3>2, <3>3 DEF Kept
    <3>. QED  BY <1>2, <2>1, <3>4
  <2>3. CASE scope[c] # "phone"
    <3>1. buffers' = buffers
      BY <1>4, <2>3 DEF ToolFinish, AppendTool
    <3>2. \A d \in CallIds : Kept(d)' => Kept(d)
      BY <2>1, <3>1 DEF Kept, Buffered
    <3>. QED  BY <1>2, <2>1, <3>2
  <2>. QED  BY <2>2, <2>3
<1>. QED  BY <1>3, <1>4

LEMMA PoppedHeld ==
  ASSUME TypeInv, MemoryIsHeld, NEW c \in Conns, NEW i, NEW m \in [CallIds -> Meta \cup {None}],
         \A d \in CallIds : d # CallIdOf[c] => m[d] = meta[d],
         Popped(c, m, i), UNCHANGED <<sessions, pc>>
  PROVE  MemoryIsHeld'
<1> DEFINE id == CallIdOf[c]
<1>1. id \in CallIds
  BY SessionAssumption
<1>2. /\ \A d \in CallIds : d # id => buffers'[d] = buffers[d] /\ meta'[d] = meta[d]
      /\ buffers'[id] = None /\ meta'[id] = None
      /\ \A d \in Conns : d # c => flush'[d] = flush[d]
  BY <1>1 DEF Popped, TypeInv
<1>3. ~Kept(id)'
  <2>1. Buffered(id)' = <<>>
    BY <1>2 DEF Buffered
  <2>2. Len(Buffered(id)') = 0
    BY <2>1, EmptySeq
  <2>. QED  BY <1>2, <2>2 DEF Kept
<1>4. ASSUME NEW d \in CallIds
      PROVE  SessionHeld(d)' /\ (Kept(d) => Held(d))'
  <2>1. SessionHeld(d)'
    BY DEF MemoryIsHeld, SessionHeld
  <2>2. CASE d = id
    BY <1>3, <2>1, <2>2
  <2>3. CASE d # id
    <3>1. Kept(d)' => Kept(d)
      BY <1>2, <2>3 DEF Kept, Buffered
    <3>2. \A e \in Conns : CallIdOf[e] = d /\ Holds(e) => Holds(e)'
      BY <1>2, <2>3 DEF Holds
    <3>. QED  BY <2>1, <3>1, <3>2, HeldStill
  <2>. QED  BY <2>2, <2>3
<1>. QED  BY <1>4 DEF MemoryIsHeld

LEMMA TaskHeld ==
  ASSUME TypeInv, MemoryIsHeld, NEW c \in Conns,
         Interruption(c) \/ GraceOver(c) \/ FlushStart(c) \/ Summarize(c)
  PROVE  MemoryIsHeld'
<1> DEFINE id == CallIdOf[c]
<1>1. CASE Interruption(c)
  BY <1>1, MemoryStill DEF Interruption, historyVars, taskVars, Holds
<1>2. CASE GraceOver(c)
  BY <1>2, MemoryStill DEF GraceOver, taskVars, Holds
<1>3. CASE Summarize(c)
  BY <1>3, MemoryStill DEF Summarize, Holds
<1>4. CASE FlushStart(c)
  <2>1. CASE Popped(c, meta, Len(requests[id]) + 1)
    <3>1. UNCHANGED <<sessions, pc>>
      BY <1>4 DEF FlushStart
    <3>2. meta \in [CallIds -> Meta \cup {None}]
      BY DEF TypeInv
    <3>. QED  BY <2>1, <3>1, <3>2, PoppedHeld
  <2>2. CASE flush' = [flush EXCEPT ![c] = "putting"] /\ UNCHANGED <<buffers, meta>>
    <3>1. /\ UNCHANGED <<sessions, meta, buffers, pc>>
          /\ \A d \in Conns : flush'[d] # flush[d] => flush'[d] = "putting"
      BY <1>4, <2>2 DEF FlushStart, TypeInv
    <3>2. \A d \in Conns : Holds(d) => Holds(d)'
      BY <3>1 DEF Holds
    <3>. QED  BY <3>1, <3>2, MemoryStill
  <2>. QED  BY <1>4, <2>1, <2>2, FlushStartCases
<1>. QED  BY <1>1, <1>2, <1>3, <1>4

LEMMA ReturnHeld ==
  ASSUME TypeInv, RequestsAreAwaited, MemoryIsHeld, NEW id \in CallIds,
         NEW i \in DOMAIN requests[id], Return(id, i)
  PROVE  MemoryIsHeld'
<1> DEFINE r == requests[id][i]
           c == r.conn
<1>1. /\ r \in RequestRecord /\ c \in Conns /\ CallIdOf[c] = id
      /\ UNCHANGED <<sessions, pc>>
  BY ReturnCases
<1>2. PICK ok \in BOOLEAN, m \in [CallIds -> Meta \cup {None}] :
        /\ m = IF ok THEN OutcomeWritten(id, r) ELSE meta
        /\ \/ GraceReturned(id, i, r, m) \/ FlushReturned(id, i, r, m)
           \/ TurnsReturned(id, i, r, ok) \/ SummaryReturned(id, i, r)
  BY ReturnCases, Zenon
<1>3. /\ \A d \in CallIds : m[d] = None <=> meta[d] = None
      /\ \A d \in CallIds : d # id => m[d] = meta[d]
  BY <1>1, <1>2, OutcomeWrittenKeeps
<1>. HIDE DEF r
<1>4. CASE GraceReturned(id, i, r, m)
  <2>1. UNCHANGED <<buffers, flush>> /\ meta' = m
    BY <1>4 DEF GraceReturned
  <2>2. \A d \in Conns : Holds(d) => Holds(d)'
    BY <1>1, <2>1 DEF Holds
  <2>3. \A d \in CallIds : Kept(d)' => Kept(d)
    BY <1>3, <2>1 DEF Kept, Buffered
  <2>4. ASSUME NEW d \in CallIds
        PROVE  SessionHeld(d)' /\ (Kept(d) => Held(d))'
    BY <1>1, <2>2, <2>3, HeldStill DEF MemoryIsHeld, SessionHeld
  <2>. QED  BY <2>4 DEF MemoryIsHeld
<1>5. CASE FlushReturned(id, i, r, m)
  <2>1. PICK d \in Conns : d = c
    BY <1>1
  <2>2. Popped(d, m, i)
    BY <1>5, <2>1 DEF FlushReturned
  <2>. HIDE DEF c
  <2>. QED  BY <1>1, <1>3, <2>1, <2>2, PoppedHeld
<1>6. CASE TurnsReturned(id, i, r, ok)
  <2>1. /\ UNCHANGED <<buffers, meta>>
        /\ flush[c] = "updating"
        /\ \A d \in Conns : d # c => flush'[d] = flush[d]
    BY <1>1, <1>6 DEF TurnsReturned, TypeInv
  <2>2. \A d \in Conns : Holds(d) => Holds(d)'
    BY <1>1, <2>1 DEF Holds
  <2>. QED  BY <1>1, <2>1, <2>2, MemoryStill
<1>7. CASE SummaryReturned(id, i, r)
  BY <1>1, <1>7, MemoryStill DEF SummaryReturned, Holds
<1>. QED  BY <1>2, <1>4, <1>5, <1>6, <1>7

LEMMA MonitorHeld ==
  ASSUME TypeInv, MemoryIsHeld, NEW m \in Monitors,
         (\E id \in CallIds : MonitorAttaches(m, id)) \/ MonitorLeaves(m)
  PROVE  MemoryIsHeld'
<1>1. UNCHANGED <<meta, buffers, pc, flush>>
  BY DEF MonitorAttaches, MonitorLeaves, historyVars, taskVars
<1>2. \A d \in Conns : Holds(d) => Holds(d)'
  BY <1>1 DEF Holds
<1>3. \A d \in CallIds : sessions'[d] # None => sessions[d] # None
  <2>1. CASE \E id \in CallIds : MonitorAttaches(m, id)
    BY <2>1 DEF MonitorAttaches, AttachMonitor, TypeInv
  <2>2. CASE MonitorLeaves(m)
    BY <2>2 DEF MonitorLeaves, DetachMonitor, TypeInv
  <2>. QED  BY <2>1, <2>2
<1>4. ASSUME NEW d \in CallIds
      PROVE  SessionHeld(d)' /\ (Kept(d) => Held(d))'
  <2>1. Kept(d)' => Kept(d)
    BY <1>1 DEF Kept, Buffered
  <2>2. sessions'[d] # None => sessions[d] # None
    BY <1>3
  <2>. QED  BY <1>1, <1>2, <2>1, <2>2, HeldStill, SessionsStill
<1>. QED  BY <1>4 DEF MemoryIsHeld

LEMMA CrashHeld ==
  ASSUME Crash
  PROVE  MemoryIsHeld'
<1>1. ASSUME NEW d \in CallIds
      PROVE  SessionHeld(d)' /\ ~Kept(d)'
  <2>1. sessions'[d] = None /\ meta'[d] = None /\ buffers'[d] = None
    BY DEF Crash
  <2>2. Len(Buffered(d)') = 0
    BY <2>1, EmptySeq DEF Buffered
  <2>. QED  BY <2>1, <2>2 DEF SessionHeld, Kept
<1>. QED  BY <1>1 DEF MemoryIsHeld

-----------------------------------------------------------------------------
(* The invariant, and what it says *)

LEMMA Invariant == Spec => []IInv
<1>1. Init => IInv
  BY InitTypes, InitTasks, InitAwaited, InitGrace, InitHeld DEF IInv
<1>2. IInv /\ [Next]_vars => IInv'
  <2>1. SUFFICES ASSUME IInv, [Next]_vars PROVE IInv'
    OBVIOUS
  <2>2. CASE UNCHANGED vars
    BY <2>1, <2>2, StepTypes
       DEF IInv, TasksInOrder, RequestsAreAwaited, Awaited, OneGrace, MemoryIsHeld, SessionHeld, Kept,
           Held, Holds, Buffered, vars, turnVars, toolVars, taskVars, peerVars
  <2>3. CASE Next
    <3>1. TypeInv' /\ TasksInOrder' /\ RequestsAreAwaited' /\ (\A c \in Conns : OneGrace(c)')
      BY <2>1, <2>3, StepTypes, StepTasks, StepAwaited, StepGrace DEF IInv
    <3>2. MemoryIsHeld'
      BY <2>1, <2>3, Steps, EndpointHeld, TurnHeld, ToolHeld, TaskHeld, ReturnHeld, MonitorHeld,
         CrashHeld, Zenon DEF IInv
    <3>. QED  BY <3>1, <3>2 DEF IInv
  <2>. QED  BY <2>1, <2>2, <2>3
<1>. QED  BY <1>1, <1>2, PTL DEF Spec

\* Each value has its kind, in the registry, the buffers, the table and the tasks.
THEOREM PhoneTypes == Spec => []TypeOK
<1>1. IInv => TypeOK
  <2>1. SUFFICES ASSUME IInv PROVE TypeOK
    OBVIOUS
  <2>2. RegistryTypeOK
    BY <2>1 DEF IInv, TypeInv, RegistryTypeOK
  <2>3. HistoryTypeOK
    <3>1. ASSUME NEW id \in CallIds
          PROVE  buffers[id] = None \/ \A i \in DOMAIN buffers[id] : buffers[id][i] \in Entry
      <4>1. buffers[id] \in Seq(Entry) \cup {None}
        BY <2>1 DEF IInv, TypeInv
      <4>. QED  BY <4>1, LenProperties, ElementOfSeq
    <3>2. ASSUME NEW id \in CallIds
          PROVE  /\ rows[id].outcome \in BOOLEAN /\ rows[id].transfer \in BOOLEAN
                 /\ rows[id].flushed \in BOOLEAN /\ rows[id].status \in Statuses
                 /\ \A i \in DOMAIN rows[id].turns : rows[id].turns[i] \in Entry
      <4>1. rows[id] \in Row
        BY <2>1 DEF IInv, TypeInv
      <4>2. rows[id].turns \in Seq(Entry)
        BY <4>1 DEF Row
      <4>. QED  BY <4>1, <4>2, LenProperties, ElementOfSeq DEF Row
    <3>3. ASSUME NEW id \in CallIds, NEW i \in DOMAIN requests[id]
          PROVE  requests[id][i].conn \in Conns
      <4>1. requests[id] \in Seq(RequestRecord)
        BY <2>1 DEF IInv, TypeInv
      <4>2. requests[id][i] \in RequestRecord
        BY <4>1, LenProperties, ElementOfSeq
      <4>. QED  BY <4>2 DEF RequestRecord
    <3>. QED  BY <2>1, <3>1, <3>2, <3>3 DEF HistoryTypeOK, IInv, TypeInv
  <2>. QED  BY <2>1, <2>2, <2>3 DEF TypeOK, IInv, TypeInv
<1>. QED  BY <1>1, Invariant, PTL

\* However many tool calls the LLM makes at once (call_control_tools.py:151), a call
\* is ended by one EndTaskFrame, after its grace period.
THEOREM OneEndTaskPerCall == Spec => []OneEndTask
<1>1. IInv => OneEndTask
  BY DEF IInv, TypeInv, OneGrace, OneEndTask
<1>. QED  BY <1>1, Invariant, PTL

\* A call that is declared to be ending has somebody who will end it, unless an
\* interruption cancelled the tool call.
THEOREM EndingHasATask == Spec => []EndingIsScheduled
<1>1. IInv => EndingIsScheduled
  BY DEF IInv, OneGrace, EndingIsScheduled
<1>. QED  BY <1>1, Invariant, PTL

\* Also if connections give the same call_id, whatever the order in which they are
\* registered, flushed and removed, nothing of them stays in memory.
THEOREM NothingIsLeft == Spec => []NothingLeft
<1>1. IInv => NothingLeft
  <2>1. SUFFICES ASSUME IInv, NEW id \in CallIds,
                        \A c \in Conns : CallIdOf[c] = id =>
                          \/ pc[c] \in {"absent", "handshake", "refused"}
                          \/ pc[c] = "ended" /\ flush[c] = "done"
                 PROVE  /\ sessions[id] = None
                        /\ meta[id] = None
                        /\ \A i \in 1..Len(Buffered(id)) : buffers[id][i].turn = 0
    BY DEF NothingLeft
  <2>2. \A c \in Conns : CallIdOf[c] = id => ~Holds(c) /\ pc[c] \notin Registered \cup {"broken"}
    BY <2>1 DEF IInv, TasksInOrder, Holds, Registered
  <2>3. sessions[id] = None /\ ~Kept(id)
    BY <2>1, <2>2 DEF IInv, MemoryIsHeld, SessionHeld, Held
  <2>4. ASSUME NEW i \in 1..Len(Buffered(id))
        PROVE  buffers[id][i] = Buffered(id)[i]
    <3>1. CASE buffers[id] = None
      <4>1. Len(Buffered(id)) = 0
        BY <3>1, EmptySeq DEF Buffered
      <4>. QED  BY <4>1
    <3>2. CASE buffers[id] # None
      BY <3>2 DEF Buffered
    <3>. QED  BY <3>1, <3>2
  <2>. QED  BY <2>3, <2>4 DEF Kept
<1>. QED  BY <1>1, Invariant, PTL
=============================================================================
