-------------------------- MODULE PhoneRecordProofs --------------------------
(***************************************************************************)
(* Proofs about PhoneSession when each connection has a call_id of its     *)
(* own, as it does if no SIP Call-ID, streamSid or time stamp (bot.py:     *)
(* 5972, 6971, 7279) is given twice: what the registry holds, what the     *)
(* table holds of a call, and that the table implements CallRecord if      *)
(* requests arrive in the order they are made.                             *)
(***************************************************************************)
EXTENDS PhoneSessionProofs

OwnCallIds == \A c, d \in Conns : CallIdOf[c] = CallIdOf[d] => c = d

Asked(c) == c \in asked /\ scope[c] = "phone"

InCall(c) == pc[c] \in {"building", "running", "stopping"}
BeforeCall(c) == pc[c] \in {"absent", "handshake", "refused", "starting"}
Over(c) == pc[c] \in {"ended", "killed"}

Pending(c) == {requests[CallIdOf[c]][i] : i \in 1..Len(requests[CallIdOf[c]])}

\* When the tools and the tasks of a call can have done something.
PhasesAgree(c) ==
  /\ c \in asked => ~BeforeCall(c) /\ pc[c] # "building"
  /\ ending[c] => pc[c] \in {"running", "stopping", "ended"}
  /\ pc[c] = "killed" => flush[c] = "none"

\* What _meta holds is the dict of the connection, from attach to the flush.
MetaIsCurrent(c) ==
  LET id == CallIdOf[c] IN
  /\ InCall(c) => meta[id] # None
  /\ meta[id] # None =>
       /\ ~BeforeCall(c)
       /\ flush[c] \in {"none", "start", "putting"}
       /\ meta[id].conn = c
       /\ meta[id].transfer <=> Asked(c)
       /\ meta[id].written => rows[id].outcome

\* An outcome row, and one that is on its way, is of a call that is ending.
OutcomeIsFinal(c) ==
  LET row == rows[CallIdOf[c]] IN
  /\ row.outcome => (row.transfer <=> Asked(c)) /\ (ending[c] \/ Over(c))
  /\ \A r \in Pending(c) :
       r.op = "put" => (r.transfer <=> Asked(c)) /\ (ending[c] \/ Over(c))
  /\ grace[c] = "done" /\ pc[c] = "running" /\ scope[c] = "phone" /\ <<c, "grace">> \notin failed
       => row.outcome

\* The turns of a call are in its buffer, then in a request, then in its row.
TurnsAreKept(c) ==
  LET id == CallIdOf[c] IN
  /\ BeforeCall(c) => buffers[id] = None
  /\ pc[c] \in {"absent", "handshake", "refused", "starting", "building"} => recorded[c] = 0
  /\ InCall(c) \/ flush[c] \in {"start", "putting"} => HoldsTurns(Buffered(id), c, recorded[c])
  /\ \A r \in Pending(c) : r.op = "turns" => HoldsTurns(r.turns, c, recorded[c])
  /\ rows[id].flushed => Over(c) /\ HoldsTurns(rows[id].turns, c, recorded[c])

CallInv(c) == PhasesAgree(c) /\ MetaIsCurrent(c) /\ OutcomeIsFinal(c) /\ TurnsAreKept(c)

RecordInv == \A c \in Conns : CallInv(c)

-----------------------------------------------------------------------------
(* If requests arrive in the order they are made *)

PutRow(transfer) == [outcome |-> TRUE, transfer |-> transfer, flushed |-> FALSE,
                     turns |-> <<>>, status |-> "pending"]

Open(row) == row = NoRow \/ \E transfer \in BOOLEAN : row = PutRow(transfer)

\* What a request that is under way will find.
Finds(row, r) ==
  /\ r.op = "put" => row = NoRow \/ row = PutRow(r.transfer)
  /\ r.op = "turns" => ~row.flushed /\ row.status \notin {"ok", "failed"}
  /\ r.op = "summary" => /\ row.flushed /\ row.status \notin {"ok", "failed"}
                         /\ r.status \in {"ok", "failed"}

\* The requests of a call are made in the order put, turns, summary.
InTurn(c) ==
  LET id == CallIdOf[c] IN
  /\ \A i \in 1..Len(requests[id]) : Finds(rows[id], requests[id][i])
  /\ \A i, j \in 1..Len(requests[id]) :
       i < j /\ requests[id][i].op # "put" => requests[id][j].op # "put"

RowGrows(c) ==
  LET row == rows[CallIdOf[c]] IN
  /\ BeforeCall(c) => row = NoRow
  /\ meta[CallIdOf[c]] # None => Open(row)
  /\ summary[c] \in {"invoking", "updating"} => row.flushed /\ row.status \notin {"ok", "failed"}

OrderInv == \A c \in Conns : InTurn(c) /\ RowGrows(c)

-----------------------------------------------------------------------------
(* A step of one connection leaves the others alone *)

Same(d) ==
  LET id == CallIdOf[d] IN
  /\ pc'[d] = pc[d] /\ scope'[d] = scope[d] /\ recorded'[d] = recorded[d]
  /\ ending'[d] = ending[d] /\ grace'[d] = grace[d]
  /\ flush'[d] = flush[d] /\ summary'[d] = summary[d]
  /\ d \in asked' <=> d \in asked
  /\ <<d, "grace">> \in failed => <<d, "grace">> \in failed'
  /\ meta'[id] = meta[id] /\ buffers'[id] = buffers[id]
  /\ rows'[id] = rows[id] /\ requests'[id] = requests[id]

LEMMA SameCall ==
  ASSUME NEW d \in Conns, CallInv(d), Same(d)
  PROVE  CallInv(d)'
<1>1. Buffered(CallIdOf[d])' = Buffered(CallIdOf[d]) /\ Pending(d)' = Pending(d)
  BY DEF Same, Buffered, Pending
<1>2. PhasesAgree(d)'
  BY DEF CallInv, PhasesAgree, Same, BeforeCall
<1>3. MetaIsCurrent(d)'
  BY DEF CallInv, MetaIsCurrent, Same, InCall, BeforeCall, Asked
<1>4. OutcomeIsFinal(d)'
  BY <1>1 DEF CallInv, OutcomeIsFinal, Same, Over, Asked
<1>5. TurnsAreKept(d)'
  BY <1>1 DEF CallInv, TurnsAreKept, Same, InCall, BeforeCall, Over
<1>. QED  BY <1>2, <1>3, <1>4, <1>5 DEF CallInv

LEMMA OthersCalls ==
  ASSUME RecordInv, NEW c \in Conns, CallInv(c)', \A d \in Conns : d # c => Same(d)
  PROVE  RecordInv'
<1>1. \A d \in Conns : d # c => CallInv(d)'
  BY SameCall DEF RecordInv
<1>. QED  BY <1>1 DEF RecordInv

\* The steps that change nothing that the invariant of a call is about.
LEMMA QuietSame ==
  ASSUME UNCHANGED <<pc, scope, recorded, ending, grace, flush, summary, asked, failed,
                     meta, buffers, rows, requests>>,
         RecordInv
  PROVE  RecordInv'
<1>1. \A d \in Conns : Same(d)
  BY DEF Same
<1>. QED  BY <1>1, SameCall DEF RecordInv

\* The requests under way are those of before, but for the new ones.
LEMMA PendingAfter ==
  ASSUME TypeInv, NEW c \in Conns, NEW i \in 1..Len(requests[CallIdOf[c]]) + 1, NEW new,
         Requested(CallIdOf[c], i, new)
  PROVE  /\ \A r \in Pending(c)' : r \in Pending(c) \/ r \in new
         /\ \A d \in CallIds : d # CallIdOf[c] => requests'[d] = requests[d]
BY DEF Requested, Pending

LEMMA PendingRecords ==
  ASSUME TypeInv, RequestsAreAwaited, NEW c \in Conns
  PROVE  \A r \in Pending(c) : r \in RequestRecord /\ Awaited(CallIdOf[c], r)
<1>1. CallIdOf[c] \in CallIds
  BY SessionAssumption
<1>. QED  BY <1>1, UnderWay DEF Pending

\* With a call_id of its own, a connection makes the requests of its call_id.
LEMMA OwnRequests ==
  ASSUME OwnCallIds, TypeInv, RequestsAreAwaited, NEW c \in Conns
  PROVE  \A r \in Pending(c) : r.conn = c
<1>1. \A r \in Pending(c) : r.conn \in Conns /\ CallIdOf[r.conn] = CallIdOf[c]
  BY PendingRecords DEF Awaited, RequestRecord
<1>. QED  BY <1>1 DEF OwnCallIds

-----------------------------------------------------------------------------
(* HoldsTurns *)

LEMMA NoTurns ==
  ASSUME NEW c \in Conns
  PROVE  HoldsTurns(<<>>, c, 0)
<1>1. Len(<<>>) = 0
  BY EmptySeq
<1>. QED  BY <1>1 DEF HoldsTurns

\* The next turn is appended.
LEMMA OneMoreTurn ==
  ASSUME NEW c \in Conns, NEW n \in Nat, NEW s \in Seq(Entry), NEW t \in Seq(Entry),
         HoldsTurns(s, c, n),
         Len(t) = Len(s) + 1,
         \A i \in 1..Len(s) : t[i] = s[i],
         t[Len(s) + 1] = [conn |-> c, turn |-> n + 1]
  PROVE  HoldsTurns(t, c, n + 1)
<1>1. Len(s) \in Nat /\ \A i \in 1..Len(s) : s[i].turn \in Nat
  <2>1. Len(s) \in Nat /\ \A i \in 1..Len(s) : s[i] \in Entry
    BY LenProperties, ElementOfSeq
  <2>. QED  BY <2>1 DEF Entry
<1>2. ASSUME NEW i \in 1..Len(t), t[i].turn # 0
      PROVE  t[i].conn = c /\ t[i].turn \in 1..n + 1
  BY <1>1, <1>2 DEF HoldsTurns
<1>3. ASSUME NEW i \in 1..Len(t), NEW j \in 1..Len(t), t[i].turn # 0, t[j].turn # 0, i < j
      PROVE  t[i].turn < t[j].turn
  <2>1. i \in 1..Len(s) /\ t[i] = s[i] /\ s[i].turn \in 1..n
    BY <1>1, <1>3 DEF HoldsTurns
  <2>2. CASE j \in 1..Len(s)
    BY <1>3, <2>1, <2>2 DEF HoldsTurns
  <2>3. CASE j = Len(s) + 1
    BY <2>1, <2>3
  <2>. QED  BY <1>1, <2>2, <2>3
<1>4. ASSUME NEW k \in 1..n + 1
      PROVE  \E i \in 1..Len(t) : t[i].turn # 0 /\ t[i].turn = k
  <2>1. CASE k \in 1..n
    <3>1. PICK i \in 1..Len(s) : s[i].turn # 0 /\ s[i].turn = k
      BY <2>1 DEF HoldsTurns
    <3>. QED  BY <1>1, <3>1
  <2>2. CASE k = n + 1
    BY <1>1, <2>2
  <2>. QED  BY <2>1, <2>2
<1>. QED  BY <1>2, <1>3, <1>4 DEF HoldsTurns

\* An event is appended.
LEMMA OneMoreEvent ==
  ASSUME NEW c \in Conns, NEW n \in Nat, NEW s \in Seq(Entry), NEW t \in Seq(Entry),
         HoldsTurns(s, c, n),
         Len(t) = Len(s) + 1,
         \A i \in 1..Len(s) : t[i] = s[i],
         t[Len(s) + 1].turn = 0
  PROVE  HoldsTurns(t, c, n)
<1>1. Len(s) \in Nat
  BY LenProperties
<1>2. \A i \in 1..Len(t) : t[i].turn # 0 => i \in 1..Len(s) /\ t[i] = s[i]
  BY <1>1
<1>3. \A i \in 1..Len(s) : i \in 1..Len(t) /\ t[i] = s[i]
  BY <1>1
<1>4. \A k \in 1..n : \E i \in 1..Len(t) : t[i].turn # 0 /\ t[i].turn = k
  BY <1>3 DEF HoldsTurns
<1>. QED  BY <1>2, <1>4 DEF HoldsTurns

-----------------------------------------------------------------------------
(* The endpoint *)

LEMMA EndpointCalls ==
  ASSUME OwnCallIds, IInv, RecordInv, NEW c \in Conns,
         Moves(c) \/ Connect(c) \/ Begin(c) \/ WebConnects(c) \/ Cleanup(c)
  PROVE  RecordInv'
<1> DEFINE id == CallIdOf[c]
<1>0. /\ id \in CallIds /\ TypeInv /\ TasksInOrder /\ OneGrace(c) /\ CallInv(c)
      /\ \A d \in Conns : d # c => CallIdOf[d] \in CallIds /\ CallIdOf[d] # id
  BY SessionAssumption DEF IInv, RecordInv, OwnCallIds
<1>1. CASE Moves(c) \/ Connect(c)
  <2>1. /\ UNCHANGED <<scope, recorded, ending, grace, flush, summary, asked, failed,
                       meta, buffers, rows, requests>>
        /\ \A d \in Conns : d # c => pc'[d] = pc[d]
        /\ \/ BeforeCall(c) /\ pc'[c] \in {"handshake", "refused", "starting"}
           \/ pc[c] = "building" /\ pc'[c] \in {"running", "broken"}
           \/ pc[c] = "running" /\ pc'[c] = "stopping"
    BY <1>0, <1>1
       DEF Moves, TwilioConnects, TwilioRefused, Run, BuildFails, PipelineEnds, Connect, Goto, TypeInv,
           historyVars, turnVars, toolVars, taskVars, peerVars, BeforeCall, InCall
  <2>2. \A d \in Conns : d # c => Same(d)
    BY <2>1 DEF Same
  <2>3. /\ Pending(c)' = Pending(c) /\ Buffered(id)' = Buffered(id)
        /\ Asked(c)' = Asked(c)
    BY <2>1 DEF Pending, Buffered, Asked
  <2>4. PhasesAgree(c)'
    BY <1>0, <2>1 DEF CallInv, PhasesAgree, TasksInOrder, BeforeCall, InCall
  <2>5. MetaIsCurrent(c)'
    BY <1>0, <2>1, <2>3 DEF CallInv, MetaIsCurrent, BeforeCall, InCall
  <2>6. OutcomeIsFinal(c)'
    <3>1. ending[c] \/ Over(c) => ending'[c] \/ Over(c)'
      BY <1>0, <2>1 DEF CallInv, PhasesAgree, BeforeCall, InCall, Over
    <3>2. pc'[c] = "running" /\ grace'[c] = "done" => pc[c] = "running"
      BY <1>0, <2>1 DEF CallInv, PhasesAgree, OneGrace, BeforeCall, InCall
    <3>. QED  BY <1>0, <2>1, <2>3, <3>1, <3>2 DEF CallInv, OutcomeIsFinal
  <2>7. TurnsAreKept(c)'
    BY <1>0, <2>1, <2>3 DEF CallInv, TurnsAreKept, TasksInOrder, BeforeCall, InCall, Over
  <2>. QED  BY <2>2, <2>4, <2>5, <2>6, <2>7, OthersCalls DEF CallInv
<1>2. CASE Begin(c) \/ WebConnects(c)
  <2>1. /\ UNCHANGED <<recorded, ending, grace, flush, summary, asked, failed, rows, requests>>
        /\ \A d \in Conns : d # c => pc'[d] = pc[d] /\ scope'[d] = scope[d]
        /\ \A d \in CallIds : d # id => meta'[d] = meta[d] /\ buffers'[d] = buffers[d]
        /\ BeforeCall(c) /\ pc'[c] = "building"
        /\ meta'[id] = [conn |-> c, transfer |-> FALSE, written |-> FALSE]
        /\ buffers'[id] = Buffered(id)
        /\ pc[c] = "starting" => scope'[c] = scope[c]
    BY <1>0, <1>2
       DEF Begin, WebConnects, Attach, Goto, TypeInv, turnVars, toolVars, taskVars, peerVars, BeforeCall
  <2>2. \A d \in Conns : d # c => Same(d)
    BY <1>0, <2>1 DEF Same
  <2>3. /\ ~Asked(c)' /\ ~ending[c] /\ flush[c] = "none" /\ grace[c] = "none"
        /\ ~rows[id].outcome /\ \A r \in Pending(c) : r.op # "put"
    BY <1>0, <2>1
       DEF CallInv, PhasesAgree, OutcomeIsFinal, TasksInOrder, OneGrace, BeforeCall, Over, Asked
  <2>4. Buffered(id)' = <<>> /\ recorded[c] = 0 /\ Pending(c)' = Pending(c)
    BY <1>0, <2>1 DEF CallInv, TurnsAreKept, Buffered, Pending, BeforeCall
  <2>5. PhasesAgree(c)'
    BY <1>0, <2>1, <2>3 DEF CallInv, PhasesAgree, BeforeCall
  <2>6. MetaIsCurrent(c)'
    <3>1. [conn |-> c, transfer |-> FALSE, written |-> FALSE] \in Meta
      BY DEF Meta
    <3>2. [conn |-> c, transfer |-> FALSE, written |-> FALSE] # None
      BY <3>1, HistoryAssumption
    <3>. QED  BY <2>1, <2>3, <3>2 DEF MetaIsCurrent, InCall, BeforeCall
  <2>7. OutcomeIsFinal(c)'
    BY <2>1, <2>3, <2>4 DEF OutcomeIsFinal
  <2>8. TurnsAreKept(c)'
    BY <1>0, <2>1, <2>3, <2>4, NoTurns DEF CallInv, TurnsAreKept, BeforeCall, Over, InCall
  <2>. QED  BY <2>2, <2>5, <2>6, <2>7, <2>8, OthersCalls DEF CallInv
<1>3. CASE Cleanup(c)
  <2>1. /\ UNCHANGED <<scope, recorded, ending, grace, summary, asked, failed,
                       meta, buffers, rows, requests>>
        /\ \A d \in Conns : d # c => pc'[d] = pc[d] /\ flush'[d] = flush[d]
        /\ pc[c] = "stopping" /\ pc'[c] = "ended" /\ flush'[c] = "start"
    BY <1>0, <1>3 DEF Cleanup, Goto, TypeInv, historyVars, turnVars, toolVars, peerVars
  <2>2. \A d \in Conns : d # c => Same(d)
    BY <2>1 DEF Same
  <2>3. /\ Pending(c)' = Pending(c) /\ Buffered(id)' = Buffered(id)
        /\ Asked(c)' = Asked(c)
    BY <2>1 DEF Pending, Buffered, Asked
  <2>4. PhasesAgree(c)'
    BY <1>0, <2>1 DEF CallInv, PhasesAgree, BeforeCall
  <2>5. MetaIsCurrent(c)'
    BY <1>0, <2>1, <2>3 DEF CallInv, MetaIsCurrent, BeforeCall, InCall
  <2>6. OutcomeIsFinal(c)'
    BY <1>0, <2>1, <2>3 DEF CallInv, OutcomeIsFinal, Over
  <2>7. TurnsAreKept(c)'
    BY <1>0, <2>1, <2>3 DEF CallInv, TurnsAreKept, BeforeCall, InCall, Over
  <2>. QED  BY <2>2, <2>4, <2>5, <2>6, <2>7, OthersCalls DEF CallInv
<1>. QED  BY <1>1, <1>2, <1>3

-----------------------------------------------------------------------------
(* The turns and the tools *)

LEMMA TurnCalls ==
  ASSUME OwnCallIds, IInv, RecordInv, NEW c \in Conns, FinalTurn(c) \/ Tee(c)
  PROVE  RecordInv'
<1> DEFINE id == CallIdOf[c]
<1>0. /\ id \in CallIds /\ TypeInv /\ CallInv(c)
      /\ \A d \in Conns : d # c => CallIdOf[d] \in CallIds /\ CallIdOf[d] # id
  BY SessionAssumption DEF IInv, RecordInv, OwnCallIds
<1>1. CASE FinalTurn(c)
  BY <1>1, QuietSame DEF FinalTurn, historyVars, toolVars, taskVars, peerVars
<1>2. CASE Tee(c)
  <2> DEFINE n == recorded[c]
             s == Buffered(id)
             t == Buffered(id)'
  <2>1. /\ UNCHANGED <<pc, scope, ending, grace, flush, summary, asked, failed, meta, rows, requests>>
        /\ pc[c] = "running"
        /\ recorded' = [recorded EXCEPT ![c] = n + 1]
        /\ AppendEntry(id, c, n + 1)
    BY <1>2 DEF Tee, toolVars, taskVars, peerVars
  <2>2. n \in Nat /\ n + 1 \in Nat /\ recorded'[c] = n + 1
    BY <1>0, <2>1, SessionAssumption DEF TypeInv
  <2>3. \A d \in CallIds : d # id => buffers'[d] = buffers[d]
    BY <1>0, <2>1 DEF AppendEntry, TypeInv
  <2>4. \A d \in Conns : d # c => Same(d)
    BY <1>0, <2>1, <2>3 DEF Same, TypeInv
  <2>5. HoldsTurns(t, c, n + 1)
    <3>1. /\ s \in Seq(Entry) /\ t \in Seq(Entry)
          /\ Len(t) = Len(s) + 1
          /\ \A i \in 1..Len(s) : t[i] = s[i]
          /\ t[Len(s) + 1] = [conn |-> c, turn |-> n + 1]
      BY <1>0, <2>1, <2>2, AppendEntryBuffers
    <3>2. HoldsTurns(s, c, n)
      BY <1>0, <2>1 DEF CallInv, TurnsAreKept, InCall
    <3>. HIDE DEF s, t, n
    <3>. QED  BY <2>2, <3>1, <3>2, OneMoreTurn
  <2>6. Pending(c)' = Pending(c) /\ Asked(c)' = Asked(c)
    BY <2>1 DEF Pending, Asked
  <2>7. PhasesAgree(c)'
    BY <1>0, <2>1 DEF CallInv, PhasesAgree, BeforeCall
  <2>8. MetaIsCurrent(c)'
    BY <1>0, <2>1, <2>6 DEF CallInv, MetaIsCurrent, InCall, BeforeCall
  <2>9. OutcomeIsFinal(c)'
    BY <1>0, <2>1, <2>6 DEF CallInv, OutcomeIsFinal, Over
  <2>10. TurnsAreKept(c)'
    <3>1. /\ flush[c] = "none" /\ ~rows[id].flushed
          /\ \A r \in Pending(c) : r.op # "turns"
      <4>1. flush[c] = "none" /\ ~rows[id].flushed
        BY <1>0, <2>1 DEF CallInv, TurnsAreKept, Over, IInv, TasksInOrder
      <4>2. \A r \in Pending(c) : r.op # "turns"
        BY <4>1, OwnRequests, PendingRecords DEF IInv, Awaited, RequestRecord, Tasks
      <4>. QED  BY <4>1, <4>2
    <3>. HIDE DEF t
    <3>. QED  BY <2>1, <2>2, <2>5, <2>6, <3>1 DEF TurnsAreKept, InCall, BeforeCall, Over, t
  <2>. QED  BY <2>4, <2>7, <2>8, <2>9, <2>10, OthersCalls DEF CallInv
<1>. QED  BY <1>1, <1>2

LEMMA ToolCalls ==
  ASSUME OwnCallIds, IInv, RecordInv, NEW c \in Conns, NEW k \in Calls,
         (\E tool \in Tools : ToolStart(c, k, tool)) \/ ToolFinish(c, k)
  PROVE  RecordInv'
<1> DEFINE id == CallIdOf[c]
<1>0. /\ id \in CallIds /\ TypeInv /\ CallInv(c) /\ OneGrace(c) /\ TasksInOrder
      /\ \A d \in Conns : d # c => CallIdOf[d] \in CallIds /\ CallIdOf[d] # id
  BY SessionAssumption DEF IInv, RecordInv, OwnCallIds
<1>1. ASSUME NEW tool \in Tools, ToolStart(c, k, tool)
      PROVE  RecordInv'
  <2>1. /\ UNCHANGED <<pc, scope, recorded, grace, flush, summary, failed, buffers, rows, requests>>
        /\ pc[c] = "running"
    BY <1>1 DEF ToolStart, turnVars, taskVars, peerVars
  <2>2. CASE ending[c]
    BY <1>1, <2>1, <2>2, QuietSame DEF ToolStart
  <2>3. CASE ~ending[c]
    <3>1. /\ ending' = [ending EXCEPT ![c] = TRUE]
          /\ asked' = IF tool = "transfer_to_human" THEN asked \cup {c} ELSE asked
          /\ IF tool = "transfer_to_human" THEN Mark(c) ELSE UNCHANGED meta
      BY <1>1, <2>3 DEF ToolStart
    <3>2. meta[id] \in Meta /\ meta[id] # None /\ meta[id].conn = c
          /\ (meta[id].transfer <=> Asked(c)) /\ (meta[id].written => rows[id].outcome)
      BY <1>0, <2>1 DEF CallInv, MetaIsCurrent, InCall, TypeInv
    <3>3. /\ meta'[id] \in Meta /\ meta'[id] # None /\ meta'[id].conn = c
          /\ meta'[id].written <=> meta[id].written
          /\ meta'[id].transfer <=> Asked(c)'
          /\ \A d \in CallIds : d # id => meta'[d] = meta[d]
      <4>1. CASE tool = "transfer_to_human" /\ scope[c] = "phone"
        <5> DEFINE marked == [meta[id] EXCEPT !.transfer = TRUE]
        <5>1. /\ marked \in Meta
              /\ marked.conn = meta[id].conn /\ marked.written = meta[id].written /\ marked.transfer
          BY <3>2 DEF Meta
        <5>2. meta' = [meta EXCEPT ![id] = marked]
          BY <3>1, <3>2, <4>1 DEF Mark, MarkTransfer
        <5>3. Asked(c)'
          BY <2>1, <3>1, <4>1 DEF Asked
        <5>4. marked # None
          BY <5>1, HistoryAssumption
        <5>5. meta'[id] = marked /\ \A d \in CallIds : d # id => meta'[d] = meta[d]
          BY <1>0, <5>2 DEF TypeInv
        <5>. HIDE DEF marked
        <5>. QED  BY <3>2, <5>1, <5>3, <5>4, <5>5
      <4>2. CASE ~(tool = "transfer_to_human" /\ scope[c] = "phone")
        <5>1. meta' = meta
          BY <3>1, <4>2 DEF Mark
        <5>2. Asked(c)' <=> Asked(c)
          BY <2>1, <3>1, <4>2 DEF Asked
        <5>. QED  BY <3>2, <5>1, <5>2
      <4>. QED  BY <4>1, <4>2
    <3>4. \A d \in Conns : d # c => Same(d)
      BY <1>0, <2>1, <3>1, <3>3 DEF Same, TypeInv
    <3>5. ending'[c] /\ flush[c] = "none" /\ grace[c] = "none"
      BY <1>0, <2>1, <2>3, <3>1 DEF TypeInv, TasksInOrder, OneGrace
    <3>6. ~rows[id].outcome /\ \A r \in Pending(c) : r.op # "put"
      BY <1>0, <2>1, <2>3 DEF CallInv, OutcomeIsFinal, Over
    <3>7. Pending(c)' = Pending(c) /\ Buffered(id)' = Buffered(id)
      BY <2>1 DEF Pending, Buffered
    <3>8. PhasesAgree(c)'
      BY <1>0, <2>1, <3>5 DEF CallInv, PhasesAgree, BeforeCall
    <3>9. MetaIsCurrent(c)'
      BY <2>1, <3>2, <3>3, <3>5 DEF MetaIsCurrent, InCall, BeforeCall
    <3>10. OutcomeIsFinal(c)'
      BY <2>1, <3>5, <3>6, <3>7 DEF OutcomeIsFinal
    <3>11. TurnsAreKept(c)'
      BY <1>0, <2>1, <3>7 DEF CallInv, TurnsAreKept, InCall, BeforeCall, Over
    <3>. QED  BY <3>4, <3>8, <3>9, <3>10, <3>11, OthersCalls DEF CallInv
  <2>. QED  BY <2>2, <2>3
<1>2. CASE ToolFinish(c, k)
  <2>1. /\ UNCHANGED <<pc, scope, recorded, ending, flush, summary, asked, failed, meta, rows, requests>>
        /\ pc[c] # "killed" /\ ending[c]
        /\ grace' = [grace EXCEPT ![c] = "sleeping"]
        /\ AppendTool(c)
    BY <1>0, <1>2 DEF ToolFinish, turnVars, taskVars, peerVars, OneGrace
  <2>2. \A d \in CallIds : d # id => buffers'[d] = buffers[d]
    BY <1>0, <2>1 DEF AppendTool, AppendEntry, TypeInv
  <2>3. \A d \in Conns : d # c => Same(d)
    BY <1>0, <2>1, <2>2 DEF Same, TypeInv
  <2>4. Pending(c)' = Pending(c) /\ Asked(c)' = Asked(c)
    BY <2>1 DEF Pending, Asked
  <2>5. recorded[c] \in Nat
    BY <1>0, SessionAssumption DEF TypeInv
  <2>6. HoldsTurns(Buffered(id), c, recorded[c]) => HoldsTurns(Buffered(id)', c, recorded[c])
    <3>1. CASE scope[c] = "phone"
      <4> DEFINE s == Buffered(id)
                 t == Buffered(id)'
      <4>1. AppendEntry(id, c, 0)
        BY <2>1, <3>1 DEF AppendTool
      <4>2. /\ s \in Seq(Entry) /\ t \in Seq(Entry)
            /\ Len(t) = Len(s) + 1
            /\ \A i \in 1..Len(s) : t[i] = s[i]
            /\ t[Len(s) + 1] = [conn |-> c, turn |-> 0]
        BY <1>0, <4>1, AppendEntryBuffers
      <4>3. t[Len(s) + 1].turn = 0
        BY <4>2
      <4>. HIDE DEF s, t
      <4>4. HoldsTurns(s, c, recorded[c]) => HoldsTurns(t, c, recorded[c])
        BY <2>5, <4>2, <4>3, OneMoreEvent
      <4>. QED  BY <4>4 DEF s, t
    <3>2. CASE scope[c] # "phone"
      <4>1. buffers' = buffers
        BY <2>1, <3>2 DEF AppendTool
      <4>. QED  BY <4>1 DEF Buffered
    <3>. QED  BY <3>1, <3>2
  <2>7. PhasesAgree(c)'
    BY <1>0, <2>1 DEF CallInv, PhasesAgree, BeforeCall
  <2>8. MetaIsCurrent(c)'
    BY <1>0, <2>1, <2>4 DEF CallInv, MetaIsCurrent, InCall, BeforeCall
  <2>9. OutcomeIsFinal(c)'
    BY <1>0, <2>1, <2>4 DEF CallInv, OutcomeIsFinal, Over, TypeInv
  <2>10. TurnsAreKept(c)'
    <3>1. ~BeforeCall(c) /\ pc[c] # "building"
      BY <1>0, <2>1 DEF CallInv, PhasesAgree, BeforeCall
    <3>2. ~BeforeCall(c)' /\ InCall(c)' = InCall(c) /\ Over(c)' = Over(c)
      BY <2>1, <3>1 DEF BeforeCall, InCall, Over
    <3>. QED  BY <1>0, <2>1, <2>4, <2>6, <3>1, <3>2 DEF CallInv, TurnsAreKept, BeforeCall
  <2>. QED  BY <2>3, <2>7, <2>8, <2>9, <2>10, OthersCalls DEF CallInv
<1>. QED  BY <1>1, <1>2

-----------------------------------------------------------------------------
(* The tasks *)

\* What the steps of a task leave, when the request at position i is over and m is
\* what _meta holds.
LEMMA PoppedCalls ==
  ASSUME IInv, NEW c \in Conns, CallInv(c), NEW i \in 1..Len(requests[CallIdOf[c]]) + 1,
         NEW m \in [CallIds -> Meta \cup {None}], Popped(c, m, i),
         flush[c] \in {"start", "putting"}
  PROVE  LET id == CallIdOf[c] IN
         /\ meta'[id] = None
         /\ \A d \in CallIds : d # id => /\ buffers'[d] = buffers[d]
                                         /\ meta'[d] = m[d] /\ requests'[d] = requests[d]
         /\ \A d \in Conns : d # c => flush'[d] = flush[d]
         /\ flush'[c] \in {"done", "updating"}
         /\ \A r \in Pending(c)' :
              \/ r \in Pending(c)
              \/ /\ r.op = "turns" /\ r.conn = c /\ HoldsTurns(r.turns, c, recorded[c])
                 /\ m[id] # None /\ flush'[c] = "updating"
<1> DEFINE id == CallIdOf[c]
<1>1. id \in CallIds /\ TypeInv
  BY SessionAssumption DEF IInv
<1>2. /\ meta'[id] = None
      /\ \A d \in CallIds : d # id => buffers'[d] = buffers[d] /\ meta'[d] = m[d]
      /\ \A d \in Conns : d # c => flush'[d] = flush[d]
      /\ flush'[c] \in {"done", "updating"}
  BY <1>1 DEF Popped, TypeInv
<1>3. HoldsTurns(Buffered(id), c, recorded[c])
  BY DEF CallInv, TurnsAreKept
<1>4. CASE Requested(id, i, {})
  <2>1. /\ \A r \in Pending(c)' : r \in Pending(c)
        /\ \A d \in CallIds : d # id => requests'[d] = requests[d]
    BY <1>1, <1>4, PendingAfter
  <2>. QED  BY <1>2, <2>1
<1>5. CASE m[id] # None /\ flush' = [flush EXCEPT ![c] = "updating"]
           /\ Requested(id, i, {TurnsRequest(c, m)})
  <2>1. PICK new : new = {TurnsRequest(c, m)}
    OBVIOUS
  <2>2. /\ \A r \in Pending(c)' : r \in Pending(c) \/ r \in new
        /\ \A d \in CallIds : d # id => requests'[d] = requests[d]
    BY <1>1, <1>5, <2>1, PendingAfter
  <2>3. ASSUME NEW r \in new
        PROVE  r.op = "turns" /\ r.conn = c /\ HoldsTurns(r.turns, c, recorded[c])
    <3>1. r.op = "turns" /\ r.conn = c /\ r.turns = Buffered(id)
      BY <2>1 DEF TurnsRequest, Request
    <3>. QED  BY <1>3, <3>1
  <2>4. flush'[c] = "updating"
    BY <1>1, <1>5 DEF TypeInv
  <2>. QED  BY <1>2, <1>5, <2>2, <2>3, <2>4
<1>. QED  BY <1>4, <1>5 DEF Popped

LEMMA TaskCalls ==
  ASSUME OwnCallIds, IInv, RecordInv, NEW c \in Conns,
         Interruption(c) \/ GraceOver(c) \/ FlushStart(c) \/ Summarize(c)
  PROVE  RecordInv'
<1> DEFINE id == CallIdOf[c]
           n == Len(requests[id]) + 1
<1>0. /\ id \in CallIds /\ TypeInv /\ CallInv(c) /\ OneGrace(c) /\ TasksInOrder
      /\ \A d \in Conns : d # c => CallIdOf[d] \in CallIds /\ CallIdOf[d] # id
      /\ n \in 1..Len(requests[id]) + 1
  <2>1. id \in CallIds /\ requests[id] \in Seq(RequestRecord)
    BY SessionAssumption DEF IInv, TypeInv
  <2>2. Len(requests[id]) \in Nat
    BY <2>1, LenProperties
  <2>. QED  BY <2>1, <2>2, SessionAssumption DEF IInv, RecordInv, OwnCallIds
<1>1. CASE Interruption(c)
  BY <1>1, QuietSame DEF Interruption, historyVars, turnVars, taskVars, peerVars
<1>2. ASSUME NEW task \in Tasks, meta[id] # None,
             Requested(id, n, {Request("put", c, task, meta[id].conn, meta[id].transfer, <<>>, "pending")})
      PROVE  /\ \A r \in Pending(c)' :
                  r \in Pending(c) \/ (r.op = "put" /\ r.task = task /\ (r.transfer <=> Asked(c)))
             /\ \A d \in CallIds : d # id => requests'[d] = requests[d]
  <2>1. PICK new : new = {Request("put", c, task, meta[id].conn, meta[id].transfer, <<>>, "pending")}
    OBVIOUS
  <2>2. /\ \A r \in Pending(c)' : r \in Pending(c) \/ r \in new
        /\ \A d \in CallIds : d # id => requests'[d] = requests[d]
    BY <1>0, <1>2, <2>1, PendingAfter
  <2>3. meta[id].transfer <=> Asked(c)
    BY <1>0, <1>2 DEF CallInv, MetaIsCurrent
  <2>4. \A r \in new : r.op = "put" /\ r.task = task /\ (r.transfer <=> Asked(c))
    BY <2>1, <2>3 DEF Request
  <2>. QED  BY <2>2, <2>4
<1>3. CASE GraceOver(c)
  <2>1. /\ UNCHANGED <<buffers, meta, rows, pc, scope, recorded, ending, asked, flush, summary, failed>>
        /\ grace[c] = "sleeping" /\ ending[c]
        /\ \A d \in Conns : d # c => grace'[d] = grace[d]
    <3>1. /\ UNCHANGED <<buffers, meta, rows, pc, scope, recorded, ending, asked, flush, summary, failed>>
          /\ grace[c] = "sleeping"
      BY <1>0, <1>3, GraceOverCases DEF turnVars, taskVars, peerVars
    <3>2. PICK state \in {"done", "writing"} : grace' = [grace EXCEPT ![c] = state]
      BY <1>0, <1>3, GraceOverCases
    <3>3. ending[c]
      BY <1>0, <3>1 DEF OneGrace
    <3>. QED  BY <1>0, <3>1, <3>2, <3>3 DEF TypeInv
  <2>2. /\ \A r \in Pending(c)' : r \in Pending(c) \/ (r.op = "put" /\ (r.transfer <=> Asked(c)))
        /\ \A d \in CallIds : d # id => requests'[d] = requests[d]
    <3>1. CASE UNCHANGED requests
      BY <3>1 DEF Pending
    <3>2. CASE ~(scope[c] = "web" \/ OutcomeIsWritten(id))
               /\ Requested(id, n, {Request("put", c, "grace", meta[id].conn, meta[id].transfer, <<>>, "pending")})
      BY <1>2, <3>2 DEF OutcomeIsWritten, Tasks
    <3>. QED  BY <1>0, <1>3, <3>1, <3>2, GraceOverCases
  <2>3. \A d \in Conns : d # c => Same(d)
    BY <1>0, <2>1, <2>2 DEF Same
  <2>4. Asked(c)' = Asked(c) /\ Buffered(id)' = Buffered(id)
    BY <2>1 DEF Asked, Buffered
  <2>5. PhasesAgree(c)'
    BY <1>0, <2>1 DEF CallInv, PhasesAgree, BeforeCall
  <2>6. MetaIsCurrent(c)'
    BY <1>0, <2>1, <2>4 DEF CallInv, MetaIsCurrent, InCall, BeforeCall
  <2>7. OutcomeIsFinal(c)'
    <3>1. grace'[c] = "done" => scope[c] = "web" \/ OutcomeIsWritten(id)
      BY <1>0, <1>3, GraceOverCases DEF TypeInv
    <3>2. pc[c] = "running" /\ OutcomeIsWritten(id) => rows[id].outcome
      BY <1>0 DEF CallInv, MetaIsCurrent, InCall, OutcomeIsWritten
    <3>3. grace'[c] = "done" /\ pc'[c] = "running" /\ scope'[c] = "phone" => rows'[id].outcome
      BY <2>1, <3>1, <3>2
    <3>. QED  BY <1>0, <2>1, <2>2, <2>4, <3>3 DEF CallInv, OutcomeIsFinal, Over
  <2>8. TurnsAreKept(c)'
    BY <1>0, <2>1, <2>2, <2>4 DEF CallInv, TurnsAreKept, InCall, BeforeCall, Over
  <2>. QED  BY <2>3, <2>5, <2>6, <2>7, <2>8, OthersCalls DEF CallInv
<1>4. CASE FlushStart(c)
  <2>1. /\ UNCHANGED <<rows, pc, scope, recorded, ending, grace, asked, summary, failed>>
        /\ flush[c] = "start" /\ pc[c] = "ended"
        /\ Asked(c)' = Asked(c)
    BY <1>0, <1>4, FlushStartCases DEF turnVars, toolVars, peerVars, TasksInOrder, Asked
  <2>2. /\ \A d \in CallIds : d # id => /\ buffers'[d] = buffers[d] /\ meta'[d] = meta[d]
                                        /\ requests'[d] = requests[d]
        /\ \A d \in Conns : d # c => flush'[d] = flush[d]
        /\ meta'[id] # None => meta'[id] = meta[id] /\ flush'[c] = "putting"
        /\ flush'[c] \in {"start", "putting"} => Buffered(id)' = Buffered(id)
        /\ flush'[c] # "none"
        /\ \A r \in Pending(c)' :
             \/ r \in Pending(c)
             \/ r.op = "put" /\ (r.transfer <=> Asked(c))
             \/ r.op = "turns" /\ HoldsTurns(r.turns, c, recorded[c])
    <3>1. CASE Popped(c, meta, n)
      <4>1. meta \in [CallIds -> Meta \cup {None}]
        BY <1>0 DEF TypeInv
      <4>. QED  BY <1>0, <2>1, <3>1, <4>1, PoppedCalls
    <3>2. CASE /\ ~OutcomeIsWritten(id)
               /\ flush' = [flush EXCEPT ![c] = "putting"]
               /\ UNCHANGED <<buffers, meta>>
               /\ Requested(id, n, {Request("put", c, "flush", meta[id].conn, meta[id].transfer, <<>>, "pending")})
      <4>1. /\ \A r \in Pending(c)' : r \in Pending(c) \/ (r.op = "put" /\ (r.transfer <=> Asked(c)))
            /\ \A d \in CallIds : d # id => requests'[d] = requests[d]
        BY <1>2, <3>2 DEF OutcomeIsWritten, Tasks
      <4>. QED  BY <1>0, <3>2, <4>1 DEF TypeInv, Buffered
    <3>. QED  BY <1>0, <1>4, <3>1, <3>2, FlushStartCases
  <2>3. \A d \in Conns : d # c => Same(d)
    BY <1>0, <2>1, <2>2 DEF Same
  <2>4. PhasesAgree(c)'
    BY <1>0, <2>1 DEF CallInv, PhasesAgree, BeforeCall
  <2>5. MetaIsCurrent(c)'
    BY <1>0, <2>1, <2>2 DEF CallInv, MetaIsCurrent, InCall, BeforeCall
  <2>6. OutcomeIsFinal(c)'
    BY <1>0, <2>1, <2>2 DEF CallInv, OutcomeIsFinal, Over
  <2>7. TurnsAreKept(c)'
    BY <1>0, <2>1, <2>2 DEF CallInv, TurnsAreKept, InCall, BeforeCall, Over
  <2>. QED  BY <2>3, <2>4, <2>5, <2>6, <2>7, OthersCalls DEF CallInv
<1>5. CASE Summarize(c)
  <2>1. /\ UNCHANGED <<buffers, meta, rows, pc, scope, recorded, ending, grace, asked, flush, failed>>
        /\ \A d \in Conns : d # c => summary'[d] = summary[d]
    <3>1. UNCHANGED <<buffers, meta, rows, pc, scope, recorded, ending, grace, asked, flush, failed>>
      BY <1>0, <1>5, SummarizeCases DEF turnVars, toolVars, peerVars
    <3>2. summary' = [summary EXCEPT ![c] = "updating"]
      BY <1>0, <1>5, SummarizeCases
    <3>. QED  BY <1>0, <3>1, <3>2 DEF TypeInv
  <2>2. PICK status \in {"ok", "failed"} :
          Requested(id, n, {Request("summary", c, "summary", c, FALSE, <<>>, status)})
    BY <1>0, <1>5, SummarizeCases
  <2>3. /\ \A r \in Pending(c)' : r \in Pending(c) \/ r.op = "summary"
        /\ \A d \in CallIds : d # id => requests'[d] = requests[d]
    <3>1. PICK new : new = {Request("summary", c, "summary", c, FALSE, <<>>, status)}
      OBVIOUS
    <3>2. \A r \in new : r.op = "summary"
      BY <3>1 DEF Request
    <3>. QED  BY <1>0, <2>2, <3>1, <3>2, PendingAfter
  <2>4. \A d \in Conns : d # c => Same(d)
    BY <1>0, <2>1, <2>3 DEF Same
  <2>5. Asked(c)' = Asked(c) /\ Buffered(id)' = Buffered(id)
    BY <2>1 DEF Asked, Buffered
  <2>6. PhasesAgree(c)'
    BY <1>0, <2>1 DEF CallInv, PhasesAgree, BeforeCall
  <2>7. MetaIsCurrent(c)'
    BY <1>0, <2>1, <2>5 DEF CallInv, MetaIsCurrent, InCall, BeforeCall
  <2>8. OutcomeIsFinal(c)'
    BY <1>0, <2>1, <2>3, <2>5 DEF CallInv, OutcomeIsFinal, Over
  <2>9. TurnsAreKept(c)'
    BY <1>0, <2>1, <2>3, <2>5 DEF CallInv, TurnsAreKept, InCall, BeforeCall, Over
  <2>. QED  BY <2>4, <2>6, <2>7, <2>8, <2>9, OthersCalls DEF CallInv
<1>. QED  BY <1>1, <1>3, <1>4, <1>5

-----------------------------------------------------------------------------
(* The requests that return, the monitors, the restart *)

\* What a request does to the item of its call.
LEMMA ArrivesRow ==
  ASSUME TypeInv, NEW id \in CallIds, NEW i \in DOMAIN requests[id], NEW effective \in BOOLEAN,
         Arrives(id, i, effective)
  PROVE  LET r == requests[id][i] IN
         /\ \A d \in CallIds : d # id => rows'[d] = rows[d]
         /\ ~effective => rows'[id] = rows[id]
         /\ effective /\ r.op = "put" => rows'[id] = PutRow(r.transfer)
         /\ effective /\ r.op = "turns" =>
              rows'[id] = [rows[id] EXCEPT !.flushed = TRUE, !.turns = r.turns]
         /\ effective /\ r.op = "summary" => rows'[id] = [rows[id] EXCEPT !.status = r.status]
<1>1. CASE ~effective
  BY <1>1 DEF Arrives
<1>2. CASE effective
  <2>1. rows'[id] = ApplyTo(rows[id], requests[id][i]) /\ \A d \in CallIds : d # id => rows'[d] = rows[d]
    BY <1>2 DEF Arrives, TypeInv
  <2>. QED  BY <1>2, <2>1 DEF ApplyTo, PutRow
<1>. QED  BY <1>1, <1>2

\* The attributes of an item that another attribute is set of.
LEMMA RowAttributes ==
  ASSUME NEW row \in Row, NEW turns, NEW status
  PROVE  LET flushed == [row EXCEPT !.flushed = TRUE, !.turns = turns]
             summed  == [row EXCEPT !.status = status]
         IN  /\ flushed.flushed /\ flushed.turns = turns /\ flushed.outcome = row.outcome
             /\ flushed.transfer = row.transfer /\ flushed.status = row.status
             /\ summed.flushed = row.flushed /\ summed.turns = row.turns /\ summed.outcome = row.outcome
             /\ summed.transfer = row.transfer /\ summed.status = status
BY DEF Row

\* write_outcome_row marks the dict of the call, and changes nothing else of it.
LEMMA OutcomeWrittenMarks ==
  ASSUME TypeInv, NEW id \in CallIds, NEW r \in RequestRecord, meta[id] # None
  PROVE  /\ OutcomeWritten(id, r)[id].conn = meta[id].conn
         /\ OutcomeWritten(id, r)[id].transfer = meta[id].transfer
<1>1. meta[id] \in Meta
  BY DEF TypeInv
<1>2. CASE meta[id].conn = r.owner
  <2>1. OutcomeWritten(id, r)[id] = [meta[id] EXCEPT !.written = TRUE]
    BY <1>2 DEF OutcomeWritten, TypeInv
  <2>. QED  BY <1>1, <2>1 DEF Meta
<1>3. CASE meta[id].conn # r.owner
  BY <1>3 DEF OutcomeWritten
<1>. QED  BY <1>2, <1>3

\* A request that returns: what it was, whose it was, and how it ended.
LEMMA ReturnParts ==
  ASSUME TypeInv, RequestsAreAwaited, NEW id \in CallIds, NEW i \in DOMAIN requests[id], Return(id, i)
  PROVE  \E r \in RequestRecord, c \in Conns, ok \in BOOLEAN, effective \in BOOLEAN,
            m \in [CallIds -> Meta \cup {None}] :
           /\ i \in 1..Len(requests[id]) /\ r = requests[id][i] /\ c = r.conn /\ CallIdOf[c] = id
           /\ UNCHANGED <<pc, scope, recorded, ending, asked>>
           /\ m = IF ok THEN OutcomeWritten(id, r) ELSE meta
           /\ ok => effective
           /\ Arrives(id, i, effective)
           /\ failed' = IF ok THEN failed ELSE failed \cup {<<c, r.task>>}
           /\ \/ GraceReturned(id, i, r, m) \/ FlushReturned(id, i, r, m)
              \/ TurnsReturned(id, i, r, ok) \/ SummaryReturned(id, i, r)
<1>1. PICK r \in RequestRecord : r = requests[id][i]
  BY ReturnCases
<1>2. PICK c \in Conns : c = r.conn
  BY <1>1 DEF RequestRecord
<1>3. /\ i \in 1..Len(requests[id]) /\ CallIdOf[c] = id
      /\ UNCHANGED <<pc, scope, recorded, ending, asked>>
  BY <1>1, <1>2, ReturnCases DEF turnVars, peerVars
<1> DEFINE q == requests[id][i]
<1>4. PICK ok \in BOOLEAN, effective \in BOOLEAN :
        LET m == IF ok THEN OutcomeWritten(id, q) ELSE meta IN
        /\ ok => effective
        /\ Arrives(id, i, effective)
        /\ failed' = IF ok THEN failed ELSE failed \cup {<<q.conn, q.task>>}
        /\ m \in [CallIds -> Meta \cup {None}]
        /\ \/ GraceReturned(id, i, q, m) \/ FlushReturned(id, i, q, m)
           \/ TurnsReturned(id, i, q, ok) \/ SummaryReturned(id, i, q)
  BY ReturnCases, Zenon
<1>5. q = r /\ q.conn = c
  BY <1>1, <1>2
<1>. HIDE DEF q
<1>6. PICK m : m = IF ok THEN OutcomeWritten(id, r) ELSE meta
  OBVIOUS
<1>7. /\ m \in [CallIds -> Meta \cup {None}]
      /\ \/ GraceReturned(id, i, r, m) \/ FlushReturned(id, i, r, m)
         \/ TurnsReturned(id, i, r, ok) \/ SummaryReturned(id, i, r)
  BY <1>4, <1>5, <1>6
<1>8. failed' = IF ok THEN failed ELSE failed \cup {<<c, r.task>>}
  BY <1>4, <1>5
<1>. QED  BY <1>1, <1>2, <1>3, <1>4, <1>6, <1>7, <1>8, Zenon

LEMMA ReturnCalls ==
  ASSUME OwnCallIds, IInv, RecordInv, NEW id \in CallIds, NEW i \in DOMAIN requests[id], Return(id, i)
  PROVE  RecordInv'
<1>1. TypeInv /\ RequestsAreAwaited /\ TasksInOrder
  BY DEF IInv
<1>2. PICK r \in RequestRecord, c \in Conns, ok \in BOOLEAN, effective \in BOOLEAN,
           m \in [CallIds -> Meta \cup {None}] :
        /\ i \in 1..Len(requests[id]) /\ r = requests[id][i] /\ c = r.conn /\ CallIdOf[c] = id
        /\ UNCHANGED <<pc, scope, recorded, ending, asked>>
        /\ m = IF ok THEN OutcomeWritten(id, r) ELSE meta
        /\ ok => effective
        /\ Arrives(id, i, effective)
        /\ failed' = IF ok THEN failed ELSE failed \cup {<<c, r.task>>}
        /\ \/ GraceReturned(id, i, r, m) \/ FlushReturned(id, i, r, m)
           \/ TurnsReturned(id, i, r, ok) \/ SummaryReturned(id, i, r)
  BY <1>1, ReturnParts, Zenon
<1>3. /\ CallInv(c) /\ r \in Pending(c)
      /\ \A d \in Conns : d # c => CallIdOf[d] \in CallIds /\ CallIdOf[d] # id
      /\ i \in 1..Len(requests[CallIdOf[c]]) + 1
  <2>1. Len(requests[id]) \in Nat
    BY <1>1, LenProperties DEF TypeInv
  <2>. QED  BY <1>2, <2>1, SessionAssumption DEF RecordInv, OwnCallIds, Pending
<1>4. /\ \A d \in CallIds : d # id => m[d] = meta[d]
      /\ m[id] # None => /\ meta[id] # None
                         /\ m[id].conn = meta[id].conn /\ m[id].transfer = meta[id].transfer
                         /\ m[id].written => meta[id].written \/ ok
  BY <1>1, <1>2, OutcomeWrittenKeeps, OutcomeWrittenMarks
<1>5. /\ \A d \in CallIds : d # id => rows'[d] = rows[d]
      /\ rows[id].outcome => rows'[id].outcome
      /\ effective /\ r.op = "put" => rows'[id].outcome
      /\ rows'[id].outcome => (rows'[id].transfer <=> Asked(c)) /\ (ending[c] \/ Over(c))
      /\ rows'[id].flushed => Over(c) /\ HoldsTurns(rows'[id].turns, c, recorded[c])
  <2>0. /\ r = requests[id][i] /\ Arrives(id, i, effective) /\ CallIdOf[c] = id
        /\ rows[id] \in Row
    BY <1>1, <1>2 DEF TypeInv
  <2>1. r.op = "turns" => pc[c] = "ended" /\ HoldsTurns(r.turns, c, recorded[c])
    BY <1>1, <1>2, <1>3
       DEF CallInv, TurnsAreKept, TasksInOrder, GraceReturned, FlushReturned, TurnsReturned, SummaryReturned
  <2>2. /\ rows[id].outcome => (rows[id].transfer <=> Asked(c)) /\ (ending[c] \/ Over(c))
        /\ r.op = "put" => (r.transfer <=> Asked(c)) /\ (ending[c] \/ Over(c))
        /\ rows[id].flushed => Over(c) /\ HoldsTurns(rows[id].turns, c, recorded[c])
    BY <1>2, <1>3 DEF CallInv, OutcomeIsFinal, TurnsAreKept
  <2>3. CASE ~effective
    <3>1. rows' = rows
      BY <2>0, <2>3 DEF Arrives
    <3>. QED  BY <2>0, <2>2, <2>3, <3>1
  <2>4. CASE effective /\ r.op = "put"
    <3>1. rows'[id] = PutRow(r.transfer) /\ \A d \in CallIds : d # id => rows'[d] = rows[d]
      BY <1>1, <2>0, <2>4, ArrivesRow
    <3>. QED  BY <2>2, <2>4, <3>1 DEF PutRow
  <2>5. CASE effective /\ r.op = "turns"
    <3>1. /\ rows'[id] = [rows[id] EXCEPT !.flushed = TRUE, !.turns = r.turns]
          /\ \A d \in CallIds : d # id => rows'[d] = rows[d]
      BY <1>1, <2>0, <2>5, ArrivesRow
    <3>2. /\ rows'[id].turns = r.turns
          /\ rows'[id].outcome = rows[id].outcome /\ rows'[id].transfer = rows[id].transfer
      BY <2>0, <3>1, RowAttributes
    <3>. QED  BY <2>1, <2>2, <2>5, <3>1, <3>2 DEF Over
  <2>6. CASE effective /\ r.op = "summary"
    <3>1. /\ rows'[id] = [rows[id] EXCEPT !.status = r.status]
          /\ \A d \in CallIds : d # id => rows'[d] = rows[d]
      BY <1>1, <2>0, <2>6, ArrivesRow
    <3>2. /\ rows'[id].turns = rows[id].turns /\ rows'[id].flushed = rows[id].flushed
          /\ rows'[id].outcome = rows[id].outcome /\ rows'[id].transfer = rows[id].transfer
      BY <2>0, <3>1, RowAttributes
    <3>. QED  BY <2>2, <2>6, <3>1, <3>2
  <2>. QED  BY <2>3, <2>4, <2>5, <2>6 DEF RequestRecord
<1>6. Asked(c)' = Asked(c) /\ (<<c, "grace">> \in failed => <<c, "grace">> \in failed')
  BY <1>2 DEF Asked
<1>7. CASE GraceReturned(id, i, r, m)
  <2>1. /\ UNCHANGED <<buffers, flush, summary>> /\ meta' = m
        /\ r.op = "put" /\ r.task = "grace" /\ grace[c] = "writing"
        /\ \A d \in Conns : d # c => grace'[d] = grace[d]
    BY <1>1, <1>2, <1>7 DEF GraceReturned, TypeInv
  <2>2. /\ \A q \in Pending(c)' : q \in Pending(c)
        /\ \A d \in CallIds : d # id => requests'[d] = requests[d]
    <3>1. Requested(CallIdOf[c], i, {})
      BY <1>2, <1>7 DEF GraceReturned
    <3>2. /\ \A q \in Pending(c)' : q \in Pending(c) \/ q \in {}
          /\ \A d \in CallIds : d # CallIdOf[c] => requests'[d] = requests[d]
      BY <1>1, <1>3, <3>1, PendingAfter, Zenon
    <3>. QED  BY <1>2, <3>2
  <2>3. \A d \in Conns : d # c => Same(d)
    BY <1>2, <1>3, <1>4, <1>5, <2>1, <2>2 DEF Same
  <2>4. PhasesAgree(c)' /\ Buffered(id)' = Buffered(id)
    BY <1>2, <1>3, <2>1 DEF CallInv, PhasesAgree, BeforeCall, Buffered
  <2>5. MetaIsCurrent(c)'
    BY <1>2, <1>3, <1>4, <1>5, <1>6, <2>1, OutcomeWrittenKeeps, <1>1
       DEF CallInv, MetaIsCurrent, InCall, BeforeCall
  <2>6. OutcomeIsFinal(c)'
    BY <1>2, <1>3, <1>5, <1>6, <2>1, <2>2 DEF CallInv, OutcomeIsFinal, Over
  <2>7. TurnsAreKept(c)'
    BY <1>2, <1>3, <1>5, <2>1, <2>2, <2>4 DEF CallInv, TurnsAreKept, InCall, BeforeCall, Over
  <2>. QED  BY <2>3, <2>4, <2>5, <2>6, <2>7, OthersCalls DEF CallInv
<1>8. CASE FlushReturned(id, i, r, m)
  <2>1. /\ UNCHANGED <<grace, summary>>
        /\ r.op = "put" /\ flush[c] = "putting" /\ pc[c] = "ended"
        /\ Popped(c, m, i)
    BY <1>1, <1>2, <1>8 DEF FlushReturned, TasksInOrder
  <2>2. /\ meta'[id] = None
        /\ \A d \in CallIds : d # id => /\ buffers'[d] = buffers[d]
                                        /\ meta'[d] = m[d] /\ requests'[d] = requests[d]
        /\ \A d \in Conns : d # c => flush'[d] = flush[d]
        /\ flush'[c] \in {"done", "updating"}
        /\ \A q \in Pending(c)' :
             \/ q \in Pending(c)
             \/ q.op = "turns" /\ HoldsTurns(q.turns, c, recorded[c])
    BY <1>2, <1>3, <2>1, PoppedCalls
  <2>3. \A d \in Conns : d # c => Same(d)
    BY <1>2, <1>3, <1>4, <1>5, <2>1, <2>2 DEF Same
  <2>4. PhasesAgree(c)' /\ MetaIsCurrent(c)'
    BY <1>2, <1>3, <2>1, <2>2 DEF CallInv, PhasesAgree, MetaIsCurrent, BeforeCall, InCall
  <2>5. OutcomeIsFinal(c)'
    BY <1>2, <1>3, <1>5, <1>6, <2>1, <2>2 DEF CallInv, OutcomeIsFinal, Over
  <2>6. TurnsAreKept(c)'
    BY <1>2, <1>3, <1>5, <2>1, <2>2 DEF CallInv, TurnsAreKept, InCall, BeforeCall, Over
  <2>. QED  BY <2>3, <2>4, <2>5, <2>6, OthersCalls DEF CallInv
<1>9. CASE TurnsReturned(id, i, r, ok) \/ SummaryReturned(id, i, r)
  <2>1. /\ UNCHANGED <<buffers, meta, grace>>
        /\ r.op # "put"
        /\ \/ flush' = flush
           \/ flush[c] = "updating" /\ flush' = [flush EXCEPT ![c] = "done"]
        /\ \A d \in Conns : d # c => summary'[d] = summary[d]
    BY <1>1, <1>2, <1>9 DEF TurnsReturned, SummaryReturned, TypeInv
  <2>2. /\ \A d \in Conns : d # c => flush'[d] = flush[d]
        /\ flush'[c] = flush[c] \/ (flush[c] = "updating" /\ flush'[c] = "done")
    BY <1>1, <2>1 DEF TypeInv
  <2>3. /\ \A q \in Pending(c)' : q \in Pending(c)
        /\ \A d \in CallIds : d # id => requests'[d] = requests[d]
    <3>1. Requested(CallIdOf[c], i, {})
      BY <1>2, <1>9 DEF TurnsReturned, SummaryReturned
    <3>2. /\ \A q \in Pending(c)' : q \in Pending(c) \/ q \in {}
          /\ \A d \in CallIds : d # CallIdOf[c] => requests'[d] = requests[d]
      BY <1>1, <1>3, <3>1, PendingAfter, Zenon
    <3>. QED  BY <1>2, <3>2
  <2>4. \A d \in Conns : d # c => Same(d)
    BY <1>2, <1>3, <1>5, <2>1, <2>2, <2>3 DEF Same
  <2>5. PhasesAgree(c)' /\ Buffered(id)' = Buffered(id)
    BY <1>2, <1>3, <2>1, <2>2 DEF CallInv, PhasesAgree, BeforeCall, Buffered
  <2>6. MetaIsCurrent(c)'
    BY <1>2, <1>3, <1>5, <1>6, <2>1, <2>2 DEF CallInv, MetaIsCurrent, InCall, BeforeCall
  <2>7. OutcomeIsFinal(c)'
    <3>1. OutcomeIsFinal(c)
      BY <1>3 DEF CallInv
    <3>2. (ending[c] \/ Over(c)) => (ending[c] \/ Over(c))'
      BY <1>2 DEF Over
    <3>. QED  BY <1>2, <1>5, <1>6, <2>1, <2>3, <3>1, <3>2 DEF OutcomeIsFinal
  <2>8. TurnsAreKept(c)'
    <3>1. TurnsAreKept(c)
      BY <1>3 DEF CallInv
    <3>. QED  BY <1>2, <1>5, <2>1, <2>2, <2>3, <2>5, <3>1 DEF TurnsAreKept, InCall, BeforeCall, Over
  <2>. QED  BY <2>4, <2>5, <2>6, <2>7, <2>8, OthersCalls DEF CallInv
<1>. QED  BY <1>2, <1>7, <1>8, <1>9

LEMMA MonitorCalls ==
  ASSUME RecordInv, NEW m \in Monitors, (\E id \in CallIds : MonitorAttaches(m, id)) \/ MonitorLeaves(m)
  PROVE  RecordInv'
<1>1. UNCHANGED <<pc, scope, recorded, ending, grace, flush, summary, asked, failed,
                  meta, buffers, rows, requests>>
  BY DEF MonitorAttaches, MonitorLeaves, historyVars, turnVars, toolVars, taskVars
<1>. QED  BY <1>1, QuietSame

LEMMA CrashCalls ==
  ASSUME RecordInv, Crash
  PROVE  RecordInv'
<1>1. ASSUME NEW c \in Conns
      PROVE  CallInv(c)'
  <2> DEFINE id == CallIdOf[c]
  <2>1. /\ id \in CallIds /\ CallInv(c)
        /\ UNCHANGED <<rows, scope, recorded, failed, asked>>
    BY SessionAssumption DEF RecordInv, Crash, turnVars
  <2>2. /\ pc'[c] = IF pc[c] = "absent" THEN "absent" ELSE "killed"
        /\ flush'[c] = "none" /\ grace'[c] = "none" /\ ~ending'[c]
    BY DEF Crash
  <2>3. buffers'[id] = None /\ meta'[id] = None /\ requests'[id] = <<>>
    BY <2>1 DEF Crash
  <2>4. Pending(c)' = {} /\ Asked(c)' = Asked(c)
    <3>1. Len(requests'[id]) = 0
      BY <2>3, EmptySeq
    <3>. QED  BY <2>1, <3>1 DEF Pending, Asked
  <2>5. PhasesAgree(c)' /\ MetaIsCurrent(c)'
    BY <2>1, <2>2, <2>3 DEF CallInv, PhasesAgree, MetaIsCurrent, BeforeCall, InCall
  <2>6. OutcomeIsFinal(c)'
    <3>1. ending[c] \/ Over(c) => Over(c)'
      BY <2>1, <2>2 DEF CallInv, PhasesAgree, Over
    <3>. QED  BY <2>1, <2>2, <2>4, <3>1 DEF CallInv, OutcomeIsFinal
  <2>7. TurnsAreKept(c)'
    <3>1. Over(c) => Over(c)'
      BY <2>2 DEF Over
    <3>. QED  BY <2>1, <2>2, <2>3, <2>4, <3>1 DEF CallInv, TurnsAreKept, BeforeCall, InCall
  <2>. QED  BY <2>5, <2>6, <2>7 DEF CallInv
<1>. QED  BY <1>1 DEF RecordInv

LEMMA InitCalls ==
  ASSUME Init
  PROVE  RecordInv
<1>1. ASSUME NEW c \in Conns
      PROVE  CallInv(c)
  <2> DEFINE id == CallIdOf[c]
  <2>1. /\ id \in CallIds /\ pc[c] = "absent" /\ recorded[c] = 0 /\ ~ending[c]
        /\ grace[c] = "none" /\ flush[c] = "none" /\ c \notin asked
        /\ buffers[id] = None /\ meta[id] = None /\ rows[id] = NoRow /\ requests[id] = <<>>
    BY SessionAssumption DEF Init, HistoryInit
  <2>2. Pending(c) = {}
    <3>1. Len(requests[id]) = 0
      BY <2>1, EmptySeq
    <3>. QED  BY <3>1 DEF Pending
  <2>. QED  BY <2>1, <2>2 DEF CallInv, PhasesAgree, MetaIsCurrent, OutcomeIsFinal, TurnsAreKept,
                              BeforeCall, InCall, Over, NoRow
<1>. QED  BY <1>1 DEF RecordInv

LEMMA RecordInvariant == OwnCallIds /\ Spec => [](OwnCallIds /\ RecordInv)
<1>1. OwnCallIds /\ Init => OwnCallIds /\ RecordInv
  BY InitCalls
<1>2. IInv /\ OwnCallIds /\ RecordInv /\ [Next]_vars => (OwnCallIds /\ RecordInv)'
  <2>1. SUFFICES ASSUME IInv, OwnCallIds, RecordInv, [Next]_vars PROVE RecordInv'
    BY DEF OwnCallIds
  <2>2. CASE UNCHANGED vars
    BY <2>1, <2>2, QuietSame DEF vars, turnVars, toolVars, taskVars, peerVars
  <2>3. CASE Next
    BY <2>1, <2>3, Steps, EndpointCalls, TurnCalls, ToolCalls, TaskCalls, ReturnCalls, MonitorCalls,
       CrashCalls, Zenon
  <2>. QED  BY <2>1, <2>2, <2>3
<1>. QED  BY <1>1, <1>2, Invariant, PTL DEF Spec

-----------------------------------------------------------------------------
(* What it says of the table *)

\* Whichever task writes the outcome row, and however the call ended (also by a
\* restart), the row says whether a human was asked for (bot.py:1290, mark_transfer).
THEOREM OutcomeSaysTransfer == OwnCallIds /\ Spec => []TransferKept
<1>1. RecordInv => TransferKept
  BY DEF RecordInv, CallInv, OutcomeIsFinal, TransferKept, Asked
<1>. QED  BY <1>1, RecordInvariant, PTL

\* When a phone call is ended by its tools, the EndTaskFrame is not queued before
\* the outcome row is in the table, unless writing it returned an error.
THEOREM OutcomeIsThereFirst == OwnCallIds /\ Spec => []OutcomeBeforeEnd
<1>1. IInv /\ RecordInv => OutcomeBeforeEnd
  BY DEF IInv, OneGrace, RecordInv, CallInv, OutcomeIsFinal, OutcomeBeforeEnd
<1>. QED  BY <1>1, Invariant, RecordInvariant, PTL

\* A transcript in the table has every turn that was recorded, once and in order, with
\* the events of the tools between them, and no turn of the call is recorded after it.
THEOREM TranscriptIsStored == OwnCallIds /\ Spec => []TranscriptIsComplete
<1>1. RecordInv => TranscriptIsComplete
  BY DEF RecordInv, CallInv, TurnsAreKept, TranscriptIsComplete
<1>. QED  BY <1>1, RecordInvariant, PTL

-----------------------------------------------------------------------------
(* The registry and the monitors *)

InRegistry(c) == pc[c] \in Registered \cup {"broken"}
BeforeRegistry(c) == pc[c] \in {"absent", "handshake", "refused"}

\* RegistryIsExact for one connection; nobody watches it before it is registered.
Listed(c) ==
  LET session == sessions[CallIdOf[c]] IN
  /\ InRegistry(c) =>
       /\ session # None
       /\ session.conn = c
       /\ \A m \in Monitors :
            /\ watching[m] = CallIdOf[c] => m \in session.monitors
            /\ m \in session.monitors => watching[m] \in {CallIdOf[c], "lost"}
  /\ ~InRegistry(c) => session = None
  /\ \A m \in Monitors : watching[m] = CallIdOf[c] => ~BeforeRegistry(c)

RegistryKnows == \A c \in Conns : Listed(c)

\* A step that leaves the registry alone and registers nobody.
LEMMA ListedStill ==
  ASSUME NEW d \in Conns, Listed(d), UNCHANGED watching,
         sessions'[CallIdOf[d]] = sessions[CallIdOf[d]],
         InRegistry(d)' = InRegistry(d), BeforeRegistry(d)' => BeforeRegistry(d)
  PROVE  Listed(d)'
BY DEF Listed

LEMMA RegistryStill ==
  ASSUME RegistryKnows, UNCHANGED <<sessions, watching, pc>>
  PROVE  RegistryKnows'
<1>1. \A d \in Conns : InRegistry(d)' = InRegistry(d) /\ (BeforeRegistry(d)' => BeforeRegistry(d))
  BY DEF InRegistry, BeforeRegistry
<1>. QED  BY <1>1, ListedStill DEF RegistryKnows

LEMMA EndpointListed ==
  ASSUME OwnCallIds, TypeInv, RegistryKnows, NEW c \in Conns,
         Moves(c) \/ Connect(c) \/ Begin(c) \/ WebConnects(c) \/ Cleanup(c)
  PROVE  RegistryKnows'
<1> DEFINE id == CallIdOf[c]
<1>1. /\ id \in CallIds /\ Listed(c)
      /\ \A d \in Conns : d # c => CallIdOf[d] \in CallIds /\ CallIdOf[d] # id
  BY SessionAssumption DEF OwnCallIds, RegistryKnows
<1>2. UNCHANGED watching /\ \A d \in Conns : d # c => pc'[d] = pc[d]
  BY DEF Moves, TwilioConnects, TwilioRefused, Run, BuildFails, PipelineEnds, Connect, Begin, WebConnects,
         Cleanup, Goto, TypeInv, peerVars
<1>3. ASSUME \A d \in CallIds : d # id => sessions'[d] = sessions[d], Listed(c)'
      PROVE  RegistryKnows'
  <2>1. ASSUME NEW d \in Conns, d # c
        PROVE  Listed(d)'
    <3>1. InRegistry(d)' = InRegistry(d) /\ (BeforeRegistry(d)' => BeforeRegistry(d))
      BY <1>2, <2>1 DEF InRegistry, BeforeRegistry
    <3>. QED  BY <1>1, <1>2, <1>3, <2>1, <3>1, ListedStill DEF RegistryKnows
  <2>. QED  BY <1>3, <2>1 DEF RegistryKnows
<1>4. CASE Moves(c) \/ Begin(c)
  <2>1. UNCHANGED sessions
    BY <1>4 DEF Moves, TwilioConnects, TwilioRefused, Run, BuildFails, PipelineEnds, Begin
  <2>2. InRegistry(c)' = InRegistry(c) /\ (BeforeRegistry(c)' => BeforeRegistry(c))
    BY <1>4 DEF Moves, TwilioConnects, TwilioRefused, Run, BuildFails, PipelineEnds, Begin, Goto, TypeInv,
                InRegistry, BeforeRegistry, Registered
  <2>3. Listed(c)'
    BY <1>1, <1>2, <2>1, <2>2, ListedStill
  <2>. QED  BY <1>3, <2>1, <2>3
<1>5. CASE Connect(c) \/ WebConnects(c)
  <2>1. /\ sessions' = [sessions EXCEPT ![id] = [conn |-> c, monitors |-> {}]]
        /\ BeforeRegistry(c) /\ InRegistry(c)' /\ ~BeforeRegistry(c)'
    BY <1>5 DEF Connect, WebConnects, Register, Goto, TypeInv, InRegistry, BeforeRegistry, Registered
  <2>2. /\ sessions'[id] = [conn |-> c, monitors |-> {}]
        /\ \A d \in CallIds : d # id => sessions'[d] = sessions[d]
    BY <1>1, <2>1 DEF TypeInv
  <2>3. sessions'[id] # None
    <3>1. [conn |-> c, monitors |-> {}] \in Session
      BY DEF Session
    <3>. QED  BY <2>2, <3>1, RegistryAssumption
  <2>4. Listed(c)'
    BY <1>1, <1>2, <2>1, <2>2, <2>3 DEF Listed
  <2>. QED  BY <1>3, <2>2, <2>4
<1>6. CASE Cleanup(c)
  <2>1. /\ sessions' = [sessions EXCEPT ![id] = None]
        /\ ~InRegistry(c)' /\ ~BeforeRegistry(c)'
    BY <1>6 DEF Cleanup, Unregister, Goto, TypeInv, InRegistry, BeforeRegistry, Registered
  <2>2. /\ sessions'[id] = None
        /\ \A d \in CallIds : d # id => sessions'[d] = sessions[d]
    BY <1>1, <2>1 DEF TypeInv
  <2>3. Listed(c)'
    BY <2>1, <2>2 DEF Listed
  <2>. QED  BY <1>3, <2>2, <2>3
<1>. QED  BY <1>4, <1>5, <1>6

LEMMA MonitorListed ==
  ASSUME OwnCallIds, TypeInv, RegistryKnows, NEW m \in Monitors,
         (\E id \in CallIds : MonitorAttaches(m, id)) \/ MonitorLeaves(m)
  PROVE  RegistryKnows'
<1>1. /\ \A d \in Conns : CallIdOf[d] \in CallIds /\ Listed(d)
      /\ UNCHANGED pc
      /\ None \notin CallIds /\ "lost" \notin CallIds /\ "lost" # None
  BY SessionAssumption, IdsAssumption DEF RegistryKnows, MonitorAttaches, MonitorLeaves
<1>2. \A d \in Conns : InRegistry(d)' = InRegistry(d) /\ BeforeRegistry(d)' = BeforeRegistry(d)
  BY <1>1 DEF InRegistry, BeforeRegistry
<1>3. ASSUME NEW id \in CallIds, MonitorAttaches(m, id)
      PROVE  RegistryKnows'
  <2>1. PICK outcome \in {id, "lost"} : watching' = [watching EXCEPT ![m] = outcome]
    BY <1>3 DEF MonitorAttaches
  <2>2. /\ watching[m] = None /\ watching'[m] = outcome
        /\ \A n \in Monitors : n # m => watching'[n] = watching[n]
    BY <1>3, <2>1 DEF MonitorAttaches, TypeInv
  <2>3. /\ sessions[id] # None /\ sessions[id] \in Session
        /\ sessions' = [sessions EXCEPT ![id].monitors = @ \cup {m}]
    BY <1>3 DEF MonitorAttaches, AttachMonitor, TypeInv
  <2> DEFINE attached == [sessions[id] EXCEPT !.monitors = @ \cup {m}]
  <2>4. /\ attached.conn = sessions[id].conn
        /\ attached.monitors = sessions[id].monitors \cup {m}
        /\ attached # None
    <3>1. attached \in Session
      BY <2>3 DEF Session
    <3>. QED  BY <2>3, <3>1, RegistryAssumption DEF Session
  <2>5. /\ sessions'[id] = attached
        /\ \A d \in CallIds : d # id => sessions'[d] = sessions[d]
    BY <2>3 DEF TypeInv
  <2>. HIDE DEF attached
  <2>6. ASSUME NEW d \in Conns
        PROVE  Listed(d)'
    <3>1. Listed(d) /\ CallIdOf[d] \in CallIds
      BY <1>1
    <3>2. CASE CallIdOf[d] = id
      <4>1. InRegistry(d) /\ ~BeforeRegistry(d)
        BY <2>3, <3>1, <3>2 DEF Listed, InRegistry, BeforeRegistry, Registered
      <4>. QED  BY <1>2, <2>2, <2>4, <2>5, <3>1, <3>2, <4>1 DEF Listed
    <3>3. CASE CallIdOf[d] # id
      <4>1. sessions'[CallIdOf[d]] = sessions[CallIdOf[d]]
        BY <2>5, <3>1, <3>3
      <4>2. outcome # CallIdOf[d]
        BY <1>1, <3>3
      <4>3. InRegistry(d) => m \notin sessions[CallIdOf[d]].monitors
        BY <1>1, <2>2, <3>1 DEF Listed
      <4>. QED  BY <1>1, <1>2, <2>2, <3>1, <4>1, <4>2, <4>3 DEF Listed
    <3>. QED  BY <3>2, <3>3
  <2>. QED  BY <2>6 DEF RegistryKnows
<1>4. CASE MonitorLeaves(m)
  <2>1. PICK id \in CallIds : id = watching[m]
    BY <1>4 DEF MonitorLeaves
  <2>2. /\ DetachMonitor(id, m)
        /\ watching'[m] = None
        /\ \A n \in Monitors : n # m => watching'[n] = watching[n]
    BY <1>4, <2>1 DEF MonitorLeaves, TypeInv
  <2>3. /\ \A d \in CallIds : d # id => sessions'[d] = sessions[d]
        /\ sessions[id] = None => sessions'[id] = None
        /\ sessions[id] # None => /\ sessions'[id] # None
                                  /\ sessions'[id].conn = sessions[id].conn
                                  /\ sessions'[id].monitors = sessions[id].monitors \ {m}
    <3>1. CASE sessions[id] = None
      BY <2>2, <3>1 DEF DetachMonitor
    <3>2. CASE sessions[id] # None
      <4> DEFINE detached == [sessions[id] EXCEPT !.monitors = @ \ {m}]
      <4>1. sessions[id] \in Session
        BY <3>2 DEF TypeInv
      <4>2. /\ detached.conn = sessions[id].conn
            /\ detached.monitors = sessions[id].monitors \ {m}
            /\ detached # None
        <5>1. detached \in Session
          BY <4>1 DEF Session
        <5>. QED  BY <4>1, <5>1, RegistryAssumption DEF Session
      <4>3. sessions' = [sessions EXCEPT ![id] = detached]
        BY <2>2, <3>2 DEF DetachMonitor
      <4>. HIDE DEF detached
      <4>. QED  BY <3>2, <4>2, <4>3 DEF TypeInv
    <3>. QED  BY <3>1, <3>2
  <2>4. ASSUME NEW d \in Conns
        PROVE  Listed(d)'
    <3>1. Listed(d) /\ CallIdOf[d] \in CallIds
      BY <1>1
    <3>2. CASE CallIdOf[d] = id
      BY <1>1, <1>2, <2>1, <2>2, <2>3, <3>1, <3>2 DEF Listed
    <3>3. CASE CallIdOf[d] # id
      <4>1. sessions'[CallIdOf[d]] = sessions[CallIdOf[d]]
        BY <2>3, <3>1, <3>3
      <4>2. InRegistry(d) => m \notin sessions[CallIdOf[d]].monitors
        BY <1>1, <2>1, <3>1, <3>3 DEF Listed
      <4>. QED  BY <1>1, <1>2, <2>2, <3>1, <4>1, <4>2 DEF Listed
    <3>. QED  BY <3>2, <3>3
  <2>. QED  BY <2>4 DEF RegistryKnows
<1>. QED  BY <1>3, <1>4

LEMMA RegistryInvariant == OwnCallIds /\ Spec => [](OwnCallIds /\ RegistryKnows)
<1>1. OwnCallIds /\ Init => OwnCallIds /\ RegistryKnows
  <2>1. SUFFICES ASSUME Init, NEW c \in Conns PROVE Listed(c)
    BY DEF RegistryKnows
  <2>2. /\ sessions[CallIdOf[c]] = None /\ pc[c] = "absent"
        /\ \A m \in Monitors : watching[m] # CallIdOf[c]
    BY <2>1, SessionAssumption, IdsAssumption DEF Init, RegistryInit
  <2>. QED  BY <2>2 DEF Listed, InRegistry, Registered
<1>2. IInv /\ OwnCallIds /\ RegistryKnows /\ [Next]_vars => (OwnCallIds /\ RegistryKnows)'
  <2>1. SUFFICES ASSUME IInv, OwnCallIds, RegistryKnows, [Next]_vars PROVE RegistryKnows'
    BY DEF OwnCallIds
  <2>2. TypeInv /\ RequestsAreAwaited
    BY <2>1 DEF IInv
  <2>3. CASE UNCHANGED vars
    BY <2>1, <2>3, RegistryStill DEF vars, peerVars
  <2>4. CASE Crash
    <3>1. ASSUME NEW c \in Conns
          PROVE  Listed(c)'
      <4>1. /\ sessions'[CallIdOf[c]] = None /\ pc'[c] \in {"absent", "killed"}
            /\ \A m \in Monitors : watching'[m] # CallIdOf[c]
        BY <2>4, SessionAssumption, IdsAssumption DEF Crash
      <4>. QED  BY <4>1 DEF Listed, InRegistry, Registered
    <3>. QED  BY <3>1 DEF RegistryKnows
  <2>5. CASE \E c \in Conns : FinalTurn(c) \/ Tee(c)
    BY <2>1, <2>5, RegistryStill DEF FinalTurn, Tee, peerVars
  <2>6. CASE \E c \in Conns, k \in Calls :
               (\E tool \in Tools : ToolStart(c, k, tool)) \/ ToolFinish(c, k)
    BY <2>1, <2>6, RegistryStill DEF ToolStart, ToolFinish, peerVars
  <2>7. CASE \E c \in Conns : Interruption(c) \/ GraceOver(c) \/ FlushStart(c) \/ Summarize(c)
    BY <2>1, <2>7, RegistryStill DEF Interruption, GraceOver, FlushStart, Summarize, peerVars
  <2>8. CASE \E id \in CallIds : \E i \in DOMAIN requests[id] : Return(id, i)
    BY <2>1, <2>8, RegistryStill DEF Return, peerVars
  <2>9. CASE Next
    BY <2>1, <2>2, <2>4, <2>5, <2>6, <2>7, <2>8, <2>9, Steps, EndpointListed, MonitorListed, Zenon
  <2>. QED  BY <2>1, <2>3, <2>9
<1>. QED  BY <1>1, <1>2, Invariant, PTL DEF Spec

\* The registry, with its monitors, is what the endpoints and the monitors believe it
\* is: an entry is there from session_register (bot.py:6976) to session_unregister.
THEOREM RegistryIsTrue == OwnCallIds /\ Spec => []RegistryIsExact
<1>1. RegistryKnows => RegistryIsExact
  BY DEF RegistryKnows, Listed, InRegistry, RegistryIsExact
<1>. QED  BY <1>1, RegistryInvariant, PTL

-----------------------------------------------------------------------------
(* Requests that arrive in the order they are made *)

\* A step that leaves the row and the requests of a call alone.
SameOrder(d) ==
  LET id == CallIdOf[d] IN
  /\ rows'[id] = rows[id] /\ requests'[id] = requests[id] /\ summary'[d] = summary[d]
  /\ meta'[id] # None => meta[id] # None
  /\ BeforeCall(d)' => BeforeCall(d)

LEMMA OrderStill ==
  ASSUME NEW d \in Conns, InTurn(d), RowGrows(d), SameOrder(d)
  PROVE  InTurn(d)' /\ RowGrows(d)'
<1>1. InTurn(d)'
  BY DEF InTurn, Finds, SameOrder
<1>2. RowGrows(d)'
  BY DEF RowGrows, SameOrder
<1>. QED  BY <1>1, <1>2

LEMMA OrderOthers ==
  ASSUME OrderInv, NEW c \in Conns, InTurn(c)', RowGrows(c)', \A d \in Conns : d # c => SameOrder(d)
  PROVE  OrderInv'
<1>1. \A d \in Conns : d # c => InTurn(d)' /\ RowGrows(d)'
  BY OrderStill DEF OrderInv
<1>. QED  BY <1>1 DEF OrderInv

LEMMA OrderQuiet ==
  ASSUME OrderInv, UNCHANGED <<rows, requests, summary>>,
         \A d \in Conns : /\ meta'[CallIdOf[d]] # None => meta[CallIdOf[d]] # None
                          /\ BeforeCall(d)' => BeforeCall(d)
  PROVE  OrderInv'
<1>1. \A d \in Conns : SameOrder(d)
  BY DEF SameOrder
<1>. QED  BY <1>1, OrderStill DEF OrderInv

\* What it takes for the requests to stay in turn when the one at position i is over.
LEMMA InTurnAfter ==
  ASSUME TypeInv, NEW c \in Conns, InTurn(c), NEW i \in Nat, NEW new,
         Requested(CallIdOf[c], i, new),
         \A j \in 1..Len(requests[CallIdOf[c]]) :
           j # i => Finds(rows'[CallIdOf[c]], requests[CallIdOf[c]][j]),
         \A r \in new : Finds(rows'[CallIdOf[c]], r),
         \/ \A r \in new : r.op # "put"
         \/ \A j \in 1..Len(requests[CallIdOf[c]]) : j # i => requests[CallIdOf[c]][j].op = "put"
  PROVE  InTurn(c)'
<1> DEFINE id == CallIdOf[c]
           s == requests[id]
           t == requests'[id]
<1>1. id \in CallIds /\ Len(s) \in Nat /\ Len(t) \in Nat
  BY SessionAssumption, LenProperties DEF TypeInv, Requested
<1>2. ASSUME NEW j \in 1..Len(t)
      PROVE  \/ Older(i, j) \in 1..Len(s) /\ Older(i, j) # i /\ t[j] = s[Older(i, j)]
             \/ j = Len(t) /\ t[j] \in new
  BY <1>1 DEF Requested, Older
<1>3. ASSUME NEW j \in 1..Len(t)
      PROVE  Finds(rows'[id], t[j])
  <2>1. CASE Older(i, j) \in 1..Len(s) /\ Older(i, j) # i /\ t[j] = s[Older(i, j)]
    BY <2>1
  <2>2. CASE j = Len(t) /\ t[j] \in new
    BY <2>2
  <2>. QED  BY <1>2, <2>1, <2>2
<1>4. ASSUME NEW a \in 1..Len(t), NEW b \in 1..Len(t), a < b, t[a].op # "put"
      PROVE  t[b].op # "put"
  <2>1. Older(i, a) \in 1..Len(s) /\ Older(i, a) # i /\ t[a] = s[Older(i, a)]
    BY <1>1, <1>2, <1>4
  <2>2. CASE Older(i, b) \in 1..Len(s) /\ Older(i, b) # i /\ t[b] = s[Older(i, b)]
    <3>1. Older(i, a) < Older(i, b)
      BY <1>1, <1>4 DEF Older
    <3>. QED  BY <1>4, <2>1, <2>2, <3>1 DEF InTurn
  <2>3. CASE t[b] \in new
    <3>1. s[Older(i, a)].op # "put"
      BY <1>4, <2>1
    <3>. QED  BY <2>1, <2>3, <3>1
  <2>. QED  BY <1>2, <2>2, <2>3
<1>. QED  BY <1>3, <1>4 DEF InTurn

LEMMA InTurnRemoved ==
  ASSUME TypeInv, NEW c \in Conns, InTurn(c), NEW i \in Nat, Requested(CallIdOf[c], i, {}),
         \A j \in 1..Len(requests[CallIdOf[c]]) :
           j # i => Finds(rows'[CallIdOf[c]], requests[CallIdOf[c]][j])
  PROVE  InTurn(c)'
<1>1. PICK new : new = {}
  OBVIOUS
<1>2. /\ Requested(CallIdOf[c], i, new)
      /\ \A r \in new : Finds(rows'[CallIdOf[c]], r)
      /\ \A r \in new : r.op # "put"
  BY <1>1
<1>. QED  BY <1>2, InTurnAfter

\* The tasks that made the requests under way of a call have got so far.
LEMMA PendingPhases ==
  ASSUME OwnCallIds, IInv, RecordInv, NEW c \in Conns, NEW r \in Pending(c)
  PROVE  /\ r \in RequestRecord /\ r.conn = c /\ ~BeforeCall(c)
         /\ r.op = "put" => (r.transfer <=> Asked(c))
         /\ r.op = "turns" => r.task = "flush" /\ flush[c] = "updating" /\ meta[CallIdOf[c]] = None
         /\ r.op = "summary" => r.task = "summary" /\ flush[c] = "done" /\ meta[CallIdOf[c]] = None
<1>1. /\ TypeInv /\ RequestsAreAwaited /\ TasksInOrder /\ OneGrace(c) /\ CallInv(c)
  BY DEF IInv, RecordInv
<1>2. r \in RequestRecord /\ r.conn = c /\ Awaited(CallIdOf[c], r)
  BY <1>1, PendingRecords, OwnRequests
<1>3. r.op = "put" => (r.transfer <=> Asked(c))
  BY <1>1 DEF CallInv, OutcomeIsFinal
<1>4. /\ r.op = "turns" => r.task = "flush" /\ flush[c] = "updating"
      /\ r.op = "summary" => r.task = "summary" /\ flush[c] = "done"
      /\ grace[c] # "none" \/ flush[c] # "none"
  BY <1>1, <1>2 DEF Awaited, RequestRecord, Tasks, TasksInOrder
<1>5. flush[c] \in {"updating", "done"} => meta[CallIdOf[c]] = None
  BY <1>1 DEF CallInv, MetaIsCurrent
<1>6. ~BeforeCall(c)
  BY <1>1, <1>4 DEF OneGrace, TasksInOrder, CallInv, PhasesAgree, BeforeCall
<1>. QED  BY <1>2, <1>3, <1>4, <1>5, <1>6

\* When the turns, or the summary, are first in the queue, they are alone in it.
LEMMA AloneInQueue ==
  ASSUME OwnCallIds, IInv, RecordInv, NEW c \in Conns, InTurn(c),
         NEW j \in 1..Len(requests[CallIdOf[c]]), requests[CallIdOf[c]][1].op # "put"
  PROVE  j = 1
<1> DEFINE id == CallIdOf[c]
           s == requests[id]
<1>1. SUFFICES ASSUME j # 1 PROVE FALSE
  OBVIOUS
<1>2. id \in CallIds /\ Len(s) \in Nat
  BY SessionAssumption, LenProperties DEF IInv, TypeInv
<1>3. 1 \in 1..Len(s) /\ 1 < j
  BY <1>1, <1>2
<1>4. s[1] \in Pending(c) /\ s[j] \in Pending(c)
  BY <1>3 DEF Pending
<1>5. s[j].op # "put"
  BY <1>3 DEF InTurn
<1>6. s[1].conn = s[j].conn /\ s[1].task = s[j].task
  <2>1. s[1].op \in {"turns", "summary"} /\ s[j].op \in {"turns", "summary"}
    BY <1>4, <1>5, PendingPhases DEF RequestRecord
  <2>. QED  BY <1>4, <2>1, PendingPhases
<1>. QED  BY <1>1, <1>2, <1>3, <1>6 DEF IInv, RequestsAreAwaited

LEMMA EndpointOrder ==
  ASSUME OwnCallIds, TypeInv, OrderInv, NEW c \in Conns,
         Moves(c) \/ Connect(c) \/ Begin(c) \/ WebConnects(c) \/ Cleanup(c)
  PROVE  OrderInv'
<1> DEFINE id == CallIdOf[c]
<1>1. UNCHANGED <<rows, requests, summary>>
  BY DEF Moves, TwilioConnects, TwilioRefused, Run, BuildFails, PipelineEnds, Connect, Begin, WebConnects,
         Cleanup, Attach, historyVars, taskVars
<1>2. \A d \in Conns : BeforeCall(d)' => BeforeCall(d)
  BY DEF Moves, TwilioConnects, TwilioRefused, Run, BuildFails, PipelineEnds, Connect, Begin, WebConnects,
         Cleanup, Goto, TypeInv, BeforeCall
<1>3. CASE Moves(c) \/ Connect(c) \/ Cleanup(c)
  <2>1. UNCHANGED meta
    BY <1>3 DEF Moves, TwilioConnects, TwilioRefused, Run, BuildFails, PipelineEnds, Connect, Cleanup,
                historyVars
  <2>. QED  BY <1>1, <1>2, <2>1, OrderQuiet
<1>4. CASE Begin(c) \/ WebConnects(c)
  <2>1. /\ BeforeCall(c) /\ ~BeforeCall(c)'
        /\ \A d \in CallIds : d # id => meta'[d] = meta[d]
    BY <1>4 DEF Begin, WebConnects, Attach, Goto, TypeInv, BeforeCall
  <2>2. \A d \in Conns : d # c => SameOrder(d)
    BY <1>1, <1>2, <2>1, SessionAssumption DEF SameOrder, OwnCallIds
  <2>3. InTurn(c)'
    BY <1>1 DEF OrderInv, InTurn
  <2>4. RowGrows(c)'
    BY <1>1, <2>1 DEF OrderInv, RowGrows, Open
  <2>. QED  BY <2>2, <2>3, <2>4, OrderOthers
<1>. QED  BY <1>3, <1>4

LEMMA TurnOrder ==
  ASSUME TypeInv, OrderInv, NEW c \in Conns,
         \/ FinalTurn(c) \/ Tee(c) \/ Interruption(c)
         \/ \E k \in Calls : (\E tool \in Tools : ToolStart(c, k, tool)) \/ ToolFinish(c, k)
  PROVE  OrderInv'
<1>1. UNCHANGED <<rows, requests, summary, pc>>
  BY DEF FinalTurn, Tee, Interruption, ToolStart, ToolFinish, historyVars, taskVars
<1>2. meta' = meta \/ Mark(c)
  BY DEF FinalTurn, Tee, Interruption, ToolStart, ToolFinish, historyVars
<1>3. \A d \in CallIds : meta'[d] # None => meta[d] # None
  BY <1>2 DEF Mark, MarkTransfer, TypeInv
<1>4. \A d \in Conns : BeforeCall(d)' => BeforeCall(d)
  BY <1>1 DEF BeforeCall
<1>. QED  BY <1>1, <1>3, <1>4, OrderQuiet, SessionAssumption

LEMMA MonitorOrder ==
  ASSUME OrderInv, NEW m \in Monitors, (\E id \in CallIds : MonitorAttaches(m, id)) \/ MonitorLeaves(m)
  PROVE  OrderInv'
<1>1. UNCHANGED <<rows, requests, summary, pc, meta>>
  BY DEF MonitorAttaches, MonitorLeaves, historyVars, taskVars
<1>2. \A d \in Conns : BeforeCall(d)' => BeforeCall(d)
  BY <1>1 DEF BeforeCall
<1>. QED  BY <1>1, <1>2, OrderQuiet

LEMMA CrashOrder ==
  ASSUME OrderInv, Crash
  PROVE  OrderInv'
<1>1. ASSUME NEW c \in Conns
      PROVE  InTurn(c)' /\ RowGrows(c)'
  <2>1. /\ requests'[CallIdOf[c]] = <<>> /\ meta'[CallIdOf[c]] = None /\ summary'[c] = "none"
        /\ UNCHANGED rows
        /\ BeforeCall(c)' => BeforeCall(c)
    BY SessionAssumption DEF Crash, BeforeCall
  <2>2. Len(requests'[CallIdOf[c]]) = 0
    BY <2>1, EmptySeq
  <2>. QED  BY <2>1, <2>2 DEF OrderInv, InTurn, RowGrows
<1>. QED  BY <1>1 DEF OrderInv

LEMMA InitOrder ==
  ASSUME Init
  PROVE  OrderInv
<1>1. ASSUME NEW c \in Conns
      PROVE  InTurn(c) /\ RowGrows(c)
  <2>1. /\ requests[CallIdOf[c]] = <<>> /\ meta[CallIdOf[c]] = None /\ summary[c] = "none"
        /\ rows[CallIdOf[c]] = NoRow
    BY SessionAssumption DEF Init, HistoryInit
  <2>2. Len(requests[CallIdOf[c]]) = 0
    BY <2>1, EmptySeq
  <2>. QED  BY <2>1, <2>2 DEF InTurn, RowGrows
<1>. QED  BY <1>1 DEF OrderInv

\* Nothing but outcome rows is under way while _meta has the dict, and the row is that
\* of this call's outcome, if there is one.
LEMMA OpenRow ==
  ASSUME OwnCallIds, IInv, RecordInv, OrderInv, NEW c \in Conns, meta[CallIdOf[c]] # None
  PROVE  /\ Open(rows[CallIdOf[c]])
         /\ \A j \in 1..Len(requests[CallIdOf[c]]) : requests[CallIdOf[c]][j].op = "put"
         /\ \A r \in RequestRecord :
              r.op = "put" /\ (r.transfer <=> Asked(c)) => Finds(rows[CallIdOf[c]], r)
         /\ \A r \in RequestRecord : r.op = "turns" => Finds(rows[CallIdOf[c]], r)
<1> DEFINE id == CallIdOf[c]
<1>1. Open(rows[id])
  BY DEF OrderInv, RowGrows
<1>2. ASSUME NEW j \in 1..Len(requests[id])
      PROVE  requests[id][j].op = "put"
  <2>1. requests[id][j] \in Pending(c)
    BY DEF Pending
  <2>. QED  BY <2>1, PendingPhases DEF RequestRecord
<1>3. rows[id].outcome => (rows[id].transfer <=> Asked(c))
  BY DEF RecordInv, CallInv, OutcomeIsFinal
<1>4. ASSUME NEW r \in RequestRecord, r.op = "put", r.transfer <=> Asked(c)
      PROVE  rows[id] = NoRow \/ rows[id] = PutRow(r.transfer)
  <2>1. r.transfer \in BOOLEAN
    BY DEF RequestRecord
  <2>2. ASSUME NEW transfer \in BOOLEAN, rows[id] = PutRow(transfer)
        PROVE  transfer = r.transfer
    <3>1. transfer <=> Asked(c)
      BY <1>3, <2>2 DEF PutRow
    <3>. QED  BY <1>4, <2>1, <3>1
  <2>. QED  BY <1>1, <2>2 DEF Open
<1>5. ~rows[id].flushed /\ rows[id].status \notin {"ok", "failed"}
  <2>1. CASE rows[id] = NoRow
    BY <2>1 DEF NoRow
  <2>2. ASSUME NEW transfer \in BOOLEAN, rows[id] = PutRow(transfer)
        PROVE  ~rows[id].flushed /\ rows[id].status \notin {"ok", "failed"}
    BY <2>2 DEF PutRow
  <2>. QED  BY <1>1, <2>1, <2>2 DEF Open
<1>. QED  BY <1>1, <1>2, <1>4, <1>5 DEF Finds

\* An outcome row is put while _meta has the dict of the call.
LEMMA PutOrder ==
  ASSUME OwnCallIds, IInv, RecordInv, OrderInv, NEW c \in Conns, NEW task \in Tasks,
         meta[CallIdOf[c]] # None, UNCHANGED <<rows, meta, summary, pc>>,
         Requested(CallIdOf[c], Len(requests[CallIdOf[c]]) + 1,
           {Request("put", c, task, meta[CallIdOf[c]].conn, meta[CallIdOf[c]].transfer, <<>>, "pending")})
  PROVE  OrderInv'
<1> DEFINE id == CallIdOf[c]
<1>1. PICK new : new = {Request("put", c, task, meta[id].conn, meta[id].transfer, <<>>, "pending")}
  OBVIOUS
<1>2. id \in CallIds /\ TypeInv /\ Len(requests[id]) + 1 \in Nat
  BY SessionAssumption, LenProperties DEF IInv, TypeInv
<1>3. \A r \in new : r \in RequestRecord /\ r.op = "put" /\ (r.transfer <=> Asked(c))
  <2>1. meta[id].transfer <=> Asked(c)
    BY DEF RecordInv, CallInv, MetaIsCurrent
  <2>2. \A r \in new : r.op = "put" /\ r.transfer = meta[id].transfer
    BY <1>1 DEF Request
  <2>. QED  BY <1>1, <1>2, <2>1, <2>2, PutIsARequest
<1>4. /\ \A r \in new : Finds(rows'[id], r)
      /\ \A j \in 1..Len(requests[id]) : requests[id][j].op = "put" /\ Finds(rows'[id], requests[id][j])
  BY <1>3, OpenRow DEF OrderInv, InTurn
<1>5. InTurn(c)'
  <2>1. Requested(id, Len(requests[id]) + 1, new) /\ InTurn(c)
    BY <1>1 DEF OrderInv
  <2>. QED  BY <1>2, <1>4, <2>1, InTurnAfter
<1>6. RowGrows(c)' /\ \A d \in Conns : d # c => SameOrder(d)
  <2>1. \A d \in CallIds : d # id => requests'[d] = requests[d]
    BY DEF Requested
  <2>. QED  BY <2>1, SessionAssumption DEF OrderInv, RowGrows, SameOrder, BeforeCall, OwnCallIds
<1>. QED  BY <1>5, <1>6, OrderOthers

\* What _meta and the buffer hold is taken out, when the request at position i is over
\* and m is what _meta holds.
LEMMA PoppedOrder ==
  ASSUME OwnCallIds, IInv, OrderInv, NEW c \in Conns, NEW i \in Nat,
         NEW m \in [CallIds -> Meta \cup {None}], Popped(c, m, i),
         flush[c] \in {"start", "putting"}, UNCHANGED <<summary, pc>>,
         \A d \in CallIds : d # CallIdOf[c] => m[d] = meta[d] /\ rows'[d] = rows[d],
         m[CallIdOf[c]] # None => Open(rows'[CallIdOf[c]]),
         \A j \in 1..Len(requests[CallIdOf[c]]) :
           j # i => Finds(rows'[CallIdOf[c]], requests[CallIdOf[c]][j])
  PROVE  OrderInv'
<1> DEFINE id == CallIdOf[c]
<1>1. id \in CallIds /\ TypeInv
  BY SessionAssumption DEF IInv
<1>2. /\ meta'[id] = None
      /\ \A d \in CallIds : d # id => meta'[d] = m[d] /\ requests'[d] = requests[d]
  BY <1>1 DEF Popped, TypeInv, Requested
<1>3. pc[c] = "ended" /\ summary[c] = "none"
  BY DEF IInv, TasksInOrder
<1>4. InTurn(c)'
  <2>1. CASE Requested(id, i, {})
    <3>1. \A r \in {} : Finds(rows'[id], r) /\ r.op # "put"
      OBVIOUS
    <3>. QED  BY <1>1, <2>1, <3>1, InTurnAfter DEF OrderInv
  <2>2. CASE m[id] # None /\ Requested(id, i, {TurnsRequest(c, m)})
    <3>1. PICK new : new = {TurnsRequest(c, m)}
      OBVIOUS
    <3>2. \A r \in new : r.op = "turns"
      BY <3>1 DEF TurnsRequest, Request
    <3>3. ~rows'[id].flushed /\ rows'[id].status \notin {"ok", "failed"}
      <4>1. CASE rows'[id] = NoRow
        BY <4>1 DEF NoRow
      <4>2. ASSUME NEW transfer \in BOOLEAN, rows'[id] = PutRow(transfer)
            PROVE  ~rows'[id].flushed /\ rows'[id].status \notin {"ok", "failed"}
        BY <4>2 DEF PutRow
      <4>. QED  BY <2>2, <4>1, <4>2 DEF Open
    <3>4. \A r \in new : Finds(rows'[id], r)
      BY <3>2, <3>3 DEF Finds
    <3>5. Requested(id, i, new) /\ InTurn(c)
      BY <2>2, <3>1 DEF OrderInv
    <3>. QED  BY <1>1, <3>2, <3>4, <3>5, InTurnAfter
  <2>. QED  BY <2>1, <2>2 DEF Popped
<1>5. RowGrows(c)'
  BY <1>2, <1>3 DEF RowGrows, BeforeCall
<1>6. \A d \in Conns : d # c => SameOrder(d)
  BY <1>2, SessionAssumption DEF SameOrder, BeforeCall, OwnCallIds
<1>. QED  BY <1>4, <1>5, <1>6, OrderOthers

LEMMA TaskOrder ==
  ASSUME OwnCallIds, IInv, RecordInv, OrderInv, NEW c \in Conns,
         GraceOver(c) \/ FlushStart(c) \/ Summarize(c)
  PROVE  OrderInv'
<1> DEFINE id == CallIdOf[c]
           n == Len(requests[id]) + 1
<1>1. id \in CallIds /\ TypeInv /\ InTurn(c) /\ RowGrows(c) /\ n \in Nat
  BY SessionAssumption, LenProperties DEF IInv, TypeInv, OrderInv
<1>2. CASE GraceOver(c)
  <2>1. UNCHANGED <<rows, meta, summary, pc>>
    BY <1>1, <1>2, GraceOverCases DEF taskVars
  <2>2. CASE UNCHANGED requests
    BY <2>1, <2>2, OrderQuiet DEF BeforeCall
  <2>3. CASE /\ ~(scope[c] = "web" \/ OutcomeIsWritten(id))
             /\ Requested(id, n, {Request("put", c, "grace", meta[id].conn, meta[id].transfer, <<>>, "pending")})
    BY <2>1, <2>3, PutOrder DEF OutcomeIsWritten, Tasks
  <2>. QED  BY <1>1, <1>2, <2>2, <2>3, GraceOverCases
<1>3. CASE FlushStart(c)
  <2>1. UNCHANGED <<rows, summary, pc>> /\ flush[c] = "start"
    BY <1>1, <1>3, FlushStartCases
  <2>2. CASE Popped(c, meta, n)
    <3>1. meta \in [CallIds -> Meta \cup {None}]
      BY <1>1 DEF TypeInv
    <3>2. meta[id] # None => Open(rows'[id])
      BY <1>1, <2>1 DEF RowGrows
    <3>3. \A j \in 1..Len(requests[id]) : Finds(rows'[id], requests[id][j])
      BY <1>1, <2>1 DEF InTurn
    <3>. HIDE DEF n
    <3>. QED  BY <1>1, <2>1, <2>2, <3>1, <3>2, <3>3, PoppedOrder
  <2>3. CASE /\ ~OutcomeIsWritten(id)
             /\ UNCHANGED <<buffers, meta>>
             /\ Requested(id, n, {Request("put", c, "flush", meta[id].conn, meta[id].transfer, <<>>, "pending")})
    BY <2>1, <2>3, PutOrder DEF OutcomeIsWritten, Tasks
  <2>. QED  BY <1>1, <1>3, <2>2, <2>3, FlushStartCases
<1>4. CASE Summarize(c)
  <2>1. /\ UNCHANGED <<rows, meta, pc>>
        /\ summary[c] = "invoking" /\ summary' = [summary EXCEPT ![c] = "updating"]
    BY <1>1, <1>4, SummarizeCases
  <2>2. PICK status \in {"ok", "failed"} :
          Requested(id, n, {Request("summary", c, "summary", c, FALSE, <<>>, status)})
    BY <1>1, <1>4, SummarizeCases
  <2>3. PICK new : new = {Request("summary", c, "summary", c, FALSE, <<>>, status)}
    OBVIOUS
  <2>4. \A r \in new : r.op = "summary" /\ r.status \in {"ok", "failed"}
    BY <2>3 DEF Request
  <2>5. rows[id].flushed /\ rows[id].status \notin {"ok", "failed"}
    BY <1>1, <2>1 DEF RowGrows
  <2>6. InTurn(c)'
    <3>1. \A r \in new : Finds(rows'[id], r) /\ r.op # "put"
      BY <2>1, <2>4, <2>5 DEF Finds
    <3>2. \A j \in 1..Len(requests[id]) : Finds(rows'[id], requests[id][j])
      BY <1>1, <2>1 DEF InTurn
    <3>3. Requested(id, n, new)
      BY <2>2, <2>3
    <3>. HIDE DEF n
    <3>. QED  BY <1>1, <3>1, <3>2, <3>3, InTurnAfter
  <2>7. RowGrows(c)'
    BY <1>1, <2>1, <2>5 DEF RowGrows, BeforeCall
  <2>8. \A d \in Conns : d # c => SameOrder(d)
    <3>1. \A d \in CallIds : d # id => requests'[d] = requests[d]
      BY <2>2 DEF Requested
    <3>2. \A d \in Conns : d # c => summary'[d] = summary[d]
      BY <1>1, <2>1 DEF TypeInv
    <3>. QED  BY <2>1, <3>1, <3>2, SessionAssumption DEF SameOrder, BeforeCall, OwnCallIds
  <2>. QED  BY <2>6, <2>7, <2>8, OrderOthers
<1>. QED  BY <1>2, <1>3, <1>4

\* What the oldest request of a call does to its row.
LEMMA OldestArrives ==
  ASSUME OwnCallIds, IInv, RecordInv, OrderInv, NEW id \in CallIds, NEW c \in Conns, CallIdOf[c] = id,
         NEW effective \in BOOLEAN, 1 \in 1..Len(requests[id]), Arrives(id, 1, effective)
  PROVE  LET r == requests[id][1]
             row == rows[id]
         IN  /\ r \in Pending(c) /\ Finds(row, r)
             /\ \A d \in CallIds : d # id => rows'[d] = rows[d]
             /\ \/ rows'[id] = row /\ (effective => r.op = "put" /\ row = PutRow(r.transfer))
                \/ /\ effective /\ r.op = "put"
                   /\ row = NoRow /\ rows'[id] = PutRow(r.transfer)
                \/ /\ effective /\ r.op = "turns"
                   /\ rows'[id] = [row EXCEPT !.flushed = TRUE, !.turns = r.turns]
                \/ /\ effective /\ r.op = "summary"
                   /\ rows'[id] = [row EXCEPT !.status = r.status]
             /\ \A j \in 1..Len(requests[id]) : j # 1 => Finds(rows'[id], requests[id][j])
<1> DEFINE row == rows[id]
<1>0. PICK r : r = requests[id][1]
  OBVIOUS
<1>1. TypeInv /\ InTurn(c) /\ 1 \in DOMAIN requests[id]
  <2>1. TypeInv /\ InTurn(c)
    BY DEF IInv, OrderInv
  <2>. QED  BY <2>1, LenProperties DEF TypeInv
<1>2. r \in Pending(c) /\ Finds(row, r) /\ r \in RequestRecord
  <2>1. r \in Pending(c)
    BY <1>0 DEF Pending
  <2>. QED  BY <1>0, <1>1, <2>1, PendingPhases DEF InTurn
<1>3. CASE ~effective
  <2>1. rows' = rows
    BY <1>3 DEF Arrives
  <2>. QED  BY <1>0, <1>1, <1>2, <1>3, <2>1 DEF InTurn
<1>4. CASE effective /\ r.op = "put"
  <2>1. rows'[id] = PutRow(r.transfer) /\ \A d \in CallIds : d # id => rows'[d] = rows[d]
    BY <1>0, <1>1, <1>4, ArrivesRow
  <2>2. row = NoRow \/ row = PutRow(r.transfer)
    BY <1>2, <1>4 DEF Finds
  <2>3. ~row.flushed
    BY <2>2 DEF NoRow, PutRow
  <2>4. /\ ~rows'[id].flushed /\ rows'[id].status \notin {"ok", "failed"}
    BY <2>1 DEF PutRow
  <2>5. ASSUME NEW j \in 1..Len(requests[id])
        PROVE  Finds(rows'[id], requests[id][j])
    <3>1. PICK q \in Pending(c) : q = requests[id][j]
      BY DEF Pending
    <3>2. Finds(row, q)
      BY <1>1, <3>1 DEF InTurn
    <3>3. q.op # "summary"
      BY <2>3, <3>2 DEF Finds
    <3>4. q.op = "put" => q.transfer = r.transfer
      BY <1>2, <1>4, PendingPhases DEF RequestRecord
    <3>5. Finds(rows'[id], q)
      BY <2>1, <2>4, <3>3, <3>4 DEF Finds
    <3>. QED  BY <3>1, <3>5
  <2>. QED  BY <1>0, <1>2, <1>4, <2>1, <2>2, <2>5
<1>5. CASE effective /\ r.op \in {"turns", "summary"}
  <2>1. \A j \in 1..Len(requests[id]) : j = 1
    BY <1>0, <1>1, <1>5, AloneInQueue
  <2>2. \A d \in CallIds : d # id => rows'[d] = rows[d]
    BY <1>1, <1>5, ArrivesRow
  <2>3. r.op = "turns" => rows'[id] = [row EXCEPT !.flushed = TRUE, !.turns = r.turns]
    BY <1>0, <1>1, <1>5, ArrivesRow
  <2>4. r.op = "summary" => rows'[id] = [row EXCEPT !.status = r.status]
    BY <1>0, <1>1, <1>5, ArrivesRow
  <2>. QED  BY <1>0, <1>2, <1>5, <2>1, <2>2, <2>3, <2>4
<1>. QED  BY <1>2, <1>3, <1>4, <1>5 DEF RequestRecord

LEMMA ReturnOrder ==
  ASSUME OwnCallIds, InOrder, IInv, RecordInv, OrderInv, NEW id \in CallIds,
         NEW i \in DOMAIN requests[id], Return(id, i)
  PROVE  OrderInv'
<1>1. TypeInv /\ RequestsAreAwaited /\ TasksInOrder
  BY DEF IInv
<1>2. PICK r \in RequestRecord, c \in Conns, ok \in BOOLEAN, effective \in BOOLEAN,
           m \in [CallIds -> Meta \cup {None}] :
        /\ i \in 1..Len(requests[id]) /\ r = requests[id][i] /\ c = r.conn /\ CallIdOf[c] = id
        /\ UNCHANGED <<pc, scope, recorded, ending, asked>>
        /\ m = IF ok THEN OutcomeWritten(id, r) ELSE meta
        /\ ok => effective
        /\ Arrives(id, i, effective)
        /\ failed' = IF ok THEN failed ELSE failed \cup {<<c, r.task>>}
        /\ \/ GraceReturned(id, i, r, m) \/ FlushReturned(id, i, r, m)
           \/ TurnsReturned(id, i, r, ok) \/ SummaryReturned(id, i, r)
  BY <1>1, ReturnParts, Zenon
<1>3. i = 1 /\ UNCHANGED pc /\ c = r.conn /\ CallIdOf[c] = id
  BY <1>2 DEF Arrives
<1>4. /\ r \in Pending(c) /\ Finds(rows[id], r)
      /\ \A d \in CallIds : d # id => rows'[d] = rows[d]
      /\ \/ rows'[id] = rows[id] /\ (effective => r.op = "put" /\ rows[id] = PutRow(r.transfer))
         \/ /\ effective /\ r.op = "put"
            /\ rows[id] = NoRow /\ rows'[id] = PutRow(r.transfer)
         \/ /\ effective /\ r.op = "turns"
            /\ rows'[id] = [rows[id] EXCEPT !.flushed = TRUE, !.turns = r.turns]
         \/ /\ effective /\ r.op = "summary"
            /\ rows'[id] = [rows[id] EXCEPT !.status = r.status]
      /\ \A j \in 1..Len(requests[id]) : j # i => Finds(rows'[id], requests[id][j])
  <2>1. 1 \in 1..Len(requests[id]) /\ r = requests[id][1] /\ Arrives(id, 1, effective)
    BY <1>2, <1>3
  <2> DEFINE oldest == requests[id][1]
  <2>2. /\ oldest \in Pending(c) /\ Finds(rows[id], oldest)
        /\ \A d \in CallIds : d # id => rows'[d] = rows[d]
    BY <1>3, <2>1, OldestArrives, Zenon
  <2>3. \/ rows'[id] = rows[id] /\ (effective => oldest.op = "put" /\ rows[id] = PutRow(oldest.transfer))
        \/ /\ effective /\ oldest.op = "put"
           /\ rows[id] = NoRow /\ rows'[id] = PutRow(oldest.transfer)
        \/ /\ effective /\ oldest.op = "turns"
           /\ rows'[id] = [rows[id] EXCEPT !.flushed = TRUE, !.turns = oldest.turns]
        \/ /\ effective /\ oldest.op = "summary"
           /\ rows'[id] = [rows[id] EXCEPT !.status = oldest.status]
    BY <1>3, <2>1, OldestArrives, Zenon
  <2>4. \A j \in 1..Len(requests[id]) : j # i => Finds(rows'[id], requests[id][j])
    BY <1>3, <2>1, OldestArrives
  <2>5. oldest = r
    BY <2>1
  <2>. HIDE DEF oldest
  <2>. QED  BY <2>2, <2>3, <2>4, <2>5
<1>5. /\ ~BeforeCall(c) /\ InTurn(c) /\ RowGrows(c) /\ CallInv(c)
      /\ r.op # "put" => meta[id] = None
  BY <1>3, <1>4, PendingPhases DEF OrderInv, RecordInv, RequestRecord
<1>6. (m[id] # None => meta[id] # None) /\ \A d \in CallIds : d # id => m[d] = meta[d]
  BY <1>1, <1>2, OutcomeWrittenKeeps
<1>7. r.op = "put" /\ m[id] # None => Open(rows'[id])
  <2>1. r.op = "put" => r.transfer \in BOOLEAN
    BY DEF RequestRecord
  <2>. QED  BY <1>3, <1>4, <1>5, <1>6, <2>1 DEF RowGrows, Open
<1>8. CASE GraceReturned(id, i, r, m)
  <2>1. r.op = "put" /\ meta' = m /\ Requested(CallIdOf[c], i, {}) /\ UNCHANGED summary
    BY <1>3, <1>8 DEF GraceReturned
  <2>2. InTurn(c)'
    <3>1. /\ i \in Nat /\ InTurn(c)
          /\ \A j \in 1..Len(requests[CallIdOf[c]]) :
               j # i => Finds(rows'[CallIdOf[c]], requests[CallIdOf[c]][j])
      BY <1>3, <1>4, <1>5
    <3>. QED  BY <1>1, <2>1, <3>1, InTurnRemoved
  <2>3. RowGrows(c)'
    <3>1. summary[c] \notin {"invoking", "updating"}
      <4>1. ~rows[id].flushed
        BY <1>4, <2>1 DEF Finds, NoRow, PutRow
      <4>. QED  BY <1>3, <1>5, <4>1 DEF RowGrows
    <3>. QED  BY <1>3, <1>5, <1>6, <1>7, <2>1, <3>1 DEF RowGrows, BeforeCall
  <2>4. \A d \in Conns : d # c => SameOrder(d)
    BY <1>3, <1>4, <1>6, <2>1, SessionAssumption DEF SameOrder, BeforeCall, OwnCallIds, Requested
  <2>. QED  BY <2>2, <2>3, <2>4, OrderOthers
<1>9. CASE FlushReturned(id, i, r, m)
  <2>1. r.op = "put" /\ Popped(c, m, i) /\ flush[c] = "putting" /\ UNCHANGED summary
    BY <1>3, <1>9 DEF FlushReturned
  <2>. QED  BY <1>3, <1>4, <1>6, <1>7, <2>1, PoppedOrder
<1>10. CASE TurnsReturned(id, i, r, ok) \/ SummaryReturned(id, i, r)
  <2>1. /\ r.op # "put" /\ UNCHANGED meta /\ Requested(CallIdOf[c], i, {})
        /\ \A d \in Conns : d # c => summary'[d] = summary[d]
    BY <1>1, <1>3, <1>10 DEF TurnsReturned, SummaryReturned, TypeInv
  <2>2. InTurn(c)'
    <3>1. /\ i \in Nat /\ InTurn(c)
          /\ \A j \in 1..Len(requests[CallIdOf[c]]) :
               j # i => Finds(rows'[CallIdOf[c]], requests[CallIdOf[c]][j])
      BY <1>3, <1>4, <1>5
    <3>. QED  BY <1>1, <2>1, <3>1, InTurnRemoved
  <2>3. summary'[c] \in {"invoking", "updating"} =>
          rows'[id].flushed /\ rows'[id].status \notin {"ok", "failed"}
    <3>1. CASE TurnsReturned(id, i, r, ok)
      <4>1. /\ r.op = "turns" /\ flush[c] = "updating"
            /\ summary'[c] \in {"invoking", "updating"} => ok \/ summary[c] # "none"
        BY <1>1, <1>3, <3>1 DEF TurnsReturned, TypeInv
      <4>2. summary[c] = "none"
        BY <1>1, <4>1 DEF TasksInOrder, TypeInv
      <4>3. rows[id].status \notin {"ok", "failed"} /\ rows[id] \in Row
        BY <1>1, <1>4, <4>1 DEF Finds, TypeInv
      <4>4. ok => effective
        BY <1>2
      <4>5. effective => rows'[id] = [rows[id] EXCEPT !.flushed = TRUE, !.turns = r.turns]
        BY <1>4, <4>1
      <4>6. effective => rows'[id].flushed /\ rows'[id].status = rows[id].status
        BY <4>3, <4>5 DEF Row
      <4>. QED  BY <4>1, <4>2, <4>3, <4>4, <4>6
    <3>2. CASE SummaryReturned(id, i, r)
      BY <1>1, <1>3, <3>2 DEF SummaryReturned, TypeInv
    <3>. QED  BY <1>10, <3>1, <3>2
  <2>4. RowGrows(c)'
    BY <1>3, <1>5, <2>1, <2>3 DEF RowGrows, BeforeCall
  <2>5. \A d \in Conns : d # c => SameOrder(d)
    BY <1>3, <1>4, <2>1, SessionAssumption DEF SameOrder, BeforeCall, OwnCallIds, Requested
  <2>. QED  BY <2>2, <2>4, <2>5, OrderOthers
<1>. QED  BY <1>2, <1>8, <1>9, <1>10

LEMMA OrderInvariant == OwnCallIds /\ InOrder /\ Spec => [](OwnCallIds /\ InOrder /\ OrderInv)
<1>1. OwnCallIds /\ InOrder /\ Init => OwnCallIds /\ InOrder /\ OrderInv
  BY InitOrder
<1>2. IInv /\ RecordInv /\ OwnCallIds /\ InOrder /\ OrderInv /\ [Next]_vars
        => (OwnCallIds /\ InOrder /\ OrderInv)'
  <2>1. SUFFICES ASSUME IInv, RecordInv, OwnCallIds, InOrder, OrderInv, [Next]_vars PROVE OrderInv'
    BY DEF OwnCallIds
  <2>2. TypeInv
    BY <2>1 DEF IInv
  <2>3. CASE UNCHANGED vars
    <3>1. UNCHANGED <<rows, requests, summary, meta, pc>>
      BY <2>3 DEF vars, taskVars
    <3>. QED  BY <2>1, <3>1, OrderQuiet DEF BeforeCall
  <2>4. CASE Next
    <3>1. CASE \E c \in Conns : FinalTurn(c) \/ Tee(c) \/ Interruption(c)
                 \/ \E k \in Calls : (\E tool \in Tools : ToolStart(c, k, tool)) \/ ToolFinish(c, k)
      BY <2>1, <2>2, <3>1, TurnOrder, Zenon
    <3>2. CASE \E c \in Conns : GraceOver(c) \/ FlushStart(c) \/ Summarize(c)
      BY <2>1, <3>2, TaskOrder, Zenon
    <3>. QED  BY <2>1, <2>2, <2>4, <3>1, <3>2, Steps, EndpointOrder, ReturnOrder, MonitorOrder, CrashOrder,
                 Zenon
  <2>. QED  BY <2>1, <2>3, <2>4
<1>. QED  BY <1>1, <1>2, Invariant, RecordInvariant, PTL DEF Spec

\* Only a request that arrives changes the table.
LEMMA RowsStill ==
  ASSUME [Next]_vars, ~\E id \in CallIds : \E i \in DOMAIN requests[id] : Return(id, i)
  PROVE  UNCHANGED rows
<1>1. ASSUME NEW c \in Conns, SessionStep(c)
      PROVE  UNCHANGED rows
  BY <1>1
     DEF SessionStep, TwilioConnects, TwilioRefused, Connect, WebConnects, Begin, Attach, Run, BuildFails,
         PipelineEnds, Cleanup, FinalTurn, Tee, ToolStart, ToolFinish, Interruption, GraceOver, FlushStart,
         Summarize, historyVars
<1>2. CASE Crash
  BY <1>2 DEF Crash
<1>3. CASE \E m \in Monitors : (\E id \in CallIds : MonitorAttaches(m, id)) \/ MonitorLeaves(m)
  BY <1>3 DEF MonitorAttaches, MonitorLeaves, historyVars
<1>4. CASE UNCHANGED vars
  BY <1>4 DEF vars
<1>. QED  BY <1>1, <1>2, <1>3, <1>4 DEF Next

\* A row is the values of its attributes.
LEMMA SameRow ==
  ASSUME NEW x \in Row, NEW y \in Row,
         x.outcome = y.outcome, x.transfer = y.transfer, x.flushed = y.flushed,
         x.turns = y.turns, x.status = y.status
  PROVE  x = y
BY DEF Row

\* The request that arrives stores the outcome, the transcript or the summary, or it
\* puts the outcome row that is there once more.
LEMMA ReturnStores ==
  ASSUME OwnCallIds, InOrder, IInv, RecordInv, OrderInv, NEW id \in CallIds,
         NEW i \in DOMAIN requests[id], Return(id, i)
  PROVE  CallRecords!Next \/ UNCHANGED rows
<1>1. TypeInv /\ RequestsAreAwaited
  BY DEF IInv
<1>2. PICK c \in Conns, effective \in BOOLEAN :
        i \in 1..Len(requests[id]) /\ CallIdOf[c] = id /\ Arrives(id, i, effective)
  <2>1. PICK r \in RequestRecord, c \in Conns, ok \in BOOLEAN, effective \in BOOLEAN,
             m \in [CallIds -> Meta \cup {None}] :
          /\ i \in 1..Len(requests[id]) /\ r = requests[id][i] /\ c = r.conn /\ CallIdOf[c] = id
          /\ UNCHANGED <<pc, scope, recorded, ending, asked>>
          /\ m = IF ok THEN OutcomeWritten(id, r) ELSE meta
          /\ ok => effective
          /\ Arrives(id, i, effective)
          /\ failed' = IF ok THEN failed ELSE failed \cup {<<c, r.task>>}
          /\ \/ GraceReturned(id, i, r, m) \/ FlushReturned(id, i, r, m)
             \/ TurnsReturned(id, i, r, ok) \/ SummaryReturned(id, i, r)
    BY <1>1, ReturnParts, Zenon
  <2>. QED  BY <2>1
<1>3. i = 1 /\ 1 \in 1..Len(requests[id]) /\ Arrives(id, 1, effective)
  BY <1>2 DEF Arrives
<1> DEFINE r == requests[id][1]
           row == rows[id]
<1>4. /\ r \in Pending(c) /\ Finds(row, r)
      /\ \A d \in CallIds : d # id => rows'[d] = rows[d]
      /\ \/ rows'[id] = row /\ (effective => r.op = "put" /\ row = PutRow(r.transfer))
         \/ /\ effective /\ r.op = "put"
            /\ row = NoRow /\ rows'[id] = PutRow(r.transfer)
         \/ /\ effective /\ r.op = "turns"
            /\ rows'[id] = [row EXCEPT !.flushed = TRUE, !.turns = r.turns]
         \/ /\ effective /\ r.op = "summary"
            /\ rows'[id] = [row EXCEPT !.status = r.status]
  BY <1>2, <1>3, OldestArrives, Zenon
<1>5. r \in RequestRecord
  BY <1>4, PendingPhases
<1>6. /\ rows \in [CallIds -> Row] /\ row \in Row
      /\ rows' = [rows EXCEPT ![id] = rows'[id]]
  <2>1. rows' = [rows EXCEPT ![id] = ApplyTo(@, requests[id][i])] \/ rows' = rows
    BY <1>2 DEF Arrives
  <2>. QED  BY <1>1, <1>4, <2>1 DEF TypeInv
<1>. HIDE DEF r, row
<1>7. CASE rows'[id] = row
  BY <1>6, <1>7 DEF row
<1>8. CASE r.op = "put" /\ row = NoRow /\ rows'[id] = PutRow(r.transfer)
  <2>1. r.transfer \in BOOLEAN
    BY <1>5 DEF RequestRecord
  <2>2. ~row.outcome /\ ~row.flushed
    BY <1>8 DEF NoRow
  <2> DEFINE stored == [row EXCEPT !.outcome = TRUE, !.transfer = r.transfer, !.status = "pending"]
  <2>3. stored = PutRow(r.transfer)
    <3> DEFINE put == PutRow(r.transfer)
    <3>1. row.turns = <<>> /\ row.flushed = FALSE
      BY <1>8 DEF NoRow
    <3>2. /\ stored \in Row
          /\ stored.outcome = TRUE /\ stored.transfer = r.transfer /\ stored.flushed = FALSE
          /\ stored.turns = <<>> /\ stored.status = "pending"
      BY <1>6, <2>1, <3>1 DEF Row, Statuses
    <3>3. /\ put \in Row
          /\ put.outcome = TRUE /\ put.transfer = r.transfer /\ put.flushed = FALSE
          /\ put.turns = <<>> /\ put.status = "pending"
      BY <2>1, EmptySeq DEF PutRow, Row, Statuses
    <3>. HIDE DEF stored, put
    <3>4. stored = put
      BY <3>2, <3>3, SameRow
    <3>. QED  BY <3>4 DEF put
  <2>4. rows' = [rows EXCEPT ![id].outcome = TRUE, ![id].transfer = r.transfer, ![id].status = "pending"]
    BY <1>6, <1>8, <2>3 DEF row
  <2>5. CallRecords!StoreOutcome(id)
    BY <2>1, <2>2, <2>4 DEF CallRecords!StoreOutcome, row
  <2>. QED  BY <2>5 DEF CallRecords!Next
<1>9. CASE r.op = "turns" /\ rows'[id] = [row EXCEPT !.flushed = TRUE, !.turns = r.turns]
  <2>1. ~row.flushed
    BY <1>4, <1>9 DEF Finds
  <2>2. rows'[id].turns = r.turns
    BY <1>6, <1>9, RowAttributes
  <2>3. rows' = [rows EXCEPT ![id].flushed = TRUE, ![id].turns = rows'[id].turns]
    BY <1>6, <1>9, <2>2 DEF row
  <2>4. CallRecords!StoreTranscript(id)
    BY <2>1, <2>3 DEF CallRecords!StoreTranscript, row
  <2>. QED  BY <2>4 DEF CallRecords!Next
<1>10. CASE r.op = "summary" /\ rows'[id] = [row EXCEPT !.status = r.status]
  <2>1. row.flushed /\ row.status \notin {"ok", "failed"} /\ r.status \in {"ok", "failed"}
    BY <1>4, <1>10 DEF Finds
  <2>2. rows' = [rows EXCEPT ![id].status = r.status]
    BY <1>6, <1>10 DEF row
  <2>3. CallRecords!StoreSummary(id)
    BY <2>1, <2>2 DEF CallRecords!StoreSummary, row
  <2>. QED  BY <2>3 DEF CallRecords!Next
<1>. QED  BY <1>4, <1>7, <1>8, <1>9, <1>10

\* If the requests of a call reach the table in the order its tasks made them, the
\* table implements CallRecord: a record only grows, each of its parts is stored once,
\* and an outcome row that is written twice takes nothing away (bot.py:1305).
THEOREM TableIsACallRecord == OwnCallIds /\ InOrder /\ Spec => ImplementsCallRecord
<1>1. Init => CallRecords!Init
  BY DEF Init, HistoryInit, NoRow, CallRecords!Init, CallRecords!Empty
<1>2. IInv /\ RecordInv /\ OwnCallIds /\ InOrder /\ OrderInv /\ [Next]_vars => [CallRecords!Next]_rows
  BY RowsStill, ReturnStores
<1>. QED  BY <1>1, <1>2, Invariant, RecordInvariant, OrderInvariant, PTL
          DEF Spec, ImplementsCallRecord, CallRecords!Spec
=============================================================================
