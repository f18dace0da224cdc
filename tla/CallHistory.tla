----------------------------- MODULE CallHistory ----------------------------
(***************************************************************************)
(* HistoryRecorder of bot.py and the DynamoDB table it writes.             *)
(*                                                                         *)
(* A DynamoDB call runs in a worker thread (asyncio.to_thread): it is a    *)
(* request from the moment the coroutine awaits it until it returns, and   *)
(* requests of different tasks can reach the table in any order.           *)
(***************************************************************************)
EXTENDS PhoneIds, Naturals, Sequences, SequencesExt

CONSTANT
  InOrder     \* TRUE: requests reach the table in the order they were made

VARIABLES
  buffers,    \* HISTORY_BUFFERS: None for a call_id that is not a key
  meta,       \* _meta; `conn' tells one dict from another with the same key
  rows,       \* the table
  requests    \* per call_id, the requests under way, oldest first

historyVars == <<buffers, meta, rows, requests>>

\* A turn has its number; an event that append_event records has number 0.
Entry == [conn : Conns, turn : Nat]
Meta == [conn : Conns, transfer : BOOLEAN, written : BOOLEAN]
Statuses == {"none", "pending", "ok", "failed"}

ASSUME HistoryAssumption == None \notin Seq(Entry) /\ None \notin Meta

NoRow == [outcome |-> FALSE, transfer |-> FALSE, flushed |-> FALSE,
          turns |-> <<>>, status |-> "none"]

HistoryInit ==
  /\ buffers = [id \in CallIds |-> None]
  /\ meta = [id \in CallIds |-> None]
  /\ rows = [id \in CallIds |-> NoRow]
  /\ requests = [id \in CallIds |-> <<>>]

HistoryTypeOK ==
  /\ \A id \in CallIds :
       /\ buffers[id] = None \/ \A i \in DOMAIN buffers[id] : buffers[id][i] \in Entry
       /\ \A i \in DOMAIN rows[id].turns : rows[id].turns[i] \in Entry
       /\ \A i \in DOMAIN requests[id] : requests[id][i].conn \in Conns
  /\ meta \in [CallIds -> Meta \cup {None}]
  /\ \A id \in CallIds :
       /\ rows[id].outcome \in BOOLEAN /\ rows[id].transfer \in BOOLEAN
       /\ rows[id].flushed \in BOOLEAN /\ rows[id].status \in Statuses

Buffered(id) == IF buffers[id] = None THEN <<>> ELSE buffers[id]

\* attach
Attach(id, c) ==
  /\ buffers' = [buffers EXCEPT ![id] = Buffered(id)]
  /\ meta' = [meta EXCEPT ![id] = [conn |-> c, transfer |-> FALSE, written |-> FALSE]]
  /\ UNCHANGED <<rows, requests>>

\* A mutant of AppendEntry: setdefault(call_id, [turn]).
AppendEntryFirst(id, c, turn) ==
  buffers' = [buffers EXCEPT ![id] = IF @ = None THEN <<[conn |-> c, turn |-> turn]>> ELSE @]

\* append and append_event (setdefault: the key may be new).
AppendEntry(id, c, turn) ==
  buffers' = [buffers EXCEPT ![id] = Append(Buffered(id), [conn |-> c, turn |-> turn])]

\* mark_transfer
MarkTransfer(id) ==
  meta' = IF meta[id] = None THEN meta ELSE [meta EXCEPT ![id].transfer = TRUE]

\* The two early returns of write_outcome_row.
OutcomeIsWritten(id) == meta[id] = None \/ meta[id].written

Request(op, c, task, owner, transfer, turns, status) ==
  [op |-> op, conn |-> c, task |-> task, owner |-> owner,
   transfer |-> transfer, turns |-> turns, status |-> status]

Send(id, r) == requests' = [requests EXCEPT ![id] = Append(@, r)]

\* The put_item of write_outcome_row, on behalf of a task of connection c.
PutOutcome(id, c, task) ==
  Send(id, Request("put", c, task, meta[id].conn, meta[id].transfer, <<>>, "pending"))

\* write_outcome_row after put_item returned: the dict it holds is marked,
\* also if it is no longer the one in _meta.
OutcomeWritten(id, r) ==
  IF meta[id] # None /\ meta[id].conn = r.owner
    THEN [meta EXCEPT ![id].written = TRUE] ELSE meta

\* A mutant of ApplyTo: the turns are put as an item of their own.
ApplyToPutsTurns(row, r) ==
  IF r.op = "turns" THEN [NoRow EXCEPT !.flushed = TRUE, !.turns = r.turns]
  ELSE IF r.op = "put" THEN [NoRow EXCEPT !.outcome = TRUE, !.transfer = r.transfer,
                                          !.status = "pending"]
  ELSE [row EXCEPT !.status = r.status]

\* What a request does to its item: put_item replaces it, update_item sets
\* some attributes (and creates the item if there is none).
ApplyTo(row, r) ==
  CASE r.op = "put"     -> [outcome |-> TRUE, transfer |-> r.transfer, flushed |-> FALSE,
                            turns |-> <<>>, status |-> "pending"]
    [] r.op = "turns"   -> [row EXCEPT !.flushed = TRUE, !.turns = r.turns]
    [] r.op = "summary" -> [row EXCEPT !.status = r.status]

\* The request at position i is over: it took effect or not.
Arrives(id, i, effective) ==
  /\ InOrder => i = 1
  /\ rows' = IF effective THEN [rows EXCEPT ![id] = ApplyTo(@, requests[id][i])] ELSE rows

Others(id, i) == RemoveAt(requests[id], i)
=============================================================================
