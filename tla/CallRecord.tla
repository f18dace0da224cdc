----------------------------- MODULE CallRecord -----------------------------
(***************************************************************************)
(* What the history of the phone calls promises to those who read the table*)
(* (the Connect Flow that resumes after the hangup, the callback queue, the*)
(* history page): a record only grows, and each part is stored once.       *)
(***************************************************************************)
CONSTANT CallIds

VARIABLE records

Empty == [outcome |-> FALSE, transfer |-> FALSE, flushed |-> FALSE,
          turns |-> <<>>, status |-> "none"]

Init == records = [id \in CallIds |-> Empty]

\* Whether a human was asked for is decided when the outcome is stored.
StoreOutcome(id) ==
  /\ ~records[id].outcome
  /\ ~records[id].flushed
  /\ \E transfer \in BOOLEAN :
       records' = [records EXCEPT ![id].outcome = TRUE, ![id].transfer = transfer,
                                  ![id].status = "pending"]

\* Any transcript.
StoreTranscript(id) ==
  /\ ~records[id].flushed
  /\ records' = [records EXCEPT ![id].flushed = TRUE, ![id].turns = records'[id].turns]

StoreSummary(id) ==
  /\ records[id].flushed
  /\ records[id].status \notin {"ok", "failed"}
  /\ \E status \in {"ok", "failed"} : records' = [records EXCEPT ![id].status = status]

Next == \E id \in CallIds : StoreOutcome(id) \/ StoreTranscript(id) \/ StoreSummary(id)

Spec == Init /\ [][Next]_records
=============================================================================
