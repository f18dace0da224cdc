---------------------------- MODULE AdminRequests ---------------------------
(***************************************************************************)
(* The requests that the admin API of bot.py serves, as the modules about  *)
(* its stores see them.  A handler is a coroutine: a step is what it does  *)
(* between two awaits.  An await of a store is a call to DynamoDB in a     *)
(* worker thread, which takes effect at some moment in between.            *)
(***************************************************************************)
CONSTANTS
  Requests,  \* the requests
  None,
  Initial    \* the author of what was there before the first request

ASSUME RequestsAssumption == None \notin Requests /\ Initial \notin Requests

VARIABLES
  job,       \* what a request that is being served asks for: an op, its parameters
  at         \* where its handler is suspended

requestVars == <<job, at>>

\* A handler suspended at one of these is about to write to DynamoDB.
Writes == {"put", "update", "delete", "store", "drop"}
Places == {"new", "create", "check", "confirm", "scan", "read", "log", "done"} \cup Writes

RequestsInit ==
  /\ job = [r \in Requests |-> None]
  /\ at = [r \in Requests |-> "new"]

RequestsTypeOK ==
  /\ at \in [Requests -> Places]
  /\ \A r \in Requests : job[r] = None <=> at[r] \in {"new", "done"}

\* The handler of r, which serves j, comes to its first await.
Serve(r, j, place) ==
  /\ at[r] = "new"
  /\ job' = [job EXCEPT ![r] = j]
  /\ at' = [at EXCEPT ![r] = place]

Goto(r, place) == at' = [at EXCEPT ![r] = place] /\ UNCHANGED job

\* A mutant of Finish: the handler hangs where it is.
FinishStuck(r) == job' = [job EXCEPT ![r] = None] /\ UNCHANGED at

\* It answers, or raises.
Finish(r) ==
  /\ job' = [job EXCEPT ![r] = None]
  /\ at' = [at EXCEPT ![r] = "done"]

\* It logs what it did before it answers.
Succeed(r) == Goto(r, "log")

\* r is the request that takes this step.
Steps(r) == at'[r] # at[r] \/ job'[r] # job[r]
=============================================================================
