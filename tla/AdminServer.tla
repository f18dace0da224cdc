----------------------------- MODULE AdminServer ----------------------------
(***************************************************************************)
(* The admin API of bot.py: concurrent requests to the accounts, the demos,*)
(* the voices, the configuration, the tool servers and the audit log, each *)
(* after a look at the accounts, and restarts of the process.              *)
(***************************************************************************)
EXTENDS UserStore, Catalogue, RuntimeConfig, McpRegistry, ActivityStore

CONSTANT
  Agendas      \* bound: the requests of one behaviour, and its restarts if it
               \* has any, are those of one agenda

ASSUME ServerAssumption ==
  \A a \in Agendas :
    /\ a.restarts \in BOOLEAN
    /\ None \notin a.jobs
    /\ \A j \in a.jobs : AccountJob(j) /\ CatalogueJob(j) /\ ConfigJob(j) /\ McpJob(j)

VARIABLE agenda

\* The documents that are kept in files.
documentVars == <<configVars, registryVars>>

vars == <<agenda, requestVars, userVars, catalogueVars, documentVars, activityVars>>

Init ==
  /\ agenda \in Agendas
  /\ RequestsInit
  /\ UsersInit
  /\ CatalogueInit
  /\ ConfigInit
  /\ RegistryInit
  /\ ActivityInit

\* A request arrives, when lifespan has got to its yield, and is served.  One
\* that is refused at once (by require_admin, or because there is nothing to
\* edit) changes nothing and is not modelled.
Start(r, j) ==
  /\ boot.phase = "up"
  /\ \/ UserStart(r, j) /\ UNCHANGED <<catalogueVars, documentVars, activityVars>>
     \/ /\ j.op # "setup"
        /\ Authorized(j.actor)
        /\ \/ CatalogueStart(r, j) /\ UNCHANGED <<userVars, documentVars, activityVars>>
           \/ /\ \/ UpdateConfig(r, j) /\ UNCHANGED registryVars
                 \/ McpStart(r, j) /\ UNCHANGED configVars
              /\ UNCHANGED <<userVars, catalogueVars, activityVars>>
           \/ StartQuery(r, j) /\ UNCHANGED <<userVars, catalogueVars, documentVars>>

Step(r) ==
  \/ UserStep(r) /\ UNCHANGED <<catalogueVars, documentVars, activityVars>>
  \/ CatalogueStep(r) /\ UNCHANGED <<userVars, documentVars, activityVars>>
  \/ (LogRow(r) \/ ReadDay(r) \/ QueryEnds(r)) /\ UNCHANGED <<userVars, catalogueVars, documentVars>>

\* systemd restarts the process: what was in memory is gone.
Restart ==
  /\ agenda.restarts
  /\ at' = [r \in Requests |-> IF at[r] = "new" THEN "new" ELSE "done"]
  /\ job' = [r \in Requests |-> None]
  /\ reading' = [r \in Requests |-> None]
  /\ CatalogueRestart
  /\ ConfigRestart
  /\ RegistryRestart
  /\ UNCHANGED <<userVars, log>>

Next ==
  /\ \/ \E r \in Requests, j \in agenda.jobs : Start(r, j)
     \/ \E r \in Requests : Step(r)
     \/ (BootScan \/ Seed) /\ UNCHANGED <<userVars, documentVars, activityVars>>
     \/ Restart
  /\ UNCHANGED agenda

Spec == Init /\ [][Next]_vars

TypeOK ==
  /\ RequestsTypeOK
  /\ UsersTypeOK
  /\ CatalogueTypeOK
  /\ ConfigTypeOK
  /\ RegistryTypeOK
  /\ ActivityTypeOK
=============================================================================
