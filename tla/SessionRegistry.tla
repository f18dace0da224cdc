--------------------------- MODULE SessionRegistry --------------------------
(***************************************************************************)
(* ACTIVE_SESSIONS of bot.py: the phone sessions that monitors can attach  *)
(* to, by call_id.  Every operation takes _SESSIONS_LOCK and awaits nothing*)
(* while it holds it, so it is one step.                                   *)
(***************************************************************************)
EXTENDS PhoneIds

CONSTANT
  Monitors    \* the connections to /monitor/ws

VARIABLE
  sessions    \* ACTIVE_SESSIONS: None for a call_id that is not a key

Session == [conn : Conns, monitors : SUBSET Monitors]

ASSUME RegistryAssumption == None \notin Session

RegistryInit == sessions = [id \in CallIds |-> None]

RegistryTypeOK == sessions \in [CallIds -> Session \cup {None}]

\* session_register: an entry with the same key is replaced.
Register(id, c) ==
  sessions' = [sessions EXCEPT ![id] = [conn |-> c, monitors |-> {}]]

\* A mutant of Unregister: the key is left behind.
UnregisterKeepsKey(id) ==
  sessions' = IF sessions[id] = None THEN sessions
              ELSE [sessions EXCEPT ![id].conn = None]

\* A mutant of Unregister: the session is left behind while it is monitored.
UnregisterUnwatched(id) ==
  sessions' = IF sessions[id] # None /\ sessions[id].monitors # {} THEN sessions
              ELSE [sessions EXCEPT ![id] = None]

\* session_unregister pops by call_id, whichever connection registered it.
Unregister(id) == sessions' = [sessions EXCEPT ![id] = None]

\* session_attach_monitor, when it returns True.
AttachMonitor(id, m) ==
  /\ sessions[id] # None
  /\ sessions' = [sessions EXCEPT ![id].monitors = @ \cup {m}]

\* session_detach_monitor
DetachMonitor(id, m) ==
  sessions' = IF sessions[id] = None THEN sessions
              ELSE [sessions EXCEPT ![id].monitors = @ \ {m}]
=============================================================================
