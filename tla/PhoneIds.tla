------------------------------ MODULE PhoneIds ------------------------------
(***************************************************************************)
(* The names that the modules about the phone calls of bot.py share.       *)
(***************************************************************************)
CONSTANTS
  CallIds,   \* the call_id parameters of /phone/ws
  Conns,     \* the connections to /phone/ws
  None

ASSUME IdsAssumption == None \notin Conns /\ None \notin CallIds
=============================================================================
