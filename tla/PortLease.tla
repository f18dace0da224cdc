------------------------------ MODULE PortLease ------------------------------
(***************************************************************************)
(* What the SIP server promises about RTP ports, without saying how: a     *)
(* port has at most one holder, a call takes at most one port in its life, *)
(* and a returned port may be granted again.                               *)
(***************************************************************************)
CONSTANTS
  Calls,    \* the calls that may need a port
  Ports,    \* the ports of the pool
  NoCall    \* not a call

VARIABLES
  holder,   \* holder[p]: the call that may use port p, or NoCall
  served    \* the calls that were granted a port

leaseVars == <<holder, served>>

Init ==
  /\ holder = [p \in Ports |-> NoCall]
  /\ served = {}

Grant(c, p) ==
  /\ c \notin served
  /\ holder[p] = NoCall
  /\ holder' = [holder EXCEPT ![p] = c]
  /\ served' = served \cup {c}

Return(p) ==
  /\ holder[p] # NoCall
  /\ holder' = [holder EXCEPT ![p] = NoCall]
  /\ UNCHANGED served

\* The server process exits: every port is free again.
ReturnAll ==
  /\ holder' = [p \in Ports |-> NoCall]
  /\ UNCHANGED served

Next ==
  \/ \E c \in Calls, p \in Ports : Grant(c, p)
  \/ \E p \in Ports : Return(p)
  \/ ReturnAll

Spec == Init /\ [][Next]_leaseVars
=============================================================================
