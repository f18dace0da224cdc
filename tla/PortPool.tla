------------------------------ MODULE PortPool ------------------------------
(***************************************************************************)
(* The RTP port pool of voice-server (voice-server/src/sip/port-pool.ts).  *)
(*                                                                         *)
(* `available' is a JavaScript Set, which iterates in insertion order, so  *)
(* the pool hands out the port that has been free for the longest time:    *)
(* it is modelled as a sequence.  `inUse' is only asked for membership and *)
(* is a set.                                                               *)
(***************************************************************************)
EXTENDS Naturals, Sequences

CONSTANTS
  RtpPortBase,    \* RTP_PORT_BASE
  RtpPortCount    \* RTP_PORT_COUNT: the width of the range, odd ports included

ASSUME PortRangeAssumption == RtpPortBase \in Nat /\ RtpPortCount \in Nat

VARIABLES
  available,      \* the free ports, in the order they will be handed out
  inUse           \* the ports handed out and not yet released

poolVars == <<available, inUse>>

NumPorts == (RtpPortCount + 1) \div 2

\* Every second port of the range: RTP takes the even ones, RTCP the odd ones.
PortAt(i) == RtpPortBase + 2 * (i - 1)
Ports == {PortAt(i) : i \in 1..NumPorts}

Elems(s) == {s[i] : i \in 1..Len(s)}
Distinct(s) == \A i, j \in 1..Len(s) : s[i] = s[j] => i = j

PoolInit ==
  /\ available = [i \in 1..NumPorts |-> PortAt(i)]
  /\ inUse = {}

\* allocate() returned p.
Allocate(p) ==
  /\ available # <<>>
  /\ p = Head(available)
  /\ available' = Tail(available)
  /\ inUse' = inUse \cup {p}

\* allocate() returned undefined.
Exhausted == available = <<>>

\* release(p): a port the pool did not hand out is ignored.
Release(p) ==
  IF p \in inUse
    THEN /\ inUse' = inUse \ {p}
         /\ available' = Append(available, p)
    ELSE UNCHANGED poolVars

\* allocate() and release() of the same port within one handler.
AllocateAndRelease ==
  /\ available # <<>>
  /\ available' = Append(Tail(available), Head(available))
  /\ UNCHANGED inUse

PoolTypeOK ==
  /\ available \in Seq(Ports)
  /\ inUse \subseteq Ports

\* Every port of the range is either free, once, or handed out: the pool
\* neither loses a port nor holds it twice, whatever its callers do.
PoolPartition ==
  /\ Distinct(available)
  /\ Elems(available) \cap inUse = {}
  /\ Elems(available) \cup inUse = Ports
=============================================================================
