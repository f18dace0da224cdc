--------------------------- MODULE MCPhoneSession ---------------------------
(***************************************************************************)
(* PhoneSession with connections of different calls, or with two that give *)
(* the same call_id.                                                       *)
(***************************************************************************)
EXTENDS PhoneSession, TLC

CONSTANTS c1, c2, i1, i2

OwnCallId == [c \in Conns |-> IF c = c1 THEN i1 ELSE i2]
SharedCallId == [c \in Conns |-> i1]

\* For SharedCallId only: there the connections are interchangeable.
ConnSymmetry == Permutations(Conns)
=============================================================================
