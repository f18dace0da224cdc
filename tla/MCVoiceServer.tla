---------------------------- MODULE MCVoiceServer ----------------------------
(***************************************************************************)
(* Small instances of VoiceServer for TLC.                                 *)
(***************************************************************************)
EXTENDS VoiceServer, TLC

CONSTANTS id1, id2, c1, c2, c3

\* The call objects are interchangeable, and so are the Call-IDs.
Symmetry == Permutations(CallIds) \cup Permutations(Calls)
=============================================================================
