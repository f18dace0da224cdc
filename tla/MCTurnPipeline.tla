--------------------------- MODULE MCTurnPipeline ---------------------------
(***************************************************************************)
(* The instance of TurnPipeline that TLC checks: the timer tasks are       *)
(* interchangeable.                                                        *)
(***************************************************************************)
EXTENDS TurnPipeline, TLC

TimerSymmetry == Permutations(Timers)
=============================================================================
