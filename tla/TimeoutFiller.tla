--------------------------- MODULE TimeoutFiller ----------------------------
(***************************************************************************)
(* TimeoutFillerObserver (timeout_filler.py): when the user stops          *)
(* speaking, a timer task is started that may inject one filler phrase;    *)
(* the first sign of the reply, or of the user speaking again, cancels it. *)
(* A cancelled task still has its `finally' to run, in a later turn of the *)
(* event loop.  The module is composed by TurnPipeline.                    *)
(***************************************************************************)
EXTENDS Naturals

CONSTANTS
  Timers,  \* identities of timer tasks
  NoTimer  \* None

ASSUME TimersAssumption == NoTimer \notin Timers

VARIABLES
  timer,   \* of each task: "off" (not created, or done), "sleeping" or
           \* "cancelled" (its finally has still to run)
  pending  \* _pending: a task, or NoTimer

fillerVars == <<timer, pending>>

FillerInit ==
  /\ timer = [t \in Timers |-> "off"]
  /\ pending = NoTimer

FillerTypeOK ==
  /\ timer \in [Timers -> {"off", "sleeping", "cancelled"}]
  /\ pending \in Timers \union {NoTimer}

\* task.cancel() on the pending task, if it is not done.
Cancelled ==
  [t \in Timers |-> IF t = pending /\ timer[t] = "sleeping" THEN "cancelled" ELSE timer[t]]

\* _cancel()
Cancel ==
  /\ timer' = Cancelled
  /\ pending' = NoTimer

\* _arm(): asyncio.create_task(_fire()) after a _cancel().
Arm ==
  \E t \in Timers :
    /\ timer[t] = "off"
    /\ timer' = [Cancelled EXCEPT ![t] = "sleeping"]
    /\ pending' = t

\* A mutant of Finally: no look at whose reference it is.
FinallyAlways(t) ==
  /\ timer' = [timer EXCEPT ![t] = "off"]
  /\ pending' = NoTimer

\* The finally of _fire(): the reference is dropped only if it is this task's.
Finally(t) ==
  /\ timer' = [timer EXCEPT ![t] = "off"]
  /\ pending' = IF pending = t THEN NoTimer ELSE pending

\* _fire() resumes with a CancelledError.
CancelledTaskEnds(t) ==
  /\ timer[t] = "cancelled"
  /\ Finally(t)

\* _fire() resumes after its sleep.
TimerFires(t) ==
  /\ timer[t] = "sleeping"
  /\ Finally(t)

\* Every timer that may still fire is the one that the next cancel frame
\* reaches, although older tasks end in their own time.
NoStrayTimer == \A t \in Timers : timer[t] = "sleeping" => pending = t
=============================================================================
