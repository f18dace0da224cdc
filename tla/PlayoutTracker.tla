--------------------------- MODULE PlayoutTracker ---------------------------
(***************************************************************************)
(* BotPlayoutTracker of bot.py: the server's estimate of when the audio of *)
(* the bot's turn has been heard.  The code keeps the start time of the    *)
(* turn and the bytes sent since; what it is asked for is their difference *)
(* to the present, so that difference is the state here: `left' is         *)
(* remaining(), in ticks, negative once the audio is over.                 *)
(***************************************************************************)
EXTENDS Integers

CONSTANTS
  MaxLeft,  \* bound: most audio ahead of the listener
  MaxLag    \* bound: how long an over-run estimate is distinguished

ASSUME PlayoutAssumption == MaxLeft \in Nat /\ MaxLag \in Nat

VARIABLES
  left,       \* tts_started_at + bot_audio_secs - now
  turnActive  \* _turn_active

playoutVars == <<left, turnActive>>

PlayoutInit ==
  /\ left = 0
  /\ turnActive = FALSE

PlayoutTypeOK ==
  /\ left \in -MaxLag..MaxLeft
  /\ turnActive \in BOOLEAN

\* What is already counted in this turn; the first frame of a turn starts over.
Counted == IF turnActive THEN left ELSE 0

AddAudio(n) ==
  /\ Counted + n <= MaxLeft
  /\ left' = Counted + n
  /\ turnActive' = TRUE

OnBotTurnStart ==
  /\ left' = Counted
  /\ turnActive' = TRUE

OnBotTurnEnd ==
  /\ turnActive' = FALSE
  /\ UNCHANGED left

\* One tick of time.monotonic().
Elapse ==
  /\ left' = IF left > -MaxLag THEN left - 1 ELSE left
  /\ UNCHANGED turnActive
=============================================================================
