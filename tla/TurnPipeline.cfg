SPECIFICATION Spec
CONSTANTS
  Timers = {t1, t2}
  NoTimer = NoTimer
  MaxTurns = 2
  MaxRuns = 2
  MaxText = 1
  MaxFillers = 1
  MaxSeen = 2
SYMMETRY TimerSymmetry
CHECK_DEADLOCK FALSE
INVARIANTS
  NoStrayTimer
  FillerKeepsOffReplies
  TranscriptHasEveryReply
