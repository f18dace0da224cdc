SPECIFICATION Spec
CONSTANTS
  c1 = c1
  c2 = c2
  i1 = i1
  i2 = i2
  None = None
  Conns = {c1}
  CallIds = {i1}
  CallIdOf <- OwnCallId
  Endpoints = {"/phone/ws", "/twilio/media-stream", "/ws"}
  Monitors = {m1, m2}
  Calls = {1, 2}
  MaxTurns = 2
  MayCrash = TRUE
  InOrder = FALSE
INVARIANTS
  TypeOK
  OneEndTask
  OutcomeBeforeEnd
  TransferKept
  RegistryIsExact
  EndingIsScheduled
  TranscriptIsComplete
CHECK_DEADLOCK FALSE
