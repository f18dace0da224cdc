SPECIFICATION FairSpec
CONSTANTS
  IdleTimeout = 2
  Margin = 1
  NudgeMax = 2
  Tasks = {r1, r2}
  Utterances = {1, 3}
  MaxOut = 2
  MaxReady = 2
  MaxLeft = 4
  MaxLag = 1
  LlmMayStaySilent = FALSE
PROPERTIES
  SilenceIsBroken
