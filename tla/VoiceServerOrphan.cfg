SPECIFICATION Spec
CONSTANTS
  id1 = id1
  id2 = id2
  c1 = c1
  c2 = c2
  c3 = c3
  CallIds = {id1, id2}
  Calls = {c1, c2, c3}
  NoCall = NoCall
  RtpPortBase = 10
  RtpPortCount = 4
  BindInNextTick = TRUE
INVARIANTS
  EndedCallHasNoOpenSocket
