CONSTANTS
  Lower <- MCLower
  MethodNames <- MCMethodNames
  Json <- MCJson
  JsonHuge <- MCJsonHuge
  Messages <- LongReqs
  BufSize = 4
  Limit = 16
  RespLen = 3
  SndBuf = 2
  RouterUp = {TRUE, FALSE}
  Handled <- MCHandled
  Stack <- ZeroStack
  Beyond <- NothingBeyond
SPECIFICATION Spec
INVARIANT RefusedOnlyAboveLimit
CHECK_DEADLOCK FALSE
