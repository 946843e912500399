CONSTANTS
  Lower <- MCLower
  MethodNames <- MCMethodNames
  Json <- MCJson
  JsonHuge <- MCJsonHuge
  Messages <- Reqs
  BufSize = 4
  Limit = 16
  RespLen = 3
  SndBuf = 2
  RouterUp = {TRUE, FALSE}
  Handled <- MCHandled
  Stack <- AnyStack
  Beyond <- AnyBeyond
SPECIFICATION Spec
INVARIANTS WaitsOnlyAtFullBuffer LimitRespected
PROPERTIES ImplementsExchange HangUpEnds ShortLastReadEnds
CHECK_DEADLOCK FALSE
