CONSTANTS
  Lower <- MCLower
  MethodNames <- MCMethodNames
  Json <- MCJson
  JsonHuge <- MCJsonHuge
  Messages <- Reqs
  BufSize = 4
  MaxRecords = 3
  Limit = 16
  RespLen = 3
  SndBuf = 2
  RouterUp = {TRUE, FALSE}
  Handled <- MCHandled
SPECIFICATION Spec
INVARIANTS RecvExact BodyAsSent
PROPERTIES ImplementsExchange HangUpEnds ShortLastReadEnds
CHECK_DEADLOCK FALSE
