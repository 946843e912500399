CONSTANTS
  Lower <- MCLower
  MethodNames <- MCMethodNames
  Json <- MCJson
  JsonHuge <- MCJsonHuge
  Messages <- OneReq
  BufSize = 4
  MaxRecords = 3
  Limit = 16
  RespLen = 3
  SndBuf = 2
  RouterUp = {TRUE, FALSE}
  Handled <- MCHandled
SPECIFICATION Spec
INVARIANT HandlerSeesWholeRequest
CHECK_DEADLOCK FALSE
