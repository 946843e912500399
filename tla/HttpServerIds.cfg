CONSTANTS
  Conns = {c1, c2, c3}
  Server = Server
  NoConn = NoConn
  Backlog = 2
  MaxProcs = 3
  Idle = {}
SPECIFICATION Spec
INVARIANT ResponseIdsDistinct
CHECK_DEADLOCK FALSE
