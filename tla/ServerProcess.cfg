CONSTANTS
  Conns = {c1, c2, c3}
  Server = Server
  NoConn = NoConn
  Backlog = 2
  MaxProcs = 3
  Idle = {c1}
  Silent = {c2}
  Refused = {c3}
  MaxAddrs = 2
  MaxFds = 2
SPECIFICATION ProcessSpec
INVARIANTS NoForeignSockets ClientIdsDistinct AtMostOneLate TlsChildHasSsl
INVARIANTS StartTypeOK NoSocketLeak AcceptsOnBound
PROPERTIES EventuallyClosed EventuallyAccepted ListenDecides
CHECK_DEADLOCK FALSE
