CONSTANTS
  Server = Server
  Children = {c1, c2}
  Codes <- MCCodes
  Levels <- MCLevels
  Cap = 4
  MaxLines = 3
  MaxLoggers = 2
SYMMETRY Symmetry
SPECIFICATION Spec
INVARIANTS ImportantIsDurable LossIsASuffix OrderKept CopiesComeFromFork WholeLines CopyKeepsSinksOpen
CHECK_DEADLOCK FALSE
