CONSTANTS
  Contents <- MCContents
SPECIFICATION Spec
INVARIANTS TypeOK StoppedIsSilent LoggerFollowsFile WatcherAlive
  DisabledIsSilent FreedOnlyDuringCall
PROPERTY StopReturns
CHECK_DEADLOCK FALSE
