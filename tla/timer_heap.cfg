CONSTANTS
  Fd = {}
  SigFd = sigfd
  MaxTimers = 7
  MaxTime = 3
  MaxCalls = 1
  MaxSignals = 1
SPECIFICATION SevenSpec
INVARIANT NearestFirst
CHECK_DEADLOCK FALSE
