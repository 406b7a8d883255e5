CONSTANTS
  Fd = {f1, f2}
  SigFd = sigfd
  MaxTimers = 3
  MaxTime = 1
  MaxCalls = 1
  MaxSignals = 1
SPECIFICATION EvFair
INVARIANT FewAreInOrder
PROPERTIES TimersAreKept NoStaleEvent AllServed SignalsServed
CHECK_DEADLOCK FALSE
