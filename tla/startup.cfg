CONSTANTS
  x = x
  y = y
  front = front
  Client <- AllClients
  Foreground <- OnlyFront
  None = None
  MaxAttempts = 2
  MaxFaults = 2
SPECIFICATION FairSpec
INVARIANT OneDaemon
PROPERTY OnlyDaemonBlocks
CHECK_DEADLOCK FALSE
