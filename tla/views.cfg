CONSTANTS
  a = a
  b = b
  Song = {a, b}
  None = None
  Queue <- MCQueue
  Playback <- MCPlayback
  Mode <- MCMode
  Position = {0, 1}
  MaxChanges = 2
  MaxRequests = 1
SPECIFICATION ViewsSpec
INVARIANTS WebCopyIsRecent PageIsCopy MprisStatusIsRecent
CHECK_DEADLOCK FALSE
