CONSTANTS
  a = a
  b = b
  Song <- TwoSongs
  None = None
  Openable <- TwoSongs
  Unopenable = {b}
  Modes <- OneMode
  Loads <- TwoLoads
  Positions <- AnyPosition
  MaxLen = 2
  MaxPipe = 1
SPECIFICATION FairSpec
INVARIANTS OffInRange LoopMatches
PROPERTIES PlayingIsPlayed LoopEnds
