CONSTANTS
  a = a
  b = b
  Song <- TwoSongs
  None = None
  Openable <- TwoSongs
  Unopenable = {b}
  Modes <- AllModes
  Loads <- TwoLoads
  Positions <- NoPosition
  MaxLen = 2
  MaxPipe = 1
SPECIFICATION Spec
INVARIANT StopLasts
