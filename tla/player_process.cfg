CONSTANTS
  a = a
  cd = cd
  dat = dat
  Song = {a}
  None = None
  Format = {cd, dat}
  NoFormat = NoFormat
  OpusFormat = dat
  MaxOrders = 3
  MaxWire = 1
  MaxSignals = 2
SPECIFICATION ProcessFair
INVARIANTS OneBuffer RightFormat
PROPERTIES Refinement ShutdownEndsOrSpins OrdersAreTaken
CHECK_DEADLOCK FALSE
