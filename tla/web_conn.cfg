CONSTANTS
  c1 = c1
  c2 = c2
  Conn = {c1, c2}
  Requests <- Together
  Page <- HomePage
  BufCap = 2
  SendBuffer = 1
  MaxEvents = 1
SPECIFICATION WebConnFair
INVARIANTS WellFramed CommandOnce
PROPERTY Answered
CHECK_DEADLOCK FALSE
