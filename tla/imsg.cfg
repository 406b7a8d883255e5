CONSTANTS
  Kind <- MCKind
  Body <- MCBody
  Passes <- MCPasses
  Header = 2
  MaxSize = 6
  Capacity = 5
  IovMax = 2
  MaxSent = 4
SPECIFICATION ImsgFair
INVARIANT ImsgTypeOK
PROPERTIES IsMessageQueue AllArrive
CHECK_DEADLOCK FALSE
