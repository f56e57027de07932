SPECIFICATION Spec
CONSTANTS
  MaxRequests = 2
  Setups <- PlainPair
  MaxPendingWrite = 2
  MaxBody = 1
  KeepAlive = TRUE
  Disciplined = TRUE
  MaxWrites = 1
  MaxPauses = 1
  MaxErrors = 1
  MaxDepth = 4
INVARIANT
  NoStaleSlot
CHECK_DEADLOCK FALSE
