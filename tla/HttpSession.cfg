SPECIFICATION Spec
CONSTANTS
  MaxRequests = 3
  Setups <- MCSetups
  MaxPendingWrite = 2
  MaxBody = 1
  KeepAlive = TRUE
  Disciplined = TRUE
  MaxWrites = 1
  MaxPauses = 1
  MaxErrors = 1
  MaxDepth = 5
INVARIANTS TypeOK ResponsesInOrder SlotsSettled LimitHolds NoLostDrain
  IdleGuarded
CHECK_DEADLOCK FALSE
