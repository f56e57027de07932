SPECIFICATION Spec
CONSTANTS
  MaxRecords = 2
  MaxWrites = 2
  MaxWriteSize = 2
  MaxPendingWrite = 2
  MaxPendingRead = 1
  MaxDepth = 4
  MaxCalls = 3
  MaxFlights = 1
INVARIANTS TypeOK ReadsInOrder CallbacksOnce NothingStranded CloseFlushes
PROPERTY CloseCompletes
CHECK_DEADLOCK FALSE
