CONSTANTS
  Kinds = {"text", "binary", "cont", "ping", "pong", "close", "badclose", "bad"}
  MaxFrames = 2
  MaxCalls = 3
  MaxInputs = 4
  MaxDepth = 3
  MaxMessage = 2
  MaxPending = 3
SPECIFICATION Spec
INVARIANTS OneClose MessagesWhole WritesAccounted BacklogBounded
CHECK_DEADLOCK FALSE
PROPERTY CloseCompletes
