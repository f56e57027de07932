SPECIFICATION Spec
CONSTANTS
  Conns = {c1, c2, c3}
  MaxPending = 2
INVARIANTS EntriesExact ReportedOnce
PROPERTY TimedHandshakesEnd
CHECK_DEADLOCK FALSE
