\* Four registrations or mounts, two of them hooks or handlers.
CONSTANTS
  Methods = {"get", "post"}
  Routes <- MCRoutes
  Groups <- MCGroups
  Paths <- MCPaths
  Decode <- MCDecode
  Matching = "decoded"
  MaxOps = 4
  MaxMarks = 2
SPECIFICATION Spec
INVARIANT MatchIsMostSpecific
INVARIANT FallbackInScope
CHECK_DEADLOCK FALSE
