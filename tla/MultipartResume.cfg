\* One field, and a callback that pauses and resumes its part.
CONSTANTS
  Forms <- MCForms
  Tails <- MCTails
  MaxParts = 2
  MaxPartHeader = 2
  MaxField = 4
  MaxFile = 2
  MaxTotal = 17
  MaxMemory = 3
  MaxText = 2
  MaxPauses = 1
  NestedResume = TRUE
SPECIFICATION Spec
INVARIANT PartsExact
CHECK_DEADLOCK FALSE
