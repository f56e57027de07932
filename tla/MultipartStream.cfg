\* Four tokens for a field, two for a file or as text, two parts, two pauses.
CONSTANTS
  Forms <- MCForms
  Tails <- MCTails
  MaxParts = 2
  MaxPartHeader = 2
  MaxField = 4
  MaxFile = 2
  MaxTotal = 17
  MaxMemory = 3
  MaxText = 2
  MaxPauses = 2
  NestedResume = FALSE
SPECIFICATION Spec
INVARIANT PartsExact
INVARIANT AgreesWithForm
PROPERTY ResumeCompletes
\* The body ends, and nothing follows.
CHECK_DEADLOCK FALSE
