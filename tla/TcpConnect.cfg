SPECIFICATION Spec
CONSTANT MaxCandidates = 3
INVARIANTS TypeOK HandlesInTurn FailedMeansExhausted
PROPERTIES NoAttemptAfterCompletion Completes ImplementsPromise
CHECK_DEADLOCK FALSE
