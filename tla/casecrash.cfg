SPECIFICATION Spec
INVARIANTS InterruptedIsRecoverable
CHECK_DEADLOCK FALSE
CONSTANTS
  N = 1
  Batch = 32
  Names <- CaseNames
  OriginalName <- MCOriginalName
  TemporaryName <- MCTemporaryName
  FinalName <- CaseFinalName
  Foreign = Foreign
  Nothing = Nothing
  Faults = {"crash"}
