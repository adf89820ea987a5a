SPECIFICATION Spec
INVARIANTS InterruptedIsRecoverable
CHECK_DEADLOCK FALSE
CONSTANTS
  N = 2
  Batch = 32
  Names <- ShiftNames
  OriginalName <- MCOriginalName
  TemporaryName <- MCTemporaryName
  FinalName <- ShiftFinalName
  Foreign = Foreign
  Nothing = Nothing
  Faults = {"powerLoss"}
