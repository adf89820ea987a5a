SPECIFICATION PersistentUserSpec
INVARIANT InterruptedIsRecoverable
PROPERTIES EveryCallReturns TransactionEnds
CHECK_DEADLOCK FALSE
CONSTANTS
  N = 3
  Batch = 2
  Names <- ShiftNames
  OriginalName <- MCOriginalName
  TemporaryName <- MCTemporaryName
  FinalName <- ShiftFinalName
  Foreign = Foreign
  Nothing = Nothing
  Faults = {"crash", "powerLoss", "tear", "writeFail", "syncFail", "renameFail", "ambiguous"}
