SPECIFICATION Spec
INVARIANT JournalReplays
CONSTANTS
  N = 2
  Batch = 32
  Names <- SwapNames
  OriginalName <- MCOriginalName
  TemporaryName <- MCTemporaryName
  FinalName <- SwapFinalName
  Foreign = Foreign
  Nothing = Nothing
  Faults = {"crash", "renameFail", "foreign", "tamper"}
