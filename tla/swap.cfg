SPECIFICATION Spec
INVARIANTS IInv JournalExplainsNames ReportedOutcomeIsTrue
PROPERTIES ForeignEntriesUntouched RenameOnlyUnderDurableIntent TornJournalStopsRenames DurableVerdictStands AtomicToAnObserver
CONSTANTS
  N = 3
  Batch = 4
  Names <- ShiftNames
  OriginalName <- MCOriginalName
  TemporaryName <- MCTemporaryName
  FinalName <- SwapAndMoveFinalName
  Foreign = Foreign
  Nothing = Nothing
  Faults = {"crash", "powerLoss", "tear", "writeFail", "syncFail", "renameFail", "ambiguous", "foreign"}
