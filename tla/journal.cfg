SPECIFICATION Spec
CONSTANTS
  first = first
  second = second
  N = 1
  Processes = {first, second}
  Nobody = Nobody
  Records <- MCRecords
  EarlierFiles <- MCEarlierFiles
  MaxSequence = 6
  MaxFileCells = 20
  MaxDisturbances = 1
SYMMETRY AnyProcess
INVARIANT WritersKnowTheirFile
PROPERTIES ReconciledAsSeen IsADurableLog
CHECK_DEADLOCK FALSE
