SPECIFICATION Spec
CONSTANTS
  x = x
  y = y
  d = d
  Foreign = Foreign
  None = None
  Objects = {x, y, d}
  Directories = {d}
  Alphabet <- MCAlphabet
  Lower <- MCLower
  Upper <- MCUpper
  Class <- MCClass
  Width <- MCWidth
  IllegalCharacters <- Illegal
  ReservedStems <- Devices
  MaxRules = 2
  MaxRuleText = 2
  MaxOutput = 6
  MaxPadding = 2
  MaxNameUnits = 5
  Trees <- MCTrees
  Requests <- MCRequests
  StrangerNames <- MCStrangerNames
  TemporaryNames <- MCTemporaryNames
  MaxSourceId = 6
  MaxNumber = 15
  MaxSources = 3
  MaxTrace = 8
  MaxGeneration = 2
  MaxMoves = 1
INVARIANTS FrozenNamesAreSafe GenerationNamesTheRegistry SequenceNumbersGrow AncestorsAreFound TraceExplainsTheProposal RulesKeepTheirPromises
CHECK_DEADLOCK FALSE
