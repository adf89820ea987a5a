SPECIFICATION FairSpec
CONSTANTS
  first = first
  second = second
  none = none
  edited = edited
  broken = broken
  x = x
  None = None
  NoRules = none
  Rules = {none, edited, broken}
  Broken = {broken}
  Sources = {x}
  Entries = {first}
  MaxInputs = 7
INVARIANTS OfferedPlanIsUpToDate ConfirmedPlanIsShown
PROPERTIES EditsArePreviewed QueuedSelectionsAreTaken
CHECK_DEADLOCK FALSE
