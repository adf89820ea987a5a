\* replay_journal over every sequence of records of a three-source plan.
SPECIFICATION Spec
CONSTANTS
  N = 3
INVARIANTS StepsAreAPrefix RecordedLocationsMatchReplay
PROPERTIES ReplayIsCompact
CHECK_DEADLOCK FALSE
