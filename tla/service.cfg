SPECIFICATION Spec
CONSTANTS
  browsing = browsing
  mutating1 = mutating1
  mutating2 = mutating2
  window = window
  Nobody = Nobody
  Initializer = browsing
  Planners <- TwoMutators
  Browsers <- OneBrowser
  Mutators <- TwoMutators
  Cancellers <- Window
  EarlierIds = {1, 3}
  MaxPlanId = 3
  MaxAuthorization = 2
  MaxGeneration = 1
  MaxSession = 2
SYMMETRY AnyMutator
INVARIANTS TypeOK JournalIdsAreUnique SessionIsItsRunners NeverCancelledUnasked AuthorizationIsSpent SomeCallCanGoOn
PROPERTY LatestPreviewWins
