SPECIFICATION Spec
CONSTANTS
  x = x
  y = y
  a = a
  b = b
  c = c
  None = None
  Objects <- TwoObjects
  Names <- ThreeNames
  MaxPlanId = 3
  MaxJournals = 2
  MaxBytes = 3
  MaxMoves = 1
SYMMETRY AnyNameAndObject
INVARIANTS UndoneAtMostOnce PlanIdsAreFresh LastTransactionIsUndoable
PROPERTIES LedgerIdsKeepTheirMeaning UndoBeginsFromItsNames
