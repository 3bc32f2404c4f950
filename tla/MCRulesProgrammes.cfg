SPECIFICATION Spec
CONSTANTS
  None = None
  Configs <- AllTerms
  Fee = 0
  OpenBound = 2
  BalanceBound = 2
  MaxDay = 2
INVARIANTS StatementsAddUp PassedIsEarned
PROPERTIES FloorNeverLowers SurvivorsHaveRoom LockoutLiftedOnlyAtTarget LockoutEndsWithItsDay
CHECK_DEADLOCK FALSE
