SPECIFICATION Spec
CONSTANTS
  None = None
  Configs <- DailyLimitTerms
  Fee = 0
  OpenBound = 2
  BalanceBound = 2
  MaxDay = 2
PROPERTIES LockoutEnds
CHECK_DEADLOCK FALSE
