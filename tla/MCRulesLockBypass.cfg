SPECIFICATION Spec
CONSTANTS
  None = None
  Configs <- DailyLimitWithTarget
  Fee = 0
  OpenBound = 2
  BalanceBound = 3
  MaxDay = 1
PROPERTIES LockedForTheDay
CHECK_DEADLOCK FALSE
