SPECIFICATION HistorySpec
CONSTANTS
  None = None
  Configs <- DailyLimitTerms
  Fee = 0
  OpenBound = 2
  BalanceBound = 3
  MaxDay = 2
PROPERTIES DailyLossIsChargedToItsDay
CHECK_DEADLOCK FALSE
