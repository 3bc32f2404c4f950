SPECIFICATION Spec
CONSTANTS
  None = None
  Configs <- EodTerms
  Fee = 0
  OpenBound = 2
  BalanceBound = 3
  MaxDay = 2
INVARIANTS EodFloorFollowsCloses
CHECK_DEADLOCK FALSE
