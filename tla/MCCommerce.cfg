SPECIFICATION CommerceFairSpec
CONSTANTS
  Purchases = {p}
  Grants = {g}
  NoOrder = none
  Workers = {w1}
  Sweeper = sweep
  MaxActive = 1
  MaxUpsets = 1
INVARIANTS EntitlementsAddUp
PROPERTIES OutcomesStand LimitAtPurchase SettledIsTakenUp
CHECK_DEADLOCK FALSE
