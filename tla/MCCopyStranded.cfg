SPECIFICATION CopyFairSpec
CONSTANTS
  Leader = l
  Followers = {f1}
  Keys <- MCKeys
  KindOf <- MCKindOf
  Of <- MCOf
  Calls = {c1}
  MaxFaults = 1

PROPERTY IntentsComplete
CHECK_DEADLOCK FALSE
