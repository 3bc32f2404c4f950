SPECIFICATION CopySpec
CONSTANTS
  Leader = l
  Followers = {f1}
  Keys <- MCKeys
  KindOf <- MCKindOf
  Of <- MCOf
  Calls = {c1, c2}
  MaxFaults = 1
INVARIANTS OrdersAreRecorded FlattenReachesWhatWasOpen
PROPERTY OneOutcomeEach
SYMMETRY CallSymmetry
CHECK_DEADLOCK FALSE
