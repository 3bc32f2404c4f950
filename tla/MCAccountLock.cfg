SPECIFICATION Spec
CONSTANTS
  p1 = p1 p2 = p2 a1 = a1 a2 = a2
  s1 = s1 s2 = s2 s3 = s3 x1 = x1 x2 = x2
  Nobody = Nobody
  Processes <- TwoProcesses
  Accounts <- TwoAccounts
  Sections = {s1, s2, s3}
  Transactions = {x1}
  Home <- TwoHomes
  Account <- AccountOf
  LockPool = 1
  QueryPool = 1
  MaxRuns = 3
  MaxCrashes = 1
INVARIANTS EntriesFollowWork
PROPERTIES Serialized NoOvertaking EverySectionEnds
