SPECIFICATION Spec
CONSTANTS
  p1 = p1 p2 = p2 a1 = a1 a2 = a2
  s1 = s1 s2 = s2 s3 = s3 x1 = x1 x2 = x2
  Nobody = Nobody
  Processes <- TwoProcesses
  Accounts <- TwoAccounts
  Sections = {s1}
  Transactions = {x1, x2}
  Home <- OneHome
  Account <- AccountOf
  LockPool = 1
  QueryPool = 2
  MaxRuns = 3
  MaxCrashes = 1
INVARIANT PoolsIndependent
