SPECIFICATION OutboxFairSpec
CONSTANTS
  a1 = a1
  a2 = a2
  Accounts = {a1, a2}
  Workers = {w1, w2}
  Active = {a1}
  Backlog <- CrossedBacklog
  batch = 2
  maxAttempts = 2
  PayoutEntries = {"DEBIT", "REVERSAL"}
  Resets = {FALSE}
  MaxEvents = 4
  MaxFaults = 1
  MaxSeq = 2
INVARIANT MoneyIsShown
PROPERTIES ShownNeverGoesBack EventsSettle
CHECK_DEADLOCK FALSE
