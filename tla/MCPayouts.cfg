SPECIFICATION PayoutSpec
CONSTANTS
  r1 = r1 r2 = r2 r3 = r3
  Requests <- ThreeRequests
  Policies <- AllPolicies
  Amounts <- OneOrTwo
  Wins <- WinOrLose
  Record <- OneGoodDay
  ActivatedOn = 1
  LastDay = 4
  Profits <- SmallProfits
  MAX_PAYOUT_CYCLES = 2
SYMMETRY Interchangeable
CHECK_DEADLOCK FALSE
INVARIANTS LedgerAgrees BooksBalance DaysMisreadOnlyReversals OrdinalsAreDense LaterQualifiesHigher WinningDaySpentOnce
PROPERTIES AcceptedIsApprovable
