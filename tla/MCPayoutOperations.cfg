SPECIFICATION Spec
CONSTANTS
  r1 = r1 r2 = r2 t1 = t1 t2 = t2 worker = worker
  None = None
  Requests <- OneRequest
  Worker = worker
  Callers <- TwoCallers
  Policies <- OnePolicy
  Amounts <- OneUnit
  Wins <- NoWins
  Profits <- NoProfits
  Record <- FourEarned
  ActivatedOn = 0
  LastDay = 2
  MAX_PAYOUT_CYCLES = 2
  MAX_SUBMISSION_ATTEMPTS = 2
SYMMETRY Interchangeable
CHECK_DEADLOCK FALSE
INVARIANTS ShownPaidIsPaid
PROPERTIES PromiseKept
