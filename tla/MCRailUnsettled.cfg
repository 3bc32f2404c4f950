\* One caller and the worker, fair.  PaidIsSettled and DebitedIsQueued are
\* violated, SubmissionEnds holds.  Check one at a time.
SPECIFICATION FairSpec

CONSTANTS
  r1 = r1 r2 = r2 t1 = t1 t2 = t2 worker = worker
  None = None
  Requests <- OneRequest
  Worker = worker
  Callers <- OneCaller
  Policies <- OnePolicy
  Amounts <- OneUnit
  Wins <- NoWins
  Profits <- NoProfits
  Record <- FourEarned
  ActivatedOn = 0
  LastDay = 2
  MAX_PAYOUT_CYCLES = 2
  MAX_SUBMISSION_ATTEMPTS = 2

CHECK_DEADLOCK FALSE

PROPERTY PaidIsSettled
\* PROPERTY SubmissionEnds
\* INVARIANT DebitedIsQueued
