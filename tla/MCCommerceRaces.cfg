\* Two upsets: each property below is violated by itself.
\* Check one at a time: uncomment it and comment out the one before.
SPECIFICATION CommerceFairSpec

CONSTANTS
  Purchases = {p}
  Grants = {g}
  NoOrder = none
  Workers = {w1}
  Sweeper = sweep
  MaxActive = 1
  MaxUpsets = 2

INVARIANT CapIsUnbreakable
\* INVARIANT RefundedIsContained
\* INVARIANT OnlyPaidProvisions
\* PROPERTY RefundedIsNotFunded
\* PROPERTY RecordedIsApplied
\* PROPERTY BlockedIsRedriven

CHECK_DEADLOCK FALSE
