\* Two calls at a time, two lives: each property below is violated by itself.
\* Check one at a time: uncomment it and comment out the one before.
SPECIFICATION Spec

CONSTANTS
  t1 = t1 t2 = t2
  None = None
  Tasks <- TwoTasks
  MaxLives = 2
  FlattenOnBreach = TRUE

SYMMETRY Interchangeable

PROPERTY CertifiedOnItsMerits
\* PROPERTY ResetStartsFlat
\* PROPERTY CompletedIsOver
\* INVARIANT ArchivedLifeEnded
\* INVARIANT FailedMayNotTrade
\* INVARIANT HeldHasNoOrders
\* INVARIANT CertifiedIsOneWay
