SPECIFICATION Spec
CONSTANTS
  t1 = t1 t2 = t2
  None = None
  Tasks <- TwoTasks
  MaxLives = 3
  FlattenOnBreach = TRUE
SYMMETRY Interchangeable
INVARIANTS PastLivesEnded QualifiedLivesPassed
PROPERTIES HeldStaysShut ArchivedIsOver
