\* Two rows of two steps, two workers, every mode and threshold.
SPECIFICATION Spec
CONSTANTS
  Node <- TwoByTwo
  Rank <- TwoByTwoRank
  Row = {"x", "y"}
  StepCount = 2
  Parents <- SomeParents
  MaxConcurrency = 2
  None = None
  Context = Context
INVARIANTS
  CancelledAtThreshold
  RowsAreIndependent
  ReturnTellsFailure
