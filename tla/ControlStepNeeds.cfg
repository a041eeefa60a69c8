\* One row: steps whose needs are valid, and that the scheduler rejects.
SPECIFICATION Spec
CONSTANTS
  Node <- OneByTwo
  Rank <- OneByTwoRank
  Row = {"x"}
  StepCount = 2
  Parents <- SomeParents
  MaxConcurrency = 0
  None = None
  Context = Context
INVARIANTS
  ValidNeedsAreExecuted
