\* Four components selected of six; one worker and fail-fast, which is the default.
SPECIFICATION TerraformSpec
CONSTANTS
  Node <- ABCD
  Rank <- MCRank
  Graphs <- Graph
  MaxConcurrency = 1
  FailFast = TRUE
  OtherStatus = {}
  Component <- All
  Requests <- MCRequests
  None = None
  Context = Context
INVARIANTS
  SequentialOrder
  StopIsFinal
  OrderSurvivesSelection
  OnlyCyclesAreRefused
