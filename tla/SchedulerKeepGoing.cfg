\* Every graph of three nodes and two workers, dispatchers with a status of their own,
\* under the fairness of the Go runtime.
SPECIFICATION FairSpec
CONSTANTS
  Node <- ABC
  Rank <- MCRank
  Graphs <- AllGraphs
  MaxConcurrency = 2
  FailFast = FALSE
  OtherStatus = {"warned"}
  None = None
  Context = Context
INVARIANTS
  DependencyOrder
  NothingBlockedIsPending
  ReadyIsExact
  SkipsAreJustified
  ReturnIsComplete
PROPERTIES
  ImplementsDag
  Terminates
  FulfilsDag
