\* Three references, two workers, every mix of fail modes.
SPECIFICATION Spec
CONSTANTS
  Node <- ABC
  Rank <- MCRank
  Declarations <- SomeDeclarations
  Directs <- OneModeEach
  MaxConcurrency = 2
  None = None
  Context = Context
INVARIANTS
  ResolvedBeforeRun
  SiblingsComplete
PROPERTIES
  FailFastStops
