\* Two processes, two requests to one and one to the other, a clock that can
\* outrun the window; with lock files that exclude and without.
SPECIFICATION FairSpec
CONSTANTS
  Process = {"p", "q"}
  Request = {"r1", "r2", "r3"}
  Home <- MCHome
  Ends <- MCEnds
  Cases <- MCCases
  Window = 1
  MaxTime = 1
CHECK_DEADLOCK FALSE
INVARIANTS
  HitsAreFresh
  ShutdownWaits
PROPERTIES
  ArtifactFetchedOnce
  EveryRequestEnds
