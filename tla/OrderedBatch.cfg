\* No concurrency, which is invalid, a single worker with a window of one, two with a
\* window of four, three, and barriers, under the fairness of the Go runtime.
SPECIFICATION FairSpec
CONSTANTS
  Count = 7
  MaxConcurrency = 3
  Barrier <- MCBarrier
INVARIANTS
  SendNeverBlocks
  SerialReadsItsWrites
  DisposedExactlyOnce
  ReturnIsComplete
PROPERTIES
  ImplementsOrderedCommit
  Terminates
