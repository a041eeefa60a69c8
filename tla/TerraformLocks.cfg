\* Four nodes, two source directories, three workdirs.
SPECIFICATION LocksSpec
CONSTANTS
  a = a
  b = b
  c = c
  d = d
  Node = {a, b, c, d}
  Rank <- MCRank
  Source <- MCSource
  NoNode = NoNode
  InWorkdir = {a, b, d}
INVARIANTS DirectoriesAreExclusive HoldersProceed
CHECK_DEADLOCK FALSE
