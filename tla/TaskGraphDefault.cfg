\* No WithMaxConcurrency, as cmd and internal/exec call Run.
SPECIFICATION Spec
CONSTANTS
  Node <- AB
  Rank <- MCRank
  Declarations <- AnyDeclarations
  Directs <- FewDirects
  MaxConcurrency = 0
  None = None
  Context = Context
INVARIANTS
  ConcurrentByDefault
