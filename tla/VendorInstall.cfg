\* Two processes and two packages that overlap in files, three layouts of projects and lockfiles.
SPECIFICATION FairSpec
CONSTANTS
  p = p
  q = q
  Process = {p, q}
  Count = 2
  Path = {"f", "g"}
  Files <- MCFiles
  Layouts <- MCLayouts
INVARIANT LastDeclarationWins
PROPERTIES AllOrNothing ReceiptsAreKept EveryProcessEnds
CHECK_DEADLOCK FALSE
