\* Two processes under the fairness of the Go runtime.
SPECIFICATION FairSpec
CONSTANTS
  p1 = p1  p2 = p2
  c1 = c1  c2 = c2  c3 = c3  c4 = c4
  Process = {p1, p2}
  Caller = {c1, c2, c3}
  ProcessOf <- TwoAndOne
PROPERTIES
  EveryCallReturns
  ContextBoundsTheWait
