\* Two processes, and a queue of three in one of them.
SPECIFICATION Spec
CONSTANTS
  p1 = p1  p2 = p2
  c1 = c1  c2 = c2  c3 = c3  c4 = c4
  Process = {p1, p2}
  Caller = {c1, c2, c3, c4}
  ProcessOf <- ThreeAndOne
INVARIANTS
  HoldersAreCounted
  NobodyServable
PROPERTIES
  NoOvertaking
  ImplementsReadWriteLock
SYMMETRY Alike
