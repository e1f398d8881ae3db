CONSTANTS
  Paths = {p1, p2, p3}
  Secret = secret
  MaxSteps = 2
  MaxCalls = 4
  Shells = 1
  Listed = FALSE
SPECIFICATION Spec
SYMMETRY Symmetry
INVARIANTS
  TaintCoversDirty
  NothingLeaks
CHECK_DEADLOCK FALSE
