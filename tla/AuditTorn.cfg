CONSTANTS
  Recs = {r1, r2}
  MaxLines = 3
  MaxRecords = 3
  Faults = {"torn"}
  Sizes = {1, 9}
SPECIFICATION Spec
INVARIANTS
  RestartKeepsChain
