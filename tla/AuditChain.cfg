CONSTANTS
  Recs = {r1, r2}
  MaxLines = 3
  MaxRecords = 3
  Faults = {"chk"}
  Sizes = {1, 9}
SPECIFICATION Spec
INVARIANTS
  ChainSurvives
  NothingLost
  VerifyIsRight
PROPERTIES
  LedgerSpec
