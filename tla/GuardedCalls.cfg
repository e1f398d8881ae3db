CONSTANTS
  Calls = {c1, c2}
  Verdicts <- MCVerdicts
SPECIFICATION Spec
INVARIANTS
  AuditIsWhatWasDone
  NeverMilderThanRules
PROPERTIES
  EveryCallAnswered
CHECK_DEADLOCK FALSE
