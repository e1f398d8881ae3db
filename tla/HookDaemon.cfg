CONSTANTS
  Calls <- OneId
  Judge = TRUE
SPECIFICATION Spec
INVARIANTS
  EvidenceIsTrue
  CompleteWindowDecides
PROPERTIES
  PromiseKept
  HookAnswers
  EveryRunIsRecorded
CHECK_DEADLOCK FALSE
