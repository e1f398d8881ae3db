CONSTANTS
  Ids = {1, 2}
  ServerIds = {3}
  Screens = {TRUE, FALSE}
  MaxRequests = 3
  MaxSessions = 1
SPECIFICATION Spec
INVARIANTS
  NothingPoisonedDelivered
  AuditSaysWhatWasDone
CHECK_DEADLOCK FALSE
