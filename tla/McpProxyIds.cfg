CONSTANTS
  Ids = {1, 2}
  ServerIds = {1, 2}
  Screens = {TRUE}
  MaxRequests = 2
  MaxSessions = 1
SPECIFICATION Spec
INVARIANTS
  NothingPoisonedDelivered
CHECK_DEADLOCK FALSE
