CONSTANTS
  Conns = {c1}
  NoConn = none
  Policies <- ThreePolicies
  Default = "default"
  Decides <- DecidesCalls
  Strict <- StrictPolicies
  Torn = "torn"
  Sends <- FewSends
  MaxRequests = 3
  MaxSaves = 1
  Cap = 2
SPECIFICATION Spec
INVARIANTS
  ToldIsRecorded
  RepliesInOrder
PROPERTIES
  EveryLineIsAnswered
  PolicySettles
CHECK_DEADLOCK FALSE
