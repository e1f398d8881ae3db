CONSTANTS
  Recs = {r1}
  Daemons = {d1, d2, d3}
  NoDaemon = none
  MaxLines = 3
  SamePort = FALSE
SPECIFICATION FastSpec
INVARIANTS
  OneWriterOneChain
  ServingIsFound
  ScreenedOrAlone
PROPERTIES
  FastHookEnds
CHECK_DEADLOCK FALSE
