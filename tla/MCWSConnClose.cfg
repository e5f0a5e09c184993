SPECIFICATION FairSpec
CONSTANTS
  c1 = c1
  c2 = c2
  Conns = {c1, c2}
  Pings = TRUE
INVARIANTS
  ReturnedClosed
PROPERTIES
  CloseStopsPinger
CHECK_DEADLOCK FALSE
