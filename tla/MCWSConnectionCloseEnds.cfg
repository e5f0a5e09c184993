SPECIFICATION FairSpec
CONSTANTS
  r1 = r1
  r2 = r2
  Readers = {r1}
  MaxConns = 2
  MaxSends = 1
  MaxServed = 1
PROPERTIES
  CloseEnds
CHECK_DEADLOCK FALSE
