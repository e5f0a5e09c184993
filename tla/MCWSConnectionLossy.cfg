SPECIFICATION FairSpec
CONSTANTS
  r1 = r1
  r2 = r2
  Readers = {r1, r2}
  MaxConns = 3
  MaxSends = 2
  MaxServed = 2
INVARIANTS
  NoLostWakeup
  OneSocket
  OnlyCloseEnds
  SendOrder
PROPERTIES
  MailboxSpec
  Reconnects
  LastCloseEnds
CHECK_DEADLOCK FALSE
