SPECIFICATION FairSpec
CONSTANTS
  MaxEvents = 3
  Cap = 6
  Env = {"marshalFails", "broken", "break"}
INVARIANTS
  Complete
PROPERTIES
  MailboxSpec
  StreamCloses
  ServerReleased
CHECK_DEADLOCK FALSE
