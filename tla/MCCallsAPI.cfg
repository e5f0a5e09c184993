SPECIFICATION Spec
CONSTANTS
  Packages <- WithSockets
  Frameworks <- All
  Limited <- Limits
INVARIANTS
  ArgsArrive PathFromURL NeverRejected
PROPERTY
  RpcSpec
CHECK_DEADLOCK FALSE
