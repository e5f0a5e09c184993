SPECIFICATION FairSpec
CONSTANTS
  TypeNames <- Names
  HttpRequest = "net/http.Request"
  Packages <- Walked
  Commands <- Both
INVARIANTS
  Judged NoReentry Closed OnlyReached
PROPERTIES
  Terminates
CHECK_DEADLOCK FALSE
