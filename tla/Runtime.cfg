SPECIFICATION FairSpec
CONSTANTS
  Event = {e1, e2, e3}
  Callback = {f, g}
  NULL = NULL
  BOXED_TIMES = TRUE
INVARIANTS
  TypeOK
  OnePlace
  ThreadOwnsEvent
  RootsExact
PROPERTIES
  ServiceSpec
  DueIsCalled
  Ends
CHECK_DEADLOCK FALSE
