SPECIFICATION Spec
CONSTANTS
  Event = {e1, e2}
  Callback = {f, g}
  NULL = NULL
  BOXED_TIMES = TRUE
SYMMETRY Symmetry
INVARIANT
  TimeIsLive
CHECK_DEADLOCK FALSE
