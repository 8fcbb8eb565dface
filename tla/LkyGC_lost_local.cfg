SPECIFICATION Spec
CONSTANTS
  NULL = NULL
  Main = Main
  Scope = Scope
  Obj = {Main, Scope, f, x, y}
  Stdlib = {Main}
  Proto = NULL
  Destroyable = {}
  NumLocals = 2
  StackSize = 1
  Growth = 3
  MaxFrames = 2
  MaxPermanent = 0
  MaxSweeps = 1
  SKIPS_LOCALS = TRUE
  READS_STDLIB = FALSE
  PAUSES = FALSE
  HALTS = FALSE
INVARIANTS
  ReachableIsLive
CHECK_DEADLOCK FALSE
