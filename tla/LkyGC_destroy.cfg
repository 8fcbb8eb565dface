SPECIFICATION Spec
CONSTANTS
  NULL = NULL
  Main = Main
  Scope = Scope
  Obj = {Main, Scope, f, d, x}
  Stdlib = {Main}
  Proto = NULL
  Destroyable = {d}
  NumLocals = 0
  StackSize = 1
  Growth = 3
  MaxFrames = 2
  MaxPermanent = 1
  MaxSweeps = 2
  SKIPS_LOCALS = FALSE
  READS_STDLIB = FALSE
  PAUSES = TRUE
  HALTS = FALSE
INVARIANTS
  MarksCleared
  RootsCoverFrames
  
CHECK_DEADLOCK FALSE
