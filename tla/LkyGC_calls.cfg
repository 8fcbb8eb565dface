SPECIFICATION Spec
CONSTANTS
  NULL = NULL
  Main = Main
  Scope = Scope
  Obj = {Main, Scope, x, y, z}
  Stdlib = {Main}
  Proto = NULL
  Destroyable = {}
  NumLocals = 0
  StackSize = 2
  Growth = 3
  MaxFrames = 2
  MaxPermanent = 1
  MaxSweeps = 1
  SKIPS_LOCALS = FALSE
  READS_STDLIB = FALSE
  PAUSES = FALSE
  HALTS = FALSE
INVARIANTS
  TypeOK
  
PROPERTIES
  LeavesRoom
SYMMETRY Symmetry
