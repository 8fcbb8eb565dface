SPECIFICATION Spec
CONSTANTS
  NULL = NULL
  Main = Main
  Scope = Scope
  Obj = {Main, Array, Scope, x, y, z}
  Stdlib = {Main, Array}
  Proto = NULL
  Destroyable = {}
  NumLocals = 2
  StackSize = 1
  Growth = 2
  MaxFrames = 2
  MaxPermanent = 3
  MaxSweeps = 1
  SKIPS_LOCALS = FALSE
  READS_STDLIB = FALSE
  PAUSES = FALSE
  HALTS = FALSE
INVARIANTS
  ReachableIsLive
SYMMETRY Symmetry
