SPECIFICATION Spec
CONSTANTS
  Region = {r1, r2, r3}
  N = 2
  Junk = Junk
  NoBlock = NoBlock
SYMMETRY Symmetry
INVARIANTS
  IInv
  OutletIsFree
  
PROPERTIES
  StoreSpec
CHECK_DEADLOCK FALSE
