SPECIFICATION FairSpec
CONSTANTS
  Trees <- AllFamilies
  Bottled <- Handlerless
  Junk = {7}
  Fuel = 20
INVARIANTS
  TypeOK
  StackFits
  CatchFits
  FollowsTree
PROPERTY Ends
