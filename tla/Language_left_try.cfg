SPECIFICATION Spec
CONSTANTS
  Trees <- LeftTries
  Bottled <- None
  Junk = {7}
  Fuel = 20
INVARIANT CatchFits
