CONSTANTS
  WIDTH = 5
  Pow2 <- PowersOfTwo
SPECIFICATION Spec
INVARIANTS Divided NoBitLost
CHECK_DEADLOCK FALSE
