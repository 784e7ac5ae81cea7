SPECIFICATION Spec
CONSTANTS
  Lengths = {0, 1, 2}
  MaxAttempts = 2
INVARIANT
  FalseMeansNoBody
CHECK_DEADLOCK FALSE
