SPECIFICATION Spec
CONSTANTS
  MaxRounds = 1
  MaxSent = 0
  MaxOps = 2
  MaxMishaps = 0
INVARIANTS NeverFails
CHECK_DEADLOCK FALSE
