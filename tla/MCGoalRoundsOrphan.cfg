SPECIFICATION Spec
CONSTANTS
  MaxRounds = 1
  MaxSent = 0
  MaxOps = 1
  MaxMishaps = 2
PROPERTIES NoLaterRound
CHECK_DEADLOCK FALSE
