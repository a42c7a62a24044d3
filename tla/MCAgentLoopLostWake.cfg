SPECIFICATION Spec
CONSTANTS
  NumMessages = 2
  MaxToolSteps = 1
  MaxJobs = 0
  MaxDepth = 2
  LastTurn = 0
  Waiters = {}
PROPERTY LiveDriverClaims
CHECK_DEADLOCK FALSE
