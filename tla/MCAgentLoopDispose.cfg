SPECIFICATION Spec
CONSTANTS
  NumMessages = 2
  MaxToolSteps = 0
  MaxJobs = 0
  MaxDepth = 2
  LastTurn = 0
  Waiters = {}
INVARIANT DisposalStopsDriver
CHECK_DEADLOCK FALSE
