SPECIFICATION FairSpec
CONSTANTS
  NumMessages = 2
  MaxToolSteps = 0
  MaxJobs = 1
  MaxDepth = 2
  LastTurn = 0
  Waiters = {}
PROPERTIES WakeReplayed DisposeCompletes
CHECK_DEADLOCK FALSE
