SPECIFICATION Spec
CONSTANTS
  NumMessages = 2
  MaxToolSteps = 2
  MaxJobs = 1
  MaxDepth = 2
  LastTurn = 1
  Waiters = {"w"}
INVARIANTS TypeOK BoundariesAgree MessagesInOrder CompletedOwesNothing
PROPERTIES MessagesAccounted TurnLogSpec LatchSound WhenIdleSound
CHECK_DEADLOCK FALSE
VIEW WithoutLeft
