SPECIFICATION Spec
CONSTANTS
  Flushers = {"f1"}
  RecoversTail = FALSE
  MaxEvents = 2
  MaxFaults = 1
  MaxCrashes = 0
INVARIANT CloseLosesNothing
CHECK_DEADLOCK FALSE
