SPECIFICATION Spec
CONSTANTS
  Flushers = {"f1", "f2"}
  RecoversTail = FALSE
  MaxEvents = 2
  MaxFaults = 0
  MaxCrashes = 0
INVARIANT FlushedSurvive
CHECK_DEADLOCK FALSE
