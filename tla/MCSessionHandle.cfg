SPECIFICATION Spec
CONSTANTS
  Flushers = {"f1", "f2"}
  RecoversTail = FALSE
  MaxEvents = 3
  MaxFaults = 2
  MaxCrashes = 1
INVARIANTS BooksAgree AckedSurvive CloseKeepsPublished
CHECK_DEADLOCK FALSE
