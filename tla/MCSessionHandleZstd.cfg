SPECIFICATION FairSpec
CONSTANTS
  Flushers = {"f1"}
  RecoversTail = TRUE
  MaxEvents = 2
  MaxFaults = 1
  MaxCrashes = 2
INVARIANTS BooksAgree
PROPERTIES HandleProgresses
CHECK_DEADLOCK FALSE
