SPECIFICATION FairSpec
CONSTANTS
  NumCalls = 4
  MaxParallel = 2
INVARIANTS TypeOK AnsweredInModelOrder HonestResults PoolDiscipline NothingOutlives
PROPERTIES NothingStartsLate Terminates
CHECK_DEADLOCK FALSE
