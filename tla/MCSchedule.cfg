SPECIFICATION FairSpec
CONSTANTS
  OneShot = {"o"}
  Recurring = {"r"}
  Period = 2
  MaxTime = 3
  MaxCalls = 1
  MaxMishaps = 2
INVARIANTS ScheduleInv OncePerMishap
PROPERTIES RemindersHonest DueServed
CHECK_DEADLOCK FALSE
