SPECIFICATION Spec
CONSTANTS
  Ids = {"a", "b"}
  MaxCalls = 2
  MaxEvents = 11
  MaxTurns = 2
INVARIANTS RepairInv HonestRecovery StartedNeverDenied
CHECK_DEADLOCK FALSE
