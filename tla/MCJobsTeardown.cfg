SPECIFICATION Spec
CONSTANTS
  Agents = {"a"}
  Shared = "shared"
  Limit = 1
  MaxJobs = 2
  MaxWaits = 2
PROPERTY TeardownAnnounced
CHECK_DEADLOCK FALSE
