SPECIFICATION FairSpec
CONSTANTS
  Agents = {"a"}
  Shared = "shared"
  Limit = 1
  MaxJobs = 2
  MaxWaits = 2
INVARIANTS RegistryInv CompletionTold
PROPERTIES FirstSettlementStands TeardownCompletes
CHECK_DEADLOCK FALSE
