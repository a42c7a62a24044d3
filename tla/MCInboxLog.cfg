SPECIFICATION Spec
CONSTANTS
  Messages = {"m1", "m2", "m3"}
  Span = 2
  MaxLog = 5
INVARIANTS InboxInv ClaimTakesBoundaryBatch
CHECK_DEADLOCK FALSE
