SPECIFICATION FairSpec
CONSTANTS
  MaxRounds = 2
  MaxSent = 1
  MaxOps = 2
  MaxMishaps = 2
INVARIANTS RoundsInv
PROPERTIES PromptsFirst CheckpointFirst UnloadFinal GoalCarried
CHECK_DEADLOCK FALSE
