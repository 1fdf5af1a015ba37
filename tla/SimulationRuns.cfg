SPECIFICATION SimSpec
CONSTANTS
  r1 = r1
  r2 = r2
  r3 = r3
  Runs <- MCRuns
  Plan <- MCPlan
  OwnDevice = 0
  PoolSize = 2
  Raising = {r3}
  ProgressEvery = 2
  MaxResets = 1
  MaxCrashes = 1
INVARIANTS
  SimTypeOK
  
  EndedHoldsNothing
  NoRunWaitCycle
PROPERTY
  EveryRunEnds
