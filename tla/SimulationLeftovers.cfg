SPECIFICATION SimSpec
CONSTANTS
  r1 = r1
  r2 = r2
  r3 = r3
  Runs <- MCRuns
  Plan <- MCPlan
  OwnDevice = 0
  PoolSize = 2
  Raising = {}
  ProgressEvery = 2
  MaxResets = 0
  MaxCrashes = 0
INVARIANT
  NoSyntheticKept
