SPECIFICATION ScriptsSpec
CONSTANTS
  Rows = 5
  WriteBatch = 2
  Batch = 3
  MaxDatasets = 3
INVARIANTS
  DatasetWhole
  LossBounded
  TailPersisted
CHECK_DEADLOCK FALSE
