SPECIFICATION Spec
CONSTANTS
  c1 = c1
  c2 = c2
  c3 = c3
  t0 = t0
  Admin = Admin
  NoKey = NoKey
  Calls <- MCCalls
  Sessions <- MCSessions
  Ids <- MCIds
  Keys <- MCKeys
  InitialRows <- MCInitialRows
  TrainingIds <- MCTraining
  Sanitized <- MCSanitized
  RawKey <- MCRetry
  ApiCalls = {c1, c2, c3}
  SeedCalls = {c3}
  OversizeCalls = {c3}
  OutageCalls = {c1}
  MaxResets = 1
  MaxCrashes = 1
INVARIANTS
  TypeOK
  UniqueIndexes
  NoWaitCycle
  PaymentsWhole
  ErrorAllOrNothing
  CreatedOnce
  TrainingPreserved
PROPERTY
  ImplementsLedger
