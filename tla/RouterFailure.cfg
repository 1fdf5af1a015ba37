SPECIFICATION RouterSpec
CONSTANTS
  d1 = d1
  d2 = d2
  x = x
  t0 = t0
  Admin = Admin
  NoKey = NoKey
  Calls <- MCCalls
  Sessions <- MCSessions
  Ids <- MCIds
  Keys <- MCKeys
  InitialRows <- MCInitialRows
  TrainingIds <- MCTraining
  Sanitized <- MCSanitized
  RawKey <- MCSameTransaction
  ApiCalls = {x}
  Deliveries = {d1, d2}
  EventOf <- MCEvents
  Kind <- MCPayments
  SeedCalls = {}
  OversizeCalls = {}
  OutageCalls = {}
  MaxResets = 0
  MaxCrashes = 0
INVARIANT
  FailureAcknowledged
