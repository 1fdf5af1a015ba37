SPECIFICATION FairRouterSpec
CONSTANTS
  d1 = d1
  d2 = d2
  x = x
  t0 = t0
  Admin = Admin
  NoKey = NoKey
  Calls <- MCCalls
  Sessions <- MCSessions
  Ids <- MCIds
  Keys <- MCKeys
  InitialRows <- MCInitialRows
  TrainingIds <- MCTraining
  Sanitized <- MCSanitized
  RawKey <- MCSameTransaction
  ApiCalls = {x}
  Deliveries <- MCBoth
  EventOf <- MCEvents
  Kind <- MCAnyKind
  SeedCalls = {x}
  OversizeCalls = {}
  OutageCalls = {d1}
  MaxResets = 1
  MaxCrashes = 0
PROPERTIES
  EveryCallAnswered
  EveryDeliveryAnswered
  EveryResetEnds
