SPECIFICATION HistorySpec
CONSTANTS
  Threshold = 243
  Absent = Absent
  Handlers = 2
  MaxOld = 1
  Plans <- MCPlans
INVARIANTS
  HistoryTypeOK
  MicroAlwaysBlocked
  BurstBounded
  DegradedNeverStricter
  MonotoneInEvidence
  
