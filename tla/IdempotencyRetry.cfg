SPECIFICATION IdemSpec
CONSTANTS
  q1 = q1
  q2 = q2
  q3 = q3
  q4 = q4
  NoKey = NoKey
  Nothing = Nothing
  Requests <- MCRequests
  KeyOf <- MCKeyOf
  TransactionOf <- MCTransactionOf
  MaxOutages = 1
  MaxResets = 1
  MaxCrashes = 1
INVARIANTS
  ConsistentAnswers
PROPERTIES
  CacheHidesNoPayment
  CachedImplementsLedger
SYMMETRY MCRetries
