SPECIFICATION Spec
CONSTANTS
  RequestedWorkers = 4
  TotalRGs = 3
  RequestedMorselSize = 2
  BlocksOf <- MCBlocksOf
  KeysIn <- MCKeysIn
  Grouped = TRUE
  BlockRows = 2
  MaxFaults = 1
  MaxSetups = 2
INVARIANTS
  TypeOK
  ClaimsDisjoint
  ExactlyOnce
  FailureIsReported
PROPERTIES
  ImplementsAggregateOnce
