SPECIFICATION FairSpec
CONSTANTS
  RequestedWorkers = 2
  TotalRGs = 3
  RequestedMorselSize = 0
  BlocksOf <- MCNoBlocks
  KeysIn <- MCOneKey
  Grouped = FALSE
  BlockRows = 2
  MaxFaults = 1
  MaxSetups = 2
INVARIANTS
  RowsComplete
  SendNeverBlocks
PROPERTIES
  NextReturns
