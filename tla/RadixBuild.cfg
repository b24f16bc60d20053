SPECIFICATION FairSpec
CONSTANTS
  NumWorkers = 3
  TotalRGs = 5
  RequestedMorselSize = 2
  Build <- MCBuild
  Null = Null
  NumParts = 3
  PartOf <- MCPartOf
  maxBuildRows = 10
  MaxFaults = 2
INVARIANTS
  TypeOK
  StoreWrittenOnce
  TableIsSerial
  GenuineError
PROPERTIES
  BuildReturns
CHECK_DEADLOCK FALSE
