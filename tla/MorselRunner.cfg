SPECIFICATION FairSpec
CONSTANTS
  Shapes <- MCShapes
  MaxMorsels = 3
INVARIANTS
  TypeOK
  ClosedExactlyOnce
  ReusedOrRebuilt
PROPERTIES
  SendsOnceAndReturns
CHECK_DEADLOCK FALSE
