SPECIFICATION Spec
CONSTANTS
  Keys = {1, 2, 3, 4, 5}
  Hash <- MCHash
  HashSpace = 32
  joinTableMinSlots = 4
  joinTableLoadNum = 7
  joinTableLoadDen = 10
  rowStoreMinRows = 2
  maxBuildRows = 6
  RowBounds = {0, 3, 7}
INVARIANTS
  TypeOK
  EmptySlotExists
  LookupFindsChain
  PresizedNeverGrows
  MatchesInBuildOrder
