SPECIFICATION Spec
CONSTANTS
  Cols = {"n", "s"}
  StringCols = {"s"}
  MaxRowGroups = 2
  MaxRuns = 2
INVARIANTS
  TypeOK
  NoPartialFile
  OffsetsAddressData
