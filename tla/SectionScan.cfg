SPECIFICATION Spec
CONSTANTS
  Procs = {1, 2}
  Fscker = 1
  Cols = 2
  Bools = {2}
  Sizes <- MCSizes
  Damages <- MCDamages
  MaxPrefetch = 4
  ClassBytes = 2
  MaxPooled = 1
  Bufs = {1, 2, 3, 4, 5}
  MaxFaults = 1
  MaxErrs = 2
INVARIANTS TypeOK BufferHeldOnce BatchesInOrder RowGroupsComplete FsckVerdict
PROPERTIES AllClose
