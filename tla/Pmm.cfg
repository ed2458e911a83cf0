SPECIFICATION Spec
CONSTANTS
  PMM_BLK_SZ = 4
  BYTE = 1
  WORD = 64
  Top = 20
  HighEntries <- NoHigh
  MMaps <- AllMaps
  MarkRanges <- FewMarks
  RunLengths = {0, 1, 2, 3}
INVARIANTS
  GrantedIsMemory
  NothingLost
PROPERTIES
  AllocationIsFresh
  RunSearchIsComplete
