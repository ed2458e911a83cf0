SPECIFICATION Spec
CONSTANTS
  HDR = 4
  PAGE = 16
  HEAP_BLOCKS = 2
  WORD = 64
  Requests = {3, 6, 12, 14}
  MaxArenas = 3
  FRAMES = 5
  InUse = {5}
INVARIANTS
  NoOverlap
  GrantCovers
  ListIsCircular
  OthersAreUntouched
CHECK_DEADLOCK FALSE
