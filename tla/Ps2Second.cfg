SPECIFICATION Spec
CONSTANTS
    KeyTable <- MCKeys
    Heads <- MCHeads
    ScanCodes <- MCScanCodes
    PS2_TO_DEFAULT = 1
    MaxNoise = 1
INVARIANT
  ZeroMeansBoth
CHECK_DEADLOCK FALSE
