SPECIFICATION Spec
CONSTANTS
    KeyTable <- MCKeys
    Heads <- MCHeads
    ScanCodes <- MCScanCodes
    PS2_TO_DEFAULT = 1
    MaxNoise = 1
INVARIANTS
  TypeOK
  ResultIsTrue
  FailureIsQuiet
  CallbackIsSet
  KeysAreDecoded
PROPERTIES
  InitEnds
  BytesAreRead
CHECK_DEADLOCK FALSE
