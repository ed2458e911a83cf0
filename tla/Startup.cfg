SPECIFICATION Spec
CONSTANTS
  Vectors <- MCVectors
  Devices <- MCDevices
  MaxRequests = 5
  MAX_LVT = 5
  Layouts <- MCLayouts
  Bitmaps = {1, 4, 5}
  Rsdps <- MCRsdps
  Madts <- MCMadts
  MAX_CPUS = 8
  Addresses <- MCAddresses
  STACK_SZ = 4
  INIT_ESP = 6
  NEW_STACK = 11
INVARIANTS
  TypeOK
  NothingOverwritten
  RootPointerIsValid
  OnlyStraysPanic
  DescriptorsAreAsMeant
  StackIsMoved
PROPERTIES
  StartEnds
  RequestsAreServed
