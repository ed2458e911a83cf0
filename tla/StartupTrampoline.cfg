SPECIFICATION Spec
CONSTANTS
  Vectors <- MCVectors
  Devices <- MCDevices
  MaxRequests = 5
  MAX_LVT = 5
  Layouts <- MCLayouts
  Bitmaps = {5, 6}
  Rsdps <- MCRsdps
  Madts <- MCMadts
  MAX_CPUS = 8
  Addresses <- MCAddresses
  STACK_SZ = 4
  INIT_ESP = 6
  NEW_STACK = 11
INVARIANT
  NothingOverwritten
