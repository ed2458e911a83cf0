CONSTANTS
  ENTRIES = 4
  FRAMES = 10
  VPages <- ThreePages
  Uses <- MCUses
SPECIFICATION Spec
INVARIANTS
  FramesAreOwned
  TlbIsCurrent
PROPERTIES
  ImplementsAddressSpace
