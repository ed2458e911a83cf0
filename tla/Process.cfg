SPECIFICATION Spec
CONSTANTS
  PROC_MAX_PID = 8
  FRAMES = 9
INVARIANTS
  
  RingIsClosed
PROPERTIES
  NoSwitchInFork
