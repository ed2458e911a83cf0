\* Three CPUs, and as many frames as they can take.
CONSTANTS
  CPUs = {c1, c2, c3}
  FRAMES = 6
SYMMETRY AnyOrder
SPECIFICATION MainSpec
INVARIANTS
  PageEndsMapped
