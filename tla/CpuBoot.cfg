\* A BSP and seven APs, as many as MAX_CPUS allows, whose identifiers are their indices.
CONSTANTS
  CPUs = {0, 1, 2, 3, 4, 5, 6, 7}
  num_cpus = 8
  MAX_CPUS = 8
  ApicId <- InOrder
SPECIFICATION Spec
INVARIANTS
  StackIsOwn
PROPERTIES
  AllCpusStart
