\* Two CPUs with interrupts on; handlers use a lock of their own.
CONSTANTS
  CPUs = {c1, c2}
  MainLocks <- KernelLocks
  HandlerLocks <- ConsoleOnly
  Sti = {c1, c2}
  Ordered = TRUE
SPECIFICATION LockSpec
INVARIANTS
  MutualExclusion
  SomeoneRuns
PROPERTIES
  LocksAreAcquired
