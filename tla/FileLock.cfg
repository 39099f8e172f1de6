SPECIFICATION Spec
CONSTANTS
  Procs = {p1, p2}
  NoFile = NoFile
  Timeout = 2
  StaleAfter = 3
  MaxCrashes = 1
INVARIANTS TypeOK ExclusiveUntilStale HolderOwnsFile
PROPERTIES AcquireReturns OrphanIsBroken
