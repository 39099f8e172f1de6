SPECIFICATION Spec
CONSTANTS
  Procs = {p1, p2}
  NoFile = NoFile
  Timeout = 1
  StaleAfter = 2
  MaxCrashes = 1
INVARIANT RaceHasOneWinner
