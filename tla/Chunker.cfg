SPECIFICATION Spec
CONSTANTS
  Blobs <- MCBlobs
  MaxChunk = 2
  MaxDepth = 1
  MaxBytes = 3
  WindowLines = 2
  OverlapLines = 1
CHECK_DEADLOCK FALSE
INVARIANTS TypeOK Partition WithinBudget Provenance Maximal DeclarationsWhole WindowsOverlap
