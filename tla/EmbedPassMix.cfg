SPECIFICATION Spec
CONSTANTS
  Procs = {p1, p2}
  Chunks <- MCChunks
  Tags = {"t1", "t2"}
  NoTag = "none"
  Model <- MCOneModel
  Dim <- MCDim
  NoVector = "none"
  NoDim = 0
  BatchSize = 1
  Kinds <- MCForeground
  MaxPasses = 3
  MaxFailures = 0
CHECK_DEADLOCK FALSE
INVARIANT NeverMixes
