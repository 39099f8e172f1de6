SPECIFICATION Spec
CONSTANTS
  Procs = {p1, p2}
  Chunks <- MCChunks
  Tags = {"t1", "t2"}
  NoTag = "none"
  Model <- MCTwoModels
  Dim <- MCDim
  NoVector = "none"
  NoDim = 0
  BatchSize = 1
  Kinds <- MCKinds
  MaxPasses = 3
  MaxFailures = 1
SYMMETRY MCSymmetry
CHECK_DEADLOCK FALSE
INVARIANTS TypeOK OneSpace VecTableFaithful QuiescentWarm
PROPERTY CacheIsPermanent
