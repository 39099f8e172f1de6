SPECIFICATION Spec
CONSTANTS
  Procs = {p1, p2}
  Commits <- MCCommits
  Unborn = "none"
  Paths <- MCPaths
  Blobs <- MCBlobs
  NoBlob = 0
  NoPath = 0
  Tree <- MCTree
  Binary <- MCBinary
  IgnoreSets <- MCIgnoreSets
  Nobody = Nobody
  Abandoned = Abandoned
  Torn = Torn
  MaxFailures = 1
INVARIANT ChunksComplete
