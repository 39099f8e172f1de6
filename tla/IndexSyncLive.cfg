SPECIFICATION Spec
CONSTANTS
  Procs = {p1, p2}
  Commits <- MCLiveCommits
  Unborn = "none"
  Paths <- MCLivePaths
  Blobs <- MCLiveBlobs
  NoBlob = 0
  NoPath = 0
  Tree <- MCLiveTree
  Binary <- MCNone
  IgnoreSets <- MCNoIgnore
  Nobody = Nobody
  Abandoned = Abandoned
  Torn = Torn
  MaxFailures = 1
PROPERTY IndexFollowsHead
