SPECIFICATION Spec
CONSTANTS
  Servers = {s1, s2}
  Recording = {s1}
  Sync = Sync
  Free = Free
  MaxSyncCommits = 3
  MaxCalls = 4
CHECK_DEADLOCK FALSE
INVARIANTS TypeOK FreshWhileRecorded
PROPERTY CallReturns
