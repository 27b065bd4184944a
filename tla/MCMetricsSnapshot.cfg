SPECIFICATION FairSpec
CONSTANTS
  Snapshots = {s1}
  Increments = {i1, i2}
PROPERTIES
  SnapshotReturns
CHECK_DEADLOCK FALSE
