\* One change of branch, and nothing else goes wrong.
SPECIFICATION Spec
CONSTANTS
  a1 = a1
  a2 = a2
  a3 = a3
  a4 = a4
  a5 = a5
  b3 = b3
  b4 = b4
  b5 = b5
  Block = {a1, a2, a3, a4, a5, b3, b4, b5}
  Genesis = Genesis
  ZeroHash = ZeroHash
  Parent <- MCParent
  HeightOf <- MCHeightOf
  Weight <- MCWeight
  FirstTip = {a3}
  MaxSwitches = 1
  Floor = 1
  BackfillBatch = 1
  SyncBatch = 2
  Capacity = 1
  BackfillTarget = 3
  TargetSize = 3
  SnapshotInterval = 2
  TrackerDepth = 2
  MaxFailures = 0
  MaxCrashes = 0
PROPERTY
  NoStaleDataAfterReorg
