\* Eight blocks, one change of branch, one failed call, one crash.
SPECIFICATION Spec
CONSTANTS
  a1 = a1
  a2 = a2
  a3 = a3
  a4 = a4
  a5 = a5
  b3 = b3
  b4 = b4
  b5 = b5
  Block = {a1, a2, a3, a4, a5, b3, b4, b5}
  Genesis = Genesis
  ZeroHash = ZeroHash
  Parent <- MCParent
  HeightOf <- MCHeightOf
  Commitments <- MCCommitments
  FirstTip = {a2, a3, a4}
  MaxSwitches = 1
  ShardLeaves = 2
  WindowLimit = 2
  Floor = 1
  SyncBatch = 2
  Capacity = 1
  SnapshotInterval = 2
  TrackerDepth = 2
  MaxFailures = 1
  MaxCrashes = 1
INVARIANTS
  AppendsInOrder
  LeavesAreInPlace
  SizeCheckPasses
  TrackerFollowsTree
PROPERTY
  CatchesUp
