\* The build with the witness feature alone, with nothing going wrong.
SPECIFICATION Spec
CONSTANTS
  a1 = a1
  a2 = a2
  b2 = b2
  b3 = b3
  Block = {a1, a2, b2, b3}
  Genesis = Genesis
  ZeroHash = ZeroHash
  Parent <- MCParent
  HeightOf <- MCHeightOf
  Weight <- MCWeight
  Commitments <- MCCommitments
  FirstTip = {a1}
  MaxSwitches = 0
  ShardLeaves = 2
  WindowLimit = 2
  Floor = 1
  BackfillBatch = 1
  SyncBatch = 2
  Capacity = 1
  BackfillTarget = 3
  TargetSize = 2
  SnapshotInterval = 2
  TrackerDepth = 2
  MaxFaults = 0
  Builds <- MCWitnessOnly
INVARIANT LeavesAreAtTheirPositions
