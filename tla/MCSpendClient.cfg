\* Five blocks, one change of branch, one failed call, one crash.
SPECIFICATION ClientSpec
CONSTANTS
  a1 = a1
  a2 = a2
  a3 = a3
  a4 = a4
  b3 = b3
  Malformed = Malformed
  Block = {a1, a2, a3, a4, b3}
  Genesis = Genesis
  ZeroHash = ZeroHash
  Parent <- MCParent
  HeightOf <- MCHeightOf
  Weight <- MCWeight
  TxsOf <- MCTxsOf
  TreeSizeField <- MCTreeSizeField
  Nullifier <- MCNullifier
  Commitment <- MCCommitment
  CountModulus = 2
  FirstTip = {a2, a3}
  MaxSwitches = 1
  Floor = 1
  BackfillBatch = 1
  SyncBatch = 2
  Capacity = 1
  BackfillTarget = 7
  TargetSize = 7
  SnapshotInterval = 2
  TrackerDepth = 2
  MaxFailures = 1
  MaxCrashes = 1
INVARIANTS
  SpendLocatesItsOutputs
  HeldCoverageIsSearched
