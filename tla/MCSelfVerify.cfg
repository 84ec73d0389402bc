\* The same instance: a row of one publication under the broadcast of another.
SPECIFICATION ClientSpec
CONSTANTS
  a1 = a1
  a2 = a2
  a3 = a3
  b2 = b2
  c3 = c3
  shard0 = shard0
  ZeroLeaf = ZeroLeaf
  SubshardHeight = 1
  Block = {a1, a2, a3, b2, c3}
  HeightOf <- MCHeightOf
  CommitmentsOf <- MCCommitmentsOf
  Leaf <- MCLeaf
  EmptyLeaf = EmptyLeaf
  ZeroRow = ZeroRow
  SubshardLeaves = 2
  SubshardsPerShard = 2
  MaxShards = 2
  WindowStartShard = 1
  PrefetchedRoots <- MCPrefetchedRoots
  EmptyShardRoot = EmptyShardRoot
INVARIANT WitnessIsSelfVerified
