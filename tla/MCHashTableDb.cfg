\* Two buckets of two slots, three heights, four blocks.
SPECIFICATION Spec
CONSTANTS
  b1 = b1
  b2 = b2
  c2 = c2
  b3 = b3
  n1 = n1
  n2 = n2
  n3 = n3
  n4 = n4
  n5 = n5
  n6 = n6
  Block = {b1, b2, c2, b3}
  Nullifier = {n1, n2, n3, n4, n5, n6}
  ZeroNullifier = ZeroNullifier
  HeightOf <- MCHeightOf
  NullifiersOf <- MCNullifiersOf
  BucketOf <- MCBucketOf
  Bucket <- MCBucket
  BucketCapacity = 2
  TargetSize = 2
INVARIANTS
  TypeOK
  EntriesCounted
  SlotsOwned
  HashIndexExact
  NoLeakWithoutOverflow
  LookupExact
PROPERTY
  ImplementsWindow
