\* Seventeen blocks at seven heights, a window of three.
SPECIFICATION Spec
CONSTANTS
  a1 = a1
  a2 = a2
  a3 = a3
  a4 = a4
  a5 = a5
  a6 = a6
  a7 = a7
  b3 = b3
  b4 = b4
  b5 = b5
  b6 = b6
  c2 = c2
  c3 = c3
  c4 = c4
  c5 = c5
  d4 = d4
  d5 = d5
  Block = {a1, a2, a3, a4, a5, a6, a7, b3, b4, b5, b6, c2, c3, c4, c5, d4, d5}
  Unknown = Unknown
  Parent <- MCParent
  HeightOf <- MCHeightOf
  MaxDepth = 3
INVARIANTS
  TypeOK
  WindowLinked
  WindowIsNewestKept
PROPERTY
  RollsBackToTheFork
\* The tree of blocks is finite: the newest block has no successor.
CHECK_DEADLOCK FALSE
