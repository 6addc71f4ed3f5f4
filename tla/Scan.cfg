\* Two workers and a queue of two.  No symmetry, for the liveness properties.
SPECIFICATION ScanSpec
CONSTANTS
  top = top
  d1 = d1
  d2 = d2
  f1 = f1
  f2 = f2
  hidden = hidden
  f0 = f0
  f3 = f3
  deep = deep
  Entries <- Tree
  Dirs <- TreeDirs
  Root = top
  Parent <- TreeParent
  Hidden = {hidden}
  Recursive = TRUE
  MaxDepth = 1
  Workers = {w1, w2}
  QueueSize = 2
  Sentinel = Sentinel
INVARIANTS
  ScanIsPartition
  LoopNeverBlocks
  MasterComplete
  RootFixesShards
PROPERTIES
  ScanEnds
  ThreadEnds
