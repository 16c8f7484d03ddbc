SPECIFICATION FairSpec
CONSTANTS
  CThreads = {"c1", "c2"}
  Threads <- MCThreads
  Pools <- MCPools
  Options <- MCOptions
  HitSets = {{2}, {2, 4}, {3, 5}}
  Size = 3
  Dict = 3
INVARIANTS
  StreamIsInput
  HitsEndBlocks
  UseCountsHolders
  AssertsHold
PROPERTY
  CallReturns
CHECK_DEADLOCK FALSE
