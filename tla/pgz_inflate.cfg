SPECIFICATION FairSpec
CONSTANTS
  BufSize = 3
  OutSize = 2
  Contents <- MCContents
  Lengths = {0, 1, 4}
  Junks = {0, 1, 4}
  Cuts = {1, 2, 3, 4, 5, 6, 7, 8, 9, 10, 11}
INVARIANTS
  InputInOrder
  OutputIsData
  DamageIsFound
PROPERTY
  Ends
CHECK_DEADLOCK FALSE
