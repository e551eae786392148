SPECIFICATION FairSpec
CONSTANTS
  a1 = a1
  a2 = a2
  a3 = a3
  n1 = n1
  n2 = n2
  None = None
  Appends <- MCShared
  Nodes <- MCNodes
  NodeOf <- MCNodeOf
  MaxSeq = 7
  ListLimit = 2
  MaxEntries = 5
  Preloads = {0, 3}
INVARIANT RaceIsSafe
PROPERTY CallsEnd
CHECK_DEADLOCK FALSE
