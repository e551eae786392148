SPECIFICATION Spec
CONSTANTS
  a1 = a1
  a2 = a2
  a3 = a3
  n1 = n1
  n2 = n2
  None = None
  Appends <- MCPair
  Nodes <- MCNodes
  NodeOf <- MCNodeOf
  MaxSeq = 7
  ListLimit = 2
  MaxEntries = 7
  Preloads = {0, 3, 6}
INVARIANTS TypeOK Contiguous AcknowledgedIsDurable OnceUnlessLost HeadWasCurrent
PROPERTIES AppendOnly ImplementsWal
CHECK_DEADLOCK FALSE
