\* A segment that fails half way through is published in part.
SPECIFICATION ServicesSpec
CONSTANTS
  a1 = a1  a2 = a2
  None = None
  DefaultNamespace = "default"  DefaultBranch = "main"
  QueryNamespaces = {"default"}  Branches = {"main", "feature"}
  Segments = {"a", "b"}  Contents <- MCContents  Storable <- MCStorable
  Passes <- MCPair  MaxWrites = 3  MaxFaults = 1
  IngestNamespaces = {"default", "other"}  Handlers <- MCPair  MaxEntries = 2
  t1 = t1  t2 = t2  n1 = n1  odd = odd
  Tenants = {t1}  ValidNames = {t1, t2, n1, "default", "main"}  OddNames = {odd, Empty}
  Empty = Empty  MaxHeaders = 2  MaxItems = 2
  Writers <- MCPair  Readers <- MCPair  Capacity = 1
  NoRecord = NoRecord  Hole = Hole  Damaged = Damaged  Unread = Unread
  MaxRecords = 3  MaxLost = 1  MaxDamage = 2
CHECK_DEADLOCK FALSE
SYMMETRY Symmetry
INVARIANT PublishedInWhole
