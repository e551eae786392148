\* Stores, files, catalogs and tables, one of them in each behaviour.
SPECIFICATION DataSpec
CONSTANTS
  c1 = c1  c2 = c2  c3 = c3  c4 = c4  c5 = c5
  p1 = p1  p2 = p2
  a1 = a1  a2 = a2  a3 = a3
  r1 = r1
  Nil = Nil  NaN = NaN  Overflow = Overflow  NonFinite = NonFinite
  None = None
  Uncached = Uncached
  Nobody = Nobody
  Ticker = Ticker
  Names = {"a", "b"}
  Calls <- MCCalls
  Request <- MCRequest
  MaxFaults = 2
  Spaces = {"a", "b"}
  Changes <- MCChanges
  ChangeOf <- MCChange
  Lookups <- MCCallers
  Processes <- MCProcesses
  Threads <- MCThreads
  Home <- MCHome
  Solo = p1
  Clock = {1, 2}
  Sizes = {1}
  MaxTries = 3
  MaxCrashes = 1
  Keys = {"a", "b"}
  Callers <- MCCallers
  MaxStored = 4
  Lengths = {0, 1, 3, 4}
  HeaderSize = 2
  FooterSize = 1
  MaxRecordSize = 3
  BufferSize = 3
  MaxFrames = 2
CHECK_DEADLOCK FALSE
SYMMETRY Symmetry
INVARIANTS CreatedOnce NothingMissed ListIsExact RecordsSurvive SearchIsTopK HalfIsNearest
PROPERTIES ImplementsRoster NeverReused StoresImplementObjects ImplementsDocuments
