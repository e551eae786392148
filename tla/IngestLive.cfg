SPECIFICATION FairSpec
CONSTANTS
  main = main
  dev = dev
  f1 = f1
  f2 = f2
  x1 = x1
  x2 = x2
  v = v
  Branches <- MCBranches
  Main = main
  Batches <- MCBatches
  Flushers <- MCOne
  Forks <- MCFork
  ForkPairs <- MCForkPairs
  MaxWal = 3
  MaxFaults = 2
PROPERTY EverythingFlushed
CHECK_DEADLOCK FALSE
