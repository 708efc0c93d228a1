SPECIFICATION LiveSpec
CONSTANTS
  p1 = p1
  p2 = p2
  p3 = p3
  Blank = Blank
  Paths <- MCPaths
  EntryMin <- MCMin
  EntryMax <- MCMax
  EntrySize <- MCSize
  Iteration <- MCIteration
  MaxSize <- MCMaxSize
  Requests <- MCMerging
  Workers = {w1, w2}
  MaxBatches = 2
  MaxPlans = 2
  MaxCrashes = 0
CHECK_DEADLOCK FALSE
INVARIANTS
  MergeExclusive
  MergeMarksOwned
PROPERTIES
  PromiseResolved
  DropQueueDrains
