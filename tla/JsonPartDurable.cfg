SPECIFICATION Spec
CONSTANTS
  p1 = p1
  p2 = p2
  p3 = p3
  Blank = Blank
  Paths <- MCPaths
  EntryMin <- MCMin
  EntryMax <- MCMax
  EntrySize <- MCSize
  Iteration <- MCIteration
  MaxSize <- MCMaxSize
  Requests <- MCRequests
  Workers = {}
  MaxBatches = 3
  MaxPlans = 0
  MaxCrashes = 1
CHECK_DEADLOCK FALSE
INVARIANTS
  TypeOK
  AckedDurable
  TimeEnvelope
  RowCountExact
  QuiescentSync
