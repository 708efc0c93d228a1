SPECIFICATION Spec
CONSTANTS
  w1 = w1
  w2 = w2
  p1 = p1
  p2 = p2
  p3 = p3
  NoObject = NoObject
  NoETag = NoETag
  Writers = {w1}
  Paths = {p1, p2, p3}
  Requests <- MCRequests
  maxFlushRetries = 3
  MaxOutstanding = 3
  MaxBatches <- MCThree
  MaxFailures = 1
  MaxSurprises = 0
  MaxCrashes = 1
CHECK_DEADLOCK FALSE
INVARIANTS
  TypeOK
  AckedDurable
