SPECIFICATION Spec
CONSTANTS
  w1 = w1
  w2 = w2
  p1 = p1
  p2 = p2
  p3 = p3
  NoObject = NoObject
  NoETag = NoETag
  Writers = {w1, w2}
  Paths = {p1, p2, p3}
  Requests <- MCAdds
  maxFlushRetries = 3
  MaxOutstanding = 2
  MaxBatches <- MCUneven
  MaxFailures = 0
  MaxSurprises = 0
  MaxCrashes = 0
CHECK_DEADLOCK FALSE
INVARIANTS
  EveryAckedStored
