SPECIFICATION Spec
CONSTANTS
  w1 = w1
  w2 = w2
  k1 = k1
  k2 = k2
  NoObject = NoObject
  Writers = {w1, w2}
  Keys = {k1, k2}
  maxKVFlushRetries = 3
  MaxOutstanding = 2
  MaxWrites = 4
  MaxFaults = 1
SYMMETRY MCSymmetry
CHECK_DEADLOCK FALSE
INVARIANTS TypeOK AckedStored SoleDurable
