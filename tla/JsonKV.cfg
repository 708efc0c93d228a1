SPECIFICATION LiveSpec
CONSTANTS
  k1 = k1
  k2 = k2
  Keys = {k1, k2}
  NoFile = NoFile
  Torn = Torn
  MaxOutstanding = 2
  MaxWrites = 4
  MaxFailures = 1
  MaxCrashes = 2
CHECK_DEADLOCK FALSE
INVARIANTS TypeOK Loadable
PROPERTIES ImplementsKVStore
  WriteReturns
