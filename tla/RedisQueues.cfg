SPECIFICATION LiveSpec
CONSTANTS
  Files = {f1, f2, f3}
  f1 = f1
  f2 = f2
  f3 = f3
  Workers = {w1, w2}
  Size <- MCSize
  Queues <- MCQueues
  NoTime = NoTime
  Timeout = 2
CHECK_DEADLOCK FALSE
INVARIANTS TypeOK NoFileLost ExclusiveWithinTimeout FinishedOnTime
PROPERTIES EveryFileHanded OrphanRedelivered
