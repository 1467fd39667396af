CONSTANTS
  Threads = {t1, t2}
  Keys = {2, 4}
  NumBuckets = 2
  MaxCollisions = 1
  OpSets = {{}, {"Set", "Find"}, {"Set", "Find", "Remove"}}
  MaxSets = 3
  RingThreads = {t1, t2}
  RingDepth = 2
  MAX_YIELDS = 2
  MaxPasses = 1
  MaxRingCalls = 5
  LockThreads = {t1, t2}
  MaxLocks = 4
  WorkDepths = {0, 2, 3}
  Assigned = {1, 2, 3}
  MaxThrows = 2
  Junk = Junk
SPECIFICATION TablesSpec
INVARIANTS TablesInv FindAgrees
PROPERTY TableCallsReturn
