CONSTANTS
  NumWorkers = 2
  NumQueues = 2
  Depths = {4}
  MaxStarts = 2
  None = None
SPECIFICATION FairSpec
INVARIANTS KernelInv
PROPERTIES UnloadEnds RequestServed
CHECK_DEADLOCK FALSE
