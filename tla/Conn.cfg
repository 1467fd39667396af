CONSTANTS
  NumConns = 2
  NumQueues = 2
  NumWorkers = 2
  None = None
  Pids = 2
  WorkQueueDepths = {1, 2}
  MaxCrashes = 2
SPECIFICATION FairSpec
INVARIANTS ConnectInv ReadyIsPolled
 
CHECK_DEADLOCK FALSE
