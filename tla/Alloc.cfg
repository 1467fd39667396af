SPECIFICATION MemSpec
CONSTANTS
  NumThreads = 2
  Concurrency = 2
  PagesPerCore = 2
  MaxObjs = 2
  CounterMod = 4
  MaxHeld = 2
  Procs = {1, 2}
  ShmSizes = {5}
  PageBytes = 4
  MaxRegions = 2
  MaxCalls = 5
INVARIANTS  ShmemInv
PROPERTIES  MemoryCallsReturn
