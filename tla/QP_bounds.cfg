CONSTANTS
  Clients = {c}
  Requests = {r1, r2, r3, r4}
  NoRequest = NoRequest
  MaxDepth = 2
  CounterMod = 4
  Workers = {"user", "kernel"}
  Builds = {"debug", "release"}
  Windows = {1, 2, 4}
  StrayTo = {"kernel"}
  StrayWindow = 2
SPECIFICATION FairSpec
INVARIANT QPInv
PROPERTIES EveryCallReturns
CHECK_DEADLOCK FALSE
