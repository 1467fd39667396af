CONSTANTS
  NumClients = 2
  NumWorkers = 2
  NumModules = 2
  Keys = {k1, k2}
  MaxEntries = 2
  MaxCalls = 4
  CallSets = {{"init", "id", "open"}, {"init", "odd init", "upgrade", "terminate"}}
  None = None
SPECIFICATION FairSpec
INVARIANTS RegistryInv LoadedMatches
PROPERTY CallsReturn
CHECK_DEADLOCK FALSE
