CONSTANTS
  Requests = {r1, r2}
  Hctxs = {h1, h2}
  FirstHctx = h1
  NrTags = 3
  NrReserved = 1
  NrSched = 2
  MinShare = 1
  Paused = {h1}
  Budget = 2
  Tight = {h2}
  BusyLevels = {1}
  Clients = {c1, c2}
  IOClients = {c1}
  Names = {a, b}
  NoDev = NoDev
  MaxMounted = 2
  MaxBioPages = 2
  PageSectors = 2
  Lengths = {1, 7}
  MaxMounts = 3
  NumThreads = 2
  QueueCounts = {1, 2}
  Depth = 2
  MaxOut = 1
SPECIFICATION Spec
INVARIANTS BlkMQInv BioInv 
PROPERTIES AnsweredAfterBios 
CHECK_DEADLOCK FALSE
