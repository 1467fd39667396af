CONSTANTS
  Clients = {c1, c2}
  NoClient = NoClient
  NumWorkers = 2
  NumTables = 2
  NumIds = 2
  MaxCalls = 3
SPECIFICATION FairSpec
INVARIANTS BlkdevInv AnswerMatchesTable
PROPERTIES RegisterReturns
CHECK_DEADLOCK FALSE
