SPECIFICATION Spec
CONSTANTS
    Word = 4096
    RegionSizes = {500, 1203, 1500, 2600}
    MinRequests = {0, 100}
    Units = {20, 64}
    Depths = {2, 10, 40}
    NumQueues = {1, 3, 36}
    Cpus = {1, 2, 9}
    Entries = {1, 16, 17, 40}
    Kinds = {"client", "kernel", "private", "namespace"}
    Workloads <- AllWorkloads
    NumWorkers = 2
    NumKernel = 2
    FileThreads = {0, 1}
    NumCPU = {1, 2}
    Paths <- AllPaths
    Mounts <- AllMounts
    MaxOpens = 2
    MaxIO = 1
    RepoLists <- AllRepoLists
    LoadThreads = {0, 1}
    MaxLoads = 3
CHECK_DEADLOCK FALSE
INVARIANTS  PathInv AnswerIsOwn   ModulesInv
 
