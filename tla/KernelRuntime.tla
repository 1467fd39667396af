--------------------------- MODULE KernelRuntime ---------------------------
(***************************************************************************)
(* The kernel side of the runtime and the server process that sets it up:  *)
(* the modules secure_shmem, ipc_manager and work_orchestrator, loaded and *)
(* unloaded by the administrator, the netlink requests the server makes    *)
(* while it starts, and the kernel worker threads.                         *)
(*                                                                         *)
(* A netlink request is handled in the context of its sender, so each one  *)
(* is a single step.  The server may be killed at any point and started    *)
(* again; nothing it created in the kernel goes away with it.  A module    *)
(* that others use, or whose device some process has mapped, cannot be     *)
(* unloaded (the kernel counts these uses).  The base module               *)
(* labstor_kernel_server stays loaded and small allocations succeed.       *)
(*                                                                         *)
(* The work queues of the kernel workers share one region.  Its layout is  *)
(* modelled in units of four bytes, the size of labstor_off_t: a header    *)
(* has three, and an entry, a pointer, has two.                            *)
(***************************************************************************)
EXTENDS Integers, Sequences, FiniteSets

CONSTANTS
    NumWorkers,  \* kernel_workers
    NumQueues,   \* num_queues of the kernel configuration
    Depths,      \* choices of work_queue_depth
    MaxStarts,   \* bound: starts of the server
    None

ASSUME KernelAssumption ==
    /\ NumWorkers \in Nat \ {0} /\ NumQueues \in Nat /\ Depths \subseteq Nat
    /\ MaxStarts \in Nat

KernelModules == {"secure_shmem", "ipc_manager", "work_orchestrator"}
Workers == 0..(NumWorkers - 1)
Spawns == 1..MaxStarts  \* calls of spawn_workers; also runs of the server
QPs == 1..NumQueues

VARIABLES
    depth,     \* work_queue_depth: fixed
    stride,    \* how the hashes of queue ids spread over the workers: fixed
    mods,      \* kernel modules that are loaded
    exiting,   \* work_orchestrator is being unloaded
    keep,      \* keep_running
    pc, run,   \* the server: next step of its start, number of its run
    mine,      \* the region ids it got
    maps,      \* the regions it has mapped
    regions,   \* region_map
    nextId,    \* cur_region_id
    grants,    \* pid_regions
    ipcRegion, \* ipc_manager_
    array,     \* the spawn whose workers the array holds, or 0
    booted,    \* the spawn of the server's present run, or 0
    thr,       \* worker threads of each spawn
    mem,       \* regions of each spawn: work queues, queue pairs
    wq,        \* queue pairs in each work queue
    pending,   \* kernel queue pairs with a request
    oops,      \* why the kernel faulted, or None
    mid,       \* history: modules changed while the server was starting
    respawned  \* history: workers were spawned over others or while exiting

fixed == <<depth, stride>>
module == <<mods, exiting, keep>>
server == <<pc, run, mine, maps, booted, pending>>
shmem == <<regions, nextId, grants>>
workers == <<array, thr, mem, wq>>
vars == <<depth, stride, mods, exiting, keep, pc, run, mine, maps, regions, nextId,
          grants, ipcRegion, array, booted, thr, mem, wq, pending, oops,
          mid, respawned>>

-----------------------------------------------------------------------------
(* Work queues: their place in the region, in units of four bytes *)

\* GetSize counts an entry as one unit.
GetSize(d) == 3 + d

\* Init is given GetSize(depth) units and counts an entry as two.
MaxDepth == (GetSize(depth) - 3) \div 2

\* Slip: one unit of the header is forgotten.
Base_ShortHeader(w) == w * (GetSize(MaxDepth) - 1)

\* GetNextSection, worker after worker.
Base(w) == w * GetSize(MaxDepth)

Header(w) == Base(w)..(Base(w) + 2)
Entry(w, i) == (Base(w) + 3 + 2 * (i - 1))..(Base(w) + 4 + 2 * (i - 1))
Taken(s, w) == Header(w) \cup UNION {Entry(w, i) : i \in 1..Len(wq[s][w])}

\* Work queues written over by another worker's.
Clobbered(s, w) == \E v \in Workers \ {w} : Taken(s, v) \cap Taken(s, w) # {}

-----------------------------------------------------------------------------

\* The netlink requests of the start, in order: a region is created, granted
\* to the server's pid and mapped.
Shmem(r) == <<<<"create", r>>, <<"grant", r>>, <<"map", r>>>>

InitializeKernelIPCManager == Shmem("kernel ipc") \o <<<<"register", 0>>>>

\* Setting the affinity of a kernel worker is what wakes it.
CreateWorkers ==
    Shmem("work queues") \o <<<<"spawn", 0>>>>
      \o [w \in 1..NumWorkers |-> <<"affinity", w - 1>>]

CreateKernelQueues == <<<<"assign", 0>>>>

\* Slip: the workers are created before the kernel's IPC manager.
Startup_WorkersFirst ==
    Shmem("namespace") \o CreateWorkers \o InitializeKernelIPCManager \o CreateKernelQueues

Startup ==
    Shmem("namespace") \o InitializeKernelIPCManager \o CreateWorkers \o CreateKernelQueues

Down == 0
Running == pc = Len(Startup) + 1
Starting == pc \in 1..Len(Startup)
Arg == Startup[pc][2]

Idle == [w \in Workers |-> "none"]

Init ==
    /\ depth \in Depths
    /\ stride \in 0..(NumWorkers - 1)
    /\ mods = KernelModules /\ exiting = FALSE /\ keep = TRUE
    /\ pc = Down /\ run = 0 /\ maps = {}
    /\ mine = [r \in {"namespace", "kernel ipc", "work queues"} |-> None]
    /\ regions = {} /\ nextId = 0 /\ grants = {}
    /\ ipcRegion = None
    /\ array = 0 /\ booted = 0
    /\ thr = [s \in Spawns |-> Idle]
    /\ mem = [s \in Spawns |-> {}]
    /\ wq = [s \in Spawns |-> [w \in Workers |-> <<>>]]
    /\ pending = {} /\ oops = None
    /\ mid = FALSE /\ respawned = FALSE

-----------------------------------------------------------------------------
(* The administrator: insmod and rmmod *)

Needs(m) ==
    CASE m = "secure_shmem" -> {}
      [] m = "ipc_manager" -> {"secure_shmem"}
      [] m = "work_orchestrator" -> {"secure_shmem", "ipc_manager"}

Changes ==
    /\ oops = None
    /\ mid' = (mid \/ Starting)
    /\ UNCHANGED <<fixed, server, oops>>

Load(m) ==
    /\ Changes
    /\ m \notin mods /\ Needs(m) \subseteq mods
    /\ mods' = mods \cup {m}
    /\ nextId' = IF m = "secure_shmem" THEN 0 ELSE nextId
    /\ ipcRegion' = IF m = "ipc_manager" THEN None ELSE ipcRegion
    /\ keep' = (keep \/ m = "work_orchestrator")
    /\ UNCHANGED <<exiting, regions, grants, workers, respawned>>

Unused(m) == m \in mods /\ \A n \in mods : m \notin Needs(n)

FreeAllRegions == regions' = {} /\ grants' = {}

UnloadShmem ==
    /\ Changes
    /\ Unused("secure_shmem") /\ maps = {}
    /\ mods' = mods \ {"secure_shmem"}
    /\ FreeAllRegions
    /\ UNCHANGED <<exiting, keep, nextId, ipcRegion, workers, respawned>>

UnloadIpcManager ==
    /\ Changes
    /\ Unused("ipc_manager")
    /\ mods' = mods \ {"ipc_manager"}
    /\ UNCHANGED <<exiting, keep, shmem, ipcRegion, workers, respawned>>

\* exit_work_orchestrator_kernel: ask the workers to stop, wait until each of
\* them said so, and go.  Requests are still handled while it waits.
ExitStop ==
    /\ Changes
    /\ Unused("work_orchestrator") /\ ~exiting
    /\ keep' = FALSE /\ exiting' = TRUE
    /\ UNCHANGED <<mods, shmem, ipcRegion, workers, respawned>>

WorkersStopped ==
    array # 0 => \A w \in Workers : thr[array][w] \in {"acked", "ended"}

\* Slip: the wait is left out.
ExitFree_NoWait ==
    /\ Changes
    /\ exiting
    /\ exiting' = FALSE /\ mods' = mods \ {"work_orchestrator"}
    /\ array' = 0
    /\ thr' = [s \in Spawns |-> [w \in Workers |->
            CASE thr[s][w] \in {"woken", "running"} -> "orphan"
              [] thr[s][w] = "acked" -> "late"
              [] OTHER -> thr[s][w]]]
    /\ UNCHANGED <<keep, shmem, ipcRegion, mem, wq, respawned>>

\* A thread that is not done now runs code that is gone: one that never saw
\* keep_running change, or one that has yet to return.
ExitFree ==
    /\ Changes
    /\ exiting /\ WorkersStopped
    /\ exiting' = FALSE /\ mods' = mods \ {"work_orchestrator"}
    /\ array' = 0
    /\ thr' = [s \in Spawns |-> [w \in Workers |->
            CASE thr[s][w] \in {"woken", "running"} -> "orphan"
              [] thr[s][w] = "acked" -> "late"
              [] OTHER -> thr[s][w]]]
    /\ UNCHANGED <<keep, shmem, ipcRegion, mem, wq, respawned>>

-----------------------------------------------------------------------------
(* The server *)

Start ==
    /\ oops = None /\ pc = Down /\ run < MaxStarts
    /\ pc' = 1 /\ run' = run + 1
    /\ UNCHANGED <<fixed, module, mine, booted, maps, shmem, ipcRegion, workers, pending, oops,
                   mid, respawned>>

\* The process ends, by an error of its own or because it is killed.
Ends ==
    /\ pc' = Down /\ maps' = {} /\ pending' = {} /\ booted' = 0
    /\ mine' = [r \in DOMAIN mine |-> None]
    /\ UNCHANGED run

Killed ==
    /\ oops = None /\ pc # Down
    /\ Ends
    /\ UNCHANGED <<fixed, module, shmem, ipcRegion, workers, oops, mid, respawned>>

Goes == pc' = pc + 1 /\ UNCHANGED <<run, pending>>

\* A step of the start; server_loop answers -1 for a module that is absent.
Step(op) ==
    /\ oops = None /\ Starting /\ Startup[pc][1] = op
    /\ UNCHANGED <<fixed, module, mid>>

ReserveShmem ==
    /\ Step("create")
    /\ \/ /\ "secure_shmem" \in mods
          /\ nextId' = nextId + 1
          /\ regions' = regions \cup {nextId'}
          /\ mine' = [mine EXCEPT ![Arg] = nextId']
          /\ Goes
          /\ UNCHANGED <<maps, booted>>
       \/ Ends /\ UNCHANGED <<regions, nextId>>  \* absent, or no memory
    /\ UNCHANGED <<grants, ipcRegion, workers, oops, respawned>>

\* The answer is not looked at.
GrantPidShmem ==
    /\ Step("grant")
    /\ grants' = IF "secure_shmem" \in mods /\ mine[Arg] \in regions
                   THEN grants \cup {<<run, mine[Arg]>>} ELSE grants
    /\ Goes
    /\ UNCHANGED <<mine, maps, booted, regions, nextId, ipcRegion, workers, oops, respawned>>

MapShmem ==
    /\ Step("map")
    /\ IF "secure_shmem" \in mods /\ <<run, mine[Arg]>> \in grants
         THEN maps' = maps \cup {mine[Arg]} /\ Goes /\ UNCHANGED <<mine, booted>>
         ELSE Ends
    /\ UNCHANGED <<shmem, ipcRegion, workers, oops, respawned>>

\* Register of the IPC manager takes the -1 of an absent module for an address.
RegisterIpcManager ==
    /\ Step("register")
    /\ IF "ipc_manager" \notin mods
         THEN Goes /\ UNCHANGED <<mine, maps, booted, ipcRegion>>
         ELSE IF mine["kernel ipc"] \in regions
                THEN /\ ipcRegion' = mine["kernel ipc"]
                     /\ Goes /\ UNCHANGED <<mine, maps, booted>>
                ELSE Ends /\ UNCHANGED ipcRegion
    /\ UNCHANGED <<shmem, workers, oops, respawned>>

\* spawn_workers: the array of an earlier spawn is forgotten, its threads stay.
SpawnWorkers ==
    /\ Step("spawn")
    /\ IF "work_orchestrator" \in mods
         THEN /\ array' = run /\ booted' = run
              /\ thr' = [thr EXCEPT ![run] = [w \in Workers |-> "created"]]
              /\ mem' = [mem EXCEPT ![run] = {mine["work queues"], mine["kernel ipc"]}]
              /\ respawned' = (respawned \/ array # 0 \/ exiting)
         ELSE UNCHANGED <<array, booted, thr, mem, respawned>>
    /\ Goes
    /\ UNCHANGED <<mine, maps, shmem, ipcRegion, wq, oops>>

SetWorkerAffinity ==
    /\ Step("affinity")
    /\ \/ "work_orchestrator" \notin mods /\ UNCHANGED <<thr, oops>>
       \/ /\ "work_orchestrator" \in mods /\ array = 0
          /\ oops' = "null array" /\ UNCHANGED thr
       \/ /\ "work_orchestrator" \in mods /\ array # 0
          /\ thr' = [thr EXCEPT ![array][Arg] = IF @ = "created" THEN "woken" ELSE @]
          /\ UNCHANGED oops
    /\ Goes
    /\ UNCHANGED <<mine, maps, booted, shmem, ipcRegion, array, mem, wq, respawned>>

\* Hash() % num_workers_; with stride 0 every queue pair has the same worker.
WorkerOf(q) == ((q - 1) * stride) % NumWorkers

\* Queue pairs of worker w in the order of the request; Enqueue refuses what
\* does not fit, and nobody looks.
Enqueued(w, fits) ==
    LET Mine == {q \in QPs : WorkerOf(q) = w}
        Place(q) == Cardinality({p \in Mine : p <= q})
        n == IF Cardinality(Mine) < fits THEN Cardinality(Mine) ELSE fits
    IN  [i \in 1..n |-> <<run, CHOOSE q \in Mine : Place(q) = i>>]

\* Slip: the last queue pair of the request is left out.
AssignQueuePairs_Short ==
    /\ Step("assign")
    /\ IF "work_orchestrator" \in mods /\ ipcRegion # None /\ array # 0
         THEN wq' = [wq EXCEPT ![array] = [w \in Workers |->
                        SelectSeq(Enqueued(w, MaxDepth), LAMBDA q : q[2] < NumQueues)]]
         ELSE UNCHANGED wq
    /\ UNCHANGED oops
    /\ Goes
    /\ UNCHANGED <<mine, maps, booted, shmem, ipcRegion, array, thr, mem, respawned>>

\* register_qp.
AssignQueuePairs ==
    /\ Step("assign")
    /\ \/ /\ "work_orchestrator" \notin mods \/ ipcRegion = None
          /\ UNCHANGED <<wq, oops>>
       \/ /\ "work_orchestrator" \in mods /\ ipcRegion # None /\ array = 0
          /\ oops' = "null array" /\ UNCHANGED wq
       \/ /\ "work_orchestrator" \in mods /\ ipcRegion # None /\ array # 0
          /\ wq' = [wq EXCEPT ![array] = [w \in Workers |-> Enqueued(w, MaxDepth)]]
          /\ UNCHANGED oops
    /\ Goes
    /\ UNCHANGED <<mine, maps, booted, shmem, ipcRegion, array, thr, mem, respawned>>

\* A module of the server puts a request into a kernel queue pair.
Submit(q) ==
    /\ oops = None /\ Running /\ <<run, q>> \notin pending
    /\ pending' = pending \cup {<<run, q>>}
    /\ UNCHANGED <<fixed, module, pc, run, mine, maps, booted, shmem, ipcRegion,
                   workers, oops, mid, respawned>>

-----------------------------------------------------------------------------
(* Worker threads: worker_runtime *)

Thread(s, w, from, to) ==
    /\ oops = None /\ thr[s][w] = from
    /\ thr' = [thr EXCEPT ![s][w] = to]
    /\ UNCHANGED <<fixed, module, server, shmem, ipcRegion, array, mem, wq, oops,
                   mid, respawned>>

\* Without an IPC manager the thread returns and never says that it stopped.
WorkerStart(s, w) ==
    Thread(s, w, "woken", IF ipcRegion = None THEN "failed" ELSE "running")

\* A request is dequeued and handled by its module, or failed when there is
\* none; pointers out of a work queue that was written over are followed.
WorkerPoll(s, w, q) ==
    /\ oops = None /\ thr[s][w] = "running" /\ keep
    /\ \/ /\ ~Clobbered(s, w)
          /\ \E i \in 1..Len(wq[s][w]) : wq[s][w][i] = q
          /\ q \in pending
          /\ pending' = pending \ {q}
          /\ UNCHANGED oops
       \/ /\ Clobbered(s, w)
          /\ oops' = "wild pointer" /\ UNCHANGED pending
    /\ UNCHANGED <<fixed, module, pc, run, mine, maps, booted, shmem, ipcRegion,
                   workers, mid, respawned>>

\* Slip: the thread returns without complete_ack_.
WorkerStop_NoAck(s, w) == ~keep /\ Thread(s, w, "running", "failed")

WorkerStop(s, w) == ~keep /\ Thread(s, w, "running", "acked")

WorkerReturn(s, w) == Thread(s, w, "acked", "ended")

\* A thread goes on in the code of a module that was unloaded.
RunsGoneCode(s, w) ==
    /\ oops = None /\ thr[s][w] \in {"orphan", "late"}
    /\ oops' = "gone code"
    /\ UNCHANGED <<fixed, module, server, shmem, ipcRegion, workers, mid, respawned>>

-----------------------------------------------------------------------------

Admin ==
    \/ \E m \in KernelModules : Load(m)
    \/ UnloadShmem \/ UnloadIpcManager \/ ExitStop

Main ==
    \/ ReserveShmem \/ GrantPidShmem \/ MapShmem \/ RegisterIpcManager
    \/ SpawnWorkers \/ SetWorkerAffinity \/ AssignQueuePairs

Work(s, w) ==
    \/ WorkerStart(s, w) \/ WorkerStop(s, w) \/ WorkerReturn(s, w)
    \/ \E q \in QPs : WorkerPoll(s, w, <<s, q>>)

Next ==
    \/ Admin \/ ExitFree
    \/ Start \/ Killed \/ Main
    \/ \E q \in QPs : Submit(q)
    \/ \E s \in Spawns, w \in Workers : Work(s, w) \/ RunsGoneCode(s, w)

Spec == Init /\ [][Next]_vars

\* Kernel threads and the rmmod that waits for them are scheduled: both loops
\* yield.  A worker takes the queue pairs of a pass in turn, so none of them
\* is passed over for ever.
FairSpec ==
    /\ Spec
    /\ \A s \in Spawns, w \in Workers :
        /\ WF_vars(WorkerStart(s, w)) /\ WF_vars(WorkerStop(s, w))
        /\ \A q \in QPs : WF_vars(WorkerPoll(s, w, <<s, q>>))
    /\ WF_vars(ExitFree)

-----------------------------------------------------------------------------
(* Properties *)

\* Types of the modules, regions, threads and work queues.
TypeOK ==
    /\ mods \subseteq KernelModules /\ exiting \in BOOLEAN /\ keep \in BOOLEAN
    /\ pc \in 0..(Len(Startup) + 1) /\ run \in 0..MaxStarts
    /\ array \in 0..MaxStarts /\ booted \in 0..MaxStarts
    /\ regions \subseteq 1..nextId /\ grants \subseteq Spawns \X (1..nextId)
    /\ thr \in [Spawns -> [Workers ->
            {"none", "created", "woken", "running", "acked", "ended", "failed",
             "orphan", "late"}]]
    /\ \A s \in Spawns, w \in Workers : Len(wq[s][w]) <= MaxDepth
    /\ pending \subseteq Spawns \X QPs

\* What the server mapped is allocated.  A kernel worker that polls has its
\* module loaded, and its work queue and queue pairs lie in live regions, over any sequence of
\* unloads, server restarts and kills; and unless workers were spawned
\* over others, or during the exit, no thread that still polls is left behind
\* by the unload (exit_work_orchestrator_kernel waits for complete_ack_).
PollsLiveMemory ==
    /\ maps \subseteq regions
    /\ \A s \in Spawns, w \in Workers :
          /\ thr[s][w] = "running" => "work_orchestrator" \in mods /\ mem[s] \subseteq regions
          /\ thr[s][w] = "orphan" => respawned

\* The order of the server's start protects the kernel: no worker is woken
\* before the IPC manager has its region (worker_runtime would return without
\* complete_ack_ and the unload wait for ever), and no request reaches an
\* orchestrator without workers, unless modules were changed meanwhile.
StartupOrderSafe ==
    \/ mid
    \/ /\ \A s \in Spawns, w \in Workers : thr[s][w] # "failed"
       /\ oops # "null array"

\* As long as no worker has more than a quarter of work_queue_depth queue
\* pairs, no work queue is written over by another: GetSize counts four bytes
\* for an entry of eight, and GetNextSection uses it.
WorkQueuesDisjoint ==
    \A s \in Spawns :
        (\A w \in Workers : Len(wq[s][w]) <= depth \div 4)
            => \A w \in Workers : ~Clobbered(s, w)

\* The types, no worker that polls freed memory, a start in an order that is
\* safe, and work queues apart: what spawn_workers and the unloads keep over any
\* sequence of starts and kills.
KernelInv == TypeOK /\ PollsLiveMemory /\ StartupOrderSafe /\ WorkQueuesDisjoint

\* Unloading work_orchestrator comes to its end once every worker of the array
\* was woken (set_worker_affinity; one that never ran cannot answer), unless
\* modules were changed while the server was starting.
UnloadEnds ==
    exiting ~> \/ ~exiting \/ oops # None
               \/ array # 0 /\ \E w \in Workers : thr[array][w] = "created"
               \/ mid

Fits == \A w \in Workers : Cardinality({q \in QPs : WorkerOf(q) = w}) <= depth \div 4

\* A request put into any kernel queue pair is taken by a worker, whatever
\* earlier runs of the server left in the kernel, if the start met a loaded
\* orchestrator, no module was changed during it and the queue pairs fit,
\* unless the module is being unloaded or the server ends.
RequestServed ==
    \A q \in QPs :
        (<<run, q>> \in pending /\ booted = run /\ array = run /\ Fits /\ ~mid)
            ~> (<<run, q>> \notin pending \/ exiting \/ oops # None)
=============================================================================
