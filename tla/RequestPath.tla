---------------------------- MODULE RequestPath ----------------------------
(***************************************************************************)
(* The whole way of a request.  The threads of a client take a queue pair  *)
(* from their pool by thread id, allocate pages, enqueue a batch and wait; *)
(* the server's workers peek at the queues assigned to them and run the    *)
(* module the request names; the IPC test module passes the request on to  *)
(* the kernel's worker over a kernel queue pair, also taken by thread id.  *)
(*                                                                         *)
(* Rings are built without locks, so an enqueue is two steps: the check of *)
(* the counters, and the store that publishes the page.  raced records     *)
(* that two threads met between them on one ring; what the ring holds then *)
(* is undefined, and no behaviour is followed further.                     *)
(***************************************************************************)
EXTENDS Integers, Sequences, FiniteSets

CONSTANTS
    Workloads,     \* the clients tried: thread ids, num_queues, the modules
                   \* called, requests in one call, calls of one thread;
                   \* queue_depth; the ids of the workers' threads; the
                   \* pages of the client's and the kernel's allocator
    NumWorkers,    \* server_workers
    NumKernel      \* num_queues of the kernel

ASSUME PathAssumption ==
    /\ \A l \in Workloads :
         /\ l.threads \subseteq Nat /\ {l.num_queues, l.depth, l.batch, l.pages, l.kpages} \subseteq Nat \ {0}
         /\ l.calls \in Nat /\ l.tids \in [0..(NumWorkers - 1) -> Nat]
         /\ \A v, w \in DOMAIN l.tids : v # w => l.tids[v] # l.tids[w]
         /\ l.services \subseteq {"Dummy", "IPCTest", "Unknown", "BlockFS", "NoOp"}
    /\ {NumWorkers, NumKernel} \subseteq Nat \ {0}

VARIABLES
    load,        \* the workload: fixed
    sq, cq,      \* every ring: counters and slots; every map: its buckets
    free, kfree, \* pages on the allocators' free lists
    page,        \* client pages: what the request says
    krq,         \* kernel pages: has the kernel answered
    client,      \* each thread: location and what it holds
    worker,      \* each worker: location and what it holds
    kernel,      \* the kernel's worker
    fault,       \* the server process has died
    raced, strayed, calls

fixed == load
queues == <<sq, cq>>
memory == <<free, kfree, page, krq>>
actors == <<client, worker, kernel>>
history == <<raced, strayed, calls>>
pathvars == <<fixed, queues, memory, actors, fault, history>>

Workers == 0..(NumWorkers - 1)
AllThreads == UNION {l.threads : l \in Workloads}
Threads == load.threads
Depth == load.depth
Pages == 1..load.pages
KPages == 101..(100 + load.kpages)
None == 0

-----------------------------------------------------------------------------
(* Pools of queue pairs *)

Private == 1         \* LABSTOR_QP_PRIVATE
Intermediate == 16   \* LABSTOR_QP_INTERMEDIATE; every other flag used is 0

\* Queue pairs registered under an owner and flags: CreateQueuesSHMEM,
\* CreateKernelQueues and CreatePrivateQueues register nothing else.
GetNumQueuePairs(owner, flags) ==
    CASE owner = "client" /\ flags = 0 -> load.num_queues
      [] owner = "kernel" /\ flags = Intermediate -> NumKernel
      [] owner = "server" /\ flags = Private + Intermediate -> NumWorkers
      [] OTHER -> 0

\* Positions are given out in the order of registration, so that the count in
\* the id is the place in the pool.  Only for a pool that is not empty.
GetQID(owner, flags, hash) ==
    [pid |-> owner, cnt |-> hash % GetNumQueuePairs(owner, flags)]

ClientQueues == {[pid |-> "client", cnt |-> i] : i \in 0..(load.num_queues - 1)}
KernelQueues == {[pid |-> "kernel", cnt |-> i] : i \in 0..(NumKernel - 1)}
Queues == ClientQueues \union KernelQueues

\* AssignQueuePair: the i-th queue pair of a client goes to worker i modulo the
\* number of workers.
AssignQueuePair(q) == q.cnt % NumWorkers

GetDepth(q) == sq[q].enqueued - sq[q].dequeued
Front(q) == sq[q].slot[sq[q].dequeued % Depth]
Bucket(q, id) == cq[q][id % Depth]

-----------------------------------------------------------------------------

NoCall == [at |-> "idle", svc |-> "", toks |-> <<>>, rq |-> None, entry |-> 0]
Polling == [at |-> "poll", q |-> [pid |-> "", cnt |-> 0], rq |-> None, krq |-> None, entry |-> 0]

\* The behaviours of the workloads in ls.
PathInit(ls) ==
    /\ load \in ls
    /\ sq = [q \in Queues |-> [enqueued |-> 0, dequeued |-> 0,
                               slot |-> [s \in 0..(Depth - 1) |-> None]]]
    /\ cq = [q \in Queues |-> [s \in 0..(Depth - 1) |-> None]]
    /\ free = Pages /\ kfree = KPages
    /\ page = [p \in Pages |-> [svc |-> "", id |-> 0, code |-> 0, answer |-> "",
                                kq |-> [pid |-> "", cnt |-> 0], kid |-> 0]]
    /\ krq = [k \in KPages |-> [id |-> 0, answer |-> ""]]
    /\ client = [c \in Threads |-> NoCall]
    /\ worker = [w \in Workers |-> Polling]
    /\ kernel = [at |-> "poll", q |-> [pid |-> "", cnt |-> 0], rq |-> None]
    /\ fault = FALSE /\ raced = FALSE /\ strayed = {}
    /\ calls = [c \in Threads |-> 0]

\* Who is between the check and the store of an enqueue on q.
Enqueuing(q) ==
    {c \in Threads : client[c].at = "store" /\ GetQID("client", 0, c) = q}
      \union {w \in Workers : worker[w].at = "store"
                                /\ GetQID("kernel", Intermediate, load.tids[w]) = q}

Store(q, entry, p) ==
    sq' = [sq EXCEPT ![q].slot[entry % Depth] = p, ![q].enqueued = @ + 1]

-----------------------------------------------------------------------------
(* The client *)

\* Dummy::Client::GetValue and IPCTest::Client::Start, or a call of another
\* module: a batch of requests is enqueued before the first is waited for.
Call(c, s) ==
    /\ client[c].at = "idle" /\ calls[c] < load.calls
    /\ client' = [client EXCEPT ![c] = [NoCall EXCEPT !.at = "alloc", !.svc = s]]
    /\ calls' = [calls EXCEPT ![c] = @ + 1]
    /\ strayed' = IF s \in {"Dummy", "IPCTest"} THEN strayed
                                                ELSE strayed \union {s}
    /\ UNCHANGED <<fixed, queues, memory, worker, kernel, fault, raced>>

\* AllocRequest and Start; without a page the thread writes through NULL.
AllocRequest(c) ==
    /\ client[c].at = "alloc"
    /\ \/ /\ free = {}
          /\ client' = [client EXCEPT ![c].at = "crashed"]
          /\ UNCHANGED <<free, page>>
       \/ \E p \in free :
            /\ free' = free \ {p}
            /\ page' = [page EXCEPT ![p].svc = client[c].svc, ![p].code = 0,
                                    ![p].answer = ""]
            /\ client' = [client EXCEPT ![c].at = "check", ![c].rq = p]
    /\ UNCHANGED <<fixed, queues, kfree, krq, worker, kernel, fault, history>>

EnqueueCheck(c) ==
    LET q == GetQID("client", 0, c) IN
    /\ client[c].at = "check" /\ GetDepth(q) # Depth
    /\ client' = [client EXCEPT ![c].at = "store", ![c].entry = sq[q].enqueued]
    /\ raced' = (raced \/ Enqueuing(q) # {})
    /\ UNCHANGED <<fixed, queues, memory, worker, kernel, fault, strayed, calls>>

EnqueueStore(c) ==
    LET q == GetQID("client", 0, c)
        me == client[c]
        toks == Append(me.toks, [id |-> me.entry, rq |-> me.rq])
    IN /\ me.at = "store"
       /\ Store(q, me.entry, me.rq)
       /\ page' = [page EXCEPT ![me.rq].id = me.entry]
       /\ client' = [client EXCEPT ![c].toks = toks, ![c].rq = None,
                       ![c].at = IF Len(toks) = load.batch THEN "wait" ELSE "alloc"]
       /\ UNCHANGED <<fixed, cq, free, kfree, krq, worker, kernel, fault, history>>

\* Wait takes what lies in the token's bucket.  The IPC test does
\* not free it.  The tokens' pages are kept for the properties.
Wait(c) ==
    LET q == GetQID("client", 0, c)
        me == client[c]
        t == me.toks[1]
        rest == Tail(me.toks)
        got == Bucket(q, t.id)
    IN /\ me.at = "wait" /\ got # None
       /\ cq' = [cq EXCEPT ![q][t.id % Depth] = None]
       /\ free' = IF me.svc = "IPCTest" THEN free ELSE free \union {got}
       /\ client' = [client EXCEPT ![c] = IF rest = <<>> THEN NoCall
                                          ELSE [me EXCEPT !.toks = rest]]
       /\ UNCHANGED <<fixed, sq, kfree, page, krq, worker, kernel, fault, history>>

-----------------------------------------------------------------------------
(* A worker of the server.  It holds the queue q and its first request.    *)

Move(w, record) == worker' = [worker EXCEPT ![w] = record]

\* Peek at some queue of the worker: DoWork comes to each of them in turn.  The
\* module the request names is run in the same step up to its first wait.
Peek(w, q, s) ==
    /\ worker[w].at = "poll" /\ ~fault
    /\ AssignQueuePair(q) = w /\ GetDepth(q) # 0
    /\ page[Front(q)].svc = s
Serving(q, at) == [Polling EXCEPT !.at = at, !.q = q, !.rq = Front(q)]

Answer(q, a) == page' = [page EXCEPT ![Front(q)].answer = a]

\* Dummy::Server, and DoWork itself for a module it cannot find.
RunDummy(w, q) ==
    /\ Peek(w, q, "Dummy") /\ Answer(q, "5543")
    /\ Move(w, Serving(q, "complete"))
    /\ UNCHANGED <<fixed, queues, free, kfree, krq, client, kernel, fault, history>>
RunUnknown(w, q) ==
    /\ Peek(w, q, "Unknown") /\ Answer(q, "-1")
    /\ Move(w, Serving(q, "complete"))
    /\ UNCHANGED <<fixed, queues, free, kfree, krq, client, kernel, fault, history>>

\* IPCTest::Server::IPC, code 0: a page for the kernel, then the enqueue.
\* Without a page the worker writes through NULL.
KernelAlloc(w, q) ==
    /\ Peek(w, q, "IPCTest") /\ page[Front(q)].code = 0
    /\ \/ /\ kfree = {} /\ fault' = TRUE
          /\ UNCHANGED <<kfree, worker>>
       \/ \E k \in kfree :
            /\ kfree' = kfree \ {k}
            /\ Move(w, [Serving(q, "check") EXCEPT !.krq = k])
            /\ UNCHANGED fault
    /\ UNCHANGED <<fixed, queues, free, page, krq, client, kernel, history>>

KernelCheck(w) ==
    LET q == GetQID("kernel", Intermediate, load.tids[w]) IN
    /\ worker[w].at = "check" /\ ~fault /\ GetDepth(q) # Depth
    /\ Move(w, [worker[w] EXCEPT !.at = "store", !.entry = sq[q].enqueued])
    /\ raced' = (raced \/ Enqueuing(q) # {})
    /\ UNCHANGED <<fixed, queues, memory, client, kernel, fault, strayed, calls>>

\* The store, and SetCode(1): the next pass over the queue finds code 1.
KernelStore(w) ==
    LET q == GetQID("kernel", Intermediate, load.tids[w])
        me == worker[w]
    IN /\ me.at = "store" /\ ~fault
       /\ Store(q, me.entry, me.krq)
       /\ krq' = [krq EXCEPT ![me.krq].id = me.entry]
       /\ page' = [page EXCEPT ![me.rq].kq = q, ![me.rq].kid = me.entry, ![me.rq].code = 1]
       /\ Move(w, Polling)
       /\ UNCHANGED <<fixed, cq, free, kfree, client, kernel, fault, history>>

\* Slip: the bucket is read and not emptied.
KernelAnswered_Kept(w, q) ==
    LET r == page[Front(q)]
        k == Bucket(r.kq, r.kid)
    IN /\ Peek(w, q, "IPCTest") /\ r.code = 1 /\ k # None
       /\ Answer(q, krq[k].answer)
       /\ Move(w, [Serving(q, "complete") EXCEPT !.krq = k])
       /\ UNCHANGED <<fixed, queues, free, kfree, krq, client, kernel, fault, history>>

\* Code 1: nothing happens until the kernel has answered; then the answer is
\* copied into the client's page.
KernelAnswered(w, q) ==
    LET r == page[Front(q)]
        k == Bucket(r.kq, r.kid)
    IN /\ Peek(w, q, "IPCTest") /\ r.code = 1 /\ k # None
       /\ cq' = [cq EXCEPT ![r.kq][r.kid % Depth] = None]
       /\ Answer(q, krq[k].answer)
       /\ Move(w, [Serving(q, "complete") EXCEPT !.krq = k])
       /\ UNCHANGED <<fixed, sq, free, kfree, krq, client, kernel, fault, history>>

\* Slip: the completion does not look at the bucket.
Complete_Over(w) ==
    LET me == worker[w]
        id == page[me.rq].id
    IN /\ me.at = "complete" /\ ~fault
       /\ cq' = [cq EXCEPT ![me.q][id % Depth] = me.rq]
       /\ Move(w, IF page[me.rq].svc = "Unknown" THEN Polling
                                                 ELSE [me EXCEPT !.at = "dequeue"])
       /\ UNCHANGED <<fixed, sq, memory, client, kernel, fault, history>>

\* Complete waits for the request's bucket to be empty.  DoWork completes a
\* request for an unknown module and goes on without dequeuing it.
Complete(w) ==
    LET me == worker[w]
        id == page[me.rq].id
    IN /\ me.at = "complete" /\ ~fault /\ Bucket(me.q, id) = None
       /\ cq' = [cq EXCEPT ![me.q][id % Depth] = me.rq]
       /\ Move(w, IF page[me.rq].svc = "Unknown" THEN Polling
                                                 ELSE [me EXCEPT !.at = "dequeue"])
       /\ UNCHANGED <<fixed, sq, memory, client, kernel, fault, history>>

\* Slip: the kernel's page is forgotten.
Dequeue_NoFree(w) ==
    LET me == worker[w] IN
    /\ me.at = "dequeue" /\ ~fault
    /\ sq' = [sq EXCEPT ![me.q].dequeued = @ + 1]
    /\ Move(w, Polling)
    /\ UNCHANGED <<fixed, cq, memory, client, kernel, fault, history>>

\* FreeRequest of the kernel's page, then Dequeue.
Dequeue(w) ==
    LET me == worker[w] IN
    /\ me.at = "dequeue" /\ ~fault
    /\ kfree' = IF me.krq = None THEN kfree ELSE kfree \union {me.krq}
    /\ sq' = [sq EXCEPT ![me.q].dequeued = @ + 1]
    /\ Move(w, Polling)
    /\ UNCHANGED <<fixed, cq, free, page, krq, client, kernel, fault, history>>

\* BlockFS::Server::IO asks for a private queue that is not an intermediate
\* one: there is none, and the hash is divided by zero.
RunBlockFS(w, q) ==
    /\ Peek(w, q, "BlockFS") /\ GetNumQueuePairs("server", Private) = 0
    /\ fault' = TRUE
    /\ UNCHANGED <<fixed, queues, memory, actors, history>>

\* NoOp::Server::Initialize sends the next module a request over the private
\* queue after its own and waits for the answer inside the worker.
RunNoOp(w, q) ==
    /\ Peek(w, q, "NoOp")
    /\ Move(w, [Serving(q, "stats") EXCEPT
                  !.entry = GetQID("server", Private + Intermediate, load.tids[w] + 1).cnt])
    /\ UNCHANGED <<fixed, queues, memory, client, kernel, fault, history>>

\* The worker of that queue answers, if it is at its queues.  Initialize ends
\* without a return value: the request is dequeued, or stays; nobody completes
\* it.
StatsAnswered(w, v) ==
    /\ worker[w].at = "stats" /\ ~fault
    /\ AssignQueuePair([pid |-> "server", cnt |-> worker[w].entry]) = v
    /\ worker[v].at = "poll"
    /\ \/ Move(w, [worker[w] EXCEPT !.at = "dequeue"])
       \/ Move(w, Polling)
    /\ UNCHANGED <<fixed, queues, memory, client, kernel, fault, history>>

-----------------------------------------------------------------------------
(* The kernel's worker: worker_runtime and complete_test *)

KernelDequeue(q) ==
    /\ kernel.at = "poll" /\ GetDepth(q) # 0
    /\ sq' = [sq EXCEPT ![q].dequeued = @ + 1]
    /\ kernel' = [at |-> "complete", q |-> q, rq |-> Front(q)]
    /\ UNCHANGED <<fixed, cq, memory, client, worker, fault, history>>

KernelComplete ==
    LET id == krq[kernel.rq].id IN
    /\ kernel.at = "complete" /\ Bucket(kernel.q, id) = None
    /\ krq' = [krq EXCEPT ![kernel.rq].answer = "success"]
    /\ cq' = [cq EXCEPT ![kernel.q][id % Depth] = kernel.rq]
    /\ kernel' = [kernel EXCEPT !.at = "poll", !.rq = None]
    /\ UNCHANGED <<fixed, sq, free, kfree, page, client, worker, fault, history>>

Proceed(c) == AllocRequest(c) \/ EnqueueCheck(c) \/ EnqueueStore(c) \/ Wait(c)
ClientStep(c) == Proceed(c) \/ \E s \in load.services : Call(c, s)
RunModule(w, q) ==
    \/ RunDummy(w, q) \/ RunUnknown(w, q) \/ KernelAlloc(w, q)
    \/ KernelAnswered(w, q) \/ RunBlockFS(w, q) \/ RunNoOp(w, q)
Continue(w) ==
    \/ KernelCheck(w) \/ KernelStore(w) \/ Complete(w) \/ Dequeue(w)
    \/ \E v \in Workers : StatsAnswered(w, v)
KernelStep == KernelComplete \/ \E q \in KernelQueues : KernelDequeue(q)

PathNext ==
    /\ ~raced
    /\ \/ \E c \in Threads : ClientStep(c)
       \/ \E w \in Workers : Continue(w) \/ \E q \in ClientQueues : RunModule(w, q)
       \/ KernelStep

Positions == UNION {0..(l.num_queues - 1) : l \in Workloads}

\* Threads that have a call to finish go on; workers poll without end and come
\* to each queue in turn.
PathFairness ==
    /\ \A c \in AllThreads : WF_pathvars(~raced /\ c \in Threads /\ Proceed(c))
    /\ \A w \in Workers : WF_pathvars(~raced /\ Continue(w))
    /\ \A i \in Positions :
         LET q == [pid |-> "client", cnt |-> i] IN
         SF_pathvars(~raced /\ q \in ClientQueues /\ RunModule(AssignQueuePair(q), q))
    /\ \A q \in KernelQueues : SF_pathvars(~raced /\ KernelDequeue(q))
    /\ WF_pathvars(~raced /\ KernelComplete)

-----------------------------------------------------------------------------
(* Properties *)

PathTypeOK ==
    /\ free \subseteq Pages /\ kfree \subseteq KPages
    /\ \A q \in Queues : sq[q].slot \in [0..(Depth - 1) -> Pages \union KPages \union {None}]
    /\ \A c \in Threads : client[c].at \in {"idle", "alloc", "check", "store", "wait", "crashed"}
    /\ \A w \in Workers : worker[w].at \in {"poll", "check", "store", "complete",
                                            "dequeue", "stats"}

Used == {k \in KPages : k \notin kfree}

\* Where a kernel page is: held by a worker that has not passed it on, or has
\* taken it back; in a ring; with the kernel; answered.
Held(k) == {w \in Workers : worker[w].krq = k}
InRing(k) == {<<q, i>> \in KernelQueues \X (0..(Depth - 1)) :
                i < GetDepth(q) /\ sq[q].slot[(sq[q].dequeued + i) % Depth] = k}
InMap(k) == {<<q, i>> \in KernelQueues \X (0..(Depth - 1)) : cq[q][i] = k}

\* As long as no two threads met on a ring, a kernel page in use is in exactly
\* one place: the server neither loses one nor uses it for two requests.
KernelPagesAccounted ==
    \A k \in Used :
      Cardinality(Held(k)) + Cardinality(InRing(k)) + Cardinality(InMap(k))
        + (IF kernel.rq = k THEN 1 ELSE 0) = 1

\* A ring never holds more than it has slots.
RingsBounded == \A q \in Queues : GetDepth(q) \in 0..Depth

\* The types, every kernel page in one place, and no ring overfull.
PathInv == PathTypeOK /\ KernelPagesAccounted /\ RingsBounded

Expected(s) == CASE s = "Dummy" -> "5543" [] s = "IPCTest" -> "success" [] OTHER -> "-1"

\* A queue pair has several users: threads of the client whose ids agree modulo
\* the number of queues, or client queues whose workers map to one kernel queue.
Users(q) ==
    {c \in Threads : GetQID("client", 0, c) = q} \union
    {u \in ClientQueues :
       GetQID("kernel", Intermediate, load.tids[AssignQueuePair(u)]) = q}
Shared(q) == Cardinality(Users(q)) > 1

\* What a waiting thread finds in the bucket of its token is its own request
\* with its module's answer, and what a worker takes from a kernel queue pair
\* is the answer to the request it sent, although nothing in the bucket says
\* whose it is.  It rests on the completer waiting for the bucket to be empty
\* and on the queue pair having one user: the answer one user has not yet
\* fetched is taken by another whose id meets it modulo the depth, even when
\* the two never met on the ring.  It fails after a request for an unknown
\* module, which DoWork completes again and again.
AnswerIsOwn ==
    "Unknown" \notin strayed =>
      /\ \A c \in Threads :
           client[c].at = "wait" /\ ~Shared(GetQID("client", 0, c)) =>
             LET t == client[c].toks[1]
                 got == Bucket(GetQID("client", 0, c), t.id)
             IN got # None => got = t.rq /\ page[got].answer = Expected(client[c].svc)
      /\ \A w \in Workers :
           /\ worker[w].at \in {"complete", "dequeue"} /\ worker[w].krq # None
           /\ ~Shared(page[worker[w].rq].kq)
           => krq[worker[w].krq].id = page[worker[w].rq].kid

\* A call is spoiled by a queue pair with several users, by a request for a
\* module that is missing or unfinished, by allocators running dry, or by a
\* batch of more than twice the depth: then the client waits for room in the
\* ring and the worker for room in the map.
Spoiled ==
    \/ \E q \in Queues : Shared(q)
    \/ strayed # {} \/ fault \/ load.batch > 2 * Depth
    \/ \E c \in Threads : client[c].at = "crashed"

\* No call is under way, or one of them is spoiled.
Returned == Spoiled \/ \A c \in Threads : client[c].at = "idle"
=============================================================================
