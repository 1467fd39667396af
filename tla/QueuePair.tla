----------------------------- MODULE QueuePair -----------------------------
(***************************************************************************)
(* One queue pair between the threads of a client and the worker that      *)
(* polls it.  The submission queue is a BoundedQueue (RequestRingBuffer    *)
(* implements it); the completion queue is labstor_request_map, a table of *)
(* MaxDepth buckets indexed by req_id % MaxDepth, here at the granularity  *)
(* of its loads and stores.                                                *)
(*                                                                         *)
(* A userspace worker (Worker::DoWork) peeks at the head, lets the module  *)
(* process and complete it and only then dequeues it.  A kernel worker     *)
(* (worker_runtime) dequeues first.  What a module does is left open: it   *)
(* answers at once or keeps the request at the head for a later pass.      *)
(***************************************************************************)
EXTENDS Integers, Sequences, FiniteSets

CONSTANTS
  Clients,       \* client threads that were given this queue pair
  Requests,      \* request objects of the client's shared memory
  NoRequest,     \* an empty bucket (-1), or no request in a register
  MaxDepth,      \* depth of the submission queue = buckets of the map
  CounterMod,    \* req_id_ wraps here (2^32)
  Workers,       \* "user": Worker::DoWork; "kernel": worker_runtime
  Builds,        \* "debug": spin loops load memory again; "release": hoisted
  Windows,       \* most requests a thread has submitted and not collected
  StrayTo,       \* workers whose clients also use an unknown ns_id
  StrayWindow    \* bound: the largest window in which they do

ASSUME QPAssumption ==
  /\ MaxDepth \in Nat \ {0}
  /\ CounterMod \in Nat /\ CounterMod > MaxDepth /\ CounterMod % MaxDepth = 0
  /\ Windows \subseteq Nat \ {0}
  /\ NoRequest \notin Requests
  /\ Workers \subseteq {"user", "kernel"} /\ StrayTo \subseteq Workers
  /\ StrayWindow \in Nat
  /\ Builds \subseteq {"debug", "release"}

VARIABLES
  side, build, window,   \* the worker, build and client under study: fixed
  sq, tail,              \* the submission queue
  cq,                    \* the buckets of the completion queue
  req_id, ns,            \* fields of the request objects
  cpc, crq,              \* each client thread: location, request in hand
  tokens,                \* each client thread: qtoks not yet waited for
  wpc, wrq,              \* the worker: location, request in hand
  wbucket,               \* ... bucket Complete writes
  wafter,                \* ... where it goes after Complete
  todo                   \* ... iterations left of the loop over the queue pair

setup == <<side, build, window>>
queues == <<sq, tail, cq>>
objects == <<req_id, ns>>
client == <<cpc, crq, tokens>>
worker == <<wpc, wrq, wbucket, wafter, todo>>
vars == <<setup, queues, objects, client, worker>>

SQ == INSTANCE BoundedQueue WITH
  Data <- Requests, NoData <- NoRequest, Capacity <- MaxDepth, q <- sq, out <- wrq

Buckets == 0 .. MaxDepth - 1
Counters == 0 .. CounterMod - 1
Bucket(id) == id % MaxDepth

\* The request objects a thread may allocate: not submitted, not in hand.
Free == Requests \ UNION {{crq[c]} \cup {tokens[c][k].rq : k \in DOMAIN tokens[c]} : c \in Clients}

\* The kernel worker removes a request before it handles it.
DequeueFirst == side = "kernel"
SpinReload == build = "debug"
Namespaces ==
  {"known"} \cup IF side \in StrayTo /\ window <= StrayWindow THEN {"unknown"} ELSE {}

Init ==
  /\ side \in Workers /\ build \in Builds /\ window \in Windows
  /\ SQ!Init
  /\ cq = [b \in Buckets |-> NoRequest]
  /\ req_id = [r \in Requests |-> 0]
  /\ ns = [r \in Requests |-> "known"]
  /\ cpc = [c \in Clients |-> "run"]
  /\ crq = [c \in Clients |-> NoRequest]
  /\ tokens = [c \in Clients |-> <<>>]
  /\ wpc = "poll" /\ wbucket = 0 /\ wafter = "next" /\ todo = 0
-----------------------------------------------------------------------------
(* A client thread.  It submits up to window requests and waits for them   *)
(* in the order it submitted them, as IPCManager::Wait(qtoks, n) does.     *)

\* AllocRequest and the request's Start: the thread is committed to Enqueue.
\* Request objects are interchangeable, so one free object stands for all.
Submit(c, n) ==
  /\ cpc[c] = "run"
  /\ Len(tokens[c]) < window
  /\ Free # {}
  /\ LET r == CHOOSE r \in Free : TRUE IN
       /\ crq' = [crq EXCEPT ![c] = r]
       /\ ns' = [ns EXCEPT ![r] = n]
  /\ cpc' = [cpc EXCEPT ![c] = "enqueue"]
  /\ UNCHANGED <<setup, queues, req_id, tokens, worker>>

Enqueue(c) ==
  /\ cpc[c] = "enqueue"
  /\ SQ!Put(crq[c])
  /\ req_id' = [req_id EXCEPT ![crq[c]] = tail]
  /\ tokens' = [tokens EXCEPT ![c] = Append(@, [rq |-> crq[c], id |-> tail])]
  /\ crq' = [crq EXCEPT ![c] = NoRequest]
  /\ cpc' = [cpc EXCEPT ![c] = "run"]
  /\ UNCHANGED <<setup, cq, ns, worker>>

\* The queue is full and the loop does not look again.
EnqueueHang(c) ==
  /\ cpc[c] = "enqueue"
  /\ Len(sq) = MaxDepth
  /\ ~SpinReload
  /\ cpc' = [cpc EXCEPT ![c] = "hung"]
  /\ UNCHANGED <<setup, queues, objects, crq, tokens, worker>>

WaitCall(c) ==
  /\ cpc[c] = "run"
  /\ tokens[c] # <<>>
  /\ cpc' = [cpc EXCEPT ![c] = "wait"]
  /\ UNCHANGED <<setup, queues, objects, crq, tokens, worker>>

\* The Wait that takes a time limit.
TimedWaitCall(c) ==
  /\ cpc[c] = "run"
  /\ tokens[c] # <<>>
  /\ cpc' = [cpc EXCEPT ![c] = "timed"]
  /\ UNCHANGED <<setup, queues, objects, crq, tokens, worker>>

\* Slip: the caller takes the time-out for an answer and lets go of the token.
WaitTimesOut_Drop(c) ==
  /\ cpc[c] = "timed"
  /\ cpc' = [cpc EXCEPT ![c] = "run"]
  /\ tokens' = [tokens EXCEPT ![c] = Tail(@)]
  /\ UNCHANGED <<setup, queues, objects, crq, worker>>

\* The time is over and Wait returns NULL.  The request is still under way: the
\* caller keeps its token and may wait again.
WaitTimesOut(c) ==
  /\ cpc[c] = "timed"
  /\ cpc' = [cpc EXCEPT ![c] = "run"]
  /\ UNCHANGED <<setup, queues, objects, crq, tokens, worker>>

\* FindAndRemove: atomic load of the bucket, a second load, the store of -1.
FindCheck(c) ==
  /\ cpc[c] \in {"wait", "timed"}
  /\ cq[Bucket(Head(tokens[c]).id)] # NoRequest
  /\ cpc' = [cpc EXCEPT ![c] = "load"]
  /\ UNCHANGED <<setup, queues, objects, crq, tokens, worker>>

FindLoad(c) ==
  /\ cpc[c] = "load"
  /\ crq' = [crq EXCEPT ![c] = cq[Bucket(Head(tokens[c]).id)]]
  /\ cpc' = [cpc EXCEPT ![c] = "clear"]
  /\ UNCHANGED <<setup, queues, objects, tokens, worker>>

\* The bucket is emptied and Wait returns; the caller frees what it was given.
FindClear(c) ==
  /\ cpc[c] = "clear"
  /\ cq' = [cq EXCEPT ![Bucket(Head(tokens[c]).id)] = NoRequest]
  /\ tokens' = [tokens EXCEPT ![c] = Tail(@)]
  /\ crq' = [crq EXCEPT ![c] = NoRequest]
  /\ cpc' = [cpc EXCEPT ![c] = "run"]
  /\ UNCHANGED <<setup, sq, tail, objects, worker>>
-----------------------------------------------------------------------------
(* The worker.                                                             *)

\* qp_depth = qp->GetDepth(): one pass handles at most what it saw.
Poll ==
  /\ wpc = "poll"
  /\ sq # <<>>
  /\ todo' = Len(sq)
  /\ wpc' = "next"
  /\ UNCHANGED <<setup, queues, objects, client, wrq, wbucket, wafter>>

PassEnds ==
  /\ wpc = "next"
  /\ todo = 0 \/ sq = <<>>
  /\ wpc' = "poll"
  /\ todo' = 0
  /\ UNCHANGED <<setup, queues, objects, client, wrq, wbucket, wafter>>

\* Userspace: qp->Peek(rq, 0).
PeekHead ==
  /\ ~DequeueFirst
  /\ wpc = "next" /\ todo > 0 /\ sq # <<>>
  /\ wrq' = Head(sq)
  /\ wpc' = "lookup"
  /\ UNCHANGED <<setup, queues, objects, client, wbucket, wafter, todo>>

\* Kernel: labstor_queue_pair_Dequeue.
DequeueHead ==
  /\ DequeueFirst
  /\ wpc = "next" /\ todo > 0
  /\ SQ!Take
  /\ todo' = todo - 1
  /\ wpc' = "lookup"
  /\ UNCHANGED <<setup, cq, objects, client, wbucket, wafter>>

\* No module has this ns_id: the request is completed with an error.  The
\* userspace worker then goes on to the next iteration without a Dequeue.
UnknownModule ==
  /\ wpc = "lookup"
  /\ ns[wrq] = "unknown"
  /\ wbucket' = Bucket(req_id[wrq])
  /\ wafter' = "next"
  /\ todo' = IF DequeueFirst THEN todo ELSE todo - 1
  /\ wpc' = "complete"
  /\ UNCHANGED <<setup, queues, objects, client, wrq>>

\* ProcessRequest returned false: the pass over this queue pair ends.
ModulePending ==
  /\ wpc = "lookup"
  /\ ns[wrq] = "known"
  /\ ~DequeueFirst
  /\ wpc' = "poll"
  /\ todo' = 0
  /\ UNCHANGED <<setup, queues, objects, client, wrq, wbucket, wafter>>

\* Slip: the module reports the request done without completing it.
ModuleDone_NoComplete ==
  /\ wpc = "lookup"
  /\ ns[wrq] = "known"
  /\ wpc' = IF DequeueFirst THEN "next" ELSE "dequeue"
  /\ UNCHANGED <<setup, queues, objects, client, wrq, wbucket, wafter, todo>>

\* The module completes the request.
ModuleDone ==
  /\ wpc = "lookup"
  /\ ns[wrq] = "known"
  /\ wbucket' = Bucket(req_id[wrq])
  /\ wafter' = IF DequeueFirst THEN "next" ELSE "dequeue"
  /\ wpc' = "complete"
  /\ UNCHANGED <<setup, queues, objects, client, wrq, todo>>

\* Slip: Set overwrites an occupied bucket.
CompleteCheck_NoTest ==
  /\ wpc = "complete"
  /\ wpc' = "set"
  /\ UNCHANGED <<setup, queues, objects, client, wrq, wbucket, wafter, todo>>

\* labstor_request_map_Set inside CompleteInf: load, then store.
CompleteCheck ==
  /\ wpc = "complete"
  /\ cq[wbucket] = NoRequest
  /\ wpc' = "set"
  /\ UNCHANGED <<setup, queues, objects, client, wrq, wbucket, wafter, todo>>

CompleteHang ==
  /\ wpc = "complete"
  /\ cq[wbucket] # NoRequest
  /\ ~SpinReload
  /\ wpc' = "hung"
  /\ UNCHANGED <<setup, queues, objects, client, wrq, wbucket, wafter, todo>>

CompleteStore ==
  /\ wpc = "set"
  /\ cq' = [cq EXCEPT ![wbucket] = wrq]
  /\ wpc' = wafter
  /\ wbucket' = 0 /\ wafter' = "next"
  /\ UNCHANGED <<setup, sq, tail, objects, client, wrq, todo>>

\* Slip: a completed request stays at the head.
DequeueDone_Skipped ==
  /\ wpc = "dequeue"
  /\ todo' = todo - 1
  /\ wpc' = "next"
  /\ UNCHANGED <<setup, queues, objects, client, wrq, wbucket, wafter>>

\* Userspace: qp->Dequeue(rq) after ProcessRequest returned true.
DequeueDone ==
  /\ wpc = "dequeue"
  /\ SQ!Take
  /\ todo' = todo - 1
  /\ wpc' = "next"
  /\ UNCHANGED <<setup, cq, objects, client, wbucket, wafter>>
-----------------------------------------------------------------------------
ClientStep(c) ==
  \/ Enqueue(c) \/ EnqueueHang(c)
  \/ WaitCall(c) \/ TimedWaitCall(c) \/ WaitTimesOut(c) \/ FindCheck(c) \/ FindLoad(c) \/ FindClear(c)

WorkerStep ==
  \/ Poll \/ PassEnds \/ PeekHead \/ DequeueHead
  \/ UnknownModule \/ ModulePending \/ ModuleDone
  \/ CompleteCheck \/ CompleteHang \/ CompleteStore \/ DequeueDone

Next ==
  \/ \E c \in Clients :
       \/ \E n \in Namespaces : Submit(c, n)
       \/ ClientStep(c)
  \/ WorkerStep

Spec == Init /\ [][Next]_vars

\* Threads are scheduled; a module that keeps a request at the head is done
\* with it in the end.
FairSpec ==
  /\ Spec
  /\ WF_vars(WorkerStep) /\ SF_vars(ModuleDone)
  /\ \A c \in Clients : WF_vars(ClientStep(c))
-----------------------------------------------------------------------------
Token == [rq : Requests, id : Counters]

\* Types of the two queues, the request objects and the threads.
TypeOK ==
  /\ sq \in Seq(Requests) /\ tail \in Counters
  /\ cq \in [Buckets -> Requests \cup {NoRequest}]
  /\ req_id \in [Requests -> Counters]
  /\ ns \in [Requests -> {"known", "unknown"}]
  /\ cpc \in [Clients -> {"run", "enqueue", "wait", "timed", "load", "clear", "hung"}]
  /\ crq \in [Clients -> Requests \cup {NoRequest}]
  /\ tokens \in [Clients -> Seq(Token)]
  /\ wpc \in {"poll", "next", "lookup", "complete", "set", "dequeue", "hung"}
  /\ wrq \in Requests \cup {NoRequest}
  /\ wbucket \in Buckets /\ wafter \in {"next", "dequeue"} /\ todo \in 0 .. MaxDepth

\* Wait(qtok) returns the request that was enqueued under qtok, although
\* FindAndRemove never compares the request's id with the one asked for.
WaitReturnsOwn ==
  \A c \in Clients : cpc[c] = "clear" => crq[c] = Head(tokens[c]).rq

\* A burst the queue pair absorbs: the userspace worker still holds the head
\* while it completes it, the kernel worker does not.
Absorbed == window <= IF DequeueFirst THEN MaxDepth ELSE MaxDepth - 1

\* With such a burst neither spin loop is ever entered: the queue has room
\* whenever a thread enqueues, and the bucket is empty whenever the worker
\* completes.  In a Release build entering one of them is for ever.
NeverSpins ==
  Absorbed =>
    /\ \A c \in Clients : cpc[c] = "enqueue" => Len(sq) < MaxDepth
    /\ wpc = "complete" => cq[wbucket] = NoRequest

\* The types; every Wait is given its own request, so the two loops over the
\* completion buckets never exchange answers; and no spin within the bound.
QPInv == TypeOK /\ WaitReturnsOwn /\ NeverSpins

\* The burst a client may submit before it waits: twice the depth, and one
\* more in the kernel worker's hand.  Beyond it the client waits for room in
\* the queue and the worker for a bucket only the client can empty.
Bearable ==
  Absorbed \/ (SpinReload /\ window <= 2 * MaxDepth + IF DequeueFirst THEN 1 ELSE 0)

\* Every request the client commits to enter the queue does, and every one that
\* is waited for is answered.
EveryCallReturns ==
  Bearable => \A c \in Clients : cpc[c] \in {"enqueue", "wait", "timed"} ~> cpc[c] = "run"
=============================================================================
