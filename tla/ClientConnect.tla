--------------------------- MODULE ClientConnect ---------------------------
(***************************************************************************)
(* How a client process joins the trusted server: the UNIX socket, the     *)
(* accept thread that registers the client, the kernel's grants of shared  *)
(* memory, the queue pairs handed to the workers, and the wreaper thread   *)
(* that looks for clients that went away.                                  *)
(*                                                                         *)
(* Sockets are non-blocking and every wait is a loop around safe_recv,     *)
(* which tells "no data yet" from "closed" by errno.  recv leaves errno    *)
(* alone when the peer closed, so stale is the set of threads whose errno  *)
(* still is EAGAIN.  A client that dies with unread messages leaves one    *)
(* ECONNRESET for the server (reset); a send to it raises SIGPIPE, which   *)
(* nothing handles, so the server ends (up).  Kernel memory never runs     *)
(* out, and the wreaper meets the entries of pid_to_ipc_ in any order.     *)
(***************************************************************************)
EXTENDS Integers, Sequences, FiniteSets

CONSTANTS
    NumConns,        \* client processes
    Pids,            \* process ids the system hands out, in turn
    NumQueues,       \* num_queues of the client configuration
    NumWorkers,      \* server_workers
    WorkQueueDepths, \* work_queue_depth left by the server's private queues
    MaxCrashes,      \* bound: clients killed at an arbitrary point
    None

ASSUME ConnectAssumption ==
    /\ NumConns \in Nat /\ Pids \in Nat \ {0} /\ MaxCrashes \in Nat
    /\ NumQueues \in Nat \ {0} /\ NumWorkers \in Nat \ {0}
    /\ WorkQueueDepths \subseteq Nat

Conns == 1..NumConns
Pid(c) == ((c - 1) % Pids) + 1
NamespaceRegion == 0
Own == {0, -1}               \* KERNEL_PID and, written -1, the server's pid
AcceptT == 0
WreaperT == -1
Threads == {AcceptT, WreaperT} \cup Conns

VARIABLES
    depth,      \* work_queue_depth: fixed
    cpc,        \* how far each client is in Connect
    inbox,      \* messages each end of a socket has not read
    reset,      \* server ends with an ECONNRESET to report
    stale,      \* threads whose errno is EAGAIN
    up,         \* the server process runs
    backlog,    \* connections not yet accepted
    acc,        \* the accept thread: step, client and queue pair index
    ipc,        \* pid_to_ipc_
    pool,       \* queue pairs registered with each PerProcessIPC
    freed,      \* PerProcessIPCs the wreaper deleted
    wq,         \* queue pairs in each worker's work queue
    region,     \* region_id_ of each client
    nextRegion, \* cur_region_id
    grants,     \* kernel: pid_regions
    mapped,     \* regions each client mapped
    wr,         \* the wreaper: entry under its iterator, entries behind it
    crashes

client == <<cpc, mapped>>
kernel == <<nextRegion, grants>>
server == <<depth, acc, ipc, pool, freed, wq, region>>
vars == <<depth, cpc, inbox, reset, stale, up, backlog, acc, ipc, pool, freed,
          wq, region, nextRegion, grants, mapped, wr, crashes>>

Gone(c) == cpc[c] \in {"gone", "segv"}

Idle == [pc |-> "accept", c |-> None, i |-> 0]

Init ==
    /\ depth \in WorkQueueDepths
    /\ cpc = [c \in Conns |-> "idle"]
    /\ inbox = [c \in Conns |-> [srv |-> <<>>, cli |-> <<>>]]
    /\ reset = {} /\ stale = {} /\ up = TRUE /\ backlog = <<>>
    /\ acc = Idle
    /\ ipc = [p \in 1..Pids |-> None]
    /\ pool = [c \in Conns |-> <<>>]
    /\ freed = {}
    /\ wq = [w \in 0..(NumWorkers - 1) |-> <<>>]
    /\ region = [c \in Conns |-> None]
    /\ nextRegion = NamespaceRegion + 1
    /\ grants = {} /\ mapped = [c \in Conns |-> {}]
    /\ wr = [cur |-> None, seen |-> {}]
    /\ crashes = 0

-----------------------------------------------------------------------------
(* The client *)

\* The process ends: the kernel closes its socket.
Ends(c, how) ==
    /\ cpc' = [cpc EXCEPT ![c] = how]
    /\ reset' = IF inbox[c].cli # <<>> THEN reset \cup {c} ELSE reset
    /\ inbox' = [inbox EXCEPT ![c].cli = <<>>]
    /\ UNCHANGED mapped

Connect(c) ==
    /\ cpc[c] = "idle"
    /\ \A d \in 1..(c - 1) : Pid(d) = Pid(c) => Gone(d)
    /\ IF up THEN /\ cpc' = [cpc EXCEPT ![c] = "setup"]
                  /\ backlog' = Append(backlog, c)
             ELSE /\ cpc' = [cpc EXCEPT ![c] = "gone"]
                  /\ UNCHANGED backlog
    /\ UNCHANGED <<inbox, reset, stale, up, server, kernel, mapped, wr, crashes>>

\* RecvMSG of the client: the answer, another turn of the loop, or an error.
ClientRecv(c, pc, next) ==
    /\ cpc[c] = pc
    /\ \/ /\ inbox[c].cli # <<>>
          /\ inbox' = [inbox EXCEPT ![c].cli = Tail(@)]
          /\ cpc' = [cpc EXCEPT ![c] = next]
          /\ UNCHANGED <<stale, reset, mapped>>
       \/ /\ inbox[c].cli = <<>> /\ up /\ c \notin stale
          /\ stale' = stale \cup {c}
          /\ UNCHANGED <<cpc, inbox, reset, mapped>>
       \/ /\ inbox[c].cli = <<>> /\ ~up
          /\ c \notin stale \/ inbox[c].srv # <<>>
          /\ Ends(c, "gone")
          /\ UNCHANGED stale
    /\ UNCHANGED <<up, backlog, server, kernel, wr, crashes>>

RecvSetup(c) == ClientRecv(c, "setup", "map")
RecvReply(c) == ClientRecv(c, "reply", "ready")

\* labstor_mmap: only a region the process was granted can be mapped.
Mmap(c, r) ==
    /\ <<Pid(c), r>> \in grants
    /\ mapped' = [mapped EXCEPT ![c] = @ \cup {r}]

MapRegion(c) ==
    /\ cpc[c] = "map"
    /\ Mmap(c, region[c])
    /\ cpc' = [cpc EXCEPT ![c] = "attach"]
    /\ UNCHANGED <<inbox, reset, stale, up, backlog, server, kernel, wr, crashes>>

\* Attach does not look at the result of MapShmem before it reads the region.
AttachNamespace(c) ==
    /\ cpc[c] = "attach"
    /\ \/ /\ Mmap(c, NamespaceRegion)
          /\ cpc' = [cpc EXCEPT ![c] = "request"]
          /\ UNCHANGED <<inbox, reset>>
       \/ /\ <<Pid(c), NamespaceRegion>> \notin grants
          /\ Ends(c, "segv")
    /\ UNCHANGED <<stale, up, backlog, server, kernel, wr, crashes>>

\* SendMSG of the client; SIGPIPE when the server is gone.
ClientSend(c, pc, msg, next) ==
    /\ cpc[c] = pc
    /\ IF up THEN /\ inbox' = [inbox EXCEPT ![c].srv = Append(@, msg)]
                  /\ cpc' = [cpc EXCEPT ![c] = next]
                  /\ UNCHANGED <<reset, mapped>>
             ELSE Ends(c, "gone")
    /\ UNCHANGED <<stale, up, backlog, server, kernel, wr, crashes>>

SendRequest(c) == ClientSend(c, "request", "register_qp", "ptrs")
SendPtrs(c) == ClientSend(c, "ptrs", "qp_ptrs", "reply")

\* A client is killed, or leaves after it connected.
Crash(c) ==
    /\ cpc[c] # "idle" /\ ~Gone(c) /\ crashes < MaxCrashes
    /\ crashes' = crashes + 1
    /\ Ends(c, "gone")
    /\ UNCHANGED <<stale, up, backlog, server, kernel, wr>>

-----------------------------------------------------------------------------
(* The accept thread *)

Down == up' = FALSE

To(pc) == acc' = [acc EXCEPT !.pc = pc]

\* emplace keeps an older entry of the pid.
RegisterIPC(c) == ipc' = [ipc EXCEPT ![Pid(c)] = IF @ = None THEN c ELSE @]

\* DoWork up to RegisterIPC.
Accept ==
    /\ up /\ acc.pc = "accept" /\ backlog # <<>>
    /\ LET c == Head(backlog) IN
       /\ acc' = [pc |-> "region", c |-> c, i |-> 0]
       /\ RegisterIPC(c)
    /\ backlog' = Tail(backlog)
    /\ UNCHANGED <<depth, client, inbox, reset, stale, up, pool, freed, wq, region,
                   kernel, wr, crashes>>

\* Slip: the region id is read and never advanced.
CreateRegion_SameId ==
    /\ up /\ acc.pc = "region"
    /\ region' = [region EXCEPT ![acc.c] = nextRegion]
    /\ grants' = grants \cup {<<Pid(acc.c), nextRegion>>}
    /\ To("setup")
    /\ UNCHANGED <<depth, client, inbox, reset, stale, up, backlog, ipc, pool, freed,
                   wq, nextRegion, wr, crashes>>

\* CreateShmem and the grants that precede the setup reply.
CreateRegion ==
    /\ up /\ acc.pc = "region"
    /\ region' = [region EXCEPT ![acc.c] = nextRegion]
    /\ grants' = grants \cup {<<Pid(acc.c), nextRegion>>}
    /\ nextRegion' = nextRegion + 1
    /\ To("setup")
    /\ UNCHANGED <<depth, client, inbox, reset, stale, up, backlog, ipc, pool, freed,
                   wq, wr, crashes>>

ServerSend(pc, msg, next) ==
    /\ up /\ acc.pc = pc
    /\ IF Gone(acc.c)
       THEN Down /\ UNCHANGED <<inbox, acc>>
       ELSE /\ inbox' = [inbox EXCEPT ![acc.c].cli = Append(@, msg)]
            /\ acc' = next
            /\ UNCHANGED up
    /\ UNCHANGED <<depth, client, reset, stale, backlog, ipc, pool, freed, wq, region,
                   kernel, wr, crashes>>

SendSetup == ServerSend("setup", "setup_reply", [acc EXCEPT !.pc = "grant"])
SendSuccess == ServerSend("success", "register_qp_reply", Idle)

GrantNamespace ==
    /\ up /\ acc.pc = "grant"
    /\ grants' = grants \cup {<<Pid(acc.c), NamespaceRegion>>}
    /\ To("request")
    /\ UNCHANGED <<depth, client, inbox, reset, stale, up, backlog, ipc, pool, freed,
                   wq, region, nextRegion, wr, crashes>>

\* safe_recv on the server's end of c's socket, by the outcome of recv.
Closed(c) == inbox[c].srv = <<>> /\ Gone(c)
NoData(c) == inbox[c].srv = <<>> /\ ~Gone(c)
RecvThrows(t, c) == Closed(c) /\ (c \in reset \/ t \notin stale)

\* RecvMSG of the accept thread; an error abandons the client.
ServerRecv(pc, next) ==
    /\ up /\ acc.pc = pc
    /\ \/ /\ inbox[acc.c].srv # <<>>
          /\ inbox' = [inbox EXCEPT ![acc.c].srv = Tail(@)]
          /\ To(next)
          /\ UNCHANGED <<reset, stale>>
       \/ /\ NoData(acc.c) /\ AcceptT \notin stale
          /\ stale' = stale \cup {AcceptT}
          /\ UNCHANGED <<acc, inbox, reset>>
       \/ /\ RecvThrows(AcceptT, acc.c)
          /\ stale' = IF acc.c \in reset THEN stale \ {AcceptT} ELSE stale
          /\ reset' = reset \ {acc.c}
          /\ acc' = Idle
          /\ UNCHANGED inbox
    /\ UNCHANGED <<depth, client, up, backlog, ipc, pool, freed, wq, region, kernel,
                   wr, crashes>>

RecvRequest == ServerRecv("request", "ptrs")
RecvPtrs == ServerRecv("ptrs", "assign")

\* Slip: the work queue refuses its last slot.
HasRoom_LessOne(w) == Len(wq[w]) < depth - 1
HasRoom(w) == Len(wq[w]) < depth

RegisterQueuePair(c, i) == pool' = [pool EXCEPT ![ipc[Pid(c)]] = Append(@, <<c, i>>)]

\* Slip: a queue pair is registered but not given to a worker.
RegisterQueue_Unassigned(c, i, w) ==
    /\ RegisterQueuePair(c, i)
    /\ UNCHANGED wq

RegisterQueue(c, i, w) ==
    /\ RegisterQueuePair(c, i)
    /\ wq' = [wq EXCEPT ![w] = Append(@, <<c, i>>)]

\* One turn of the loop of RegisterClientQP.  pid_to_ipc_ yields a null
\* pointer when the wreaper erased the entry; a full work queue is an error
\* that abandons the client after its queue pair was registered.
AssignQueue ==
    LET c == acc.c
        w == acc.i % NumWorkers
    IN
    /\ up /\ acc.pc = "assign"
    /\ \/ /\ ipc[Pid(c)] = None
          /\ Down /\ UNCHANGED <<acc, pool, wq>>
       \/ /\ ipc[Pid(c)] # None /\ HasRoom(w)
          /\ RegisterQueue(c, acc.i, w)
          /\ acc' = IF acc.i + 1 = NumQueues
                    THEN [acc EXCEPT !.pc = "success"]
                    ELSE [acc EXCEPT !.i = @ + 1]
          /\ UNCHANGED up
       \/ /\ ipc[Pid(c)] # None /\ ~HasRoom(w)
          /\ RegisterQueuePair(c, acc.i)
          /\ acc' = Idle
          /\ UNCHANGED <<wq, up>>
    /\ UNCHANGED <<depth, client, inbox, reset, stale, backlog, ipc, freed, region,
                   kernel, wr, crashes>>

\* The thread goes on with a PerProcessIPC that was deleted under it: the
\* other actions say what happens when its memory still is as it was.
UseAfterFree ==
    /\ up /\ acc.c \in freed
    /\ Down
    /\ UNCHANGED <<client, inbox, reset, stale, backlog, server, kernel, wr,
                   crashes>>

-----------------------------------------------------------------------------
(* The wreaper thread and the workers *)

Entries == Own \cup {p \in 1..Pids : ipc[p] # None}

WreaperBegin ==
    /\ up /\ wr.cur = None
    /\ \E e \in Entries : wr' = [cur |-> e, seen |-> {}]
    /\ UNCHANGED <<client, inbox, reset, stale, up, backlog, server, kernel,
                   crashes>>

\* ++iter, and iter = erase(iter).  The server's own entries are never
\* passed, so there always is one ahead.
Advance ==
    \E e \in Entries \ (wr.seen \cup {wr.cur}) :
        wr' = [cur |-> e, seen |-> wr.seen \cup {wr.cur}]

WreaperPass ==
    /\ up /\ wr.cur \in 1..Pids
    /\ inbox[ipc[wr.cur]].srv # <<>>
    /\ Advance
    /\ UNCHANGED <<client, inbox, reset, stale, up, backlog, server, kernel,
                   crashes>>

\* continue: the iterator stays.
WreaperStay ==
    /\ up /\ wr.cur \in 1..Pids
    /\ NoData(ipc[wr.cur])
    /\ stale' = stale \cup {WreaperT}
    /\ UNCHANGED <<client, inbox, reset, up, backlog, server, kernel, wr,
                   crashes>>

\* Slip: a socket without data counts as closed.
Disconnected_NoData(c) == RecvThrows(WreaperT, c) \/ NoData(c)
Disconnected(c) == RecvThrows(WreaperT, c)

WreaperReap ==
    /\ up /\ wr.cur \in 1..Pids
    /\ LET c == ipc[wr.cur] IN
       /\ Disconnected(c)
       /\ stale' = IF c \in reset THEN stale \ {WreaperT} ELSE stale
       /\ reset' = reset \ {c}
       /\ freed' = freed \cup {c}
    /\ ipc' = [ipc EXCEPT ![wr.cur] = None]
    /\ Advance
    /\ UNCHANGED <<depth, client, inbox, up, backlog, acc, pool, wq, region, kernel,
                   crashes>>

\* GetQueuePair of a worker follows the null pointer of an erased entry.
WorkerPoll(w) ==
    /\ up
    /\ \E k \in 1..Len(wq[w]) : ipc[Pid(wq[w][k][1])] = None
    /\ Down
    /\ UNCHANGED <<client, inbox, reset, stale, backlog, server, kernel, wr,
                   crashes>>

AcceptThread ==
    \/ Accept \/ CreateRegion \/ SendSetup \/ GrantNamespace
    \/ RecvRequest \/ RecvPtrs \/ AssignQueue \/ SendSuccess \/ UseAfterFree

Wreaper == WreaperBegin \/ WreaperPass \/ WreaperStay \/ WreaperReap

Client(c) ==
    \/ Connect(c) \/ RecvSetup(c) \/ MapRegion(c) \/ AttachNamespace(c)
    \/ SendRequest(c) \/ SendPtrs(c) \/ RecvReply(c)

Next ==
    \/ AcceptThread \/ Wreaper
    \/ \E c \in Conns : Client(c) \/ Crash(c)
    \/ \E w \in 0..(NumWorkers - 1) : WorkerPoll(w)

Spec == Init /\ [][Next]_vars

\* Every thread keeps being scheduled; nobody is obliged to crash.
FairSpec ==
    /\ Spec
    /\ WF_vars(AcceptThread) /\ WF_vars(Wreaper)
    /\ \A c \in Conns : WF_vars(Client(c))

-----------------------------------------------------------------------------
(* Properties *)

\* Types of the sockets, tables and threads; a work queue never holds more
\* entries than its depth, nor a socket more messages than the handshake sends.
TypeOK ==
    /\ cpc \in [Conns -> {"idle", "setup", "map", "attach", "request", "ptrs",
                          "reply", "ready", "gone", "segv"}]
    /\ reset \subseteq Conns /\ freed \subseteq Conns /\ stale \subseteq Threads
    /\ acc.pc \in {"accept", "region", "setup", "grant", "request", "ptrs",
                   "assign", "success"}
    /\ acc.pc # "accept" => acc.c \in Conns /\ acc.i < NumQueues
    /\ ipc \in [1..Pids -> Conns \cup {None}]
    /\ \A w \in DOMAIN wq : Len(wq[w]) <= depth
    /\ wr.cur \in Own \cup {None} \cup {p \in 1..Pids : ipc[p] # None}
    /\ \A c \in Conns : Len(inbox[c].srv) <= 2 /\ Len(inbox[c].cli) <= 1

\* The queue pair a worker polls for the i-th queue of c is that queue.
Polled(c, i) ==
    /\ \E w \in DOMAIN wq : \E k \in 1..Len(wq[w]) : wq[w][k] = <<c, i>>
    /\ ipc[Pid(c)] # None
    /\ LET qps == pool[ipc[Pid(c)]] IN i < Len(qps) /\ qps[i + 1] = <<c, i>>

\* Once Connect has returned, every queue pair of the client is in the work
\* queue of some worker, and looking it up by its id (GetQueuePair) yields
\* that very queue pair (RegisterClientQP, RegisterQueuePair, Worker::DoWork).
\* This needs process ids that are not used again (Pids >= NumConns): emplace
\* keeps the entry of a dead client, and a new process with its pid would be
\* looked up there.
ReadyIsPolled ==
    \A c \in Conns : up /\ cpc[c] = "ready" =>
        \A i \in 0..(NumQueues - 1) : Polled(c, i)

\* The wreaper deletes the PerProcessIPC of dead clients only.
ReapedIsGone == \A c \in freed : Gone(c)

\* No region but the namespace is ever granted to two processes, and a client
\* has mapped nothing but its own region and the namespace.
RegionsArePrivate ==
    /\ \A g, h \in grants : g[2] = h[2] /\ g[2] # NamespaceRegion => g[1] = h[1]
    /\ \A c \in Conns : mapped[c] \subseteq {region[c], NamespaceRegion}

\* The types, no region shared by two processes, and no live client reaped: what
\* RegisterClient and the wreaper keep however clients connect and die.
ConnectInv == TypeOK /\ RegionsArePrivate /\ ReapedIsGone

Room == NumConns * (((NumQueues - 1) \div NumWorkers) + 1) <= depth

\* While nobody dies and the work queues have room, the handshake of every
\* client comes to its end: accept thread and client never wait for each other.
ConnectReturns ==
    (Room /\ [](\A c \in Conns : ~Gone(c))) =>
        \A c \in Conns : cpc[c] = "setup" ~> cpc[c] = "ready"
=============================================================================
