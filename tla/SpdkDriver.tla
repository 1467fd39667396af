----------------------------- MODULE SpdkDriver -----------------------------
(***************************************************************************)
(* The SPDK driver: a client library that owns an NVMe device in user      *)
(* space.  Register makes as many queue pairs as the controller has, each  *)
(* a private LabStor queue pair joined to an SPDK queue pair.  A thread    *)
(* that starts an I/O puts its request on the private submission queue,    *)
(* takes the head of that queue and gives what it took to the device; the  *)
(* completions of a queue pair are collected by whoever waits on it.       *)
(*                                                                         *)
(* A request <<t, k>> is thread t's k-th page; its number in the queue     *)
(* pair belongs to QueuePair.  A call into SPDK is one step.               *)
(***************************************************************************)
EXTENDS Integers, Sequences, FiniteSets

CONSTANTS
    NumThreads,   \* threads of the client, with tids 0, 1, ...
    QueueCounts,  \* numbers of I/O queues a controller may have
    Depth,        \* io_queue_requests: requests the device takes per queue
    MaxOut        \* requests a thread has out at once

ASSUME SpdkAssumption ==
    /\ NumThreads \in Nat \ {0} /\ QueueCounts \subseteq Nat \ {0}
    /\ Depth \in Nat \ {0} /\ MaxOut \in Nat \ {0}

VARIABLES
    max_qps,   \* dev_.max_qps_: fixed
    zns,       \* the namespace is zoned: fixed
    found,     \* devs_ has the device the configuration names
    reg,       \* how far Register is
    made,      \* queue pairs registered so far
    sq,        \* the private submission queues
    hand,      \* what a thread took from its submission queue
    at,        \* where each request is
    spdkpc     \* each thread: where it is, and the request it waits for

spdkvars == <<max_qps, zns, found, reg, made, sq, hand, at, spdkpc>>
setup == <<max_qps, zns, found, reg, made>>

Tids == 0 .. NumThreads - 1
Rqs == Tids \X (1 .. MaxOut)
NoRq == <<-1, 0>>
QPs == 0 .. max_qps - 1

\* GetQueuePair: hash % num_qps of the thread's id.
QP(t) == t % max_qps

SpdkInit ==
    /\ max_qps \in QueueCounts
    /\ zns \in BOOLEAN
    /\ reg = "init" /\ found = FALSE
    /\ made = 0
    /\ sq = [q \in QPs |-> <<>>]
    /\ hand = [t \in Tids |-> NoRq]
    /\ at = [r \in Rqs |-> "free"]
    /\ spdkpc = [t \in Tids |-> [pc |-> "idle", rq |-> NoRq]]
-----------------------------------------------------------------------------
(* Register *)

\* Context::Init and Probe end the process when they fail.
ContextInit ==
    /\ reg = "init"
    /\ reg' \in {"exit", "probe"}
    /\ UNCHANGED <<max_qps, zns, found, made, sq, hand, at, spdkpc>>

\* Called for each controller: its namespaces become devices.  Here: the one
\* the configuration names.
attach_cb ==
    /\ reg = "probe" /\ ~found
    /\ found' = TRUE
    /\ UNCHANGED <<max_qps, zns, reg, made, sq, hand, at, spdkpc>>

Probe ==
    /\ reg = "probe"
    /\ reg' \in {"exit", "select"}
    /\ UNCHANGED <<max_qps, zns, found, made, sq, hand, at, spdkpc>>

\* Its result is ignored: without the device dev_ is uninitialized.
SelectDevice ==
    /\ reg = "select"
    /\ reg' = IF found THEN "queues" ELSE "undefined"
    /\ UNCHANGED <<max_qps, zns, found, made, sq, hand, at, spdkpc>>

\* A queue pair is made and its private one registered.  It throws when the
\* device gives no queue or, for a zoned namespace, refuses the reset.
MakeQueuePair ==
    /\ reg = "queues" /\ made < max_qps
    /\ \/ reg' = "thrown" /\ UNCHANGED made
       \/ zns /\ reg' = "resetting" /\ UNCHANGED made
       \/ ~zns /\ made' = made + 1 /\ UNCHANGED reg
    /\ UNCHANGED <<max_qps, zns, found, sq, hand, at, spdkpc>>

\* reset_zone_complete, called while the constructor polls.
reset_zone_complete ==
    /\ reg = "resetting"
    /\ \/ reg' = "exit" /\ UNCHANGED made
       \/ reg' = "queues" /\ made' = made + 1
    /\ UNCHANGED <<max_qps, zns, found, sq, hand, at, spdkpc>>

Registered ==
    /\ reg = "queues" /\ made = max_qps
    /\ reg' = "ready"
    /\ UNCHANGED <<max_qps, zns, found, made, sq, hand, at, spdkpc>>
-----------------------------------------------------------------------------
(* AIO *)

\* AllocRequest, then the first half of queue_pair::_Enqueue.
AIO(t, r) ==
    /\ reg = "ready"
    /\ spdkpc[t].pc = "idle"
    /\ r[1] = t /\ at[r] = "free"
    /\ at' = [at EXCEPT ![r] = "sq"]
    /\ sq' = [sq EXCEPT ![QP(t)] = Append(@, r)]
    /\ spdkpc' = [spdkpc EXCEPT ![t].pc = "dequeue"]
    /\ UNCHANGED <<setup, hand>>

\* Slip: the thread keeps its own request and leaves the queue as it is.
Dequeue_Own(t) ==
    /\ spdkpc[t].pc = "dequeue"
    /\ \E r \in Rqs : r[1] = t /\ at[r] = "sq" /\ hand' = [hand EXCEPT ![t] = r]
    /\ spdkpc' = [spdkpc EXCEPT ![t].pc = "command"]
    /\ UNCHANGED <<setup, sq, at>>

\* priv_qp_->Dequeue(rq) replaces rq by the oldest request of the queue.
Dequeue(t) ==
    /\ spdkpc[t].pc = "dequeue"
    /\ hand' = [hand EXCEPT ![t] = Head(sq[QP(t)])]
    /\ sq' = [sq EXCEPT ![QP(t)] = Tail(@)]
    /\ spdkpc' = [spdkpc EXCEPT ![t].pc = "command"]
    /\ UNCHANGED <<setup, at>>

AtDevice(q) == {r \in Rqs : QP(r[1]) = q /\ at[r] \in {"device", "finished"}}

\* spdk_nvme_ns_cmd_write or _read; AIO ignores that _Enqueue returned false.
Command(t) ==
    LET r == hand[t] IN
    /\ spdkpc[t].pc = "command"
    /\ \E where \in {"device", "dropped"} :
         /\ where = "device" => Cardinality(AtDevice(QP(t))) < Depth
         /\ at' = [at EXCEPT ![r] = where]
    /\ hand' = [hand EXCEPT ![t] = NoRq]
    /\ spdkpc' = [spdkpc EXCEPT ![t].pc = "idle"]
    /\ UNCHANGED <<setup, sq>>

\* external: the device finishes a command.
DeviceFinishes(r) ==
    /\ at[r] = "device"
    /\ at' = [at EXCEPT ![r] = "finished"]
    /\ UNCHANGED <<setup, sq, hand, spdkpc>>
-----------------------------------------------------------------------------
(* Wait *)

WaitFor(t, r) ==
    /\ spdkpc[t].pc = "idle"
    /\ r[1] = t /\ at[r] # "free"
    /\ spdkpc' = [spdkpc EXCEPT ![t] = [pc |-> "poll", rq |-> r]]
    /\ UNCHANGED <<setup, sq, hand, at>>

\* _IOComplete is called for every finished command of the queue pair.
Collected(t) == {r \in Rqs : QP(r[1]) = QP(t) /\ at[r] = "finished"}

\* A turn of the loop of Wait: _PollCompletions, whoever's commands they are,
\* and then IsComplete, which takes the request off the completion queue.
PollCompletions(t) ==
    /\ spdkpc[t].pc = "poll"
    /\ at' = [x \in Rqs |-> IF x \in Collected(t) THEN "complete" ELSE at[x]]
    /\ spdkpc' = [spdkpc EXCEPT ![t].pc = "check"]
    /\ UNCHANGED <<setup, sq, hand>>

IsComplete(t) ==
    LET r == spdkpc[t].rq IN
    /\ spdkpc[t].pc = "check"
    /\ IF at[r] = "complete"
       THEN /\ at' = [at EXCEPT ![r] = "free"]
            /\ spdkpc' = [spdkpc EXCEPT ![t] = [pc |-> "idle", rq |-> NoRq]]
       ELSE /\ spdkpc' = [spdkpc EXCEPT ![t].pc = "poll"]
            /\ UNCHANGED at
    /\ UNCHANGED <<setup, sq, hand>>
-----------------------------------------------------------------------------
Register ==
    \/ ContextInit \/ attach_cb \/ Probe \/ SelectDevice
    \/ MakeQueuePair \/ reset_zone_complete \/ Registered

Thread(t) == Dequeue(t) \/ Command(t) \/ PollCompletions(t) \/ IsComplete(t)

SpdkNext ==
    \/ Register
    \/ \E t \in Tids : Thread(t) \/ \E r \in Rqs : AIO(t, r) \/ WaitFor(t, r)
    \/ \E r \in Rqs : DeviceFinishes(r)

SpdkFairness ==
    /\ \A t \in Tids : WF_spdkvars(Thread(t))
    /\ \A r \in Rqs : WF_spdkvars(DeviceFinishes(r))

SpdkSpec == SpdkInit /\ [][SpdkNext]_spdkvars /\ SpdkFairness
-----------------------------------------------------------------------------
SpdkTypeOK ==
    /\ max_qps \in QueueCounts /\ zns \in BOOLEAN
    /\ reg \in {"init", "probe", "select", "exit", "undefined", "queues", "resetting", "thrown", "ready"}
    /\ made \in 0 .. max_qps
    /\ sq \in [QPs -> Seq(Rqs)]
    /\ hand \in [Tids -> Rqs \cup {NoRq}]
    /\ at \in [Rqs -> {"free", "sq", "device", "finished", "complete", "dropped"}]
    /\ spdkpc \in [Tids -> [pc : {"idle", "dequeue", "command", "poll", "check"},
                            rq : Rqs \cup {NoRq}]]

\* A request on its way to the device is in one submission queue or in one
\* thread's hands, once, also when threads that share a queue pair issue each
\* other's requests; a queue never holds more than one per such thread.
InOnePlace ==
    /\ \A r \in Rqs :
         LET queued == {p \in QPs \X (1 .. NumThreads) :
                           p[2] <= Len(sq[p[1]]) /\ sq[p[1]][p[2]] = r}
             hands == {t \in Tids : hand[t] = r}
         IN  Cardinality(queued) + Cardinality(hands) = IF at[r] = "sq" THEN 1 ELSE 0
    /\ \A q \in QPs : Len(sq[q]) <= Cardinality({t \in Tids : QP(t) = q})

\* A thread about to dequeue finds a request there: its own, or one for it.
DequeueFinds ==
    \A q \in QPs :
        Len(sq[q]) = Cardinality({t \in Tids : QP(t) = q /\ spdkpc[t].pc = "dequeue"})

\* The types, each request in one place, and a queue that is never empty for a
\* thread about to dequeue: what AIO and Wait of the SPDK client keep for threads
\* that share a queue pair.
SpdkInv == SpdkTypeOK /\ InOnePlace /\ DequeueFinds

\* A Wait returns unless the device refused the request: AIO does not say so,
\* and the thread then waits for a completion that never comes.
SpdkWaitReturns ==
    \A r \in Rqs : spdkpc[r[1]].rq = r ~> spdkpc[r[1]].rq # r \/ at[r] = "dropped"
=============================================================================
