---------------------------- MODULE BlkdevTable ----------------------------
(***************************************************************************)
(* The block device table.  A client asks an instance of the BlkdevTable   *)
(* module to open a device; the server worker takes a device id from the   *)
(* instance's dev_ids_ ring and passes the request to the kernel, which    *)
(* opens the device, stores it in bdevs[dev_id] and completes the request; *)
(* the worker copies the answer to the client.                             *)
(*                                                                         *)
(* dev_ids_ is an mpmc::ring_buffer: Dequeue tries its lock once and       *)
(* returns false both when another worker holds the lock and when the ring *)
(* is empty.  RegisterBlkdev does not act on that result, and sends the    *)
(* request with whatever dev_id_ the fresh request memory holds.           *)
(*                                                                         *)
(* Each client has one queue pair, polled by one worker; each worker has a *)
(* kernel queue pair, polled by one kernel thread.  A client opens one     *)
(* device path, its own, any number of times up to MaxCalls in all.        *)
(***************************************************************************)
EXTENDS Integers, Sequences, FiniteSets

CONSTANTS
  Clients,      \* client threads; each stands for the path it registers too
  NoClient,     \* no request in hand, no device in a table entry (NULL)
  NumWorkers,   \* userspace workers
  NumTables,    \* instances of BlkdevTable::Server, one per RegisterInstance
  NumIds,       \* MAX_MOUNTED_BDEVS
  MaxCalls      \* bound: calls of RegisterBlkdev in a behaviour

ASSUME TableAssumption ==
  /\ NoClient \notin Clients
  /\ {NumWorkers, NumTables, NumIds, MaxCalls} \subseteq Nat \ {0}

Workers == 1 .. NumWorkers
Tables == 1 .. NumTables
Ids == 0 .. NumIds - 1
\* What a dev_id_ field may hold; NumIds stands for every value too large.
Fields == 0 .. NumIds

VARIABLES
  workerOf, tableOf,     \* each client: its worker, its table instance; fixed
  queue_, enqueued,      \* each dev_ids_ ring: slots and counters
  dequeued,
  d_lock,                \* ... and the lock of Dequeue
  cpc,                   \* each client's request: no | code 0 | code 1 | answered
  dev_id, code,          \* its kernel request: fields
  taken,                 \* ... the ring gave it its dev_id (history)
  done,                  \* ... it is in the completion queue
  wpc, wrq, entry,       \* each worker: location, request, ring entry
  kq, krq,               \* each kernel thread: its queue, its request
  bdevs,                 \* the kernel's table
  refs,                  \* references to each device that the kernel holds
  loaded,                \* the kernel module is loaded
  answers,               \* what RegisterBlkdev calls have returned (history)
  missed                 \* calls whose Dequeue returned false (history)

fixed == <<workerOf, tableOf>>
ring == <<queue_, enqueued, dequeued, d_lock>>
request == <<dev_id, code, taken, done>>
worker == <<wpc, wrq, entry>>
kernel == <<kq, krq, bdevs, refs, loaded>>
history == <<answers, missed>>
vars == <<fixed, ring, cpc, request, worker, kernel, history>>

\* The constructor has put every id in its ring, in order.
Init ==
  /\ workerOf \in [Clients -> Workers] /\ tableOf \in [Clients -> Tables]
  /\ queue_ = [t \in Tables |-> [i \in Ids |-> i]]
  /\ enqueued = [t \in Tables |-> NumIds]
  /\ dequeued = [t \in Tables |-> 0]
  /\ d_lock = [t \in Tables |-> FALSE]
  /\ cpc = [c \in Clients |-> "idle"]
  /\ dev_id = [c \in Clients |-> 0] /\ code = [c \in Clients |-> "none"]
  /\ taken = [c \in Clients |-> FALSE] /\ done = [c \in Clients |-> FALSE]
  /\ wpc = [w \in Workers |-> "poll"] /\ wrq = [w \in Workers |-> NoClient]
  /\ entry = [w \in Workers |-> 0]
  /\ kq = [w \in Workers |-> <<>>] /\ krq = [w \in Workers |-> NoClient]
  /\ bdevs = [d \in Ids |-> NoClient] /\ refs = [c \in Clients |-> 0]
  /\ loaded = TRUE
  /\ answers = {} /\ missed = 0

Pending(c) == cpc[c] # "idle"
Calls == Cardinality(answers) + Cardinality({c \in Clients : Pending(c)})
-----------------------------------------------------------------------------
(* The client: RegisterBlkdev enqueues a request and waits for it.  It      *)
(* returns the dev_id of the answer and does not look at its code.         *)

RegisterBlkdev(c) ==
  /\ cpc[c] = "idle"
  /\ Calls < MaxCalls
  /\ cpc' = [cpc EXCEPT ![c] = "new"]
  /\ taken' = [taken EXCEPT ![c] = FALSE]
  /\ UNCHANGED <<fixed, ring, dev_id, code, done, worker, kernel, history>>

WaitReturns(c) ==
  /\ cpc[c] = "answered"
  /\ cpc' = [cpc EXCEPT ![c] = "idle"]
  /\ answers' = answers \cup {[who |-> c, nth |-> Cardinality(answers), id |-> dev_id[c],
                              code |-> code[c], taken |-> taken[c]]}
  /\ UNCHANGED <<fixed, ring, request, worker, kernel, missed>>
-----------------------------------------------------------------------------
(* The server worker, code 0: take an id and pass the request on.           *)

At(w, loc) == wpc[w] = loc
Goto(w, loc) == wpc' = [wpc EXCEPT ![w] = loc]
TableOf(w) == tableOf[wrq[w]]

ServerStart(w, c) ==
  /\ At(w, "poll") /\ workerOf[c] = w
  /\ cpc[c] = "new"
  /\ Goto(w, "lock")
  /\ wrq' = [wrq EXCEPT ![w] = c]
  /\ UNCHANGED <<fixed, ring, cpc, request, entry, kernel, history>>

\* Dequeue returned false: dev_id_ is what the request's memory holds.
Missed(w) ==
  /\ \E d \in Fields : dev_id' = [dev_id EXCEPT ![wrq[w]] = d]
  /\ missed' = missed + 1
  /\ Goto(w, "send")

\* Slip: the lock is taken without looking whether it is free.
TryLock_Blind(w) ==
  /\ At(w, "lock")
  /\ d_lock' = [d_lock EXCEPT ![TableOf(w)] = TRUE]
  /\ Goto(w, "check")
  /\ UNCHANGED <<dev_id, missed>>
  /\ UNCHANGED <<fixed, queue_, enqueued, dequeued, cpc, code, taken, done, wrq, entry, kernel, answers>>

TryLock(w) ==
  /\ At(w, "lock")
  /\ \/ /\ ~d_lock[TableOf(w)]
        /\ d_lock' = [d_lock EXCEPT ![TableOf(w)] = TRUE]
        /\ Goto(w, "check")
        /\ UNCHANGED <<dev_id, missed>>
     \/ /\ d_lock[TableOf(w)]
        /\ Missed(w)
        /\ UNCHANGED d_lock
  /\ UNCHANGED <<fixed, queue_, enqueued, dequeued, cpc, code, taken, done, wrq, entry, kernel, answers>>

\* The counters are loaded; an empty ring releases the lock.
DequeueCheck(w) ==
  /\ At(w, "check")
  /\ entry' = [entry EXCEPT ![w] = dequeued[TableOf(w)] % NumIds]
  /\ \/ /\ enqueued[TableOf(w)] = dequeued[TableOf(w)]
        /\ d_lock' = [d_lock EXCEPT ![TableOf(w)] = FALSE]
        /\ Missed(w)
     \/ /\ enqueued[TableOf(w)] # dequeued[TableOf(w)]
        /\ Goto(w, "load")
        /\ UNCHANGED <<d_lock, dev_id, missed>>
  /\ UNCHANGED <<fixed, queue_, enqueued, dequeued, cpc, code, taken, done, wrq, kernel, answers>>

DequeueLoad(w) ==
  /\ At(w, "load")
  /\ dev_id' = [dev_id EXCEPT ![wrq[w]] = queue_[TableOf(w)][entry[w]]]
  /\ taken' = [taken EXCEPT ![wrq[w]] = TRUE]
  /\ Goto(w, "advance")
  /\ UNCHANGED <<fixed, ring, cpc, code, done, wrq, entry, kernel, history>>

\* Slip: the success path keeps the lock.
DequeueAdvance_NoUnlock(w) ==
  /\ At(w, "advance")
  /\ dequeued' = [dequeued EXCEPT ![TableOf(w)] = @ + 1]
  /\ Goto(w, "send")
  /\ UNCHANGED <<fixed, queue_, enqueued, d_lock, cpc, request, wrq, entry, kernel, history>>

DequeueAdvance(w) ==
  /\ At(w, "advance")
  /\ dequeued' = [dequeued EXCEPT ![TableOf(w)] = @ + 1]
  /\ Goto(w, "unlock")
  /\ UNCHANGED <<fixed, queue_, enqueued, d_lock, cpc, request, wrq, entry, kernel, history>>

DequeueUnlock(w) ==
  /\ At(w, "unlock")
  /\ d_lock' = [d_lock EXCEPT ![TableOf(w)] = FALSE]
  /\ Goto(w, "send")
  /\ UNCHANGED <<fixed, queue_, enqueued, dequeued, cpc, request, wrq, entry, kernel, history>>

\* The kernel queue is never full: a worker holds one place for each client.
KernSubmit(w) ==
  /\ At(w, "send")
  /\ kq' = [kq EXCEPT ![w] = Append(@, wrq[w])]
  /\ cpc' = [cpc EXCEPT ![wrq[w]] = "sent"]
  /\ Goto(w, "poll")
  /\ wrq' = [wrq EXCEPT ![w] = NoClient]
  /\ UNCHANGED <<fixed, ring, request, entry, krq, bdevs, refs, loaded, history>>

\* Slip: the worker answers without asking for the kernel's completion.
KernAnswered_Early(w, c) ==
  /\ At(w, "poll") /\ workerOf[c] = w
  /\ cpc[c] = "sent"
  /\ done' = [done EXCEPT ![c] = FALSE]
  /\ cpc' = [cpc EXCEPT ![c] = "answered"]
  /\ UNCHANGED <<fixed, ring, dev_id, code, taken, worker, kernel, history>>

\* Code 1: when the kernel has answered, so does the worker.
KernAnswered(w, c) ==
  /\ At(w, "poll") /\ workerOf[c] = w
  /\ cpc[c] = "sent" /\ done[c]
  /\ done' = [done EXCEPT ![c] = FALSE]
  /\ cpc' = [cpc EXCEPT ![c] = "answered"]
  /\ UNCHANGED <<fixed, ring, dev_id, code, taken, worker, kernel, history>>
-----------------------------------------------------------------------------
(* The kernel thread and the module it calls.                              *)

\* Slip: a request for an absent module is dropped.
KernelTake_NoReply(w) ==
  /\ krq[w] = NoClient /\ kq[w] # <<>>
  /\ LET c == Head(kq[w]) IN
       \/ /\ loaded
          /\ krq' = [krq EXCEPT ![w] = c]
          /\ \/ code' = [code EXCEPT ![c] = "open"] /\ refs' = [refs EXCEPT ![c] = @ + 1]
             \/ code' = [code EXCEPT ![c] = "error"] /\ UNCHANGED refs
       \/ /\ ~loaded
          /\ code' = [code EXCEPT ![c] = "error"]
          /\ UNCHANGED <<krq, refs>>
  /\ kq' = [kq EXCEPT ![w] = Tail(@)]
  /\ UNCHANGED <<fixed, ring, cpc, dev_id, taken, done, worker, bdevs, loaded, history>>

\* worker_runtime dequeues; blkdev_get_by_path opens the device or fails.
\* Without the module the request is completed as failed at once.
KernelTake(w) ==
  /\ krq[w] = NoClient /\ kq[w] # <<>>
  /\ LET c == Head(kq[w]) IN
       \/ /\ loaded
          /\ krq' = [krq EXCEPT ![w] = c]
          /\ \/ code' = [code EXCEPT ![c] = "open"] /\ refs' = [refs EXCEPT ![c] = @ + 1]
             \/ code' = [code EXCEPT ![c] = "error"] /\ UNCHANGED refs
          /\ UNCHANGED done
       \/ /\ ~loaded
          /\ code' = [code EXCEPT ![c] = "error"]
          /\ done' = [done EXCEPT ![c] = TRUE]
          /\ UNCHANGED <<krq, refs>>
  /\ kq' = [kq EXCEPT ![w] = Tail(@)]
  /\ UNCHANGED <<fixed, ring, cpc, dev_id, taken, worker, bdevs, loaded, history>>

Opened(c) == IF code[c] = "open" THEN c ELSE NoClient

\* The store into the table, the code, and CompleteInf.
register_bdev(w) ==
  /\ krq[w] # NoClient
  /\ LET c == krq[w] IN
       /\ \/ /\ dev_id[c] < NumIds
             /\ bdevs' = [bdevs EXCEPT ![dev_id[c]] = Opened(c)]
             /\ UNCHANGED code
          \/ /\ dev_id[c] >= NumIds
             /\ code' = [code EXCEPT ![c] = "error"]
             /\ UNCHANGED bdevs
       /\ done' = [done EXCEPT ![c] = TRUE]
  /\ krq' = [krq EXCEPT ![w] = NoClient]
  /\ UNCHANGED <<fixed, ring, cpc, dev_id, taken, worker, kq, refs, loaded, history>>

\* Slip: the loop ends one entry early.
exit_blkdev_table_Short ==
  /\ loaded
  /\ \A w \in Workers : krq[w] = NoClient
  /\ refs' = [c \in Clients |-> refs[c] - Cardinality({d \in 0 .. NumIds - 2 : bdevs[d] = c})]
  /\ bdevs' = [d \in Ids |-> IF d < NumIds - 1 THEN NoClient ELSE bdevs[d]]
  /\ loaded' = FALSE
  /\ UNCHANGED <<fixed, ring, cpc, request, worker, kq, krq, history>>

\* exit_blkdev_table, while no thread is inside the module.
exit_blkdev_table ==
  /\ loaded
  /\ \A w \in Workers : krq[w] = NoClient
  /\ refs' = [c \in Clients |-> refs[c] - Cardinality({d \in Ids : bdevs[d] = c})]
  /\ bdevs' = [d \in Ids |-> NoClient]
  /\ loaded' = FALSE
  /\ UNCHANGED <<fixed, ring, cpc, request, worker, kq, krq, history>>
-----------------------------------------------------------------------------
ServerStep(w) ==
  \/ TryLock(w) \/ DequeueCheck(w) \/ DequeueLoad(w) \/ DequeueAdvance(w)
  \/ DequeueUnlock(w) \/ KernSubmit(w)
  \/ \E c \in Clients : ServerStart(w, c) \/ KernAnswered(w, c)
KernelStep(w) == KernelTake(w) \/ register_bdev(w)

Next ==
  \/ \E c \in Clients : RegisterBlkdev(c) \/ WaitReturns(c)
  \/ \E w \in Workers : ServerStep(w) \/ KernelStep(w)
  \/ exit_blkdev_table

Spec == Init /\ [][Next]_vars

\* Worker::DoWork and worker_runtime poll for as long as the server runs, and
\* a waiting client polls its completion queue.
FairSpec ==
  /\ Spec
  /\ \A w \in Workers : WF_vars(ServerStep(w)) /\ WF_vars(KernelStep(w))
  /\ \A c \in Clients : WF_vars(WaitReturns(c))
-----------------------------------------------------------------------------
\* Types of the variables; a ring never gives out more than it holds.
TypeOK ==
  /\ workerOf \in [Clients -> Workers] /\ tableOf \in [Clients -> Tables]
  /\ queue_ \in [Tables -> [Ids -> Ids]]
  /\ enqueued \in [Tables -> 0 .. NumIds] /\ dequeued \in [Tables -> 0 .. NumIds]
  /\ d_lock \in [Tables -> BOOLEAN]
  /\ cpc \in [Clients -> {"idle", "new", "sent", "answered"}]
  /\ dev_id \in [Clients -> Fields] /\ code \in [Clients -> {"none", "open", "error"}]
  /\ taken \in [Clients -> BOOLEAN] /\ done \in [Clients -> BOOLEAN]
  /\ wpc \in [Workers -> {"poll", "lock", "check", "load", "advance", "unlock", "send"}]
  /\ wrq \in [Workers -> Clients \cup {NoClient}] /\ entry \in [Workers -> Ids]
  /\ kq \in [Workers -> Seq(Clients)] /\ krq \in [Workers -> Clients \cup {NoClient}]
  /\ bdevs \in [Ids -> Clients \cup {NoClient}] /\ refs \in [Clients -> Nat]
  /\ loaded \in BOOLEAN /\ missed \in 0 .. MaxCalls

\* The ids that a table's ring has given to calls answered or under way.
InFlight == {[who |-> c, nth |-> -1, id |-> dev_id[c], code |-> code[c], taken |-> taken[c]] :
               c \in {d \in Clients : Pending(d)}}
Taken(t) == {a \in answers \cup InFlight : a.taken /\ tableOf[a.who] = t}

\* mpmc::ring_buffer::Dequeue gives an id to at most one call, however the
\* workers' loads, stores and locks interleave, and whatever other calls miss.
IdsTakenOnce ==
  \A t \in Tables : \A a, b \in Taken(t) : a.id = b.id => a = b

\* The calls that RegisterBlkdev serves as intended: one table instance, and
\* no Dequeue has returned false.
Sound == missed = 0 /\ \A c, d \in Clients : tableOf[c] = tableOf[d]

\* The dev_id that RegisterBlkdev returned names the caller's device in the
\* kernel's table for as long as the module stays loaded, and nothing if the
\* device could not be opened: no other call overwrites bdevs[dev_id].
AnswerMatchesTable ==
  Sound /\ loaded =>
    \A a \in answers : bdevs[a.id] = IF a.code = "open" THEN a.who ELSE NoClient

\* Each open block device is in the table or about to be stored there by
\* register_bdev, so that exit_blkdev_table releases every one of them.
NoDeviceLeaked ==
  Sound => \A c \in Clients :
    refs[c] = Cardinality({d \in Ids : loaded /\ bdevs[d] = c})
            + Cardinality({w \in Workers : krq[w] = c /\ code[c] = "open"})

\* Dequeue returns false only to a worker that met another at the lock of a
\* table, or after more calls than the table has ids: a lock is never left
\* held, and no id is lost.
MissHasCause ==
  missed > 0 =>
    \E t \in Tables : LET users == {c \in Clients : tableOf[c] = t} IN
      \/ Cardinality({workerOf[c] : c \in users}) > 1
      \/ Cardinality({a \in answers \cup InFlight : tableOf[a.who] = t}) > NumIds

\* The types, each id given to one call, no device leaked, and no Dequeue that
\* misses without a cause: what the ring and the table keep at every load, store
\* and lock of the workers.
BlkdevInv == TypeOK /\ IdsTakenOnce /\ NoDeviceLeaked /\ MissHasCause

\* Every RegisterBlkdev call returns, also when the ring is empty or busy, the
\* device cannot be opened or the kernel module has gone.
RegisterReturns ==
  \A c \in Clients : Pending(c) ~> ~Pending(c)
=============================================================================
