------------------------------ MODULE MQDriver ------------------------------
(***************************************************************************)
(* A block I/O through the MQ driver: the client's request, the server     *)
(* module that walks it through its code_ states 0..3, the kernel module   *)
(* that hands it to the block layer, and the device that finishes it.      *)
(*                                                                         *)
(* A client has a queue pair of its own, whose worker only looks at the    *)
(* oldest unanswered request.  The kernel queue pair is a FIFO of request  *)
(* pages and a set of answered ones; queue capacities belong to QueuePair. *)
(*                                                                         *)
(* The server and the kernel disagree on the layout of a request: the      *)
(* kernel's structure has num_hw_queues_ before cookie_, the server's has  *)
(* not.  The word the server calls flags_ is the kernel's cookie_, and the *)
(* kernel's flags_ is the word the server calls lock_.  word60 and word64  *)
(* are the two words, named by their offsets; of a word only the bits that *)
(* either side tests are kept.                                             *)
(***************************************************************************)
EXTENDS Integers, Sequences, FiniteSets

CONSTANTS
    Clients,
    Pages,        \* request pages of the kernel queue pair's allocator
    None,
    MaxIOs,       \* bound: requests per client
    Layers,       \* "hctx": requests name a hardware queue; "bio": they do not
    Cookies       \* the tested bits of the cookies submit_bio returns

Bits == {"POLLED_IO", "IO_IS_COMPLETE"}

ASSUME MQAssumption ==
    /\ None \notin Pages
    /\ Cardinality(Pages) >= Cardinality(Clients)
    /\ MaxIOs \in Nat
    /\ Layers \subseteq {"hctx", "bio"}
    /\ Cookies \subseteq SUBSET Bits

VARIABLES
    layer,     \* how the clients' requests go to the block layer: fixed
    pollable,  \* the device's queue has QUEUE_FLAG_POLL: fixed
    asked,     \* requests each client has enqueued
    answered,  \* requests of each client the server has completed
    code,      \* code_ of each client's oldest unanswered request
    page,      \* the kernel request it stands behind (kern_qtok_, kern_rq_)
    word60,    \* server: flags_    kernel: cookie_
    word64,    \* server: lock_     kernel: flags_
    op,        \* op_ of a kernel request
    io,        \* the client I/O a kernel request describes
    ksq,       \* kernel submission queue
    kcur,      \* the kernel worker: what it is handling
    kcq,       \* kernel completion queue
    device,    \* bios the device holds
    issued,    \* history: times an I/O was given to the device
    finished   \* history: I/Os whose bio has ended

server == <<layer, pollable, asked, answered, code, page>>
kernel == <<ksq, kcur, kcq>>
disk == <<device, issued, finished>>
vars == <<layer, pollable, asked, answered, code, page, word60, word64, op, io,
          ksq, kcur, kcq, device, issued, finished>>

IOs == Clients \X (1..MaxIOs)

HeadIO(c) == <<c, answered[c] + 1>>

Idle == [page |-> None, pc |-> "idle"]

\* A fresh page is zero; later its words hold what its last use left there.
Init ==
    /\ layer \in Layers
    /\ pollable \in BOOLEAN
    /\ asked = [c \in Clients |-> 0]
    /\ answered = [c \in Clients |-> 0]
    /\ code = [c \in Clients |-> 0]
    /\ page = [c \in Clients |-> None]
    /\ word60 = [p \in Pages |-> {}]
    /\ word64 = [p \in Pages |-> {}]
    /\ op = [p \in Pages |-> "io"]
    /\ io = [p \in Pages |-> None]
    /\ ksq = <<>>
    /\ kcur = Idle
    /\ kcq = {}
    /\ device = {}
    /\ issued = [i \in IOs |-> 0]
    /\ finished = {}

-----------------------------------------------------------------------------
(* Client *)

AIO(c) ==
    /\ asked[c] < MaxIOs
    /\ asked' = [asked EXCEPT ![c] = @ + 1]
    /\ UNCHANGED <<layer, pollable, answered, code, page, word60, word64, op, io, kernel,
                    disk>>

-----------------------------------------------------------------------------
(* Server: IO on the oldest request of a client.  Where IO returns false   *)
(* without a change the worker looks again later.                          *)

Unused == Pages \ {page[c] : c \in Clients}

\* case 0; IOKernelStart clears flags_ but not lock_.
SubmitIO(c) ==
    /\ asked[c] > answered[c]
    /\ code[c] = 0
    /\ \E p \in Unused :
        /\ page' = [page EXCEPT ![c] = p]
        /\ word60' = [word60 EXCEPT ![p] = {}]
        /\ op' = [op EXCEPT ![p] = "io"]
        /\ io' = [io EXCEPT ![p] = HeadIO(c)]
        /\ ksq' = Append(ksq, p)
    /\ code' = [code EXCEPT ![c] = 1]
    /\ UNCHANGED <<layer, pollable, asked, answered, word64, kcur, kcq, disk>>

PollingEnabled(p) == "POLLED_IO" \in word60[p]

IOIsComplete(p) == "IO_IS_COMPLETE" \in word60[p]

\* Slip: the poll goes out without PollStart.
PollStart_Missing(p) == op' = op

PollStart(p) == op' = [op EXCEPT ![p] = "poll"]

\* case 1
AfterSubmission(c) ==
    LET p == page[c] IN
    /\ code[c] = 1
    /\ p \in kcq
    /\ kcq' = kcq \ {p}
    /\ IF PollingEnabled(p)
         THEN /\ PollStart(p)
              /\ ksq' = Append(ksq, p)
              /\ code' = [code EXCEPT ![c] = 2]
         ELSE /\ code' = [code EXCEPT ![c] = 3]
              /\ UNCHANGED <<op, ksq>>
    /\ UNCHANGED <<layer, pollable, asked, answered, page, word60, word64, io, kcur,
                    disk>>

\* Complete the client's request and free the kernel's.
Answer(c) ==
    /\ answered' = [answered EXCEPT ![c] = @ + 1]
    /\ code' = [code EXCEPT ![c] = 0]
    /\ page' = [page EXCEPT ![c] = None]

\* Slip: the poll is sent again before its answer has come.
AfterPoll_NoWait(c) ==
    LET p == page[c] IN
    /\ code[c] = 2
    /\ Len(ksq) < 3
    /\ kcq' = kcq \ {p}
    /\ IF IOIsComplete(p)
         THEN Answer(c) /\ UNCHANGED ksq
         ELSE ksq' = Append(ksq, p) /\ UNCHANGED <<answered, code, page>>
    /\ UNCHANGED <<layer, pollable, asked, word60, word64, op, io, kcur, disk>>

\* case 2
AfterPoll(c) ==
    LET p == page[c] IN
    /\ code[c] = 2
    /\ p \in kcq
    /\ kcq' = kcq \ {p}
    /\ IF IOIsComplete(p)
         THEN Answer(c) /\ UNCHANGED ksq
         ELSE ksq' = Append(ksq, p) /\ UNCHANGED <<answered, code, page>>
    /\ UNCHANGED <<layer, pollable, asked, word60, word64, op, io, kcur, disk>>

\* case 3
AfterInterrupt(c) ==
    /\ code[c] = 3
    /\ IOIsComplete(page[c])
    /\ Answer(c)
    /\ UNCHANGED <<layer, pollable, asked, word60, word64, op, io, kernel, disk>>

-----------------------------------------------------------------------------
(* Kernel worker: mq_process_request_fn on the oldest request.             *)

KernelTake ==
    /\ kcur.pc = "idle"
    /\ ksq # <<>>
    /\ kcur' = [page |-> ksq[1], pc |-> op[ksq[1]]]
    /\ ksq' = Tail(ksq)
    /\ UNCHANGED <<server, word60, word64, op, io, kcq, disk>>

\* The queue supports polled completion.
PolledFlag == IF pollable THEN {"POLLED_IO"} ELSE {}

\* The client's buffer cannot be pinned, or there is no room for its pages.
convert_user_buf ==
    /\ kcur.pc = "io"
    /\ kcur' = [kcur EXCEPT !.pc = "reply"]
    /\ UNCHANGED <<server, word60, word64, op, io, ksq, kcq, disk>>

\* Slip: an early error leaves without completing the request.
SubmitFails_NoReply ==
    /\ kcur.pc = "io"
    /\ kcur' = Idle
    /\ UNCHANGED <<server, word60, word64, op, io, ksq, kcq, disk>>

\* No device, no bio or no request: the block layer never saw the bio.  flags_
\* is only touched once the device is known.
SubmitFails ==
    /\ kcur.pc = "io"
    /\ \/ UNCHANGED word64
       \/ word64' = [word64 EXCEPT ![kcur.page] = @ \union PolledFlag]
    /\ kcur' = [kcur EXCEPT !.pc = "reply"]
    /\ UNCHANGED <<server, word60, op, io, ksq, kcq, disk>>

Issue(p, w64, w60) ==
    /\ device' = device \union {[page |-> p, io |-> io[p]]}
    /\ issued' = [issued EXCEPT ![io[p]] = @ + 1]
    /\ word64' = [word64 EXCEPT ![p] = @ \union w64]
    /\ word60' = [word60 EXCEPT ![p] = w60]
    /\ UNCHANGED finished

\* blk_mq_try_issue_directly; cookie_ is not stored on this path.
SubmitHctx ==
    /\ kcur.pc = "io"
    /\ layer = "hctx"
    /\ Issue(kcur.page, PolledFlag, word60[kcur.page])
    /\ kcur' = [kcur EXCEPT !.pc = "reply"]
    /\ UNCHANGED <<server, op, io, ksq, kcq>>

\* The driver refuses the request, or the hardware queue is stopped or has no
\* budget or tag: blk_mq_end_request ends its bio at once.
SubmitRefused ==
    /\ kcur.pc = "io"
    /\ layer = "hctx"
    /\ word64' = [word64 EXCEPT ![kcur.page] = @ \union PolledFlag \union {"IO_IS_COMPLETE"}]
    /\ finished' = finished \union {io[kcur.page]}
    /\ kcur' = [kcur EXCEPT !.pc = "reply"]
    /\ UNCHANGED <<server, word60, op, io, ksq, kcq, device, issued>>

\* submit_bio, then cookie_ = cookie.
SubmitBio ==
    /\ kcur.pc = "io"
    /\ layer = "bio"
    /\ \E cookie \in Cookies : Issue(kcur.page, PolledFlag, cookie)
    /\ kcur' = [kcur EXCEPT !.pc = "reply"]
    /\ UNCHANGED <<server, op, io, ksq, kcq>>

\* io_complete of the bios in D.
IoComplete(D) ==
    /\ word64' = [p \in Pages |->
                    IF \E d \in D : d.page = p
                      THEN word64[p] \union {"IO_IS_COMPLETE"} ELSE word64[p]]
    /\ finished' = finished \union {d.io : d \in D}
    /\ device' = device \ D
    /\ UNCHANGED issued

\* mq_ops->poll ends any of the bios that are ready.
PollCompletion ==
    LET p == kcur.page IN
    /\ kcur.pc = "poll"
    /\ IF "IO_IS_COMPLETE" \notin word64[p] /\ "POLLED_IO" \in word64[p]
         THEN \E D \in SUBSET device : IoComplete(D)
         ELSE UNCHANGED <<word64, disk>>
    /\ kcur' = [kcur EXCEPT !.pc = "reply"]
    /\ UNCHANGED <<server, word60, op, io, ksq, kcq>>

\* labstor_queue_pair_CompleteInf
KernelReply ==
    /\ kcur.pc = "reply"
    /\ kcq' = kcq \union {kcur.page}
    /\ kcur' = Idle
    /\ UNCHANGED <<server, word60, word64, op, io, ksq, disk>>

-----------------------------------------------------------------------------

Interrupt ==
    /\ \E d \in device : IoComplete({d})
    /\ UNCHANGED <<server, word60, op, io, kernel>>

Server(c) == SubmitIO(c) \/ AfterSubmission(c) \/ AfterPoll(c) \/ AfterInterrupt(c)

Kernel ==
    \/ KernelTake \/ convert_user_buf \/ SubmitFails \/ SubmitHctx \/ SubmitRefused \/ SubmitBio
    \/ PollCompletion \/ KernelReply

Next == (\E c \in Clients : AIO(c) \/ Server(c)) \/ Kernel \/ Interrupt

Spec == Init /\ [][Next]_vars

\* The workers keep polling their queues and the device ends its bios.
FairSpec ==
    /\ Spec
    /\ \A c \in Clients : WF_vars(Server(c))
    /\ WF_vars(Kernel)
    /\ WF_vars(Interrupt)

-----------------------------------------------------------------------------
\* Types of the clients, the request pages and the kernel's queues.
TypeOK ==
    /\ asked \in [Clients -> 0..MaxIOs]
    /\ answered \in [Clients -> 0..MaxIOs]
    /\ \A c \in Clients : answered[c] <= asked[c]
    /\ code \in [Clients -> 0..3]
    /\ page \in [Clients -> Pages \union {None}]
    /\ word60 \in [Pages -> SUBSET Bits]
    /\ word64 \in [Pages -> SUBSET Bits]
    /\ op \in [Pages -> {"io", "poll"}]
    /\ io \in [Pages -> IOs \union {None}]
    /\ ksq \in Seq(Pages)
    /\ kcur \in [page : Pages \union {None}, pc : {"idle", "io", "poll", "reply"}]
    /\ kcq \subseteq Pages
    /\ device \subseteq [page : Pages, io : IOs]
    /\ issued \in [IOs -> Nat]
    /\ finished \subseteq IOs

\* The places where the kernel side holds page p, counted.
KernelHolds(p) ==
    Cardinality({i \in DOMAIN ksq : ksq[i] = p})
        + (IF kcur.page = p THEN 1 ELSE 0)
        + (IF p \in kcq THEN 1 ELSE 0)

\* In codes 1 and 2 the server waits for exactly one answer and exactly one is
\* on its way; in codes 0 and 3 none is, so no page is reused with an answer
\* still to come and no answer is taken for another request's.
OneAnswerDue ==
    /\ \A c, d \in Clients : (c # d /\ page[c] # None) => page[c] # page[d]
    /\ \A c \in Clients : (code[c] = 0) <=> (page[c] = None)
    /\ \A p \in Pages :
        KernelHolds(p) =
            IF \E c \in Clients : page[c] = p /\ code[c] \in {1, 2} THEN 1 ELSE 0

\* The types, and exactly one kernel answer due where code_ waits for one: what
\* IO keeps between any two passes of the server and the kernel worker.
MQInv == TypeOK /\ OneAnswerDue

\* A client I/O reaches the device at most once, however often the server has
\* to ask the kernel about it.
IssuedOnce == \A i \in IOs : issued[i] <= 1

\* A submission is always answered and the server always notices, also when
\* the kernel could not submit the I/O.
SubmissionNoticed == \A c \in Clients : (code[c] = 1) ~> (code[c] # 1)

\* labmods/mq_driver/server/mq_driver_server.cpp:125: the client's request is
\* completed once the interrupt handler has completed its I/O.
AnsweredAfterIO ==
    \A c \in Clients, n \in 1..MaxIOs : (n <= answered[c]) => <<c, n>> \in finished
=============================================================================
