------------------------------- MODULE BlkMQ -------------------------------
(***************************************************************************)
(* Direct issue to a hardware queue: the part of the kernel's blk-mq that  *)
(* the MQ driver carries a copy of, and that the older request_layer       *)
(* driver carries too.  A request is allocated on a hardware context       *)
(* (hctx), gets a dispatch budget and a driver tag, and is handed to the   *)
(* device's queue_rq without going through a scheduler.                    *)
(*                                                                         *)
(* The hctxs are those of the request queues that share one tag set.  What *)
(* the block layer itself does around this code is marked external: it     *)
(* allocates and frees requests, completes them, stops and quiesces        *)
(* queues, and its sbitmap hands out any free bit.                         *)
(*                                                                         *)
(* r names a request structure and the kernel thread that issues it.       *)
(***************************************************************************)
EXTENDS Integers, FiniteSets

CONSTANTS
    Requests,
    Hctxs,       \* one per request queue on the tag set
    FirstHctx,   \* the only queue when the tag set is not shared
    NrTags,      \* tags->nr_tags
    NrReserved,  \* tags->nr_reserved_tags
    NrSched,     \* sched_tags a scheduler has besides the reserved ones
    Paused,      \* the queues the block layer stops or quiesces
    MinShare,    \* the 4U of hctx_may_queue
    Budget,      \* what get_budget grants an hctx at once
    Tight,       \* the hctxs it grants a single one
    BusyLevels   \* values of the first queue's dispatch_busy left by earlier traffic

ASSUME BlkMQAssumption ==
    /\ FirstHctx \in Hctxs /\ Paused \subseteq Hctxs
    /\ IsFiniteSet(Hctxs) /\ IsFiniteSet(Requests)
    /\ NrTags \in Nat /\ NrReserved \in 0 .. NrTags
    /\ NrSched \in Nat /\ MinShare \in Nat \ {0} /\ Budget \in Nat /\ Tight \subseteq Hctxs
    /\ BusyLevels \subseteq Nat

VARIABLES
    driver,         \* which driver is loaded: fixed
    elevator,       \* the queues have a scheduler: fixed
    tag_shared,     \* BLK_MQ_F_TAG_SHARED: fixed
    bitmap,         \* driver tags in use
    rqs,            \* tags->rqs
    active_queues,  \* tags->active_queues
    tag_active,     \* hctxs with BLK_MQ_S_TAG_ACTIVE
    nr_active,      \* hctx->nr_active
    dispatch_busy,  \* hctx->dispatch_busy
    budget,         \* budgets taken of each hctx
    gate,           \* whether a queue runs, is stopped or is being quiesced
    drain,          \* readers the quiescing of an hctx still waits for
    rq,             \* the requests
    th              \* the threads that issue them

tags == <<bitmap, rqs>>
counts == <<active_queues, tag_active, nr_active>>
fixed == <<driver, elevator, tag_shared>>
queue == <<dispatch_busy, budget, gate, drain>>
mqvars == <<driver, elevator, tag_shared, bitmap, rqs, active_queues,
            tag_active, nr_active, dispatch_busy, budget, gate, drain, rq, th>>

NoTag == -1
Tags == 0 .. NrTags - 1
SchedTag == NrReserved  \* any scheduler tag past the reserved ones
Queues == IF tag_shared THEN Hctxs ELSE {FirstHctx}
Fresh == [at |-> "free", mq_hctx |-> FirstHctx, tag |-> NoTag, internal_tag |-> NoTag,
          inflight |-> FALSE]
Started(pc, h) == [pc |-> pc, hctx |-> h, back |-> "lock", share |-> 0, res |-> "none"]

MQInit ==
    /\ elevator \in BOOLEAN
    /\ tag_shared \in BOOLEAN
    /\ bitmap = {}
    /\ rqs = [t \in Tags |-> {}]
    /\ active_queues = 0
    /\ tag_active = {}
    /\ nr_active = [h \in Hctxs |-> 0]
    /\ \E b \in BusyLevels :
         dispatch_busy = [h \in Hctxs |-> IF h = FirstHctx THEN b ELSE 0]
    /\ budget = [h \in Hctxs |-> 0]
    /\ gate = [h \in Hctxs |-> "runs"]
    /\ drain = [h \in Hctxs |-> {}]
    /\ rq = [r \in Requests |-> Fresh]
    /\ th = [r \in Requests |-> Started("idle", FirstHctx)]

At(r, pc) == th[r].pc = pc
Goto(r, pc) == th' = [th EXCEPT ![r].pc = pc]
H(r) == th[r].hctx
-----------------------------------------------------------------------------
(* Tags *)

blk_mq_tag_is_reserved(t) == t < NrReserved

\* __sbitmap_queue_get on the bitmap that blk_mq_get_tag selects.
FreeTags(reserved) ==
    {t \in Tags \ bitmap : blk_mq_tag_is_reserved(t) = reserved}

\* The share of the tags that hctx_may_queue grants with this many users.
Share(users) ==
    LET depth == NrTags - NrReserved
        part == (depth + users - 1) \div users
    IN  IF part > MinShare THEN part ELSE MinShare

\* What the release of a request does to its driver tag.
blk_mq_put_driver_tag(r) ==
    /\ bitmap' = bitmap \ {rq[r].tag}
    /\ nr_active' = IF rq[r].inflight THEN [nr_active EXCEPT ![rq[r].mq_hctx] = @ - 1]
                                      ELSE nr_active

\* external: blk_mq_end_request and the release of the request.  A pointer to a
\* request that was released is written as no request.
FreeRequest(r) ==
    /\ blk_mq_put_driver_tag(r)
    /\ rqs' = [t \in Tags |-> IF t = rq[r].tag THEN {} ELSE rqs[t]]
    /\ rq' = [rq EXCEPT ![r] = Fresh]
-----------------------------------------------------------------------------
(* bio_to_rq *)

\* external: blk_mq_alloc_request_hctx.  With a scheduler the request gets a
\* scheduler tag, else a driver tag at once, counted like any other.
Allocate(r, h) ==
    \/ /\ elevator
       /\ Cardinality({s \in Requests : rq[s].internal_tag = SchedTag}) < NrSched
       /\ rq' = [rq EXCEPT ![r] = [Fresh EXCEPT !.at = "issuer", !.mq_hctx = h,
                                                !.internal_tag = SchedTag]]
       /\ UNCHANGED <<bitmap, rqs, counts>>
    \/ /\ ~elevator
       /\ \E t \in FreeTags(FALSE) :
            /\ bitmap' = bitmap \cup {t}
            /\ rqs' = [rqs EXCEPT ![t] = {r}]
            /\ rq' = [rq EXCEPT ![r] = [Fresh EXCEPT !.at = "issuer", !.mq_hctx = h,
                                                     !.tag = t, !.inflight = tag_shared]]
       /\ IF tag_shared
            THEN /\ active_queues' = IF h \in tag_active THEN active_queues
                                                         ELSE active_queues + 1
                 /\ tag_active' = tag_active \cup {h}
                 /\ nr_active' = [nr_active EXCEPT ![h] = @ + 1]
            ELSE UNCHANGED counts

\* The MQ driver issues for many clients at once, the older driver once, from
\* its init function.
MayStart(r) ==
    /\ At(r, "idle") /\ rq[r].at = "free"
    /\ driver = "mq_driver" \/ \A s \in Requests : At(s, "idle") /\ rq[s].at = "free"

\* The MQ driver issues the request it got; the older driver takes a driver
\* tag for it first, and ignores whether it got one.
bio_to_rq(r, h) ==
    /\ MayStart(r)
    /\ driver = "request_layer" => h = FirstHctx
    /\ h \in Queues
    /\ Allocate(r, h)
    /\ th' = [th EXCEPT ![r] = Started(IF driver = "mq_driver" THEN "lock" ELSE "tag", h)]
    /\ UNCHANGED <<fixed, queue>>

\* Allocation fails: the MQ driver answers so, the older driver goes on with
\* the error code as its request.
AllocationFails(r) ==
    /\ MayStart(r)
    /\ Goto(r, IF driver = "mq_driver" THEN "idle" ELSE "oops")
    /\ UNCHANGED <<fixed, queue, tags, counts, rq>>
-----------------------------------------------------------------------------
(* blk_mq_get_driver_tag, with back the place it returns to *)

Returned(r) == th[r].back

HasTag(r) ==
    /\ At(r, "tag")
    /\ rq[r].tag # NoTag
    /\ Goto(r, Returned(r))
    /\ UNCHANGED <<fixed, queue, tags, counts, rq>>

blk_mq_tag_busy(r) ==
    /\ At(r, "tag")
    /\ rq[r].tag = NoTag
    /\ Goto(r, IF ~tag_shared THEN "get"
               ELSE IF H(r) \in tag_active THEN "users" ELSE "set")
    /\ UNCHANGED <<fixed, queue, tags, counts, rq>>

\* Slip: the bit is set, and whether it was set already is not looked at.
SetTagActive_Blind(r) ==
    /\ At(r, "set")
    /\ tag_active' = tag_active \cup {H(r)}
    /\ Goto(r, "inc")
    /\ UNCHANGED <<fixed, queue, tags, active_queues, nr_active, rq>>

SetTagActive(r) ==
    /\ At(r, "set")
    /\ tag_active' = tag_active \cup {H(r)}
    /\ Goto(r, IF H(r) \in tag_active THEN "users" ELSE "inc")
    /\ UNCHANGED <<fixed, queue, tags, active_queues, nr_active, rq>>

CountQueue(r) ==
    /\ At(r, "inc")
    /\ active_queues' = active_queues + 1
    /\ Goto(r, "users")
    /\ UNCHANGED <<fixed, queue, tags, tag_active, nr_active, rq>>

\* hctx_may_queue reads the number of users, then the queue's own count.
ReadUsers(r) ==
    /\ At(r, "users")
    /\ IF NrTags - NrReserved = 1 \/ active_queues = 0
         THEN Goto(r, "get")
         ELSE th' = [th EXCEPT ![r].pc = "compare", ![r].share = Share(active_queues)]
    /\ UNCHANGED <<fixed, queue, tags, counts, rq>>

hctx_may_queue(r) ==
    /\ At(r, "compare")
    /\ th' = [th EXCEPT ![r].pc = IF nr_active[H(r)] < th[r].share THEN "get" ELSE "no_tag",
                        ![r].share = 0]
    /\ UNCHANGED <<fixed, queue, tags, counts, rq>>

blk_mq_get_tag(r) ==
    LET free == FreeTags(blk_mq_tag_is_reserved(rq[r].internal_tag)) IN
    /\ At(r, "get")
    /\ \/ \E t \in free :
            /\ bitmap' = bitmap \cup {t}
            /\ rq' = [rq EXCEPT ![r].tag = t]
            /\ Goto(r, "count")
       \/ /\ free = {}
          /\ Goto(r, "no_tag")
          /\ UNCHANGED <<bitmap, rq>>
    /\ UNCHANGED <<fixed, queue, rqs, counts>>

CountRequest(r) ==
    /\ At(r, "count")
    /\ IF tag_shared
         THEN /\ rq' = [rq EXCEPT ![r].inflight = TRUE]
              /\ nr_active' = [nr_active EXCEPT ![H(r)] = @ + 1]
         ELSE UNCHANGED <<rq, nr_active>>
    /\ Goto(r, "map")
    /\ UNCHANGED <<fixed, queue, tags, active_queues, tag_active>>

MapTag(r) ==
    /\ At(r, "map")
    /\ rqs' = [rqs EXCEPT ![rq[r].tag] = {r}]
    /\ Goto(r, Returned(r))
    /\ UNCHANGED <<fixed, queue, bitmap, counts, rq>>
-----------------------------------------------------------------------------
(* blk_mq_try_issue_directly *)

\* No tag: the budget goes back; the older driver's early try goes on.
GotNoTag(r) ==
    /\ At(r, "no_tag")
    /\ IF Returned(r) = "lock"
         THEN /\ Goto(r, "lock")
              /\ UNCHANGED budget
         ELSE /\ th' = [th EXCEPT ![r].pc = "end", ![r].res = "NOT_OK"]
              /\ budget' = [budget EXCEPT ![H(r)] = @ - 1]
    /\ UNCHANGED <<fixed, dispatch_busy, gate, drain, tags, counts, rq>>

hctx_lock(r) ==
    /\ At(r, "lock")
    /\ Goto(r, "check")
    /\ UNCHANGED <<fixed, queue, tags, counts, rq>>

\* Slip: the lock is taken only around queue_rq, after the check.
InSection_Late(r) == th[r].pc \in {"issue", "update", "end", "unlock"}

\* In a read-side section of the hctx: between hctx_lock and hctx_unlock.
InSection(r) ==
    \/ th[r].pc \in {"check", "budget", "issue", "update", "end", "unlock"}
    \/ th[r].back = "issue" /\ th[r].pc \notin {"idle", "oops", "lock"}

CheckStopped(r) ==
    /\ At(r, "check")
    /\ th' = [th EXCEPT
         ![r].pc = IF gate[H(r)] = "runs" THEN "budget" ELSE "end",
         ![r].res = IF gate[H(r)] = "runs" THEN "none" ELSE "NOT_OK"]
    /\ UNCHANGED <<fixed, queue, tags, counts, rq>>

blk_mq_get_dispatch_budget(r) ==
    /\ At(r, "budget")
    /\ IF budget[H(r)] < (IF H(r) \in Tight THEN 1 ELSE Budget)
         THEN /\ budget' = [budget EXCEPT ![H(r)] = @ + 1]
              /\ th' = [th EXCEPT ![r].pc = "tag", ![r].back = "issue"]
         ELSE /\ th' = [th EXCEPT ![r].pc = "end", ![r].res = "NOT_OK"]
              /\ UNCHANGED budget
    /\ UNCHANGED <<fixed, dispatch_busy, gate, drain, tags, counts, rq>>

\* __blk_mq_issue_directly: queue_rq takes the request ...
queue_rq(r) ==
    /\ At(r, "issue")
    /\ rq' = [rq EXCEPT ![r].at = "device"]
    /\ th' = [th EXCEPT ![r].pc = "update", ![r].res = "OK"]
    /\ UNCHANGED <<fixed, queue, tags, counts>>

\* ... or gives its budget back and refuses it.
Refused(r) ==
    /\ At(r, "issue")
    /\ \E res \in {"DEVICE_BUSY", "NOT_OK"} :
         th' = [th EXCEPT ![r].pc = "update", ![r].res = res]
    /\ budget' = [budget EXCEPT ![H(r)] = @ - 1]
    /\ UNCHANGED <<fixed, dispatch_busy, gate, drain, tags, counts, rq>>

\* Slip: a request the device has no room for is left to a requeue.
blk_mq_update_dispatch_busy_Requeue(r) ==
    /\ At(r, "update")
    /\ dispatch_busy' = IF elevator THEN dispatch_busy
                        ELSE [dispatch_busy EXCEPT ![H(r)] = (@ * 7) \div 8]
    /\ Goto(r, IF th[r].res \in {"OK", "DEVICE_BUSY"} THEN "unlock" ELSE "end")
    /\ UNCHANGED <<fixed, budget, gate, drain, tags, counts, rq>>

\* busy is false whatever queue_rq returned.  The request may be gone by now.
blk_mq_update_dispatch_busy(r) ==
    /\ At(r, "update")
    /\ dispatch_busy' = IF elevator THEN dispatch_busy
                        ELSE [dispatch_busy EXCEPT ![H(r)] = (@ * 7) \div 8]
    /\ Goto(r, IF th[r].res = "OK" THEN "unlock" ELSE "end")
    /\ UNCHANGED <<fixed, budget, gate, drain, tags, counts, rq>>

EndRefused(r) ==
    /\ At(r, "end")
    /\ FreeRequest(r)
    /\ Goto(r, "unlock")
    /\ UNCHANGED <<fixed, queue, active_queues, tag_active>>

hctx_unlock(r) ==
    /\ At(r, "unlock")
    /\ th' = [th EXCEPT ![r] = Started("idle", FirstHctx)]
    /\ drain' = [h \in Hctxs |-> drain[h] \ {r}]
    /\ UNCHANGED <<fixed, dispatch_busy, budget, gate, tags, counts, rq>>
-----------------------------------------------------------------------------
(* external: the device and the rest of the block layer *)

\* The device ends the request it finds under the tag.
DeviceEnds(r) ==
    /\ rq[r].at = "device"
    /\ FreeRequest(r)
    /\ budget' = [budget EXCEPT ![rq[r].mq_hctx] = @ - 1]
    /\ UNCHANGED <<fixed, dispatch_busy, gate, drain, active_queues, tag_active, th>>

StopOrStart(h) ==
    /\ gate[h] \in {"runs", "stopped"}
    /\ gate' = [gate EXCEPT ![h] = IF @ = "runs" THEN "stopped" ELSE "runs"]
    /\ UNCHANGED <<fixed, dispatch_busy, budget, drain, tags, counts, rq, th>>

\* blk_mq_quiesce_queue sets the flag, then waits for the sections under way.
Quiesce(h) ==
    /\ gate[h] = "runs"
    /\ gate' = [gate EXCEPT ![h] = "quiescing"]
    /\ drain' = [drain EXCEPT ![h] = {r \in Requests : H(r) = h /\ InSection(r)}]
    /\ UNCHANGED <<fixed, dispatch_busy, budget, tags, counts, rq, th>>

QuiesceReturns(h) ==
    /\ gate[h] = "quiescing"
    /\ drain[h] = {}
    /\ gate' = [gate EXCEPT ![h] = "quiet"]
    /\ UNCHANGED <<fixed, dispatch_busy, budget, drain, tags, counts, rq, th>>

Unquiesce(h) ==
    /\ gate[h] = "quiet"
    /\ gate' = [gate EXCEPT ![h] = "runs"]
    /\ UNCHANGED <<fixed, dispatch_busy, budget, drain, tags, counts, rq, th>>
-----------------------------------------------------------------------------
Proceed(r) ==
    \/ HasTag(r) \/ blk_mq_tag_busy(r) \/ SetTagActive(r) \/ CountQueue(r)
    \/ ReadUsers(r) \/ hctx_may_queue(r) \/ blk_mq_get_tag(r) \/ CountRequest(r)
    \/ MapTag(r) \/ GotNoTag(r)
    \/ hctx_lock(r) \/ CheckStopped(r) \/ blk_mq_get_dispatch_budget(r)
    \/ queue_rq(r) \/ Refused(r) \/ blk_mq_update_dispatch_busy(r) \/ EndRefused(r)
    \/ hctx_unlock(r)

Issuer(r) ==
    \/ \E h \in Hctxs : bio_to_rq(r, h)
    \/ AllocationFails(r)
    \/ Proceed(r)

BlockLayer(h) ==
    \/ StopOrStart(h) \/ Quiesce(h) \/ QuiesceReturns(h) \/ Unquiesce(h)

MQNext ==
    \/ \E r \in Requests : Issuer(r) \/ DeviceEnds(r)
    \/ \E h \in Queues \cap Paused : BlockLayer(h)

MQFairness ==
    \A r \in Requests : WF_mqvars(Proceed(r)) /\ WF_mqvars(DeviceEnds(r))

MQSpec == MQInit /\ driver \in {"mq_driver", "request_layer"} /\ [][MQNext]_mqvars /\ MQFairness
-----------------------------------------------------------------------------
(* Properties *)

PCs == {"idle", "oops", "tag", "set", "inc", "users", "compare", "get", "count", "map",
        "no_tag", "lock", "check", "budget", "issue", "update", "end", "unlock"}

MQTypeOK ==
    /\ elevator \in BOOLEAN /\ tag_shared \in BOOLEAN
    /\ bitmap \subseteq Tags
    /\ rqs \in [Tags -> SUBSET Requests]
    /\ active_queues \in Nat /\ tag_active \subseteq Hctxs
    /\ nr_active \in [Hctxs -> Int] /\ budget \in [Hctxs -> Int]
    /\ dispatch_busy \in [Hctxs -> Nat]
    /\ gate \in [Hctxs -> {"runs", "stopped", "quiescing", "quiet"}]
    /\ drain \in [Hctxs -> SUBSET Requests]
    /\ rq \in [Requests -> [at : {"free", "issuer", "device"}, mq_hctx : Hctxs, tag : Tags \cup {NoTag},
                             internal_tag : {SchedTag, NoTag}, inflight : BOOLEAN]]
    /\ th \in [Requests -> [pc : PCs, hctx : Hctxs, back : {"lock", "issue"}, share : Nat,
                   res : {"none", "OK", "DEVICE_BUSY", "NOT_OK"}]]

\* A driver tag belongs to one request, the bitmap marks exactly the tags that
\* belong to one, and no request holds a reserved tag.
TagsExclusive ==
    /\ bitmap = {rq[r].tag : r \in Requests} \ {NoTag}
    /\ \A r, s \in Requests : r # s /\ rq[r].tag = rq[s].tag => rq[r].tag = NoTag
    /\ \A t \in bitmap : ~blk_mq_tag_is_reserved(t)

\* The device looks a request up by its tag, and finds the one it was given.
TagFindsRequest ==
    \A r \in Requests : rq[r].at = "device" => rq[r].tag # NoTag /\ rqs[rq[r].tag] = {r}

\* nr_active counts the requests of a queue that say they are counted, and
\* active_queues counts each active queue once, however their threads race.
CountsAgree ==
    /\ \A h \in Hctxs :
         nr_active[h] = Cardinality({r \in Requests : rq[r].mq_hctx = h /\ rq[r].inflight})
    /\ active_queues = Cardinality(tag_active) - Cardinality({r \in Requests : At(r, "inc")})

\* Past the budget, and not yet through queue_rq.
OnTheWay(r) == th[r].back = "issue" /\ th[r].pc \notin {"update", "end", "unlock"}

\* A budget is out for each request the device has and each thread on its way
\* to queue_rq, and for nothing else.
BudgetConserved ==
    \A h \in Hctxs :
      budget[h] = Cardinality({r \in Requests : /\ rq[r].mq_hctx = h
                                                /\ rq[r].at = "device" \/ OnTheWay(r)})

\* LABSTOR_MQ_OK is returned for a request the device took; for any other
\* code the request has been ended and holds nothing.
AnswerIsTrue ==
    \A r \in Requests : At(r, "unlock") /\ th[r].res # "OK" => rq[r] = Fresh

\* Once the quiescing of a queue has returned no thread is on its way to the
\* queue's queue_rq: the check is made under the lock that quiescing waits for.
QuietMeansIdle ==
    \A r \in Requests : gate[H(r)] = "quiet" => ~At(r, "budget") /\ ~OnTheWay(r)

\* Tags, budgets, counts and answers, and no thread left on its way when a queue
\* is quiet: what the issue path keeps however its threads interleave.
BlkMQInv == MQTypeOK /\ TagsExclusive /\ TagFindsRequest /\ CountsAgree /\ BudgetConserved
            /\ AnswerIsTrue /\ QuietMeansIdle

\* Each issue returns, and each request is ended, whatever stops the queue.
RequestsEnd ==
    \A r \in Requests : rq[r].at # "free" ~> rq[r].at = "free"
=============================================================================
