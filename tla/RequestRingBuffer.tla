------------------------- MODULE RequestRingBuffer -------------------------
(***************************************************************************)
(* labstor_request_ring_buffer, the single-producer single-consumer ring   *)
(* under every submission queue, at the granularity of its loads and       *)
(* stores.  The producer is a thread in labstor_request_queue_Enqueue, the *)
(* consumer a worker that peeks at the head, processes it and dequeues it  *)
(* (userspace) or dequeues it at once (kernel).  The build defines no      *)
(* ENABLE_LOCKING, so neither side takes a lock.                           *)
(*                                                                         *)
(* Stores become visible in program order: the compiled code keeps the     *)
(* order of the stores and x86 does not reorder them.                      *)
(***************************************************************************)
EXTENDS Integers, Sequences

CONSTANTS
  Data,        \* the request offsets stored in the ring
  NoData,      \* an uninitialised slot or register
  MaxDepth,    \* header_->max_depth_
  CounterMod,  \* 2^32: enqueued_ and dequeued_ are uint32_t
  SpinReload   \* TRUE: each round of a spin loop loads the counters again
               \* (Debug build).  FALSE: the loads are hoisted out of the
               \* loop, as -Ofast does (Release, the default build).

ASSUME DepthAssumption == MaxDepth \in Nat \ {0}
ASSUME CounterAssumption ==
  /\ CounterMod \in Nat
  /\ CounterMod > MaxDepth
  /\ CounterMod % MaxDepth = 0
ASSUME DataAssumption == NoData \notin Data
ASSUME SpinAssumption == SpinReload \in BOOLEAN

VARIABLES
  enqueued, dequeued,  \* the header's counters
  queue,               \* the slots
  ppc, pdata,          \* the producer: where it is, what it enqueues
  cpc, cdata,          \* the consumer: where it is, what Dequeue loaded
  peeked,              \* what Peek returned, until the consumer moves on
  got                  \* what the last Dequeue returned

header == <<enqueued, dequeued>>
producer == <<ppc, pdata>>
consumer == <<cpc, cdata, peeked, got>>
vars == <<header, queue, producer, consumer>>

Slots == 0 .. MaxDepth - 1
Counters == 0 .. CounterMod - 1

GetDepth == (enqueued - dequeued) % CounterMod

Init ==
  /\ enqueued = 0
  /\ dequeued = 0
  /\ queue = [s \in Slots |-> NoData]
  /\ ppc = "idle" /\ pdata = NoData
  /\ cpc = "idle" /\ cdata = NoData
  /\ peeked = NoData
  /\ got = NoData
-----------------------------------------------------------------------------
(* The producer: labstor_request_queue_Enqueue around                      *)
(* labstor_request_ring_buffer_Enqueue.                                    *)

EnqueueCall(d) ==
  /\ ppc = "idle"
  /\ ppc' = "check"
  /\ pdata' = d
  /\ UNCHANGED <<header, queue, consumer>>

\* Slip: one element too many.
EnqueueCheck_OffByOne ==
  /\ ppc = "check"
  /\ GetDepth # MaxDepth + 1
  /\ ppc' = "store"
  /\ UNCHANGED <<header, queue, pdata, consumer>>

\* Not full: leave the spin loop.
EnqueueCheck ==
  /\ ppc = "check"
  /\ GetDepth # MaxDepth
  /\ ppc' = "store"
  /\ UNCHANGED <<header, queue, pdata, consumer>>

\* Full, and the loop never loads the counters again.
EnqueueHang ==
  /\ ppc = "check"
  /\ GetDepth = MaxDepth
  /\ ~SpinReload
  /\ ppc' = "hung"
  /\ UNCHANGED <<header, queue, pdata, consumer>>

\* Slip: the slot is computed from the counter after the increment.
EnqueueStore_NextSlot ==
  /\ ppc = "store"
  /\ queue' = [queue EXCEPT ![(enqueued + 1) % MaxDepth] = pdata]
  /\ ppc' = "advance"
  /\ UNCHANGED <<header, pdata, consumer>>

EnqueueStore ==
  /\ ppc = "store"
  /\ queue' = [queue EXCEPT ![enqueued % MaxDepth] = pdata]
  /\ ppc' = "advance"
  /\ UNCHANGED <<header, pdata, consumer>>

EnqueueAdvance ==
  /\ ppc = "advance"
  /\ enqueued' = (enqueued + 1) % CounterMod
  /\ ppc' = "idle"
  /\ pdata' = NoData
  /\ UNCHANGED <<dequeued, queue, consumer>>
-----------------------------------------------------------------------------
(* The consumer: labstor_request_ring_buffer_Peek at index 0, the only one *)
(* its callers pass, and labstor_request_ring_buffer_Dequeue.              *)

PeekCheck ==
  /\ cpc = "idle"
  /\ enqueued # dequeued
  /\ cpc' = "peek"
  /\ UNCHANGED <<header, queue, producer, cdata, peeked, got>>

PeekLoad ==
  /\ cpc = "peek"
  /\ peeked' = queue[dequeued % MaxDepth]
  /\ cpc' = "peeked"
  /\ UNCHANGED <<header, queue, producer, cdata, got>>

\* The module is not done with the request: it stays at the head.
PeekLeave ==
  /\ cpc = "peeked"
  /\ cpc' = "idle"
  /\ peeked' = NoData
  /\ UNCHANGED <<header, queue, producer, cdata, got>>

\* Slip: Dequeue relies on an earlier check.
DequeueCheck_NoTest ==
  /\ cpc \in {"idle", "peeked"}
  /\ cpc' = "load"
  /\ UNCHANGED <<header, queue, producer, cdata, peeked, got>>

DequeueCheck ==
  /\ cpc \in {"idle", "peeked"}
  /\ enqueued # dequeued
  /\ cpc' = "load"
  /\ UNCHANGED <<header, queue, producer, cdata, peeked, got>>

\* Slip: the increment comes before the slot is computed.
DequeueLoad_NextSlot ==
  /\ cpc = "load"
  /\ cdata' = queue[(dequeued + 1) % MaxDepth]
  /\ cpc' = "advance"
  /\ UNCHANGED <<header, queue, producer, peeked, got>>

DequeueLoad ==
  /\ cpc = "load"
  /\ cdata' = queue[dequeued % MaxDepth]
  /\ cpc' = "advance"
  /\ UNCHANGED <<header, queue, producer, peeked, got>>

DequeueAdvance ==
  /\ cpc = "advance"
  /\ dequeued' = (dequeued + 1) % CounterMod
  /\ got' = cdata
  /\ cpc' = "idle"
  /\ cdata' = NoData
  /\ peeked' = NoData
  /\ UNCHANGED <<enqueued, queue, producer>>
-----------------------------------------------------------------------------
EnqueueStep == EnqueueCheck \/ EnqueueHang \/ EnqueueStore \/ EnqueueAdvance

ConsumerStep ==
  PeekCheck \/ PeekLoad \/ PeekLeave \/ DequeueCheck \/ DequeueLoad \/ DequeueAdvance

Next == (\E d \in Data : EnqueueCall(d)) \/ EnqueueStep \/ ConsumerStep

Spec == Init /\ [][Next]_vars
-----------------------------------------------------------------------------
\* The counters stay within their width; slots and registers hold an element
\* or nothing.
TypeOK ==
  /\ enqueued \in Counters /\ dequeued \in Counters
  /\ queue \in [Slots -> Data \cup {NoData}]
  /\ ppc \in {"idle", "check", "store", "advance", "hung"}
  /\ pdata \in Data \cup {NoData}
  /\ cpc \in {"idle", "peek", "peeked", "load", "advance"}
  /\ cdata \in Data \cup {NoData}
  /\ peeked \in Data \cup {NoData}
  /\ got \in Data \cup {NoData}

\* The slot of the k-th undelivered element, k = 0 the oldest.
LiveSlot(k) == ((dequeued + k) % CounterMod) % MaxDepth

\* The undelivered elements, oldest first.
Contents == [k \in 1 .. GetDepth |-> queue[LiveSlot(k - 1)]]

\* The counters never drift apart by more than the ring holds: an Enqueue that
\* has passed its check still has room, and a Dequeue or Peek that has passed
\* its check still has an element, whatever the other side does in between.
ChecksStayValid ==
  /\ GetDepth <= MaxDepth
  /\ ppc \in {"store", "advance"} => GetDepth < MaxDepth
  /\ cpc \in {"peek", "peeked", "load", "advance"} => GetDepth > 0

\* A slot that holds an undelivered element keeps it: the producer's store
\* never lands on it, across any number of counter wraps.
LiveSlotsKept ==
  [][\A k \in 0 .. GetDepth - 1 : queue'[LiveSlot(k)] = queue[LiveSlot(k)]]_vars

\* The element a worker processed after Peek is the one its Dequeue removes.
PeekAgreesWithDequeue ==
  cpc = "advance" /\ peeked # NoData => cdata = peeked

\* What the registers of a thread between two of its steps are worth: the
\* producer's element is in its slot before the counter moves, and the slot
\* the consumer loaded from has not changed since.
RegistersHold ==
  /\ ppc # "idle" => pdata \in Data
  /\ ppc = "advance" => queue[enqueued % MaxDepth] = pdata
  /\ cpc = "advance" => cdata = queue[dequeued % MaxDepth]
  /\ peeked # NoData => /\ cpc \in {"peeked", "load", "advance"}
                        /\ peeked = queue[dequeued % MaxDepth]

\* No undelivered position is an uninitialised slot.
LiveSlotsFull == \A k \in 0 .. GetDepth - 1 : queue[LiveSlot(k)] \in Data

\* The inductive invariant behind all of the ring's safety properties: a
\* consumer that has passed its check never loads what no producer stored.
Inv == TypeOK /\ ChecksStayValid /\ RegistersHold /\ LiveSlotsFull

\* The ring is a bounded FIFO queue: nothing is lost, duplicated, reordered or
\* made up, and the number given to a request counts the requests before it.
Queue == INSTANCE BoundedQueue WITH
  Capacity <- MaxDepth, q <- Contents, tail <- enqueued, out <- got

RefinesQueue == Queue!Spec
=============================================================================
