--------------------------- MODULE ShmemAllocator ---------------------------
(***************************************************************************)
(* labstor_shmem_allocator: the pages of a shared region are divided into  *)
(* one free list per core.  A free list is a request ring buffer, used     *)
(* here by whichever thread allocates or frees: a thread takes a page from *)
(* the list of core tid % concurrency, or from the next core that has one, *)
(* and gives it back to the list it came from.  The rings take no locks.   *)
(*                                                                         *)
(* refcnt is the debug counter of the page header (LABSTOR_MEM_DEBUG),     *)
(* kept here in every build as the number of holders of a page.            *)
(***************************************************************************)
EXTENDS Integers, FiniteSets

CONSTANTS
  NumThreads,    \* threads that allocate and free, with tids 0, 1, ...
  Concurrency,   \* alloc->concurrency_
  PagesPerCore,  \* remainder_objs: pages put on each free list
  MaxObjs,       \* max_objs: slots of each free list
  CounterMod,    \* the rings' counters are uint32_t
  MaxHeld        \* most pages a thread holds at once when several allocate

ASSUME AllocAssumption ==
  /\ NumThreads \in Nat \ {0} /\ Concurrency \in Nat \ {0}
  /\ PagesPerCore \in Nat \ {0} /\ MaxObjs \in Nat /\ MaxObjs >= PagesPerCore
  /\ CounterMod \in Nat /\ CounterMod > MaxObjs
  /\ MaxHeld \in Nat \ {0}

Threads == 0 .. NumThreads - 1
Cores == 0 .. Concurrency - 1
Pages == Cores \X (0 .. PagesPerCore - 1)
Counters == 0 .. CounterMod - 1
NoPage == <<Concurrency, 0>>

VARIABLES
  users,                      \* how many of the threads use the allocator: fixed
  enqueued, dequeued, slots,  \* each core's free list
  core_, refcnt,              \* each page's header
  pc, core, page,             \* each thread: location, core tried, page in hand
  count,                      \* ... the ring counter loaded by its check
  held                        \* ... the pages it was given and has not freed

rings == <<enqueued, dequeued, slots>>
pages == <<core_, refcnt>>
thread == <<pc, core, page, count, held>>
vars == <<users, rings, pages, thread>>

Depth(c) == (enqueued[c] - dequeued[c]) % CounterMod
Next1(c) == (c + 1) % Concurrency
HomeCore(t) == t % Concurrency
Quota == IF users = 1 THEN Cardinality(Pages) ELSE MaxHeld

Init ==
  /\ users \in 1 .. NumThreads
  /\ enqueued = [c \in Cores |-> PagesPerCore]
  /\ dequeued = [c \in Cores |-> 0]
  /\ slots = [c \in Cores |-> [s \in 0 .. MaxObjs - 1 |->
                                 IF s < PagesPerCore THEN <<c, s>> ELSE NoPage]]
  /\ core_ = [p \in Pages |-> 0]
  /\ refcnt = [p \in Pages |-> 0]
  /\ pc = [t \in Threads |-> "idle"]
  /\ core = [t \in Threads |-> 0]
  /\ page = [t \in Threads |-> NoPage]
  /\ count = [t \in Threads |-> 0]
  /\ held = [t \in Threads |-> {}]
-----------------------------------------------------------------------------
(* labstor_shmem_allocator_Alloc                                           *)

AllocCall(t) ==
  /\ pc[t] = "idle"
  /\ Cardinality(held[t]) < Quota
  /\ core' = [core EXCEPT ![t] = HomeCore(t)]
  /\ pc' = [pc EXCEPT ![t] = "alloc_check"]
  /\ UNCHANGED <<rings, pages, page, count, held>>

\* Dequeue from this core's list: it is not empty.
AllocCheck(t) ==
  /\ pc[t] = "alloc_check"
  /\ enqueued[core[t]] # dequeued[core[t]]
  /\ count' = [count EXCEPT ![t] = dequeued[core[t]]]
  /\ pc' = [pc EXCEPT ![t] = "alloc_load"]
  /\ UNCHANGED <<rings, pages, core, page, held>>

\* Slip: only the thread's own list is tried.
AllocNext_OwnOnly(t) ==
  /\ pc[t] = "alloc_check"
  /\ enqueued[core[t]] = dequeued[core[t]]
  /\ core' = [core EXCEPT ![t] = 0]
  /\ pc' = [pc EXCEPT ![t] = "idle"]
  /\ UNCHANGED <<rings, pages, page, count, held>>

\* This list is empty: try the next core, or return NULL after a full round.
AllocNext(t) ==
  /\ pc[t] = "alloc_check"
  /\ enqueued[core[t]] = dequeued[core[t]]
  /\ IF Next1(core[t]) = HomeCore(t)
       THEN /\ core' = [core EXCEPT ![t] = 0]
            /\ pc' = [pc EXCEPT ![t] = "idle"]
       ELSE /\ core' = [core EXCEPT ![t] = Next1(core[t])]
            /\ UNCHANGED pc
  /\ UNCHANGED <<rings, pages, page, count, held>>

AllocLoad(t) ==
  /\ pc[t] = "alloc_load"
  /\ page' = [page EXCEPT ![t] = slots[core[t]][count[t] % MaxObjs]]
  /\ pc' = [pc EXCEPT ![t] = "alloc_advance"]
  /\ UNCHANGED <<rings, pages, core, count, held>>

\* Slip: page->core_ is left as it was.
AllocAdvance_NoCore(t) ==
  /\ pc[t] = "alloc_advance"
  /\ \E old \in {dequeued[core[t]], count[t]} :
       dequeued' = [dequeued EXCEPT ![core[t]] = (old + 1) % CounterMod]
  /\ refcnt' = [refcnt EXCEPT ![page[t]] = @ + 1]
  /\ held' = [held EXCEPT ![t] = @ \cup {page[t]}]
  /\ pc' = [pc EXCEPT ![t] = "idle"]
  /\ page' = [page EXCEPT ![t] = NoPage]
  /\ count' = [count EXCEPT ![t] = 0]
  /\ core' = [core EXCEPT ![t] = 0]
  /\ UNCHANGED <<enqueued, slots, core_>>

\* ++dequeued_ is not atomic: an increment by another thread since the check
\* may be lost.  Then the page header is written and the page returned.
AllocAdvance(t) ==
  /\ pc[t] = "alloc_advance"
  /\ \E old \in {dequeued[core[t]], count[t]} :
       dequeued' = [dequeued EXCEPT ![core[t]] = (old + 1) % CounterMod]
  /\ core_' = [core_ EXCEPT ![page[t]] = core[t]]
  /\ refcnt' = [refcnt EXCEPT ![page[t]] = @ + 1]
  /\ held' = [held EXCEPT ![t] = @ \cup {page[t]}]
  /\ pc' = [pc EXCEPT ![t] = "idle"]
  /\ page' = [page EXCEPT ![t] = NoPage]
  /\ count' = [count EXCEPT ![t] = 0]
  /\ core' = [core EXCEPT ![t] = 0]
  /\ UNCHANGED <<enqueued, slots>>
-----------------------------------------------------------------------------
(* labstor_shmem_allocator_Free                                            *)

FreeCall(t, p) ==
  /\ pc[t] = "idle"
  /\ p \in held[t]
  /\ held' = [held EXCEPT ![t] = @ \ {p}]
  /\ refcnt' = [refcnt EXCEPT ![p] = @ - 1]
  /\ page' = [page EXCEPT ![t] = p]
  /\ core' = [core EXCEPT ![t] = core_[p]]
  /\ pc' = [pc EXCEPT ![t] = "free_check"]
  /\ UNCHANGED <<rings, core_, count>>

\* Slip: a list counts as full with one slot left.
FreeCheck_KeepOneFree(t) ==
  /\ pc[t] = "free_check"
  /\ IF Depth(core[t]) < MaxObjs - 1
       THEN /\ count' = [count EXCEPT ![t] = enqueued[core[t]]]
            /\ pc' = [pc EXCEPT ![t] = "free_store"]
            /\ UNCHANGED core
       ELSE /\ core' = [core EXCEPT ![t] = Next1(core[t])]
            /\ UNCHANGED <<count, pc>>
  /\ UNCHANGED <<rings, pages, page, held>>

\* Enqueue on the page's list, or, while that is full, on the next core's.
FreeCheck(t) ==
  /\ pc[t] = "free_check"
  /\ IF Depth(core[t]) # MaxObjs
       THEN /\ count' = [count EXCEPT ![t] = enqueued[core[t]]]
            /\ pc' = [pc EXCEPT ![t] = "free_store"]
            /\ UNCHANGED core
       ELSE /\ core' = [core EXCEPT ![t] = Next1(core[t])]
            /\ UNCHANGED <<count, pc>>
  /\ UNCHANGED <<rings, pages, page, held>>

FreeStore(t) ==
  /\ pc[t] = "free_store"
  /\ slots' = [slots EXCEPT ![core[t]][count[t] % MaxObjs] = page[t]]
  /\ pc' = [pc EXCEPT ![t] = "free_advance"]
  /\ UNCHANGED <<enqueued, dequeued, pages, core, page, count, held>>

FreeAdvance(t) ==
  /\ pc[t] = "free_advance"
  /\ \E old \in {enqueued[core[t]], count[t]} :
       enqueued' = [enqueued EXCEPT ![core[t]] = (old + 1) % CounterMod]
  /\ pc' = [pc EXCEPT ![t] = "idle"]
  /\ page' = [page EXCEPT ![t] = NoPage]
  /\ count' = [count EXCEPT ![t] = 0]
  /\ core' = [core EXCEPT ![t] = 0]
  /\ UNCHANGED <<dequeued, slots, pages, held>>
-----------------------------------------------------------------------------
Step(t) ==
  \/ AllocCheck(t) \/ AllocNext(t) \/ AllocLoad(t) \/ AllocAdvance(t)
  \/ FreeCheck(t) \/ FreeStore(t) \/ FreeAdvance(t)

Next ==
  /\ \E t \in 0 .. users - 1 :
       AllocCall(t) \/ (\E p \in Pages : FreeCall(t, p)) \/ Step(t)
  /\ UNCHANGED users

\* A thread goes on with its call.
AllocFairness == \A t \in Threads : WF_vars(Step(t) /\ UNCHANGED users)
-----------------------------------------------------------------------------
\* Types of the free lists, the page headers and the threads.
TypeOK ==
  /\ enqueued \in [Cores -> Counters] /\ dequeued \in [Cores -> Counters]
  /\ slots \in [Cores -> [0 .. MaxObjs - 1 -> Pages \cup {NoPage}]]
  /\ core_ \in [Pages -> Cores]
  /\ refcnt \in [Pages -> Int]
  /\ pc \in [Threads -> {"idle", "alloc_check", "alloc_load", "alloc_advance",
                         "free_check", "free_store", "free_advance"}]
  /\ core \in [Threads -> Cores]
  /\ page \in [Threads -> Pages \cup {NoPage}]
  /\ count \in [Threads -> Counters]
  /\ held \in [Threads -> SUBSET Pages]

\* The positions of c's free list that hold p, given what the counters say.
ListedAt(p, c) ==
  {k \in 0 .. Depth(c) - 1 : slots[c][((dequeued[c] + k) % CounterMod) % MaxObjs] = p}

Freeing(p) == {t \in Threads : pc[t] \in {"free_check", "free_store", "free_advance"} /\ page[t] = p}

\* Every page is in exactly one place: held by a thread, on its way back, or
\* once on the free list of its own core.  No page is leaked or duplicated,
\* and none moves to another core's list.
PagesConserved ==
  \A p \in Pages :
    /\ refcnt[p] + Cardinality(Freeing(p)) + Cardinality(ListedAt(p, p[1])) = 1
    /\ \A c \in Cores \ {p[1]} : ListedAt(p, c) = {}

\* The types, and every page in exactly one place: what Alloc and Free keep of
\* the free lists at each of their loads and stores.
AllocInv == TypeOK /\ PagesConserved

\* Alloc returns NULL only when no core has a free page.
NullMeansExhausted ==
  [][\A t \in Threads :
       pc[t] = "alloc_check" /\ pc'[t] = "idle" => \A c \in Cores : Depth(c) = 0]_vars

\* Free gives the page back: some list has room for it.
FreeReturns == \A t \in Threads : pc[t] = "free_check" ~> pc[t] = "idle"
=============================================================================
