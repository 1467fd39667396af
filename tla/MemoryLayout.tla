---------------------------- MODULE MemoryLayout ----------------------------
(***************************************************************************)
(* Where everything lies in the memory two LabStor processes share.  The   *)
(* server cuts a region in two by its configuration (LoadMemoryConfig): a  *)
(* page allocator in front and queue pairs behind it.  One process lays    *)
(* the region out, the other attaches to it at an address of its own, and  *)
(* only offsets from the start of the region travel between them.  kind    *)
(* says whose region it is: a client's (laid out by the client, attached   *)
(* by the server), the kernel's (laid out by the server, attached by the   *)
(* kernel), the server's private memory, or the namespace.                 *)
(*                                                                         *)
(* Sizes and offsets are in bytes, as on x86-64.  uint32_t arithmetic is   *)
(* modulo Word, and an offset that travels is an int32_t (labstor_off_t).  *)
(* A constructor that throws is not caught: the set-up ends there.         *)
(***************************************************************************)
EXTENDS Integers, Sequences, FiniteSets

CONSTANTS
    Word,        \* 2^32; smaller when model-checked
    RegionSizes, \* max_region_size_kb, in bytes
    MinRequests, \* min_request_region_kb, in bytes
    Units,       \* request_unit_bytes
    Depths,      \* queue_depth
    NumQueues,   \* num_queues
    Cpus,        \* get_nprocs_conf
    Entries,     \* max_entries of the namespace
    Kinds        \* the regions laid out

ASSUME LayoutAssumption ==
    /\ Word \in Nat /\ Word > 1024
    /\ RegionSizes \subseteq 1..(Word - 1) /\ MinRequests \subseteq 0..(Word - 1)
    /\ Units \subseteq 1..(Word - 3) /\ Depths \subseteq 1..(Word - 1)
    /\ NumQueues \subseteq Nat \ {0} /\ Cpus \subseteq Nat \ {0}
    /\ Entries \subseteq Nat \ {0}
    /\ Kinds \subseteq {"client", "kernel", "private", "namespace"}

VARIABLES
    kind,     \* whose region: fixed
    conf,     \* the configuration file and the number of CPUs: fixed
    memconf,  \* MemoryConfig, once loaded
    pc,       \* the next step of the set-up
    seg,      \* offset_ of the segment allocator
    qps,      \* queue pairs laid out, in order
    pages,    \* pages of the request allocator
    peer,     \* queue pairs as the other process found them
    peerPages,
    priv,     \* queue pairs in the client's private memory
    sections  \* the namespace: sections as its owner and a client see them

layoutvars == <<kind, conf, memconf, pc, seg, qps, pages, peer, peerPages, priv,
          sections>>

U(x) == x % Word
Off(x) == IF x % Word < Word \div 2 THEN x % Word ELSE (x % Word) - Word

OffSize == 4          \* sizeof(labstor_off_t)
RingHeader == 12
QueueHeader == 12
MapHeader == 4
Handle == 80          \* sizeof(labstor_queue_pair) in the server
KernelHandle == 56    \* ... and in the kernel, where it has no vtables
AllocHeader == 8
CoreHeader == 8
PageEntry == 2        \* sizeof(labstor_shmem_allocator_entry)

-----------------------------------------------------------------------------
(* Sizes, and what Init makes of a block of memory: how many elements, 0   *)
(* when it throws.  An element count of 0 asks for as many as fit.         *)

RingSize(depth) == U(RingHeader + OffSize * depth)
RequestQueueSize(depth) == U(QueueHeader + RingSize(depth))
RequestMapSize(buckets) == U(MapHeader + OffSize * buckets)
QueuePairSize(depth) ==
    U(Handle + RequestQueueSize(depth) + RequestMapSize(depth))

RingInit(size, depth) ==
    IF size < RingSize(depth) THEN 0
    ELSE IF depth = 0 THEN (size - RingHeader) \div OffSize ELSE depth

\* Slip: the ring is sized as if it had the whole block to itself.
RequestQueueInit_NoHeader(size) == RingInit(size, 0)
RequestQueueInit(size) == RingInit(U(size - QueueHeader), 0)

RequestMapInit(size) ==
    IF size < MapHeader THEN 0 ELSE (size - MapHeader) \div OffSize

-----------------------------------------------------------------------------
(* labstor_shmem_allocator_Init: one private allocator per core.           *)

\* labstor_private_shmem_allocator_Init: a ring of free pages, then the pages.
PerCore(size, unit) ==
    LET slots == RingInit(U(size - CoreHeader), size \div unit)
        first == CoreHeader + RingSize(slots)
        objs == U(size - first) \div unit
    IN [slots |-> slots, first |-> first,
        objs |-> IF objs < slots THEN objs ELSE slots]

\* Slip: each core's part begins one byte too early.
CoreRegion_Early(size, cores, c) == AllocHeader + c * ((size \div cores) - 1)
CoreRegion(size, cores, c) == AllocHeader + c * (size \div cores)

PageAt(size, unit, cores, c, k) ==
    CoreRegion(size, cores, c) + PerCore(size \div cores, unit).first + k * unit

AllocatorThrows(size, unit, cores) == PerCore(size \div cores, unit).slots = 0

PageUnit == conf.unit + PageEntry

-----------------------------------------------------------------------------
(* The namespace's tables *)

IdsHandle == 24       \* sizeof(ring_buffer<uint32_t>), which GetSize counts
TableHeader == 8      \* sizeof(unordered_map_header)
TableBucket == 8           \* sizeof(string_map_bucket)
PerBlock == 16        \* two bits per bucket in a 32-bit block

IdsSize(n) == U(IdsHandle + OffSize * n)
IdsInit(size) == (size - IdsHandle) \div OffSize
Bit2mapSize(n) == OffSize * (IF n % PerBlock = 0 THEN n \div PerBlock
                                                 ELSE n \div PerBlock + 1)
TableSize(n) == U(TableHeader + Bit2mapSize(n) + TableBucket * n)

TableInit(size) ==
    U((size - TableHeader) * PerBlock) \div (TableBucket * PerBlock + OffSize)

-----------------------------------------------------------------------------
(* The set-up *)

NoMemconf == [queue_region |-> 0, request_region |-> 0, sq_size |-> 0, cq_size |-> 0]

\* Options a region does not use have the one value 1.
Given(used, values) == IF used THEN values ELSE {1}

\* One region of ks is laid out; "none" stands for no region.
LayoutInit(ks) ==
    /\ kind \in ks
    /\ LET used == kind # "none"
           names == kind = "namespace"
           queues == used /\ ~names
       IN conf \in [region : Given(used, RegionSizes), unit : Given(used, Units),
                    cpus : Given(used, Cpus), min : Given(queues, MinRequests),
                    depth : Given(queues, Depths), n : Given(queues, NumQueues),
                    entries : Given(names, Entries)]
    /\ memconf = NoMemconf
    /\ pc = CASE kind = "namespace" -> "tables" [] kind = "none" -> "done"
              [] OTHER -> "load"
    /\ seg = 0 /\ qps = <<>> /\ peer = <<>> /\ priv = <<>>
    /\ pages = {} /\ peerPages = {} /\ sections = <<>>

Throw ==
    /\ pc' = "threw"
    /\ UNCHANGED <<seg, qps, pages, peer, peerPages, priv, sections>>

LoadMemoryConfig ==
    /\ pc = "load"
    /\ LET queues == U(conf.n * QueuePairSize(conf.depth))
           requests == U(conf.region - queues)
       IN \/ /\ queues >= conf.region \/ requests < conf.min
             /\ Throw
             /\ UNCHANGED memconf
          \/ /\ queues < conf.region /\ requests >= conf.min
             /\ memconf' = [queue_region |-> queues, request_region |-> requests,
                            sq_size |-> RequestQueueSize(conf.depth),
                            cq_size |-> RequestMapSize(conf.depth)]
             /\ pc' = "alloc"
             /\ UNCHANGED <<seg, qps, pages, peer, peerPages, priv, sections>>
    /\ UNCHANGED <<kind, conf>>

\* The free lists: where each core's ring is, and the pages on it.
FreeLists(size) ==
    {<<CoreRegion(size, conf.cpus, c), PageAt(size, PageUnit, conf.cpus, c, k)>> :
        c \in 0..(conf.cpus - 1),
        k \in 0..(PerCore(size \div conf.cpus, PageUnit).objs - 1)}

\* shmem_allocator::Init on the request region; a client makes another one of
\* the same size as the whole region, in its own memory.
InitAllocator ==
    /\ pc = "alloc"
    /\ IF \/ AllocatorThrows(memconf.request_region, PageUnit, conf.cpus)
          \/ kind = "client" /\ AllocatorThrows(conf.region, PageUnit, conf.cpus)
       THEN Throw
       ELSE /\ pages' = FreeLists(memconf.request_region)
            /\ pc' = IF kind = "kernel" THEN "register" ELSE "queues"
            /\ UNCHANGED <<seg, qps, peer, peerPages, priv, sections>>
    /\ UNCHANGED <<kind, conf, memconf>>

\* Slip: the header's own bytes are not skipped.
AttachCore_NoHeader(size, cores, c) == c * (size \div cores)
AttachCore(size, cores, c) == AllocHeader + c * (size \div cores)

\* shmem_allocator::Attach: the free lists the other process finds where the
\* size and the core count in the header put them; pages travel as offsets.
AttachPages ==
    peerPages' =
      {<<l[1], Off(l[2])>> : l \in {p \in pages : \E c \in 0..(conf.cpus - 1) :
              p[1] = AttachCore(memconf.request_region, conf.cpus, c)}}

\* ipc_manager_register: the kernel attaches before there are queues.
KernelRegister ==
    /\ pc = "register"
    /\ AttachPages
    /\ pc' = "queues"
    /\ UNCHANGED <<kind, conf, memconf, seg, qps, pages, peer, priv, sections>>

\* The segment allocator: blocks of the queue region, one after another.
Segment(off) == memconf.request_region + U(off)

\* labstor_queue_pair_Init in two blocks.
QueuePairInit(handle, sq, cq) ==
    [handle |-> handle, sq |-> sq, cq |-> cq,
     depth |-> RequestQueueInit(memconf.sq_size),
     buckets |-> RequestMapInit(memconf.cq_size)]

\* One turn of CreateQueuesSHMEM, CreateKernelQueues or CreatePrivateQueues of
\* the server.
CreateQueuePair ==
    /\ pc = "queues" /\ Len(qps) < conf.n
    /\ LET handle == IF kind = "kernel" THEN Handle ELSE 0
           qp == QueuePairInit(Segment(seg + handle) - handle, Segment(seg + handle),
                               Segment(seg + handle + memconf.sq_size))
       IN IF qp.depth = 0 \/ qp.buckets = 0 THEN Throw
          ELSE /\ qps' = Append(qps, qp)
               /\ seg' = U(seg + handle + memconf.sq_size + memconf.cq_size)
               /\ UNCHANGED <<pc, pages, peer, peerPages, priv, sections>>
    /\ UNCHANGED <<kind, conf, memconf>>

\* What is sent of a queue pair: labstor_queue_pair_ptr.
GetPointer(qp) == [sq_off |-> Off(qp.sq), cq_off |-> Off(qp.cq)]

\* labstor_queue_pair_Attach; the kernel puts its own handle in front of the
\* submission queue.
QueuePairAttach(ptr) ==
    [sq |-> ptr.sq_off, cq |-> ptr.cq_off,
     handle |-> IF kind = "kernel" THEN ptr.sq_off - KernelHandle ELSE ptr.sq_off]

\* The offsets are sent.  The server attaches to the client's allocator here.
SendPointers ==
    /\ pc = "queues" /\ Len(qps) = conf.n
    /\ pc' = IF kind = "private" THEN "done" ELSE "attach"
    /\ IF kind = "client" THEN AttachPages ELSE UNCHANGED peerPages
    /\ UNCHANGED <<kind, conf, memconf, seg, qps, pages, peer, priv, sections>>

\* One turn of RegisterClientQP or of the kernel's AssignQueuePairs.
AttachQueuePair ==
    /\ pc = "attach" /\ Len(peer) < conf.n
    /\ peer' = Append(peer, QueuePairAttach(GetPointer(qps[Len(peer) + 1])))
    /\ UNCHANGED <<kind, conf, memconf, pc, seg, qps, pages, peerPages, priv,
                   sections>>

Attached ==
    /\ pc = "attach" /\ Len(peer) = conf.n
    /\ pc' = IF kind = "client" THEN "own" ELSE "done"
    /\ UNCHANGED <<kind, conf, memconf, seg, qps, pages, peer, peerPages, priv,
                   sections>>

\* The k-th page the connecting thread (tid 0) is given: those of core 0, then
\* those of the next core.
OwnPage(k) ==
    LET objs == PerCore(conf.region \div conf.cpus, PageUnit).objs
    IN PageEntry + PageAt(conf.region, PageUnit, conf.cpus, k \div objs, k % objs)
HasOwnPage(k) ==
    k < conf.cpus * PerCore(conf.region \div conf.cpus, PageUnit).objs

\* One turn of CreatePrivateQueues of the client: it passes the depth where the
\* size in bytes is expected, and no page is larger than the request unit.
CreateOwnQueuePair ==
    /\ pc = "own" /\ Len(priv) < conf.cpus
    /\ LET k == 2 * Len(priv)
           depth == RequestQueueInit(conf.depth)
           buckets == RequestMapInit(conf.depth)
       IN IF ~HasOwnPage(k + 1) \/ depth = 0 \/ buckets = 0 THEN Throw
          ELSE /\ priv' = Append(priv, [sq |-> OwnPage(k), cq |-> OwnPage(k + 1),
                                        depth |-> depth, buckets |-> buckets])
               /\ UNCHANGED <<pc, seg, qps, pages, peer, peerPages, sections>>
    /\ UNCHANGED <<kind, conf, memconf>>

Connected ==
    /\ pc = "own" /\ Len(priv) = conf.cpus
    /\ pc' = "done"
    /\ UNCHANGED <<kind, conf, memconf, seg, qps, pages, peer, peerPages, priv,
                   sections>>

\* Namespace::Namespace of the server.  When the tables do not fit, what remains
\* wraps around and clearing it runs off the end of the region.
CreateNamespace ==
    /\ pc = "tables"
    /\ LET ids == IdsInit(IdsSize(conf.entries))
           buckets == TableInit(TableSize(conf.entries))
           table == IdsSize(ids)
           alloc == table + TableSize(buckets)
           remainder == U(conf.region - alloc)
       IN IF \/ ids = 0 \/ buckets = 0 \/ alloc + remainder > conf.region
             \/ AllocatorThrows(remainder, PageUnit, conf.cpus)
          THEN Throw
          ELSE /\ sections' = <<[ids |-> 0, table |-> table, alloc |-> alloc,
                                 depth |-> ids, buckets |-> buckets]>>
               /\ pages' = {<<l[1] + alloc, l[2] + alloc>> : l \in FreeLists(remainder)}
               /\ pc' = "share"
               /\ UNCHANGED <<seg, qps, peer, peerPages, priv>>
    /\ UNCHANGED <<kind, conf, memconf>>

\* Namespace::Attach of a client: the section behind ns_ids_ is taken twice.
AttachNamespace ==
    /\ pc = "share"
    /\ LET own == sections[1]
           table == IdsSize(own.depth)
       IN sections' = Append(sections, [own EXCEPT !.table = table, !.alloc = table])
    /\ pc' = "done"
    /\ UNCHANGED <<kind, conf, memconf, seg, qps, pages, peer, peerPages, priv>>

Done == pc \in {"done", "threw"} /\ UNCHANGED layoutvars

LayoutNext ==
    \/ LoadMemoryConfig \/ InitAllocator \/ KernelRegister \/ CreateQueuePair
    \/ SendPointers \/ AttachQueuePair \/ Attached \/ CreateOwnQueuePair
    \/ Connected \/ CreateNamespace \/ AttachNamespace \/ Done

LayoutSpec == LayoutInit(Kinds) /\ [][LayoutNext]_layoutvars

-----------------------------------------------------------------------------
(* Properties *)

LayoutTypeOK ==
    /\ seg \in 0..(Word - 1)
    /\ pc \in {"load", "alloc", "register", "queues", "attach", "own", "tables",
               "share", "done", "threw"}
    /\ Len(peer) <= Len(qps) /\ Len(qps) <= conf.n

\* Two blocks of memory, each a start and a length.
Apart(a, m, b, n) == a + m <= b \/ b + n <= a

SqBytes(qp) == QueueHeader + RingHeader + OffSize * qp.depth
CqBytes(qp) == MapHeader + OffSize * qp.buckets

\* The product of the configured queues and their size fits in 32 bits.
Representable ==
    conf.n * (Handle + QueueHeader + RingHeader + MapHeader + 2 * OffSize * conf.depth)
      < Word

\* Every queue lies in the part of the region set aside for queues, none on
\* another: the segment allocator checks nothing, LoadMemoryConfig must have
\* counted every byte CreateQueuePair takes.
QueuesFit ==
    Representable =>
      \A i \in DOMAIN qps :
        /\ memconf.request_region <= qps[i].handle
        /\ Apart(qps[i].sq, SqBytes(qps[i]), qps[i].cq, CqBytes(qps[i]))
        /\ qps[i].cq + CqBytes(qps[i]) <= conf.region
        /\ \A j \in (i + 1)..Len(qps) : qps[i].cq + CqBytes(qps[i]) <= qps[j].handle

\* A queue pair has the configured depth, and a completion bucket for each slot
\* of its submission queue, although Init derives both from byte counts.
DepthsMatch ==
    Representable =>
      \A i \in DOMAIN qps : qps[i].depth = conf.depth /\ qps[i].buckets = conf.depth

\* The namespace's tables hold as many names as ids, never more than asked for,
\* and end before the memory for the names, whatever the rounding of TableInit.
TablesFit ==
    \A i \in DOMAIN sections : i = 1 =>
      LET s == sections[i] IN
        /\ s.ids + 16 + OffSize * s.depth <= s.table
        /\ s.table + TableHeader + Bit2mapSize(s.buckets) + TableBucket * s.buckets <= s.alloc
        /\ s.depth = conf.entries /\ s.buckets <= conf.entries
        /\ PerBlock * (Bit2mapSize(conf.entries) + TableBucket * conf.entries) < Word
             => s.buckets = conf.entries

\* The queue pairs a client makes for itself do not lie on one another as long
\* as the configured depth, taken as a number of bytes, covers the header and
\* fits in a page.
OwnQueuesApart ==
    conf.depth \in QueueHeader..conf.unit =>
      \A i, j \in DOMAIN priv :
        /\ Apart(priv[i].sq, SqBytes(priv[i]), priv[j].cq, CqBytes(priv[j]))
        /\ i # j => /\ Apart(priv[i].sq, SqBytes(priv[i]), priv[j].sq, SqBytes(priv[j]))
                    /\ Apart(priv[i].cq, CqBytes(priv[i]), priv[j].cq, CqBytes(priv[j]))

AllocBase == IF sections = <<>> THEN 0 ELSE sections[1].alloc
AllocSize == IF sections = <<>> THEN memconf.request_region
                                ELSE conf.region - sections[1].alloc

\* No page lies on another page or on a free list.  Because the cores share
\* out the bytes of the allocator's own header too, the last core's pages may
\* pass the end of the request region by what the division did not leave over;
\* if it left AllocHeader bytes, no page touches a queue or leaves the region.
PagesKeepClear ==
    AllocSize >= conf.cpus * CoreHeader =>
      LET per == PerCore(AllocSize \div conf.cpus, PageUnit)
          left == AllocSize % conf.cpus
          end == AllocBase + AllocSize
      IN \A p \in pages :
           /\ \A q \in pages :
                /\ p # q => Apart(p[2], PageUnit, q[2], PageUnit)
                /\ Apart(p[2], PageUnit, q[1], per.first)
           /\ p[2] + PageUnit <= end + AllocHeader - left
           /\ left >= AllocHeader => p[2] + PageUnit <= end

\* Offsets are signed: a region of more than half their range is not covered.
Reachable == conf.region <= Word \div 2 /\ Representable

\* The peer finds each queue where its owner put it, and the kernel's handle
\* falls in the room left for the server's.
PeersFindQueues ==
    Reachable =>
      \A i \in DOMAIN peer :
        /\ peer[i].sq = qps[i].sq /\ peer[i].cq = qps[i].cq
        /\ kind = "kernel" => /\ qps[i].handle <= peer[i].handle
                              /\ peer[i].handle + KernelHandle <= qps[i].sq

\* The peer finds each page, and the namespace's table, where its owner put it.
PeersAgree ==
    Reachable =>
      /\ peer # <<>> /\ AllocSize >= conf.cpus * CoreHeader => peerPages = pages
      /\ Len(sections) = 2 => sections[2].table = sections[1].table

\* The types, and every queue, table and page in a place of its own,
\* where the peer finds it.
LayoutInv == LayoutTypeOK /\ QueuesFit /\ DepthsMatch /\ TablesFit /\ OwnQueuesApart
             /\ PagesKeepClear /\ PeersFindQueues /\ PeersAgree
=============================================================================
