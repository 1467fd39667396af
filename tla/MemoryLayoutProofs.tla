------------------------- MODULE MemoryLayoutProofs -------------------------
(***************************************************************************)
(* Proofs about MemoryLayout, for every configuration: whatever the sizes  *)
(* of the region and of a request, the depth, the number of queues and of  *)
(* CPUs, the queue pairs lie where LoadMemoryConfig has made room for them *)
(* and have the depth it was given.                                        *)
(***************************************************************************)
EXTENDS MemoryLayout, CounterArithmetic, SequenceTheorems

\* Sizes without the wrap at Word.
Sq == QueueHeader + RingHeader + OffSize * conf.depth
Cq == MapHeader + OffSize * conf.depth
Room == IF kind = "kernel" THEN Handle ELSE 0
Block == Room + Sq + Cq

\* The fixed choices are what Init makes them.
ConfOK ==
    /\ conf.region \in 1..(Word - 1) /\ conf.depth \in 1..(Word - 1)
    /\ conf.n \in Nat \ {0}

\* LoadMemoryConfig has succeeded.
Loaded ==
    /\ conf.n * (Handle + Sq + Cq) < conf.region
    /\ memconf.request_region = conf.region - conf.n * (Handle + Sq + Cq)
    /\ memconf.sq_size = Sq /\ memconf.cq_size = Cq

\* The i-th queue pair, as the segment allocator should place it.
Laid(i) ==
    LET at == memconf.request_region + (i - 1) * Block
    IN [handle |-> at, sq |-> at + Room, cq |-> at + Room + Sq,
        depth |-> conf.depth, buckets |-> conf.depth]

\* The inductive invariant: the segment allocator has handed out one block per
\* queue pair, and only after the configuration was loaded.
Placed ==
    /\ qps \in Seq([handle : Int, sq : Int, cq : Int, depth : Int, buckets : Int])
    /\ Len(qps) <= conf.n /\ seg = Len(qps) * Block
    /\ \A i \in 1..Len(qps) : qps[i] = Laid(i)
    /\ pc = "load" => qps = <<>>
    /\ Loaded \/ (qps = <<>> /\ pc \notin {"alloc", "register", "queues"})

LayoutIInv == ConfOK /\ (Representable => Placed)

-----------------------------------------------------------------------------
(* Arithmetic *)

\* A product grows with its first factor.
LEMMA MulMono ==
    ASSUME NEW a \in Int, NEW b \in Int, NEW c \in Nat, a <= b
    PROVE  a * c <= b * c
<1>1. (b - a) * c >= 0
  BY SMT
<1> QED
  BY <1>1, SMT

\* The i-th of n blocks of b bytes.
LEMMA BlockEnds ==
    ASSUME NEW n \in Nat, NEW b \in Nat, NEW i \in 1..n
    PROVE  /\ (i - 1) * b \in Nat /\ i * b \in Nat
           /\ (i - 1) * b + b = i * b
           /\ i * b <= n * b
<1>1. i \in Int /\ n \in Int /\ i <= n
  BY SMT
<1>2. i * b <= n * b
  BY <1>1, MulMono
<1>3. (i - 1) * b \in Nat /\ i * b \in Nat /\ (i - 1) * b + b = i * b
  BY SMT
<1> QED
  BY <1>2, <1>3

\* An index into a shorter sequence is one into a longer.
LEMMA Wider == ASSUME NEW m \in Nat, NEW n \in Nat, m <= n, NEW i \in 1..m PROVE i \in 1..n
BY SMT

\* The end of a block among the last w bytes of a region.
LEMMA BlockInside ==
    ASSUME NEW w \in Nat, NEW region \in Nat, NEW y \in Nat, y <= w
    PROVE  (region - w) + y <= region
BY SMT

\* uint32_t arithmetic does not wrap below Word.
LEMMA NoWrap == ASSUME NEW x \in Nat, x < Word PROVE U(x) = x
<1>1. Word \in Nat \ {0}
  BY LayoutAssumption, SMT
<1> QED
  BY <1>1, ModSmall, SMT DEF U

\* The header sizes.
LEMMA Headers ==
    /\ OffSize = 4 /\ RingHeader = 12 /\ QueueHeader = 12 /\ MapHeader = 4 /\ Handle = 80
BY DEF OffSize, RingHeader, QueueHeader, MapHeader, Handle

\* The sizes a queue pair is computed from, when they are representable.
LEMMA Sizes ==
    ASSUME ConfOK, Representable
    PROVE  /\ Sq \in Nat /\ Cq \in Nat /\ Room \in {0, 80} /\ Block \in Nat
           /\ Sq = 24 + 4 * conf.depth /\ Cq = 4 + 4 * conf.depth
           /\ 1 * (Handle + Sq + Cq) <= conf.n * (Handle + Sq + Cq)
           /\ conf.n * (Handle + Sq + Cq) \in Nat
           /\ conf.n * (Handle + Sq + Cq) < Word
           /\ conf.n * Block \in Nat
           /\ conf.n * Block <= conf.n * (Handle + Sq + Cq)
<1>1. /\ conf.depth \in Nat /\ conf.n \in Nat /\ 1 <= conf.n /\ Word \in Nat
  BY LayoutAssumption, SMT DEF ConfOK
<1>2. /\ Sq = 24 + 4 * conf.depth /\ Cq = 4 + 4 * conf.depth /\ Room \in {0, 80}
      /\ Sq \in Nat /\ Cq \in Nat /\ Block \in Nat
  BY <1>1, Headers, SMT DEF Sq, Cq, Room, Block
<1>3. Handle + Sq + Cq = Handle + QueueHeader + RingHeader + MapHeader + 2 * OffSize * conf.depth
  BY <1>1, <1>2, Headers, SMT
<1>4. conf.n * (Handle + Sq + Cq) < Word
  BY <1>3 DEF Representable
<1>5. Handle + Sq + Cq \in Nat /\ Block <= Handle + Sq + Cq
  BY <1>2, Headers, SMT DEF Block
<1>6. 1 * (Handle + Sq + Cq) <= conf.n * (Handle + Sq + Cq)
  BY <1>1, <1>5, MulMono
<1>7. Block * conf.n <= (Handle + Sq + Cq) * conf.n
  BY <1>1, <1>2, <1>5, MulMono
<1> DEFINE P == Handle + Sq + Cq
<1>8. P * conf.n = conf.n * P /\ Block * conf.n = conf.n * Block
      /\ conf.n * P \in Nat /\ conf.n * Block \in Nat
  <2> HIDE DEF P
  <2>1. P \in Nat
    BY <1>5 DEF P
  <2> QED
    BY <1>1, <1>2, <2>1, SMT
<1> QED
  BY <1>2, <1>4, <1>6, <1>7, <1>8

\* A ring that is given no depth takes what its bytes hold.
LEMMA RingFill == ASSUME NEW d \in Nat PROVE RingInit(12 + 4 * d, 0) = d
<1> DEFINE x == 12 + 4 * d
<1>1. RingSize(0) = 12
  <2>1. RingHeader + OffSize * 0 = 12 /\ 12 \in Nat /\ 12 < Word
    BY LayoutAssumption, Headers, SMT
  <2> QED
    BY <2>1, NoWrap DEF RingSize
<1>2. ~(x < 12) /\ (x - 12) \div 4 = d
  BY SMT
<1> HIDE DEF x
<1>3. RingInit(x, 0) = d
  BY <1>1, <1>2, Headers DEF RingInit
<1> QED
  BY <1>3 DEF x

\* The C functions compute these sizes, and Init derives the depth from them.
LEMMA Computed ==
    ASSUME ConfOK, Representable
    PROVE  /\ RequestQueueSize(conf.depth) = Sq /\ RequestMapSize(conf.depth) = Cq
           /\ QueuePairSize(conf.depth) = Handle + Sq + Cq
           /\ U(conf.n * QueuePairSize(conf.depth)) = conf.n * (Handle + Sq + Cq)
           /\ RequestQueueInit(Sq) = conf.depth /\ RequestMapInit(Cq) = conf.depth
<1> DEFINE d == conf.depth
<1>1. d \in Nat /\ Word \in Nat /\ Word > 1024 /\ 108 + 8 * d < Word
  BY Sizes, Headers, LayoutAssumption, SMT DEF ConfOK
<1>2. RingSize(d) = 12 + 4 * d
  <2>1. 12 + 4 * d \in Nat /\ 12 + 4 * d < Word
    BY <1>1, SMT
  <2> QED
    BY <2>1, NoWrap, Headers DEF RingSize
<1>3. RequestQueueSize(d) = 24 + 4 * d
  <2>1. 24 + 4 * d \in Nat /\ 24 + 4 * d < Word /\ 12 + (12 + 4 * d) = 24 + 4 * d
    BY <1>1, SMT
  <2> QED
    BY <1>2, <2>1, NoWrap, Headers DEF RequestQueueSize
<1>4. RequestMapSize(d) = 4 + 4 * d
  <2>1. 4 + 4 * d \in Nat /\ 4 + 4 * d < Word
    BY <1>1, SMT
  <2> QED
    BY <2>1, NoWrap, Headers DEF RequestMapSize
<1>5. Sq = 24 + 4 * d /\ Cq = 4 + 4 * d
  BY Sizes
<1>6. QueuePairSize(d) = Handle + Sq + Cq
  <2>1. Handle + Sq + Cq \in Nat /\ Handle + Sq + Cq < Word
    BY <1>1, <1>5, Headers, SMT
  <2> QED
    BY <1>3, <1>4, <1>5, <2>1, NoWrap DEF QueuePairSize
<1>7. U(conf.n * QueuePairSize(d)) = conf.n * (Handle + Sq + Cq)
  BY <1>6, Sizes, NoWrap
<1>8. RequestQueueInit(Sq) = d
  <2>1. Sq - QueueHeader = 12 + 4 * d /\ 12 + 4 * d \in Nat /\ 12 + 4 * d < Word
    BY <1>1, <1>5, Headers, SMT
  <2>2. U(Sq - QueueHeader) = 12 + 4 * d
    BY <2>1, NoWrap
  <2>3. RingInit(12 + 4 * d, 0) = d
    BY <1>1, RingFill
  <2> QED
    BY <2>2, <2>3 DEF RequestQueueInit
<1>9. RequestMapInit(Cq) = d
  BY <1>1, <1>5, Headers, SMT DEF RequestMapInit
<1> QED
  BY <1>3, <1>4, <1>5, <1>6, <1>7, <1>8, <1>9

-----------------------------------------------------------------------------
(* The invariant *)

\* The initial states satisfy it.
LEMMA PlacedInit == LayoutInit(Kinds) => LayoutIInv
<1> SUFFICES ASSUME LayoutInit(Kinds) PROVE LayoutIInv
  OBVIOUS
<1>1. ConfOK
  <2>1. /\ conf.region \in Given(kind # "none", RegionSizes)
        /\ conf.depth \in Given(kind # "none" /\ kind # "namespace", Depths)
        /\ conf.n \in Given(kind # "none" /\ kind # "namespace", NumQueues)
    BY DEF LayoutInit
  <2>2. /\ conf.region \in RegionSizes \union {1} /\ conf.depth \in Depths \union {1}
        /\ conf.n \in NumQueues \union {1}
    BY <2>1, Zenon DEF Given
  <2> QED
    <3>1. /\ RegionSizes \union {1} \subseteq 1..(Word - 1)
          /\ Depths \union {1} \subseteq 1..(Word - 1)
          /\ NumQueues \union {1} \subseteq Nat \ {0}
      BY LayoutAssumption, SMT
    <3> QED
      BY <2>2, <3>1, Zenon DEF ConfOK
<1>2. ASSUME Representable PROVE Placed
  <2>1. qps = <<>> /\ seg = 0 /\ pc \notin {"alloc", "register", "queues"}
    BY DEF LayoutInit
  <2>2. Block \in Nat /\ conf.n \in Nat
    BY <1>1, <1>2, Sizes DEF ConfOK
  <2>3. Len(qps) = 0 /\ qps \in Seq([handle : Int, sq : Int, cq : Int, depth : Int, buckets : Int])
    BY <2>1, EmptySeq
  <2>4. Len(qps) <= conf.n /\ seg = Len(qps) * Block /\ 1..Len(qps) = {}
    BY <2>1, <2>2, <2>3, SMT
  <2> QED
    BY <2>1, <2>3, <2>4 DEF Placed
<1> QED
  BY <1>1, <1>2 DEF LayoutIInv

\* A step that leaves the configuration, the segment allocator and the queue
\* pairs alone leaves the queue pairs in their places.
LEMMA QuietPlaced ==
    ASSUME Placed, UNCHANGED <<kind, conf, memconf, seg, qps>>,
           pc' = "load" => pc = "load",
           pc' \in {"alloc", "register", "queues"} => pc \in {"alloc", "register", "queues"}
    PROVE  Placed'
<1>1. Sq' = Sq /\ Cq' = Cq /\ Room' = Room
  BY DEF Sq, Cq, Room
<1>2. Block' = Block
  BY <1>1 DEF Block
<1>3. Loaded' = Loaded
  BY <1>1 DEF Loaded
<1>4. /\ qps' \in Seq([handle : Int, sq : Int, cq : Int, depth : Int, buckets : Int])
      /\ Len(qps') <= conf'.n /\ seg' = Len(qps') * Block'
  BY <1>2 DEF Placed
<1>5. ASSUME NEW i \in 1..Len(qps') PROVE qps'[i] = Laid(i)'
  <2>1. Laid(i)' = Laid(i)
    BY <1>1, <1>2 DEF Laid
  <2>2. qps[i] = Laid(i)
    BY <1>5 DEF Placed
  <2> QED
    BY <2>1, <2>2
<1>6. /\ pc' = "load" => qps' = <<>>
      /\ Loaded' \/ (qps' = <<>> /\ pc' \notin {"alloc", "register", "queues"})
  BY <1>3 DEF Placed
<1> QED
  BY <1>4, <1>5, <1>6 DEF Placed

\* Such a step preserves the invariant.
LEMMA QuietStep ==
    ASSUME LayoutIInv, UNCHANGED <<kind, conf, memconf, seg, qps>>,
           pc' = "load" => pc = "load",
           pc' \in {"alloc", "register", "queues"} => pc \in {"alloc", "register", "queues"}
    PROVE  LayoutIInv'
<1>1. ConfOK' /\ Representable' = Representable
  BY DEF LayoutIInv, ConfOK, Representable
<1>2. ASSUME Representable PROVE Placed'
  BY <1>2, QuietPlaced DEF LayoutIInv
<1> QED
  BY <1>1, <1>2 DEF LayoutIInv

\* LoadMemoryConfig counts what CreateQueuePair will take.
LEMMA LoadStep == ASSUME LayoutIInv, LoadMemoryConfig PROVE LayoutIInv'
<1>1. UNCHANGED <<kind, conf, seg, qps>> /\ pc = "load"
  BY DEF LoadMemoryConfig, Throw
<1>2. ConfOK' /\ Representable' = Representable /\ ConfOK
  BY <1>1 DEF LayoutIInv, ConfOK, Representable
<1>3. ASSUME Representable PROVE Placed'
  <2> DEFINE q == conf.n * (Handle + Sq + Cq)
  <2>1. Placed /\ qps = <<>>
    BY <1>1, <1>3 DEF LayoutIInv, Placed
  <2>2. /\ Sq' = Sq /\ Cq' = Cq /\ Block' = Block
    BY <1>1 DEF Sq, Cq, Block, Room
  <2>3. CASE pc' = "threw"
    <3>1. \A i \in 1..Len(qps') : qps'[i] = Laid(i)'
      <4>1. 1..Len(qps') = {}
        BY <1>1, <2>1, EmptySeq, SMT
      <4> QED
        BY <4>1
    <3> QED
      BY <1>1, <2>1, <2>2, <2>3, <3>1 DEF Placed
  <2>4. CASE pc' # "threw"
    <3>1. /\ U(conf.n * QueuePairSize(conf.depth)) < conf.region
          /\ memconf' = [queue_region |-> U(conf.n * QueuePairSize(conf.depth)),
                         request_region |-> U(conf.region - U(conf.n * QueuePairSize(conf.depth))),
                         sq_size |-> RequestQueueSize(conf.depth),
                         cq_size |-> RequestMapSize(conf.depth)]
          /\ pc' = "alloc"
      BY <2>4 DEF LoadMemoryConfig, Throw
    <3>2. /\ q < conf.region /\ q \in Nat
          /\ memconf'.request_region = U(conf.region - q)
          /\ memconf'.sq_size = Sq /\ memconf'.cq_size = Cq
      BY <1>2, <1>3, <3>1, Computed, Sizes
    <3>3. U(conf.region - q) = conf.region - q
      <4> HIDE DEF q
      <4>1. conf.region - q \in Nat /\ conf.region - q < Word
        BY <1>2, <3>2, LayoutAssumption, SMT DEF ConfOK
      <4> QED
        BY <4>1, NoWrap
    <3>4. Loaded'
      BY <1>1, <2>2, <3>2, <3>3 DEF Loaded
    <3>5. \A i \in 1..Len(qps') : qps'[i] = Laid(i)'
      <4>1. 1..Len(qps') = {}
        BY <1>1, <2>1, EmptySeq, SMT
      <4> QED
        BY <4>1
    <3> QED
      BY <1>1, <2>1, <2>2, <3>1, <3>4, <3>5 DEF Placed
  <2> QED
    BY <2>3, <2>4
<1> QED
  BY <1>2, <1>3 DEF LayoutIInv

\* One more block of the queue region: the queue pair goes where the last ends,
\* and the offset has not wrapped.
LEMMA CreateStep == ASSUME LayoutIInv, CreateQueuePair PROVE LayoutIInv'
<1>1. UNCHANGED <<kind, conf, memconf>> /\ pc = "queues" /\ Len(qps) < conf.n
  BY DEF CreateQueuePair
<1>2. ConfOK' /\ Representable' = Representable /\ ConfOK
  BY <1>1 DEF LayoutIInv, ConfOK, Representable
<1>3. ASSUME Representable PROVE Placed'
  <2>1. Placed /\ Loaded
    BY <1>1, <1>3 DEF LayoutIInv, Placed
  <2>2. /\ Sq' = Sq /\ Cq' = Cq /\ Block' = Block /\ Loaded' = Loaded
        /\ \A i \in Nat : Laid(i)' = Laid(i)
    BY <1>1 DEF Sq, Cq, Block, Room, Loaded, Laid
  <2>3. CASE pc' = "threw"
    <3>1. UNCHANGED <<qps, seg>>
      BY <1>1, <2>3 DEF CreateQueuePair, Throw
    <3> QED
      BY <1>1, <2>1, <2>3, <3>1, QuietPlaced
  <2>4. CASE pc' # "threw"
    <3> DEFINE k == Len(qps)
               r == memconf.request_region
               qp == QueuePairInit(Segment(seg + Room) - Room, Segment(seg + Room),
                                   Segment(seg + Room + memconf.sq_size))
    <3>1. /\ qps' = Append(qps, qp) /\ pc' = pc
          /\ seg' = U(seg + Room + memconf.sq_size + memconf.cq_size)
      BY <2>4 DEF CreateQueuePair, Throw, Room
    <3>2. k \in Nat /\ k < conf.n /\ seg = k * Block
      BY <1>1, <2>1, LenProperties DEF Placed
    <3>3. /\ Block \in Nat /\ Room \in Nat /\ Sq \in Nat /\ Cq \in Nat
          /\ Block = Room + Sq + Cq
          /\ conf.n \in Nat /\ (k + 1) * Block <= conf.n * Block
      <4>1. /\ Block \in Nat /\ Room \in {0, 80} /\ Sq \in Nat /\ Cq \in Nat
            /\ conf.n \in Nat
        BY <1>2, <1>3, Sizes DEF ConfOK
      <4>2. k + 1 \in Int /\ conf.n \in Int /\ k + 1 <= conf.n
        BY <3>2, <4>1, SMT
      <4> QED
        BY <4>1, <4>2, MulMono, SMT DEF Block
    <3>4. /\ seg \in Nat /\ seg + Block = (k + 1) * Block /\ seg + Block < Word
      <4>1. conf.n * Block \in Nat /\ conf.n * Block < Word /\ Word \in Nat
        <5>1. conf.n * Block <= conf.n * (Handle + Sq + Cq) /\ conf.n * Block \in Nat
              /\ conf.n * (Handle + Sq + Cq) < Word /\ conf.n * (Handle + Sq + Cq) \in Nat
          BY <1>2, <1>3, Sizes
        <5> QED
          BY <5>1, LayoutAssumption, SMT
      <4>2. k * Block \in Nat /\ k * Block + Block = (k + 1) * Block
        BY <3>2, <3>3, SMT
      <4> QED
        BY <3>2, <3>3, <4>1, <4>2, SMT
    <3>5. /\ Segment(seg + Room) = r + (seg + Room)
          /\ Segment(seg + Room + memconf.sq_size) = r + (seg + Room + Sq)
          /\ seg' = seg + Block
      <4>1. /\ seg + Room \in Nat /\ seg + Room < Word
            /\ seg + Room + Sq \in Nat /\ seg + Room + Sq < Word
            /\ seg + Room + Sq + Cq = seg + Block
            /\ seg + Block \in Nat
        BY <3>3, <3>4, LayoutAssumption, SMT
      <4>2. memconf.sq_size = Sq /\ memconf.cq_size = Cq
        BY <2>1 DEF Loaded
      <4> QED
        BY <3>1, <3>4, <4>1, <4>2, NoWrap DEF Segment
    <3>6. r \in Int
      BY <1>2, <1>3, <2>1, Sizes, SMT DEF Loaded, ConfOK
    <3>7. qp = Laid(k + 1)
      <4>1. /\ RequestQueueInit(memconf.sq_size) = conf.depth
            /\ RequestMapInit(memconf.cq_size) = conf.depth
        BY <1>2, <1>3, <2>1, Computed DEF Loaded
      <4>2. qp = [handle |-> (r + (seg + Room)) - Room, sq |-> r + (seg + Room),
                  cq |-> r + (seg + Room + Sq), depth |-> conf.depth, buckets |-> conf.depth]
        BY <3>5, <4>1 DEF QueuePairInit
      <4>3. /\ (k + 1) - 1 = k
            /\ (r + (seg + Room)) - Room = r + seg /\ r + (seg + Room) = (r + seg) + Room
            /\ r + (seg + Room + Sq) = (r + seg) + Room + Sq
        <5> HIDE DEF k, r
        <5> QED
          BY <3>2, <3>3, <3>4, <3>6, SMT
      <4> QED
        BY <3>2, <4>2, <4>3, Zenon DEF Laid
    <3>8. qp \in [handle : Int, sq : Int, cq : Int, depth : Int, buckets : Int]
      <4>1. /\ r + (k + 1 - 1) * Block \in Int /\ r + (k + 1 - 1) * Block + Room \in Int
            /\ r + (k + 1 - 1) * Block + Room + Sq \in Int /\ conf.depth \in Int
        <5>1. (k + 1 - 1) * Block \in Int
          BY <3>2, <3>3, SMT
        <5> DEFINE x == (k + 1 - 1) * Block
        <5> HIDE DEF x, r
        <5>2. r + x \in Int /\ r + x + Room \in Int /\ r + x + Room + Sq \in Int
          BY <3>3, <3>6, <5>1, SMT DEF x
        <5> QED
          BY <1>2, <5>2, SMT DEF ConfOK, x
      <4> QED
        BY <3>7, <4>1 DEF Laid
    <3> HIDE DEF qp
    <3>9. /\ qps' \in Seq([handle : Int, sq : Int, cq : Int, depth : Int, buckets : Int])
          /\ Len(qps') = k + 1 /\ qps'[k + 1] = qp
          /\ \A i \in 1..k : qps'[i] = qps[i]
      BY <2>1, <3>1, <3>8, AppendProperties DEF Placed
    <3>10. \A i \in 1..Len(qps') : qps'[i] = Laid(i)'
      <4>1. \A i \in 1..k : qps[i] = Laid(i)
        BY <2>1 DEF Placed
      <4>2. \A i \in 1..(k + 1) : (i \in 1..k \/ i = k + 1) /\ i \in Nat
        BY <3>2, SMT
      <4> QED
        BY <2>2, <3>7, <3>9, <4>1, <4>2
    <3>11. Len(qps') <= conf.n /\ seg' = Len(qps') * Block
      <4> HIDE DEF k, r
      <4>1. k + 1 <= conf.n
        BY <3>2, <3>3, SMT
      <4> QED
        BY <3>4, <3>5, <3>9, <4>1, Zenon
    <3> QED
      BY <1>1, <2>1, <2>2, <3>1, <3>9, <3>10, <3>11 DEF Placed
  <2> QED
    BY <2>3, <2>4
<1> QED
  BY <1>2, <1>3 DEF LayoutIInv

\* Every step preserves the invariant: two actions touch what it speaks of.
LEMMA PlacedNext == LayoutIInv /\ [LayoutNext]_layoutvars => LayoutIInv'
<1> SUFFICES ASSUME LayoutIInv, [LayoutNext]_layoutvars PROVE LayoutIInv'
  OBVIOUS
<1>1. CASE LoadMemoryConfig
  BY <1>1, LoadStep
<1>2. CASE CreateQueuePair
  BY <1>2, CreateStep
<1>3. CASE InitAllocator
  BY <1>3, QuietStep DEF InitAllocator, Throw
<1>4. CASE KernelRegister
  BY <1>4, QuietStep DEF KernelRegister, AttachPages
<1>5. CASE SendPointers
  BY <1>5, QuietStep DEF SendPointers
<1>6. CASE AttachQueuePair
  BY <1>6, QuietStep DEF AttachQueuePair
<1>7. CASE Attached
  BY <1>7, QuietStep DEF Attached
<1>8. CASE CreateOwnQueuePair
  BY <1>8, QuietStep DEF CreateOwnQueuePair, Throw
<1>9. CASE Connected
  BY <1>9, QuietStep DEF Connected
<1>10. CASE CreateNamespace
  BY <1>10, QuietStep DEF CreateNamespace, Throw
<1>11. CASE AttachNamespace
  BY <1>11, QuietStep DEF AttachNamespace
<1>12. CASE UNCHANGED layoutvars
  BY <1>12, QuietStep DEF layoutvars
<1>13. CASE Done
  BY <1>12, <1>13 DEF Done
<1> QED
  BY <1>1, <1>2, <1>3, <1>4, <1>5, <1>6, <1>7, <1>8, <1>9, <1>10, <1>11, <1>12, <1>13
     DEF LayoutNext

\* Blocks laid one after another lie in the queue region, none on another, and
\* have the configured depth.
LEMMA PlacedImplies == LayoutIInv => QueuesFit /\ DepthsMatch
<1> SUFFICES ASSUME LayoutIInv, Representable PROVE QueuesFit /\ DepthsMatch
  BY DEF QueuesFit, DepthsMatch
<1>1. Placed /\ ConfOK
  BY DEF LayoutIInv
<1>2. /\ DOMAIN qps = 1..Len(qps) /\ Len(qps) \in Nat /\ Len(qps) <= conf.n
  BY <1>1, LenProperties DEF Placed
<1>3. DepthsMatch
  <2> SUFFICES ASSUME NEW i \in DOMAIN qps
               PROVE  qps[i].depth = conf.depth /\ qps[i].buckets = conf.depth
    BY DEF DepthsMatch
  <2>1. i \in 1..Len(qps)
    BY <1>2
  <2>2. qps[i] = Laid(i)
    BY <1>1, <2>1 DEF Placed
  <2>3. Laid(i).depth = conf.depth /\ Laid(i).buckets = conf.depth
    BY DEF Laid
  <2> QED
    BY <2>2, <2>3
<1> DEFINE r == memconf.request_region
           P == Handle + Sq + Cq
<1>4. /\ Sq = 24 + 4 * conf.depth /\ Cq = 4 + 4 * conf.depth /\ Sq \in Nat /\ Cq \in Nat
      /\ Room \in Nat /\ Block \in Nat /\ Block = Room + Sq + Cq
      /\ conf.n \in Nat /\ conf.depth \in Nat /\ conf.region \in Nat
  <2>1. /\ Sq = 24 + 4 * conf.depth /\ Cq = 4 + 4 * conf.depth
        /\ Sq \in Nat /\ Cq \in Nat /\ Room \in {0, 80} /\ Block \in Nat
    BY <1>1, Sizes
  <2>2. conf.n \in Nat /\ conf.depth \in Nat /\ conf.region \in Nat
    BY <1>1, LayoutAssumption, SMT DEF ConfOK
  <2> QED
    BY <2>1, <2>2, SMT DEF Block
<1>p. conf.n * Block \in Nat /\ conf.n * P \in Nat /\ conf.n * Block <= conf.n * P
  BY <1>1, Sizes
<1>5. ASSUME NEW i \in 1..Len(qps)
      PROVE  /\ qps[i].handle = r + (i - 1) * Block
             /\ qps[i].sq = r + (i - 1) * Block + Room
             /\ qps[i].cq = r + (i - 1) * Block + Room + Sq
             /\ SqBytes(qps[i]) = Sq /\ CqBytes(qps[i]) = Cq
  <2>1. qps[i] = Laid(i)
    BY <1>1 DEF Placed
  <2>2. SqBytes(Laid(i)) = Sq /\ CqBytes(Laid(i)) = Cq
    BY DEF Laid, SqBytes, CqBytes, Sq, Cq
  <2> QED
    BY <2>1, <2>2 DEF Laid
<1>6. ASSUME NEW i \in 1..Len(qps)
      PROVE  /\ (i - 1) * Block \in Nat /\ i * Block \in Nat
             /\ (i - 1) * Block + Block = i * Block
             /\ i * Block <= conf.n * Block
  <2>1. i \in 1..conf.n
    BY <1>2, <1>4, Wider
  <2>2. Block \in Nat /\ conf.n \in Nat
    BY <1>4
  <2> HIDE DEF r, P
  <2> QED
    BY <2>1, <2>2, BlockEnds
<1>7. ASSUME NEW i \in 1..Len(qps), NEW j \in (i + 1)..Len(qps)
      PROVE  j \in 1..Len(qps) /\ i * Block <= (j - 1) * Block
  <2>1. j \in 1..Len(qps) /\ i \in Int /\ j - 1 \in Int /\ i <= j - 1
    BY <1>2, SMT
  <2> QED
    BY <1>4, <2>1, MulMono
<1>8. ASSUME NEW i \in 1..Len(qps) PROVE r = conf.region - conf.n * P /\ r \in Int
  <2>1. qps # <<>>
    BY <1>1, EmptySeq, SMT DEF Placed
  <2>2. Loaded
    BY <1>1, <2>1 DEF Placed
  <2> HIDE DEF r, P
  <2>3. r = conf.region - conf.n * P
    BY <2>2 DEF Loaded, r, P
  <2> QED
    BY <1>4, <1>p, <2>3, SMT DEF P
<1> HIDE DEF r, P
<1>9. ASSUME NEW i \in 1..Len(qps)
      PROVE  /\ r <= qps[i].handle
             /\ Apart(qps[i].sq, SqBytes(qps[i]), qps[i].cq, CqBytes(qps[i]))
             /\ qps[i].cq + CqBytes(qps[i]) <= conf.region
             /\ qps[i].cq + CqBytes(qps[i]) = r + i * Block
  <2> DEFINE x == (i - 1) * Block
             y == i * Block
             z == conf.n * Block
             w == conf.n * P
  <2>1. /\ x \in Nat /\ y \in Nat /\ z \in Nat /\ w \in Nat
        /\ x + Block = y /\ y <= z /\ z <= w /\ r = conf.region - w /\ r \in Int
    BY <1>4, <1>p, <1>6, <1>8
  <2>2. /\ qps[i].handle = r + x /\ qps[i].sq = r + x + Room
        /\ qps[i].cq = r + x + Room + Sq
        /\ SqBytes(qps[i]) = Sq /\ CqBytes(qps[i]) = Cq
    BY <1>5
  <2> HIDE DEF x, y, z, w
  <2>3. /\ Room \in Nat /\ Sq \in Nat /\ Cq \in Nat /\ conf.region \in Nat
        /\ x + (Room + Sq + Cq) = y
    BY <1>4, <2>1
  <2>4. /\ r <= r + x /\ (r + x + Room) + Sq <= r + x + Room + Sq
        /\ (r + x + Room + Sq) + Cq = r + y
    <3>1. r \in Int /\ x \in Int /\ x >= 0 /\ y \in Int
      BY <2>1, SMT
    <3>2. Room \in Int /\ Sq \in Int /\ Cq \in Int /\ x + (Room + Sq + Cq) = y
      BY <2>3, SMT
    <3>3. r <= r + x
      BY <3>1, SMT
    <3>4. (r + x + Room) + Sq <= r + x + Room + Sq
      BY <3>1, <3>2, SMT
    <3>5. (r + x + Room + Sq) + Cq = r + y
      BY <3>1, <3>2, SMT
    <3> QED
      BY <3>3, <3>4, <3>5
  <2>5. y <= w
    BY <2>1, SMT
  <2>6. r + y <= conf.region
    BY <2>1, <2>3, <2>5, BlockInside
  <2> QED
    BY <2>2, <2>4, <2>6 DEF Apart, y
<1>10. ASSUME NEW i \in 1..Len(qps), NEW j \in (i + 1)..Len(qps)
       PROVE  qps[i].cq + CqBytes(qps[i]) <= qps[j].handle
  <2>1. j \in 1..Len(qps) /\ i * Block <= (j - 1) * Block
    BY <1>7
  <2>2. /\ qps[i].cq + CqBytes(qps[i]) = r + i * Block
        /\ qps[j].handle = r + (j - 1) * Block
        /\ i * Block \in Nat /\ (j - 1) * Block \in Nat /\ r \in Int
    BY <1>5, <1>6, <1>8, <1>9, <2>1
  <2> DEFINE x == i * Block
             y == (j - 1) * Block
  <2> HIDE DEF x, y
  <2>3. r + x <= r + y
    BY <2>1, <2>2, SMT DEF x, y
  <2> QED
    BY <2>2, <2>3 DEF x, y
<1> QED
  BY <1>2, <1>3, <1>9, <1>10 DEF QueuesFit, r

-----------------------------------------------------------------------------
(* The other process *)

\* The second inductive invariant: the peer attaches to the queue pairs in their
\* order, after the last one was laid out, from the offsets it was sent.
Peered ==
    /\ peer \in Seq([sq : Int, cq : Int, handle : Int])
    /\ Len(peer) <= Len(qps)
    /\ \A i \in 1..Len(peer) : peer[i] = QueuePairAttach(GetPointer(qps[i]))
    /\ pc \in {"load", "alloc", "register", "queues", "tables"} => peer = <<>>
    /\ pc = "attach" => Len(qps) = conf.n

PeerIInv == LayoutIInv /\ (Representable => Peered)

\* What travels is an integer.
LEMMA OffInt == ASSUME NEW x \in Int PROVE Off(x) \in Int
<1>1. Word \in Nat \ {0}
  BY LayoutAssumption, SMT
<1>2. x % Word \in Int
  BY <1>1, ModDef, SMT
<1> QED
  BY <1>1, <1>2, SMT DEF Off

\* An offset below half of the range arrives as it was sent.
LEMMA OffSmall == ASSUME NEW x \in Nat, x < Word \div 2 PROVE Off(x) = x
<1>1. Word \in Nat \ {0} /\ x < Word
  BY LayoutAssumption, SMT
<1>2. x % Word = x
  BY <1>1, ModSmall, SMT
<1> QED
  BY <1>2 DEF Off

\* The initial states satisfy it.
LEMMA PeeredInit == LayoutInit(Kinds) => PeerIInv
<1> SUFFICES ASSUME LayoutInit(Kinds) PROVE PeerIInv
  OBVIOUS
<1>1. LayoutIInv
  BY PlacedInit
<1>2. peer = <<>> /\ qps = <<>> /\ pc # "attach"
  BY DEF LayoutInit
<1>3. Len(peer) = 0 /\ peer \in Seq([sq : Int, cq : Int, handle : Int]) /\ Len(qps) = 0
  BY <1>2, EmptySeq
<1>4. Len(peer) <= Len(qps) /\ 1..Len(peer) = {}
  BY <1>3, SMT
<1> QED
  BY <1>1, <1>2, <1>3, <1>4 DEF PeerIInv, Peered

\* Steps that leave the peer's queue pairs alone.
LEMMA PeerQuiet ==
    ASSUME Peered, UNCHANGED <<kind, conf, qps, peer>>,
           pc' \in {"load", "alloc", "register", "queues", "tables"} =>
             pc \in {"load", "alloc", "register", "queues", "tables"},
           pc' = "attach" => (pc = "attach" \/ Len(qps) = conf.n)
    PROVE  Peered'
BY DEF Peered, QueuePairAttach, GetPointer

\* While queue pairs are laid out there are none of the peer's.
LEMMA PeerCreate ==
    ASSUME LayoutIInv, LayoutIInv', Representable, Peered, CreateQueuePair
    PROVE  Peered'
<1>1. peer' = peer /\ peer = <<>> /\ pc' \in {"queues", "threw"}
  BY DEF CreateQueuePair, Throw, Peered
<1>2. Representable'
  BY DEF CreateQueuePair, Representable
<1>3. Len(qps') \in Nat
  BY <1>2, LenProperties DEF LayoutIInv, Placed
<1>4. Len(peer') = 0 /\ peer' \in Seq([sq : Int, cq : Int, handle : Int])
  BY <1>1, EmptySeq
<1>5. Len(peer') <= Len(qps') /\ 1..Len(peer') = {}
  BY <1>3, <1>4, SMT
<1> QED
  BY <1>1, <1>4, <1>5 DEF Peered

\* One turn of RegisterClientQP or of the kernel's AssignQueuePairs.
LEMMA PeerAttach ==
    ASSUME LayoutIInv, Representable, Peered, AttachQueuePair
    PROVE  Peered'
<1> DEFINE k == Len(peer)
           qp == QueuePairAttach(GetPointer(qps[k + 1]))
<1>1. /\ peer' = Append(peer, qp) /\ UNCHANGED <<kind, conf, qps>>
      /\ pc = "attach" /\ pc' = pc /\ k < conf.n
  BY DEF AttachQueuePair
<1>2. /\ k \in Nat /\ Len(qps) = conf.n /\ Len(qps) \in Nat
      /\ qps \in Seq([handle : Int, sq : Int, cq : Int, depth : Int, buckets : Int])
  BY <1>1, LenProperties DEF Peered, LayoutIInv, Placed
<1>3. k + 1 \in 1..Len(qps) /\ k + 1 <= Len(qps)
  <2> HIDE DEF k
  <2>1. k < Len(qps)
    BY <1>1, <1>2
  <2> QED
    BY <1>2, <2>1, SMT
<1>4. qps[k + 1].sq \in Int /\ qps[k + 1].cq \in Int
  <2> HIDE DEF k
  <2>1. qps[k + 1] \in [handle : Int, sq : Int, cq : Int, depth : Int, buckets : Int]
    BY <1>2, <1>3, ElementOfSeq
  <2> QED
    BY <2>1
<1>5. qp \in [sq : Int, cq : Int, handle : Int]
  <2> DEFINE s == Off(qps[k + 1].sq)
             c == Off(qps[k + 1].cq)
  <2>1. s \in Int /\ c \in Int
    BY <1>4, OffInt
  <2> HIDE DEF s, c
  <2>2. s - KernelHandle \in Int
    BY <2>1, SMT DEF KernelHandle
  <2> QED
    BY <2>1, <2>2 DEF QueuePairAttach, GetPointer, s, c
<1> HIDE DEF qp
<1>6. /\ peer' \in Seq([sq : Int, cq : Int, handle : Int])
      /\ Len(peer') = k + 1 /\ peer'[k + 1] = qp
      /\ \A i \in 1..k : peer'[i] = peer[i]
  BY <1>1, <1>5, AppendProperties DEF Peered
<1>7. \A i \in 1..Len(peer') : peer'[i] = QueuePairAttach(GetPointer(qps[i]))
  <2>1. \A i \in 1..k : peer[i] = QueuePairAttach(GetPointer(qps[i]))
    BY DEF Peered
  <2>2. \A i \in 1..(k + 1) : i \in 1..k \/ i = k + 1
    <3> HIDE DEF k
    <3> QED
      BY <1>2, SMT
  <2> QED
    BY <1>6, <2>1, <2>2 DEF qp
<1>8. \A i : QueuePairAttach(GetPointer(qps[i]))' = QueuePairAttach(GetPointer(qps[i]))
  BY <1>1 DEF QueuePairAttach, GetPointer
<1> QED
  BY <1>1, <1>2, <1>3, <1>6, <1>7, <1>8 DEF Peered

\* Every step preserves it.
LEMMA PeeredNext == PeerIInv /\ [LayoutNext]_layoutvars => PeerIInv'
<1> SUFFICES ASSUME PeerIInv, [LayoutNext]_layoutvars PROVE PeerIInv'
  OBVIOUS
<1>1. LayoutIInv /\ LayoutIInv'
  BY PlacedNext DEF PeerIInv
<1> SUFFICES ASSUME Representable' PROVE Peered'
  BY <1>1 DEF PeerIInv
<1>2. Representable /\ Peered
  BY DEF PeerIInv, Representable, LayoutNext, layoutvars, LoadMemoryConfig, CreateQueuePair,
         InitAllocator, KernelRegister, SendPointers, AttachQueuePair, Attached,
         CreateOwnQueuePair, Connected, CreateNamespace, AttachNamespace, Done
<1>3. CASE LoadMemoryConfig
  BY <1>2, <1>3, PeerQuiet DEF LoadMemoryConfig, Throw
<1>4. CASE CreateQueuePair
  BY <1>1, <1>2, <1>4, PeerCreate
<1>5. CASE InitAllocator
  BY <1>2, <1>5, PeerQuiet DEF InitAllocator, Throw
<1>6. CASE KernelRegister
  BY <1>2, <1>6, PeerQuiet DEF KernelRegister
<1>7. CASE SendPointers
  BY <1>2, <1>7, PeerQuiet DEF SendPointers
<1>8. CASE AttachQueuePair
  BY <1>1, <1>2, <1>8, PeerAttach
<1>9. CASE Attached
  BY <1>2, <1>9, PeerQuiet DEF Attached
<1>10. CASE CreateOwnQueuePair
  BY <1>2, <1>10, PeerQuiet DEF CreateOwnQueuePair, Throw
<1>11. CASE Connected
  BY <1>2, <1>11, PeerQuiet DEF Connected
<1>12. CASE CreateNamespace
  BY <1>2, <1>12, PeerQuiet DEF CreateNamespace, Throw
<1>13. CASE AttachNamespace
  BY <1>2, <1>13, PeerQuiet DEF AttachNamespace
<1>14. CASE UNCHANGED layoutvars
  BY <1>2, <1>14, PeerQuiet DEF layoutvars
<1>15. CASE Done
  BY <1>14, <1>15 DEF Done
<1> QED
  BY <1>3, <1>4, <1>5, <1>6, <1>7, <1>8, <1>9, <1>10, <1>11, <1>12, <1>13, <1>14, <1>15
     DEF LayoutNext

\* A queue pair lies below the end of the region, so its offsets travel safely.
LEMMA PeeredImplies == PeerIInv => PeersFindQueues
<1> SUFFICES ASSUME PeerIInv, Reachable, NEW i \in DOMAIN peer
             PROVE  /\ peer[i].sq = qps[i].sq /\ peer[i].cq = qps[i].cq
                    /\ kind = "kernel" => /\ qps[i].handle <= peer[i].handle
                                          /\ peer[i].handle + KernelHandle <= qps[i].sq
  BY DEF PeersFindQueues
<1>1. LayoutIInv /\ ConfOK /\ Placed /\ Peered /\ Representable /\ conf.region <= Word \div 2
  BY DEF PeerIInv, LayoutIInv, Reachable
<1>2. /\ i \in 1..Len(peer) /\ Len(peer) \in Nat /\ Len(qps) \in Nat
      /\ DOMAIN qps = 1..Len(qps) /\ Len(peer) <= Len(qps)
  BY <1>1, LenProperties DEF Peered, Placed
<1>3. i \in DOMAIN qps
  BY <1>2, Wider
<1>4. /\ peer[i] = QueuePairAttach(GetPointer(qps[i])) /\ qps[i] = Laid(i)
  BY <1>1, <1>2, <1>3 DEF Peered, Placed
<1> DEFINE h == qps[i].handle
           s == qps[i].sq
           c == qps[i].cq
           r == memconf.request_region
<1>5. h \in Int /\ s \in Int /\ c \in Int
  <2>1. qps[i] \in [handle : Int, sq : Int, cq : Int, depth : Int, buckets : Int]
    BY <1>1, <1>2, <1>3, ElementOfSeq DEF Placed
  <2> QED
    BY <2>1
<1>6. s = h + Room /\ c = h + Room + Sq
  BY <1>4 DEF Laid
<1>7. /\ r <= h /\ c + CqBytes(qps[i]) <= conf.region
      /\ CqBytes(qps[i]) = Cq
  <2>1. CqBytes(Laid(i)) = Cq
    BY DEF Laid, CqBytes, Cq
  <2> QED
    BY <1>1, <1>3, <1>4, <2>1, PlacedImplies DEF QueuesFit
<1>8. /\ Room \in {0, 80} /\ Sq \in Nat /\ Cq \in Nat /\ Cq >= 4 /\ conf.region \in Nat
  <2>1. /\ Room \in {0, 80} /\ Sq \in Nat /\ Cq = 4 + 4 * conf.depth
    BY <1>1, Sizes
  <2>2. conf.depth \in Nat /\ conf.region \in Nat
    BY <1>1, LayoutAssumption, SMT DEF ConfOK
  <2> QED
    BY <2>1, <2>2, SMT
<1>9. r \in Int /\ r >= 0
  <2>1. Loaded
    BY <1>1, <1>2, <1>3, EmptySeq, SMT DEF Placed
  <2> DEFINE w == conf.n * (Handle + Sq + Cq)
  <2>2. w \in Nat /\ w < conf.region /\ r = conf.region - w
    BY <1>1, <2>1, Sizes DEF Loaded
  <2> HIDE DEF w, r
  <2> QED
    BY <1>8, <2>2, SMT
<1>10. h \in Nat /\ s \in Nat /\ c \in Nat /\ s < Word \div 2 /\ c < Word \div 2
  <2> HIDE DEF h, s, c, r
  <2> DEFINE half == Word \div 2
             g == conf.region
  <2>1. half \in Int /\ g \in Int /\ g <= half /\ r <= h /\ c + Cq <= g
    BY <1>1, <1>7, <1>8, LayoutAssumption, SMT
  <2> HIDE DEF half, g
  <2>2. h \in Nat /\ s \in Nat /\ c \in Nat /\ s < half /\ c < half
    BY <1>5, <1>6, <1>8, <1>9, <2>1, SMT
  <2> QED
    BY <2>2 DEF half
<1>11. Off(s) = s /\ Off(c) = c
  BY <1>10, OffSmall
<1>12. peer[i].sq = s /\ peer[i].cq = c
  BY <1>4, <1>11 DEF QueuePairAttach, GetPointer
<1>13. ASSUME kind = "kernel" PROVE h <= peer[i].handle /\ peer[i].handle + KernelHandle <= s
  <2>1. peer[i].handle = s - KernelHandle
    BY <1>4, <1>11, <1>13 DEF QueuePairAttach, GetPointer
  <2>2. Room = 80 /\ KernelHandle = 56
    BY <1>13, Headers DEF Room, KernelHandle
  <2> HIDE DEF h, s, c, r
  <2>3. h <= s - 56 /\ (s - 56) + 56 <= s
    BY <1>5, <1>6, <2>2, SMT
  <2> QED
    BY <2>1, <2>2, <2>3
<1> QED
  BY <1>12, <1>13

\* Whatever the configuration, as long as its queues can be counted in 32 bits,
\* every queue of every queue pair that CreateQueuesSHMEM, CreateKernelQueues and
\* CreatePrivateQueues of the server lay out lies inside the queue region, on no
\* other queue and on no page, and has the configured depth on both sides.
THEOREM QueueLayout == LayoutSpec => [](QueuesFit /\ DepthsMatch)
<1>1. LayoutSpec => []LayoutIInv
  BY PlacedInit, PlacedNext, PTL DEF LayoutSpec
<1> QED
  BY <1>1, PlacedImplies, PTL

\* In a region that signed offsets can address, the process that attaches (the
\* server in RegisterClientQP, the kernel in AssignQueuePairs) finds every queue
\* where its owner laid it out, and the kernel's own handle fits in the room in
\* front of the submission queue.
THEOREM PeerLayout == LayoutSpec => []PeersFindQueues
<1>1. LayoutSpec => []PeerIInv
  BY PeeredInit, PeeredNext, PTL DEF LayoutSpec
<1> QED
  BY <1>1, PeeredImplies, PTL
=============================================================================
