---------------------- MODULE RequestRingBufferProofs ----------------------
(***************************************************************************)
(* Proofs about RequestRingBuffer, for every depth, every set of requests, *)
(* every counter width the depth divides, and both builds.                 *)
(***************************************************************************)
EXTENDS RequestRingBuffer, CounterArithmetic, SequenceTheorems

\* The constants in the form the arithmetic lemmas need.
LEMMA Constants ==
  /\ MaxDepth \in Nat \ {0} /\ CounterMod \in Nat \ {0}
  /\ MaxDepth < CounterMod /\ CounterMod % MaxDepth = 0
BY DepthAssumption, CounterAssumption, SMT

\* Every counter value has a slot.
LEMMA SlotOf == ASSUME NEW x \in Counters PROVE x % MaxDepth \in Slots
BY Constants, ModDef, SMT DEF Counters, Slots

\* The distance between the counters is a counter value.
LEMMA DepthType ==
  ASSUME TypeOK
  PROVE  /\ GetDepth \in 0 .. CounterMod - 1
         /\ GetDepth = 0 <=> enqueued = dequeued
<1>1. GetDepth = IF dequeued <= enqueued THEN enqueued - dequeued
                 ELSE enqueued - dequeued + CounterMod
  BY Constants, Distance DEF TypeOK, Counters, GetDepth
<1> QED
  BY <1>1, Constants, SMT DEF TypeOK, Counters

\* Where the live slots are: the k-th lies k steps before the producer's.
LEMMA LiveSlotFacts ==
  ASSUME TypeOK, GetDepth <= MaxDepth, NEW k \in 0 .. GetDepth
  PROVE  /\ LiveSlot(k) \in Slots
         /\ k = GetDepth => LiveSlot(k) = enqueued % MaxDepth
         /\ k < GetDepth /\ GetDepth < MaxDepth => LiveSlot(k) # enqueued % MaxDepth
         /\ k = 0 => LiveSlot(k) = dequeued % MaxDepth
<1> DEFINE x == (dequeued + k) % CounterMod
<1>1. GetDepth \in 0 .. CounterMod - 1 /\ k \in 0 .. CounterMod - 1
  BY DepthType, Constants, SMT
<1>2. x \in Counters /\ enqueued \in Counters /\ dequeued \in Counters
  BY <1>1, Constants, Shift DEF TypeOK, Counters
<1>3. /\ (enqueued - x) % CounterMod = GetDepth - k
      /\ k = GetDepth => x = enqueued
  <2>1. GetDepth = (enqueued - dequeued) % CounterMod /\ x = (dequeued + k) % CounterMod
    BY DEF GetDepth
  <2>2. /\ enqueued \in 0 .. CounterMod - 1 /\ dequeued \in 0 .. CounterMod - 1
        /\ x \in Int /\ GetDepth \in Int
    BY <1>1, <1>2, SMT DEF Counters
  <2> HIDE DEF x
  <2> QED
    BY <2>1, <2>2, Constants, DistanceLeft
<1>4. ASSUME k = 0 PROVE x = dequeued
  <2>1. dequeued \in Int /\ 0 <= dequeued /\ dequeued < CounterMod /\ dequeued + k = dequeued
    BY <1>2, <1>4, Constants, SMT DEF Counters
  <2> QED
    BY <2>1, Constants, ModSmall
<1>5. LiveSlot(k) = x % MaxDepth
  BY DEF LiveSlot
<1> HIDE DEF x
<1>6. ASSUME k < GetDepth, GetDepth < MaxDepth PROVE x % MaxDepth # enqueued % MaxDepth
  <2>1. 0 < (enqueued - x) % CounterMod /\ (enqueued - x) % CounterMod < MaxDepth
    BY <1>1, <1>3, <1>6, Constants, SMT
  <2> QED
    BY <1>2, <2>1, Constants, SlotsDiffer DEF Counters
<1> QED
  BY <1>2, <1>3, <1>4, <1>5, <1>6, SlotOf

\* The producer's store, once its check has passed, misses every live slot.
LEMMA StoreMissesLive ==
  ASSUME TypeOK, ChecksStayValid, EnqueueStore
  PROVE  \A k \in 0 .. GetDepth - 1 : queue'[LiveSlot(k)] = queue[LiveSlot(k)]
<1> TAKE k \in 0 .. GetDepth - 1
<1>1. GetDepth < MaxDepth /\ k \in 0 .. GetDepth /\ k < GetDepth
  BY DepthType, SMT DEF EnqueueStore, ChecksStayValid
<1>2. LiveSlot(k) \in Slots /\ LiveSlot(k) # enqueued % MaxDepth
  BY <1>1, LiveSlotFacts DEF ChecksStayValid
<1> QED
  BY <1>2 DEF EnqueueStore, TypeOK
-----------------------------------------------------------------------------
\* The initial state satisfies the invariant.
LEMMA InvInit == Init => Inv
<1> SUFFICES ASSUME Init PROVE Inv
  OBVIOUS
<1>1. TypeOK
  BY Constants, SMT DEF Init, TypeOK, Counters, Slots
<1>2. GetDepth = 0
  BY <1>1, DepthType DEF Init
<1> QED
  BY <1>1, <1>2, Constants, SMT DEF Init, Inv, ChecksStayValid, RegistersHold, LiveSlotsFull

\* A step that leaves the counters and the slots alone leaves the live slots
\* alone.
LEMMA QuietStep ==
  ASSUME Inv, UNCHANGED <<header, queue>>
  PROVE  GetDepth' = GetDepth /\ LiveSlotsFull'
BY DEF Inv, header, GetDepth, LiveSlot, LiveSlotsFull

\* The consumer reads an initialised slot.
LEMMA HeadFull ==
  ASSUME Inv, GetDepth > 0
  PROVE  queue[dequeued % MaxDepth] \in Data
<1>1. 0 \in 0 .. GetDepth - 1 /\ 0 \in 0 .. GetDepth
  BY DepthType, SMT DEF Inv
<1>2. LiveSlot(0) = dequeued % MaxDepth
  BY <1>1, LiveSlotFacts DEF Inv, ChecksStayValid
<1> QED
  BY <1>1, <1>2 DEF Inv, LiveSlotsFull

\* Every action preserves the invariant.
LEMMA InvNext == Inv /\ [Next]_vars => Inv'
<1> SUFFICES ASSUME Inv, [Next]_vars PROVE Inv'
  OBVIOUS
<1> USE DEF Inv
<1>1. GetDepth \in 0 .. CounterMod - 1 /\ (GetDepth = 0 <=> enqueued = dequeued)
  BY DepthType
<1>2. ASSUME NEW d \in Data, EnqueueCall(d) PROVE Inv'
  <2>1. GetDepth' = GetDepth /\ LiveSlotsFull'
    BY <1>2, QuietStep DEF EnqueueCall
  <2>2. TypeOK' /\ ChecksStayValid' /\ RegistersHold'
    BY <1>2, <2>1 DEF EnqueueCall, header, consumer, TypeOK, ChecksStayValid, RegistersHold
  <2> QED
    BY <2>1, <2>2
<1>3. CASE EnqueueCheck
  <2>1. GetDepth' = GetDepth /\ LiveSlotsFull'
    BY <1>3, QuietStep DEF EnqueueCheck
  <2>2. GetDepth < MaxDepth
    BY <1>1, <1>3, Constants, SMT DEF EnqueueCheck, ChecksStayValid
  <2>3. TypeOK' /\ ChecksStayValid' /\ RegistersHold'
    BY <1>3, <2>1, <2>2 DEF EnqueueCheck, header, consumer, TypeOK, ChecksStayValid, RegistersHold
  <2> QED
    BY <2>1, <2>3
<1>4. CASE EnqueueHang
  <2>1. GetDepth' = GetDepth /\ LiveSlotsFull'
    BY <1>4, QuietStep DEF EnqueueHang
  <2>2. TypeOK' /\ ChecksStayValid' /\ RegistersHold'
    BY <1>4, <2>1 DEF EnqueueHang, header, consumer, TypeOK, ChecksStayValid, RegistersHold
  <2> QED
    BY <2>1, <2>2
<1>5. CASE EnqueueStore
  <2>1. TypeOK'
    BY <1>5, SlotOf DEF EnqueueStore, header, consumer, TypeOK, RegistersHold
  <2>2. GetDepth' = GetDepth /\ \A k \in 0 .. GetDepth - 1 : LiveSlot(k)' = LiveSlot(k)
    BY <1>5 DEF EnqueueStore, header, GetDepth, LiveSlot
  <2>3. LiveSlotsFull'
    BY <1>5, <2>2, StoreMissesLive DEF LiveSlotsFull
  <2>4. ChecksStayValid'
    BY <1>5, <2>2 DEF EnqueueStore, consumer, ChecksStayValid
  <2>5. queue'[enqueued % MaxDepth] = pdata
    BY <1>5, SlotOf DEF EnqueueStore, TypeOK
  <2>6. GetDepth > 0 => queue'[dequeued % MaxDepth] = queue[dequeued % MaxDepth]
    <3> SUFFICES ASSUME GetDepth > 0
                 PROVE  queue'[dequeued % MaxDepth] = queue[dequeued % MaxDepth]
      OBVIOUS
    <3>1. 0 \in 0 .. GetDepth - 1 /\ 0 \in 0 .. GetDepth
      BY <1>1, SMT
    <3>2. LiveSlot(0) = dequeued % MaxDepth
      BY <3>1, LiveSlotFacts DEF ChecksStayValid
    <3> QED
      BY <1>5, <3>1, <3>2, StoreMissesLive
  <2>7. RegistersHold'
    BY <1>5, <2>5, <2>6 DEF EnqueueStore, header, consumer, RegistersHold, ChecksStayValid
  <2> QED
    BY <2>1, <2>3, <2>4, <2>7
<1>6. CASE EnqueueAdvance
  <2>1. enqueued' = (enqueued + 1) % CounterMod /\ dequeued' = dequeued /\ queue' = queue
    BY <1>6 DEF EnqueueAdvance
  <2>2. GetDepth < MaxDepth
    BY <1>6 DEF EnqueueAdvance, ChecksStayValid
  <2>3. enqueued' \in Counters /\ GetDepth' = GetDepth + 1
    <3>1. GetDepth < CounterMod - 1
      BY <1>1, <2>2, Constants, SMT
    <3>2. enqueued \in 0 .. CounterMod - 1 /\ dequeued \in 0 .. CounterMod - 1
      BY DEF TypeOK, Counters
    <3> QED
      BY <2>1, <3>1, <3>2, Constants, DistanceUp DEF GetDepth, Counters
  <2>4. TypeOK'
    BY <1>6, <2>3 DEF EnqueueAdvance, consumer, TypeOK
  <2>5. ChecksStayValid'
    BY <1>1, <1>6, <2>2, <2>3, Constants, SMT DEF EnqueueAdvance, consumer, ChecksStayValid
  <2>6. RegistersHold'
    BY <1>6 DEF EnqueueAdvance, consumer, RegistersHold
  <2>7. LiveSlotsFull'
    <3> SUFFICES ASSUME NEW k \in 0 .. GetDepth' - 1 PROVE queue'[LiveSlot(k)'] \in Data
      BY DEF LiveSlotsFull
    <3>1. LiveSlot(k)' = LiveSlot(k) /\ k \in 0 .. GetDepth
      BY <1>1, <2>1, <2>3, SMT DEF LiveSlot
    <3>2. CASE k \in 0 .. GetDepth - 1
      BY <2>1, <3>1, <3>2 DEF LiveSlotsFull
    <3>3. CASE k = GetDepth
      BY <1>6, <2>1, <3>1, <3>3, LiveSlotFacts DEF EnqueueAdvance, ChecksStayValid, RegistersHold
    <3> QED
      BY <1>1, <3>1, <3>2, <3>3, SMT
  <2> QED
    BY <2>4, <2>5, <2>6, <2>7
<1>7. CASE PeekCheck
  <2>1. GetDepth' = GetDepth /\ LiveSlotsFull'
    BY <1>7, QuietStep DEF PeekCheck
  <2>2. GetDepth > 0
    BY <1>1, <1>7, SMT DEF PeekCheck
  <2>3. TypeOK' /\ ChecksStayValid' /\ RegistersHold'
    BY <1>7, <2>1, <2>2 DEF PeekCheck, header, producer, TypeOK, ChecksStayValid, RegistersHold
  <2> QED
    BY <2>1, <2>3
<1>8. CASE PeekLoad
  <2>1. GetDepth' = GetDepth /\ LiveSlotsFull'
    BY <1>8, QuietStep DEF PeekLoad
  <2>2. queue[dequeued % MaxDepth] \in Data
    BY <1>8, HeadFull DEF PeekLoad, ChecksStayValid
  <2>3. TypeOK' /\ ChecksStayValid' /\ RegistersHold'
    BY <1>8, <2>1, <2>2 DEF PeekLoad, header, producer, TypeOK, ChecksStayValid, RegistersHold
  <2> QED
    BY <2>1, <2>3
<1>9. CASE PeekLeave
  <2>1. GetDepth' = GetDepth /\ LiveSlotsFull'
    BY <1>9, QuietStep DEF PeekLeave
  <2>2. TypeOK' /\ ChecksStayValid' /\ RegistersHold'
    BY <1>9, <2>1 DEF PeekLeave, header, producer, TypeOK, ChecksStayValid, RegistersHold
  <2> QED
    BY <2>1, <2>2
<1>10. CASE DequeueCheck
  <2>1. GetDepth' = GetDepth /\ LiveSlotsFull'
    BY <1>10, QuietStep DEF DequeueCheck
  <2>2. GetDepth > 0
    BY <1>1, <1>10, SMT DEF DequeueCheck
  <2>3. TypeOK' /\ ChecksStayValid' /\ RegistersHold'
    BY <1>10, <2>1, <2>2 DEF DequeueCheck, header, producer, TypeOK, ChecksStayValid, RegistersHold
  <2> QED
    BY <2>1, <2>3
<1>11. CASE DequeueLoad
  <2>1. GetDepth' = GetDepth /\ LiveSlotsFull'
    BY <1>11, QuietStep DEF DequeueLoad
  <2>2. queue[dequeued % MaxDepth] \in Data
    BY <1>11, HeadFull DEF DequeueLoad, ChecksStayValid
  <2>3. TypeOK' /\ ChecksStayValid' /\ RegistersHold'
    BY <1>11, <2>1, <2>2 DEF DequeueLoad, header, producer, TypeOK, ChecksStayValid, RegistersHold
  <2> QED
    BY <2>1, <2>3
<1>12. CASE DequeueAdvance
  <2>1. dequeued' = (dequeued + 1) % CounterMod /\ enqueued' = enqueued /\ queue' = queue
    BY <1>12 DEF DequeueAdvance
  <2>2. GetDepth > 0 /\ enqueued # dequeued
    BY <1>1, <1>12, SMT DEF DequeueAdvance, ChecksStayValid
  <2>3. dequeued' \in Counters /\ GetDepth' = GetDepth - 1
    <3>1. enqueued \in 0 .. CounterMod - 1 /\ dequeued \in 0 .. CounterMod - 1
      BY DEF TypeOK, Counters
    <3>2. dequeued' \in Int
      BY <2>1, <3>1, Constants, ModDef, SMT
    <3>3. /\ dequeued' \in 0 .. CounterMod - 1
          /\ (enqueued - dequeued') % CounterMod = ((enqueued - dequeued) % CounterMod) - 1
      <4>1. CounterMod \in Nat \ {0} /\ dequeued' = (dequeued + 1) % CounterMod
        BY <2>1, Constants
      <4>2. enqueued # dequeued
        BY <2>2
      <4> QED
        BY <3>1, <3>2, <4>1, <4>2, DistanceDown
    <3> QED
      BY <2>1, <3>3 DEF GetDepth, Counters
  <2>4. TypeOK'
    BY <1>12, <2>3 DEF DequeueAdvance, producer, TypeOK
  <2>5. ChecksStayValid'
    BY <1>1, <1>12, <2>2, <2>3, Constants, SMT DEF DequeueAdvance, producer, ChecksStayValid
  <2>6. RegistersHold'
    BY <1>12 DEF DequeueAdvance, producer, RegistersHold
  <2>7. LiveSlotsFull'
    <3> SUFFICES ASSUME NEW k \in 0 .. GetDepth' - 1 PROVE queue'[LiveSlot(k)'] \in Data
      BY DEF LiveSlotsFull
    <3>1. k + 1 \in 0 .. GetDepth - 1 /\ k \in 0 .. CounterMod - 2
      BY <1>1, <2>3, Constants, SMT
    <3>2. LiveSlot(k)' = LiveSlot(k + 1)
      BY <2>1, <3>1, Constants, ShiftSuccessor DEF TypeOK, Counters, LiveSlot
    <3> QED
      BY <2>1, <3>1, <3>2 DEF LiveSlotsFull
  <2> QED
    BY <2>4, <2>5, <2>6, <2>7
<1>13. CASE UNCHANGED vars
  <2>1. GetDepth' = GetDepth /\ LiveSlotsFull'
    BY <1>13, QuietStep DEF vars
  <2>2. TypeOK' /\ ChecksStayValid' /\ RegistersHold'
    BY <1>13, <2>1 DEF vars, header, producer, consumer, TypeOK, ChecksStayValid, RegistersHold
  <2> QED
    BY <2>1, <2>2
<1> QED
  BY <1>2, <1>3, <1>4, <1>5, <1>6, <1>7, <1>8, <1>9, <1>10, <1>11, <1>12, <1>13
  DEF Next, EnqueueStep, ConsumerStep
-----------------------------------------------------------------------------
\* The invariant holds in every reachable state of the ring.
THEOREM RingInvariant == Spec => []Inv
BY InvInit, InvNext, PTL DEF Spec

\* Counters, slots and registers of labstor_request_ring_buffer keep their
\* types.
THEOREM RingTypeCorrect == Spec => []TypeOK
<1>1. Inv => TypeOK
  BY DEF Inv
<1> QED
  BY <1>1, RingInvariant, PTL

\* What Enqueue, Peek and Dequeue checked still holds when they store, load and
\* increment, although neither side takes a lock.
THEOREM RingChecksStayValid == Spec => []ChecksStayValid
<1>1. Inv => ChecksStayValid
  BY DEF Inv
<1> QED
  BY <1>1, RingInvariant, PTL

\* Dequeue removes the request Peek returned.
THEOREM RingPeekAgrees == Spec => []PeekAgreesWithDequeue
<1>1. Inv => PeekAgreesWithDequeue
  BY DEF Inv, RegistersHold, PeekAgreesWithDequeue
<1> QED
  BY <1>1, RingInvariant, PTL

\* No step changes a slot that holds an undelivered request.
THEOREM RingLiveSlotsKept == Spec => LiveSlotsKept
<1>1. ASSUME Inv, [Next]_vars
      PROVE  [\A k \in 0 .. GetDepth - 1 : queue'[LiveSlot(k)] = queue[LiveSlot(k)]]_vars
  <2>1. CASE EnqueueStore
    BY <1>1, <2>1, StoreMissesLive DEF Inv
  <2>2. CASE Next /\ ~EnqueueStore
    <3>1. queue' = queue
      BY <2>2 DEF Next, EnqueueStep, ConsumerStep, EnqueueCall, EnqueueCheck, EnqueueHang,
        EnqueueAdvance, PeekCheck, PeekLoad, PeekLeave, DequeueCheck, DequeueLoad, DequeueAdvance
    <3> QED
      BY <3>1
  <2> QED
    BY <1>1, <2>1, <2>2
<1> QED
  BY <1>1, RingInvariant, PTL DEF Spec, LiveSlotsKept
-----------------------------------------------------------------------------
(* The ring implements BoundedQueue.                                       *)

\* The abstract content is a sequence as long as the counters are apart.
ContentsMatch ==
  /\ Contents \in Seq(Data)
  /\ Len(Contents) = GetDepth
  /\ \A i \in 1 .. GetDepth : Contents[i] = queue[LiveSlot(i - 1)]

\* In a state of the invariant the live slots of the ring are such a sequence.
LEMMA ContentsType == Inv => ContentsMatch
<1> SUFFICES ASSUME Inv PROVE ContentsMatch
  OBVIOUS
<1>1. GetDepth \in Nat
  BY DepthType, Constants, SMT DEF Inv
<1>2. \A i \in 1 .. GetDepth : queue[LiveSlot(i - 1)] \in Data
  <2> TAKE i \in 1 .. GetDepth
  <2>1. i - 1 \in 0 .. GetDepth - 1
    BY <1>1, SMT
  <2> QED
    BY <2>1 DEF Inv, LiveSlotsFull
<1>3. Contents \in [1 .. GetDepth -> Data]
  BY <1>2 DEF Contents
<1> QED
  BY <1>1, <1>3, SMT DEF Contents, ContentsMatch

\* A step that changes no counter changes no content.
LEMMA ContentsKept ==
  ASSUME Inv, Inv', [Next]_vars, UNCHANGED header
  PROVE  Contents' = Contents
<1>1. GetDepth' = GetDepth /\ \A k \in 0 .. GetDepth - 1 : LiveSlot(k)' = LiveSlot(k)
  BY DEF header, GetDepth, LiveSlot
<1>2. \A k \in 0 .. GetDepth - 1 : queue'[LiveSlot(k)] = queue[LiveSlot(k)]
  <2>1. CASE EnqueueStore
    BY <2>1, StoreMissesLive DEF Inv
  <2>2. CASE ~EnqueueStore
    BY <2>2 DEF Next, EnqueueStep, ConsumerStep, EnqueueCall, EnqueueCheck, EnqueueHang, vars,
      EnqueueAdvance, PeekCheck, PeekLoad, PeekLeave, DequeueCheck, DequeueLoad, DequeueAdvance
  <2> QED
    BY <2>1, <2>2
<1>3. GetDepth \in Nat
  BY DepthType, Constants, SMT DEF Inv
<1>4. \A i \in 1 .. GetDepth : queue'[LiveSlot(i - 1)'] = queue[LiveSlot(i - 1)]
  <2> TAKE i \in 1 .. GetDepth
  <2>1. i - 1 \in 0 .. GetDepth - 1
    BY <1>3, SMT
  <2> QED
    BY <1>1, <1>2, <2>1
<1> QED
  BY <1>1, <1>4 DEF Contents

\* The increment that ends an Enqueue is the abstract Put.
LEMMA AdvanceIsPut ==
  ASSUME Inv, Inv', EnqueueAdvance
  PROVE  Queue!Put(pdata)
<1>1. enqueued' = (enqueued + 1) % CounterMod /\ dequeued' = dequeued /\ queue' = queue /\ got' = got
  BY DEF EnqueueAdvance, consumer
<1>2. GetDepth < MaxDepth /\ GetDepth \in 0 .. CounterMod - 1 /\ pdata \in Data
  BY DepthType DEF Inv, EnqueueAdvance, ChecksStayValid, RegistersHold
<1>3. GetDepth' = GetDepth + 1
  <2>1. GetDepth < CounterMod - 1
    BY <1>2, Constants, SMT
  <2>2. enqueued \in 0 .. CounterMod - 1 /\ dequeued \in 0 .. CounterMod - 1
    BY DEF Inv, TypeOK, Counters
  <2> QED
    BY <1>1, <2>1, <2>2, Constants, DistanceUp DEF GetDepth
<1>4. \A k \in 0 .. GetDepth : LiveSlot(k)' = LiveSlot(k)
  BY <1>1 DEF LiveSlot
<1>5. queue[LiveSlot(GetDepth)] = pdata
  <2>1. GetDepth \in 0 .. GetDepth
    BY <1>2, SMT
  <2> QED
    BY <2>1, LiveSlotFacts DEF Inv, EnqueueAdvance, ChecksStayValid, RegistersHold
<1>6. /\ Contents \in Seq(Data) /\ Len(Contents) = GetDepth
      /\ \A i \in 1 .. GetDepth : Contents[i] = queue[LiveSlot(i - 1)]
  BY ContentsType DEF ContentsMatch
<1>7. /\ Contents' \in Seq(Data) /\ Len(Contents') = GetDepth'
      /\ \A i \in 1 .. GetDepth' : Contents'[i] = queue'[LiveSlot(i - 1)']
  <2>1. ContentsMatch'
    BY ContentsType, PTL
  <2> QED
    BY <2>1 DEF ContentsMatch
<1>8. Contents' = Append(Contents, pdata)
  <2>1. /\ Append(Contents, pdata) \in Seq(Data)
        /\ Len(Append(Contents, pdata)) = GetDepth + 1
        /\ \A i \in 1 .. GetDepth : Append(Contents, pdata)[i] = Contents[i]
        /\ Append(Contents, pdata)[GetDepth + 1] = pdata
    BY <1>2, <1>6, SMT
  <2>2. \A i \in 1 .. GetDepth + 1 : Contents'[i] = Append(Contents, pdata)[i]
    <3> TAKE i \in 1 .. GetDepth + 1
    <3>1. i - 1 \in 0 .. GetDepth /\ Contents'[i] = queue[LiveSlot(i - 1)]
      BY <1>1, <1>2, <1>3, <1>4, <1>7, SMT
    <3>2. CASE i \in 1 .. GetDepth
      BY <1>6, <2>1, <3>1, <3>2
    <3>3. CASE i = GetDepth + 1
      <4>1. i - 1 = GetDepth
        BY <1>2, <3>3, SMT
      <4> QED
        BY <1>5, <2>1, <3>1, <3>3, <4>1
    <3>4. i \in 1 .. GetDepth \/ i = GetDepth + 1
      BY <1>2, SMT
    <3> QED
      BY <3>2, <3>3, <3>4
  <2> HIDE DEF Contents
  <2> QED
    BY <1>3, <1>7, <2>1, <2>2, SeqEqual
<1> QED
  BY <1>1, <1>2, <1>6, <1>8 DEF Queue!Put

\* The increment that ends a Dequeue is the abstract Take.
LEMMA AdvanceIsTake ==
  ASSUME Inv, Inv', DequeueAdvance
  PROVE  Queue!Take
<1>1. dequeued' = (dequeued + 1) % CounterMod /\ enqueued' = enqueued /\ queue' = queue /\ got' = cdata
  BY DEF DequeueAdvance
<1>2. GetDepth > 0 /\ GetDepth \in 0 .. CounterMod - 1 /\ enqueued # dequeued
  BY DepthType, SMT DEF Inv, DequeueAdvance, ChecksStayValid
<1>3. GetDepth' = GetDepth - 1
  <2>1. enqueued \in 0 .. CounterMod - 1 /\ dequeued \in 0 .. CounterMod - 1
    BY DEF Inv, TypeOK, Counters
  <2>2. CounterMod \in Nat \ {0} /\ dequeued' = (dequeued + 1) % CounterMod
    BY <1>1, Constants
  <2>3. dequeued' \in Int
    BY <2>1, <2>2, ModDef, SMT
  <2>4. enqueued # dequeued
    BY <1>2
  <2>5. (enqueued - dequeued') % CounterMod = ((enqueued - dequeued) % CounterMod) - 1
    BY <2>1, <2>2, <2>3, <2>4, DistanceDown
  <2> QED
    BY <1>1, <2>5 DEF GetDepth
<1>4. \A k \in 0 .. GetDepth - 2 : LiveSlot(k)' = LiveSlot(k + 1)
  <2> TAKE k \in 0 .. GetDepth - 2
  <2>1. k \in 0 .. CounterMod - 2
    BY <1>2, Constants, SMT
  <2> QED
    BY <1>1, <2>1, Constants, ShiftSuccessor DEF Inv, TypeOK, Counters, LiveSlot
<1>5. queue[LiveSlot(0)] = cdata
  <2>1. 0 \in 0 .. GetDepth
    BY <1>2, SMT
  <2> QED
    BY <2>1, LiveSlotFacts DEF Inv, DequeueAdvance, ChecksStayValid, RegistersHold
<1>6. /\ Contents \in Seq(Data) /\ Len(Contents) = GetDepth
      /\ \A i \in 1 .. GetDepth : Contents[i] = queue[LiveSlot(i - 1)]
  BY ContentsType DEF ContentsMatch
<1>7. /\ Contents' \in Seq(Data) /\ Len(Contents') = GetDepth'
      /\ \A i \in 1 .. GetDepth' : Contents'[i] = queue'[LiveSlot(i - 1)']
  <2>1. ContentsMatch'
    BY ContentsType, PTL
  <2> QED
    BY <2>1 DEF ContentsMatch
<1>8. Contents # <<>> /\ Head(Contents) = cdata
  <2>1. 1 \in 1 .. GetDepth /\ 1 - 1 = 0
    BY <1>2, SMT
  <2>2. Contents[1] = cdata
    BY <1>5, <1>6, <2>1
  <2> HIDE DEF Contents
  <2> QED
    BY <1>2, <1>6, <2>2, SMT
<1>9. Contents' = Tail(Contents)
  <2> HIDE DEF Contents
  <2>1. /\ Tail(Contents) \in Seq(Data) /\ Len(Tail(Contents)) = GetDepth - 1
        /\ \A i \in 1 .. GetDepth - 1 : Tail(Contents)[i] = Contents[i + 1]
    BY <1>6, <1>8, HeadTailProperties
  <2>2. \A i \in 1 .. GetDepth - 1 : Contents'[i] = Tail(Contents)[i]
    <3> TAKE i \in 1 .. GetDepth - 1
    <3>1. i - 1 \in 0 .. GetDepth - 2 /\ (i - 1) + 1 = (i + 1) - 1 /\ i + 1 \in 1 .. GetDepth
      BY <1>2, SMT
    <3>2. Contents'[i] = queue[LiveSlot((i - 1) + 1)]
      BY <1>1, <1>3, <1>4, <1>7, <3>1
    <3> QED
      BY <1>6, <2>1, <3>1, <3>2
  <2> QED
    BY <1>3, <1>7, <2>1, <2>2, SeqEqual
<1> QED
  BY <1>1, <1>8, <1>9 DEF Queue!Take

\* labstor_request_ring_buffer, with its checks, loads, stores and increments
\* as separate steps of two threads, implements an atomic bounded FIFO queue.
THEOREM RingRefinesQueue == Spec => RefinesQueue
<1>1. Init => Queue!Init
  <2> SUFFICES ASSUME Init PROVE Queue!Init
    OBVIOUS
  <2>1. Inv
    BY InvInit
  <2>2. GetDepth = 0
    BY <2>1, DepthType DEF Inv, Init
  <2>3. Contents = <<>>
    BY <2>1, <2>2, ContentsType, EmptySeq DEF ContentsMatch
  <2> QED
    BY <2>3 DEF Init, Queue!Init
<1>2. ASSUME Inv, Inv', [Next]_vars
      PROVE  [Queue!Next]_(Queue!vars)
  <2>1. CASE EnqueueAdvance
    <3>1. pdata \in Data
      BY <1>2, <2>1 DEF Inv, EnqueueAdvance, RegistersHold
    <3> QED
      BY <1>2, <2>1, <3>1, AdvanceIsPut DEF Queue!Next
  <2>2. CASE DequeueAdvance
    BY <1>2, <2>2, AdvanceIsTake DEF Queue!Next
  <2>3. CASE ~EnqueueAdvance /\ ~DequeueAdvance
    <3>1. UNCHANGED <<header, got>>
      BY <1>2, <2>3 DEF Next, EnqueueStep, ConsumerStep, EnqueueCall, EnqueueCheck, EnqueueHang,
        EnqueueStore, PeekCheck, PeekLoad, PeekLeave, DequeueCheck, DequeueLoad, vars, consumer
    <3>2. Contents' = Contents
      BY <1>2, <3>1, ContentsKept
    <3> QED
      BY <3>1, <3>2 DEF Queue!vars, header
  <2> QED
    BY <2>1, <2>2, <2>3
<1> QED
  BY <1>1, <1>2, RingInvariant, PTL DEF Spec, RefinesQueue, Queue!Spec
=============================================================================
