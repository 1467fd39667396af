--------------------------- MODULE PlugRingProofs ---------------------------
(***************************************************************************)
(* Proofs about PlugRing, for every number of threads and every depth: a   *)
(* lock has one holder at most, and the ring is a queue although the two   *)
(* sides hold different locks and read each other's counter at any time.   *)
(***************************************************************************)
EXTENDS PlugRing, CounterArithmetic, SequenceTheorems

Locations == {"idle", "try", "trylock", "acquire", "timed", "yield", "counts", "counts2",
              "test", "count", "plugged"}
Users == [at : Locations, side : RingSides \union {"none"}, e : Nat, d : Nat, yields : Int,
          passes : Nat, got : {"nothing", "lock"}]

\* A call is on one of the sides, and only a timed wait has got a lock unawares.
Sound(r) ==
    /\ r.at = "idle" \/ r.side \in RingSides
    /\ r.got = "lock" => r.at \in {"timed", "yield"}

\* Whether a thread with the record r holds the lock of side s.
Has(r, s) ==
    /\ r.side = s
    /\ r.got = "lock" \/ r.at \in {"counts", "counts2", "test", "count", "plugged"}

\* Types.
PlugTypeOK ==
    /\ enqueued_ \in Nat /\ dequeued_ \in Nat
    /\ queue_ \in [0 .. RingDepth - 1 -> Nat]
    /\ word \in [RingSides -> {0, 1}]
    /\ user \in [RingThreads -> Users]
    /\ \A t \in RingThreads : Sound(user[t])
    /\ content \in Seq(Nat) /\ left \in SUBSET RingSides /\ ringcalls \in Nat
    /\ order \in {"kept", "broken"}

\* What the holder of a lock, whose record is r, knows of the counters e and d:
\* its own exactly, and the other's from below, for that only grows.
Knows(r, e, d) ==
    /\ r.side = "enqueue" =>
         /\ r.at \in {"counts2", "test", "count"} => r.e = e
         /\ r.at = "test" => r.d <= d
         /\ r.at = "count" => e - d < RingDepth
    /\ r.side = "dequeue" =>
         /\ r.at \in {"counts2", "test"} => d <= r.e /\ r.e <= e
         /\ r.at = "test" => r.d = d
         /\ r.at = "count" => d < e

Registers ==
    /\ dequeued_ <= enqueued_ /\ enqueued_ - dequeued_ <= RingDepth
    /\ \A t \in RingThreads : Knows(user[t], enqueued_, dequeued_)

\* The inductive invariant.
PlugIInv == PlugTypeOK /\ RingLocked /\ Registers /\ RingKeepsOrder

\* Counters less than the depth apart have different slots.
LEMMA EntriesDiffer ==
    ASSUME NEW x \in Nat, NEW y \in Nat, x < y, y - x < RingDepth
    PROVE  Entry(x) # Entry(y)
<1>1. RingDepth \in Nat \ {0}
  BY PlugAssumption
<1> DEFINE p == x \div RingDepth
           q == y \div RingDepth
<1>2. /\ p \in Int /\ x = RingDepth * p + (x % RingDepth)
      /\ q \in Int /\ y = RingDepth * q + (y % RingDepth)
      /\ x % RingDepth \in Int /\ y % RingDepth \in Int
  BY <1>1, ModDef, SMT
<1>3. SUFFICES ASSUME x % RingDepth = y % RingDepth PROVE FALSE
  BY DEF Entry
<1> HIDE DEF p, q
<1>4. y - x = RingDepth * (q - p)
  BY <1>1, <1>2, <1>3, SMT
<1>5. /\ q - p >= 1 => RingDepth * (q - p) >= RingDepth
      /\ q - p <= -1 => RingDepth * (q - p) <= -RingDepth
  BY <1>1, <1>2, MulBound
<1> QED
  BY <1>1, <1>2, <1>4, <1>5, SMT

\* A counter's slot exists.
LEMMA EntryType == ASSUME NEW x \in Nat PROVE Entry(x) \in 0 .. RingDepth - 1
BY PlugAssumption, ModDef, SMT DEF Entry

\* The record of an idle thread.
LEMMA IdleRecord ==
    /\ RingIdle \in Users /\ RingIdle.at = "idle" /\ RingIdle.side = "none"
    /\ RingIdle.got = "nothing"
BY DEF RingIdle, Fresh, Users, Locations, RingSides

\* The initial state satisfies the invariant.
LEMMA PlugInitInv == PlugInit => PlugIInv
<1> SUFFICES ASSUME PlugInit PROVE PlugIInv
  OBVIOUS
<1> USE PlugAssumption DEF PlugInit
<1>1. content \in Seq(Nat) /\ Len(content) = 0 /\ DOMAIN content = {}
  BY EmptySeq
<1>3. PlugTypeOK
  BY <1>1, IdleRecord DEF PlugTypeOK, Sound
<1>4. RingLocked
  BY IdleRecord DEF RingLocked, Holds, RingSides
<1>5. Registers
  BY IdleRecord DEF Registers, Knows
<1>6. RingKeepsOrder
  BY <1>1 DEF RingKeepsOrder
<1> QED
  BY <1>3, <1>4, <1>5, <1>6 DEF PlugIInv

-----------------------------------------------------------------------------
(* The steps.  In each lemma t is the thread that takes the step. *)

\* The ring itself is left alone.
LEMMA RingKept ==
    ASSUME RingKeepsOrder, UNCHANGED <<enqueued_, dequeued_, queue_, content, order>>
    PROVE  RingKeepsOrder'
BY DEF RingKeepsOrder, Entry

\* No lock changes hands.
LEMMA LocksKept ==
    ASSUME RingLocked, UNCHANGED <<word, left>>,
           \A u \in RingThreads, s \in RingSides : Holds(u, s)' <=> Holds(u, s)
    PROVE  RingLocked'
BY DEF RingLocked

\* Thread t takes the lock of side z, which was free.
LEMMA LockTaken ==
    ASSUME RingLocked, word \in [RingSides -> {0, 1}],
           NEW t \in RingThreads, NEW z \in RingSides, TRYLOCK(z), left' = left,
           \A u \in RingThreads, s \in RingSides :
               Holds(u, s)' <=> (Holds(u, s) \/ (u = t /\ s = z))
    PROVE  RingLocked'
<1> SUFFICES ASSUME NEW s \in RingSides
             PROVE  /\ word'[s] = 1 <=> s \in left' \/ \E u \in RingThreads : Holds(u, s)'
                    /\ s \in left' => \A u \in RingThreads : ~Holds(u, s)'
                    /\ \A u, v \in RingThreads : Holds(u, s)' /\ Holds(v, s)' => u = v
  BY DEF RingLocked
<1>1. CASE s = z
  <2>1. word[z] = 0 /\ word'[z] = 1
    BY DEF TRYLOCK
  <2>2. z \notin left /\ \A u \in RingThreads : ~Holds(u, z)
    BY <2>1 DEF RingLocked
  <2>3. \A u \in RingThreads : Holds(u, z)' <=> u = t
    BY <2>2
  <2> QED
    BY <1>1, <2>1, <2>2, <2>3
<1>2. CASE s # z
  <2>1. word'[s] = word[s]
    BY <1>2 DEF TRYLOCK
  <2>2. \A u \in RingThreads : Holds(u, s)' <=> Holds(u, s)
    BY <1>2
  <2> QED
    BY <2>1, <2>2 DEF RingLocked
<1> QED
  BY <1>1, <1>2

\* Thread t gives up the lock of side z: it releases it, or leaves it held.
LEMMA LockGiven ==
    ASSUME RingLocked, word \in [RingSides -> {0, 1}],
           NEW t \in RingThreads, NEW z \in RingSides, Holds(t, z),
           \/ RELEASE(z) /\ left' = left
           \/ word' = word /\ left' = left \union {z},
           \A u \in RingThreads, s \in RingSides :
               Holds(u, s)' <=> (Holds(u, s) /\ ~(u = t /\ s = z))
    PROVE  RingLocked'
<1> SUFFICES ASSUME NEW s \in RingSides
             PROVE  /\ word'[s] = 1 <=> s \in left' \/ \E u \in RingThreads : Holds(u, s)'
                    /\ s \in left' => \A u \in RingThreads : ~Holds(u, s)'
                    /\ \A u, v \in RingThreads : Holds(u, s)' /\ Holds(v, s)' => u = v
  BY DEF RingLocked
<1>1. CASE s = z
  <2>1. word[z] = 1 /\ z \notin left /\ \A u \in RingThreads : Holds(u, z) => u = t
    BY DEF RingLocked
  <2>2. \A u \in RingThreads : ~Holds(u, z)'
    BY <2>1
  <2>3. (word'[z] = 1) <=> (z \in left')
    BY <2>1 DEF RELEASE
  <2> QED
    BY <1>1, <2>2, <2>3
<1>2. CASE s # z
  <2>1. word'[s] = word[s] /\ (s \in left' <=> s \in left)
    BY <1>2 DEF RELEASE
  <2>2. \A u \in RingThreads : Holds(u, s)' <=> Holds(u, s)
    BY <1>2
  <2> QED
    BY <2>1, <2>2 DEF RingLocked
<1> QED
  BY <1>1, <1>2

\* Thread t, and no other, changes its record.
Only(t) ==
    /\ user' \in [RingThreads -> Users]
    /\ \A u \in RingThreads : u # t => user'[u] = user[u]

\* What a thread holds depends on its own record only.
LEMMA HoldsFrame ==
    ASSUME NEW t \in RingThreads, Only(t)
    PROVE  \A u \in RingThreads, s \in RingSides :
                /\ u # t => (Holds(u, s)' <=> Holds(u, s))
                /\ Holds(t, s)' <=> Has(user'[t], s)
                /\ Holds(t, s) <=> Has(user[t], s)
BY Zenon DEF Holds, Has, Only

\* Thread t changes its record, and no lock changes hands.
LEMMA LocksSame ==
    ASSUME PlugIInv, NEW t \in RingThreads, Only(t), UNCHANGED <<word, left>>,
           \A s \in RingSides : Has(user'[t], s) <=> Has(user[t], s)
    PROVE  RingLocked'
<1>1. \A u \in RingThreads, s \in RingSides : Holds(u, s)' <=> Holds(u, s)
  BY HoldsFrame
<1> QED
  BY <1>1, LocksKept DEF PlugIInv

\* A step of thread t that changes its record and neither the ring nor, but for a
\* lock, anything else.
LEMMA RecordStep ==
    ASSUME PlugIInv, NEW t \in RingThreads, Only(t), Sound(user'[t]),
           UNCHANGED <<enqueued_, dequeued_, queue_, content, order>>,
           ringcalls' \in Nat, word' \in [RingSides -> {0, 1}], left' \in SUBSET RingSides,
           Knows(user'[t], enqueued_, dequeued_), RingLocked'
    PROVE  PlugIInv'
<1> USE DEF PlugIInv
<1>2. PlugTypeOK'
  BY DEF PlugTypeOK, Only
<1>3. Registers'
  BY DEF Registers, Only
<1> QED
  BY <1>2, <1>3, RingKept

\* Thread t goes to l and keeps the rest of its record.
LEMMA MoveOnly ==
    ASSUME user \in [RingThreads -> Users], NEW t \in RingThreads, NEW l \in Locations,
           Moves(t, l)
    PROVE  /\ Only(t) /\ user'[t].at = l
           /\ user'[t].side = user[t].side /\ user'[t].got = user[t].got
           /\ user'[t].e = user[t].e /\ user'[t].d = user[t].d
BY DEF Moves, Only, Users

\* Thread t becomes idle.
LEMMA IdleOnly ==
    ASSUME user \in [RingThreads -> Users], NEW t \in RingThreads,
           user' = [user EXCEPT ![t] = RingIdle]
    PROVE  /\ Only(t) /\ user'[t] = RingIdle
BY IdleRecord DEF Only

\* A call begins.
LEMMA CallStep ==
    ASSUME PlugIInv, NEW t \in RingThreads, NEW s \in RingSides,
           NEW how \in {"try", "trylock", "acquire", "timed"}, RingCall(t, s, how)
    PROVE  PlugIInv'
<1> DEFINE r == Fresh(how, s)
<1>2. r \in Users /\ r.at = how /\ r.side = s /\ r.got = "nothing"
  <2>1. how \in Locations /\ s \in RingSides \union {"none"}
    BY DEF Locations
  <2> QED
    BY <2>1 DEF Users, Fresh
<1>3. user' = [user EXCEPT ![t] = r] /\ user[t].at = "idle" /\ Sound(user[t])
  BY DEF RingCall, UserAt, PlugIInv, PlugTypeOK
<1>4. /\ UNCHANGED <<enqueued_, dequeued_, queue_, word, content, order, left>>
      /\ ringcalls' \in Nat /\ word \in [RingSides -> {0, 1}] /\ left \in SUBSET RingSides
      /\ user \in [RingThreads -> Users]
  BY DEF RingCall, PlugIInv, PlugTypeOK
<1> HIDE DEF r
<1>5. Only(t) /\ user'[t] = r
  BY <1>2, <1>3, <1>4 DEF Only
<1>6. Knows(r, enqueued_, dequeued_) /\ Sound(r)
  BY <1>2 DEF Knows, Sound
<1>7. RingLocked'
  <2>1. \A z \in RingSides : ~Has(r, z) /\ ~Has(user[t], z)
    BY <1>2, <1>3 DEF Has, Sound
  <2> QED
    BY <1>4, <1>5, <2>1, LocksSame
<1> QED
  BY <1>4, <1>5, <1>6, <1>7, RecordStep

\* Thread t takes the lock of its side.
LEMMA TakeLock ==
    ASSUME PlugIInv, NEW t \in RingThreads, Only(t), user[t].side \in RingSides,
           TRYLOCK(user[t].side), UNCHANGED left, user'[t].side = user[t].side,
           ~Has(user[t], user[t].side), Has(user'[t], user[t].side)
    PROVE  RingLocked' /\ word' \in [RingSides -> {0, 1}]
<1> DEFINE z == user[t].side
<1>1. \A u \in RingThreads, s \in RingSides :
          Holds(u, s)' <=> (Holds(u, s) \/ (u = t /\ s = z))
  BY HoldsFrame DEF Has
<1>2. word \in [RingSides -> {0, 1}] /\ RingLocked
  BY DEF PlugIInv, PlugTypeOK
<1>3. word' \in [RingSides -> {0, 1}]
  BY <1>2 DEF TRYLOCK
<1> QED
  BY <1>1, <1>2, <1>3, LockTaken

\* Thread t becomes idle and gives up the lock it holds.
LEMMA GiveLock ==
    ASSUME PlugIInv, NEW t \in RingThreads, user' = [user EXCEPT ![t] = RingIdle],
           user[t].side \in RingSides, Has(user[t], user[t].side),
           \/ RELEASE(user[t].side) /\ left' = left
           \/ word' = word /\ left' = left \union {user[t].side}
    PROVE  RingLocked' /\ word' \in [RingSides -> {0, 1}] /\ left' \in SUBSET RingSides
<1> DEFINE z == user[t].side
<1>1. Only(t) /\ user'[t] = RingIdle
  BY IdleOnly DEF PlugIInv, PlugTypeOK
<1>2. Holds(t, z)
  BY <1>1, HoldsFrame
<1>3. \A u \in RingThreads, s \in RingSides :
          Holds(u, s)' <=> (Holds(u, s) /\ ~(u = t /\ s = z))
  BY <1>1, IdleRecord, HoldsFrame DEF Has
<1>4. word \in [RingSides -> {0, 1}] /\ RingLocked /\ left \in SUBSET RingSides
  BY DEF PlugIInv, PlugTypeOK
<1>5. word' \in [RingSides -> {0, 1}] /\ left' \in SUBSET RingSides
  BY <1>4 DEF RELEASE
<1> QED
  BY <1>2, <1>3, <1>4, <1>5, LockGiven

\* A thread that becomes idle has no counters to know.
LEMMA IdleStep ==
    ASSUME PlugIInv, NEW t \in RingThreads, user' = [user EXCEPT ![t] = RingIdle],
           UNCHANGED <<enqueued_, dequeued_, queue_, content, order, ringcalls>>,
           word' \in [RingSides -> {0, 1}], left' \in SUBSET RingSides, RingLocked'
    PROVE  PlugIInv'
<1>1. Only(t) /\ user'[t] = RingIdle /\ ringcalls \in Nat
  BY IdleOnly DEF PlugIInv, PlugTypeOK
<1>2. Knows(RingIdle, enqueued_, dequeued_) /\ Sound(RingIdle)
  BY IdleRecord DEF Knows, Sound
<1> QED
  BY <1>1, <1>2, RecordStep

\* What the invariant says of the types, for the steps below.
LEMMA Typed ==
    ASSUME PlugIInv, NEW t \in RingThreads
    PROVE  /\ enqueued_ \in Nat /\ dequeued_ \in Nat /\ ringcalls \in Nat
           /\ word \in [RingSides -> {0, 1}] /\ left \in SUBSET RingSides
           /\ user \in [RingThreads -> Users] /\ user[t] \in Users
           /\ Sound(user[t]) /\ Knows(user[t], enqueued_, dequeued_)
           /\ dequeued_ <= enqueued_ /\ enqueued_ - dequeued_ <= RingDepth
BY DEF PlugIInv, PlugTypeOK, Registers

\* Enqueue, Dequeue and the plugging call try the lock.
LEMMA TryStep == ASSUME PlugIInv, NEW t \in RingThreads, Try(t) PROVE PlugIInv'
<1> USE Typed
<1>1. user[t].at \in {"try", "trylock"} /\ user[t].side \in RingSides /\ user[t].got = "nothing"
  BY DEF Try, UserAt, Sound, Users
<1>2. UNCHANGED <<enqueued_, dequeued_, queue_, content, order, left, ringcalls>>
  BY DEF Try
<1>3. \A z \in RingSides : ~Has(user[t], z)
  BY <1>1 DEF Has
<1>4. CASE TRYLOCK(user[t].side) /\ Moves(t, IF UserAt(t, "try") THEN "counts" ELSE "plugged")
  <2>1. PICK l \in {"counts", "plugged"} : Moves(t, l)
    BY <1>4
  <2>2. /\ Only(t) /\ user'[t].at = l /\ user'[t].side = user[t].side
        /\ user'[t].got = "nothing"
    BY <1>1, <2>1, MoveOnly DEF Locations
  <2>3. Sound(user'[t]) /\ Knows(user'[t], enqueued_, dequeued_) /\ Has(user'[t], user[t].side)
    BY <1>1, <2>2 DEF Sound, Knows, Has
  <2>4. RingLocked' /\ word' \in [RingSides -> {0, 1}]
    BY <1>1, <1>2, <1>3, <1>4, <2>2, <2>3, TakeLock
  <2> QED
    BY <1>2, <2>2, <2>3, <2>4, RecordStep
<1>5. CASE UNCHANGED word /\ user' = [user EXCEPT ![t] = RingIdle]
  <2>1. \A z \in RingSides : ~Has(RingIdle, z)
    BY IdleRecord DEF Has
  <2>2. RingLocked'
    BY <1>2, <1>3, <1>5, <2>1, IdleOnly, LocksSame
  <2> QED
    BY <1>2, <1>5, <2>2, IdleStep
<1> QED
  BY <1>4, <1>5 DEF Try

\* The two loads of the counters: the producer's own counter is exact, and a
\* consumer that reads the producer's first may only miss what comes later.
LEMMA ReadEnqueuedStep ==
    ASSUME PlugIInv, NEW t \in RingThreads, ReadEnqueued(t) PROVE PlugIInv'
<1> USE Typed
<1>1. /\ user[t].at = "counts" /\ user[t].side \in RingSides /\ user[t].got = "nothing"
      /\ UNCHANGED <<enqueued_, dequeued_, queue_, word, content, order, left, ringcalls>>
  BY DEF ReadEnqueued, UserAt, Sound, Users
<1>2. /\ Only(t) /\ user'[t].at = "counts2" /\ user'[t].side = user[t].side
      /\ user'[t].got = user[t].got /\ user'[t].e = enqueued_
  BY DEF ReadEnqueued, Only, Users, Locations
<1>3. /\ Sound(user'[t]) /\ Knows(user'[t], enqueued_, dequeued_)
      /\ \A z \in RingSides : Has(user'[t], z) <=> Has(user[t], z)
  BY <1>1, <1>2 DEF Sound, Knows, Has
<1>4. RingLocked'
  BY <1>1, <1>2, <1>3, LocksSame
<1> QED
  BY <1>1, <1>2, <1>3, <1>4, RecordStep

LEMMA ReadDequeuedStep ==
    ASSUME PlugIInv, NEW t \in RingThreads, ReadDequeued(t) PROVE PlugIInv'
<1> USE Typed
<1>1. /\ user[t].at = "counts2" /\ user[t].side \in RingSides /\ user[t].got = "nothing"
      /\ UNCHANGED <<enqueued_, dequeued_, queue_, word, content, order, left, ringcalls>>
  BY DEF ReadDequeued, UserAt, Sound, Users
<1>2. /\ Only(t) /\ user'[t].at = "test" /\ user'[t].side = user[t].side
      /\ user'[t].got = user[t].got /\ user'[t].e = user[t].e /\ user'[t].d = dequeued_
  BY DEF ReadDequeued, Only, Users, Locations
<1>3. /\ Sound(user'[t]) /\ Knows(user'[t], enqueued_, dequeued_)
      /\ \A z \in RingSides : Has(user'[t], z) <=> Has(user[t], z)
  BY <1>1, <1>2 DEF Sound, Knows, Has
<1>4. RingLocked'
  BY <1>1, <1>2, <1>3, LocksSame
<1> QED
  BY <1>1, <1>2, <1>3, <1>4, RecordStep

\* Full, or empty.
LEMMA RefuseStep == ASSUME PlugIInv, NEW t \in RingThreads, Refuse(t) PROVE PlugIInv'
<1> USE Typed
<1>1. /\ user[t].at = "test" /\ user[t].side \in RingSides
      /\ RELEASE(user[t].side) /\ user' = [user EXCEPT ![t] = RingIdle]
      /\ UNCHANGED <<enqueued_, dequeued_, queue_, content, order, left, ringcalls>>
  BY DEF Refuse, UserAt, Sound
<1>2. Has(user[t], user[t].side)
  BY <1>1 DEF Has
<1>3. RingLocked' /\ word' \in [RingSides -> {0, 1}] /\ left' \in SUBSET RingSides
  BY <1>1, <1>2, GiveLock
<1> QED
  BY <1>1, <1>3, IdleStep

LEMMA ReleaseStep == ASSUME PlugIInv, NEW t \in RingThreads, Release(t) PROVE PlugIInv'
<1> USE Typed
<1>1. /\ user[t].at = "plugged" /\ user[t].side \in RingSides
      /\ RELEASE(user[t].side) /\ user' = [user EXCEPT ![t] = RingIdle]
      /\ UNCHANGED <<enqueued_, dequeued_, queue_, content, order, left, ringcalls>>
  BY DEF Release, UserAt, Sound
<1>2. Has(user[t], user[t].side)
  BY <1>1 DEF Has
<1>3. RingLocked' /\ word' \in [RingSides -> {0, 1}] /\ left' \in SUBSET RingSides
  BY <1>1, <1>2, GiveLock
<1> QED
  BY <1>1, <1>3, IdleStep

LEMMA AcquireStep == ASSUME PlugIInv, NEW t \in RingThreads, Acquire(t) PROVE PlugIInv'
<1> USE Typed
<1>1. /\ user[t].at = "acquire" /\ user[t].side \in RingSides /\ user[t].got = "nothing"
      /\ TRYLOCK(user[t].side) /\ Moves(t, "plugged")
      /\ UNCHANGED <<enqueued_, dequeued_, queue_, content, order, left, ringcalls>>
  BY DEF Acquire, UserAt, Sound, Users
<1>2. /\ Only(t) /\ user'[t].at = "plugged" /\ user'[t].side = user[t].side
      /\ user'[t].got = "nothing"
  BY <1>1, MoveOnly DEF Locations
<1>3. /\ Sound(user'[t]) /\ Knows(user'[t], enqueued_, dequeued_)
      /\ ~Has(user[t], user[t].side) /\ Has(user'[t], user[t].side)
  BY <1>1, <1>2 DEF Sound, Knows, Has
<1>4. RingLocked' /\ word' \in [RingSides -> {0, 1}]
  BY <1>1, <1>2, <1>3, TakeLock
<1> QED
  BY <1>1, <1>2, <1>3, <1>4, RecordStep

\* A pass of the timed wait: it takes the lock, or does not; and while it has the
\* lock, the word is set, so it cannot take it again.
LEMMA TimedSpinStep == ASSUME PlugIInv, NEW t \in RingThreads, TimedSpin(t) PROVE PlugIInv'
<1> USE Typed
<1>1. /\ user[t].at = "timed" /\ user[t].side \in RingSides
      /\ UNCHANGED <<enqueued_, dequeued_, queue_, content, order, left, ringcalls>>
  BY DEF TimedSpin, UserAt, Sound
<1>2. CASE /\ TRYLOCK(user[t].side)
           /\ user' = [user EXCEPT ![t].at = "yield", ![t].got = "lock"]
  <2>1. /\ Only(t) /\ user'[t].at = "yield" /\ user'[t].side = user[t].side
        /\ user'[t].got = "lock"
    BY <1>2 DEF Only, Users, Locations
  <2>2. Sound(user'[t]) /\ Knows(user'[t], enqueued_, dequeued_) /\ Has(user'[t], user[t].side)
    BY <1>1, <2>1 DEF Sound, Knows, Has
  <2>3. ~Holds(t, user[t].side)
    BY <1>1, <1>2 DEF PlugIInv, RingLocked, TRYLOCK
  <2>4. ~Has(user[t], user[t].side)
    BY <1>1, <2>1, <2>3, HoldsFrame
  <2>5. RingLocked' /\ word' \in [RingSides -> {0, 1}]
    BY <1>1, <1>2, <2>1, <2>2, <2>4, TakeLock
  <2> QED
    BY <1>1, <2>1, <2>2, <2>5, RecordStep
<1>3. CASE UNCHANGED word /\ Moves(t, "yield")
  <2>1. /\ Only(t) /\ user'[t].at = "yield" /\ user'[t].side = user[t].side
        /\ user'[t].got = user[t].got
    BY <1>3, MoveOnly DEF Locations
  <2>2. /\ Sound(user'[t]) /\ Knows(user'[t], enqueued_, dequeued_)
        /\ \A z \in RingSides : Has(user'[t], z) <=> Has(user[t], z)
    BY <1>1, <2>1 DEF Sound, Knows, Has
  <2>3. RingLocked'
    BY <1>1, <1>3, <2>1, <2>2, LocksSame
  <2> QED
    BY <1>1, <1>3, <2>1, <2>2, <2>3, RecordStep
<1> QED
  BY <1>2, <1>3 DEF TimedSpin

LEMMA TimedYieldStep == ASSUME PlugIInv, NEW t \in RingThreads, TimedYield(t) PROVE PlugIInv'
<1> USE Typed
<1>1. /\ user[t].at = "yield" /\ user[t].side \in RingSides
      /\ UNCHANGED <<enqueued_, dequeued_, queue_, word, content, order, left, ringcalls>>
  BY DEF TimedYield, UserAt, Sound
<1>2. /\ (user[t].yields + 1) % MAX_YIELDS \in Int
      /\ (IF PassEnds(t) THEN user[t].passes + 1 ELSE user[t].passes) \in Nat
  <2>1. /\ user[t].yields \in Int /\ user[t].passes \in Nat /\ MAX_YIELDS \in Nat \ {0}
    BY PlugAssumption DEF Users
  <2> DEFINE y == user[t].yields + 1
  <2>2. y \in Int
    BY <2>1
  <2> HIDE DEF y
  <2>3. y % MAX_YIELDS \in Int
    BY <2>1, <2>2, ModDef
  <2> QED
    BY <2>1, <2>3 DEF y
<1>3. /\ Only(t) /\ user'[t].at = "timed" /\ user'[t].side = user[t].side
      /\ user'[t].got = user[t].got
  BY <1>2 DEF TimedYield, Only, Users, Locations
<1>4. /\ Sound(user'[t]) /\ Knows(user'[t], enqueued_, dequeued_)
      /\ \A z \in RingSides : Has(user'[t], z) <=> Has(user[t], z)
  BY <1>1, <1>3 DEF Sound, Knows, Has
<1>5. RingLocked'
  BY <1>1, <1>3, <1>4, LocksSame
<1> QED
  BY <1>1, <1>3, <1>4, <1>5, RecordStep

\* The time is over, with the lock or without it.
LEMMA TimedOutStep == ASSUME PlugIInv, NEW t \in RingThreads, TimedOut(t) PROVE PlugIInv'
<1> USE Typed
<1>1. /\ user[t].at = "yield" /\ user[t].side \in RingSides
      /\ user' = [user EXCEPT ![t] = RingIdle]
      /\ left' = IF user[t].got = "lock" THEN left \union {user[t].side} ELSE left
      /\ UNCHANGED <<enqueued_, dequeued_, queue_, word, content, order, ringcalls>>
  BY DEF TimedOut, UserAt, Sound
<1>2. CASE user[t].got = "lock"
  <2>1. Has(user[t], user[t].side)
    BY <1>2 DEF Has
  <2>2. RingLocked' /\ word' \in [RingSides -> {0, 1}] /\ left' \in SUBSET RingSides
    BY <1>1, <1>2, <2>1, GiveLock
  <2> QED
    BY <1>1, <2>2, IdleStep
<1>3. CASE user[t].got # "lock"
  <2>1. \A z \in RingSides : ~Has(RingIdle, z) /\ ~Has(user[t], z)
    BY <1>1, <1>3, IdleRecord DEF Has
  <2>2. RingLocked'
    BY <1>1, <1>3, <2>1, IdleOnly, LocksSame
  <2> QED
    BY <1>1, <1>3, <2>2, IdleStep
<1> QED
  BY <1>2, <1>3

\* The producer stores into a slot that no entry of the ring is in: its counter is
\* exact, and the consumers' can only have grown since it was read.
LEMMA EnqueueStep == ASSUME PlugIInv, NEW t \in RingThreads, Enqueue(t) PROVE PlugIInv'
<1> USE Typed
<1>1. /\ user[t].at = "test" /\ user[t].side = "enqueue" /\ user[t].got = "nothing"
      /\ Fits(t) /\ Moves(t, "count")
      /\ queue_' = [queue_ EXCEPT ![Entry(user[t].e)] = ringcalls]
      /\ UNCHANGED <<enqueued_, dequeued_, word, content, order, left, ringcalls>>
  BY DEF Enqueue, UserAt, Sound, Users
<1>2. user[t].e = enqueued_ /\ enqueued_ - dequeued_ < RingDepth
  BY <1>1, PlugAssumption DEF Knows, Fits, Users
<1>3. /\ Only(t) /\ user'[t].at = "count" /\ user'[t].side = user[t].side
      /\ user'[t].got = user[t].got /\ user'[t].e = user[t].e
  BY <1>1, MoveOnly DEF Locations
<1>4. /\ Sound(user'[t]) /\ Knows(user'[t], enqueued_, dequeued_)
      /\ \A z \in RingSides : Has(user'[t], z) <=> Has(user[t], z)
  BY <1>1, <1>2, <1>3 DEF Sound, Knows, Has
<1>5. RingLocked'
  BY <1>1, <1>3, <1>4, LocksSame
<1>6. Registers'
  BY <1>1, <1>3, <1>4 DEF PlugIInv, Registers, Only
<1>7. PlugTypeOK'
  BY <1>1, <1>3, <1>4, EntryType DEF PlugIInv, PlugTypeOK, Only
<1>8. RingKeepsOrder'
  <2>1. /\ order = "kept" /\ content \in Seq(Nat)
        /\ Len(content) = enqueued_ - dequeued_ /\ Len(content) <= RingDepth
        /\ \A i \in DOMAIN content : queue_[Entry(dequeued_ + i - 1)] = content[i]
    BY DEF PlugIInv, RingKeepsOrder, PlugTypeOK
  <2>2. SUFFICES ASSUME NEW i \in DOMAIN content
                 PROVE  queue_'[Entry(dequeued_ + i - 1)] = content[i]
    BY <1>1, <2>1 DEF RingKeepsOrder, Entry
  <2>3. i \in 1 .. Len(content)
    BY <2>1
  <2> DEFINE x == dequeued_ + i - 1
  <2>4. x \in Nat /\ x < enqueued_ /\ enqueued_ - x < RingDepth
    BY <1>2, <2>1, <2>3, PlugAssumption
  <2> HIDE DEF x
  <2>5. Entry(x) # Entry(enqueued_) /\ Entry(x) \in 0 .. RingDepth - 1
    BY <2>4, EntriesDiffer, EntryType
  <2>6. queue_'[Entry(x)] = queue_[Entry(x)]
    BY <1>1, <1>2, <2>5 DEF PlugIInv, PlugTypeOK
  <2> QED
    BY <2>1, <2>6 DEF x
<1> QED
  BY <1>5, <1>6, <1>7, <1>8 DEF PlugIInv

\* The consumer takes the oldest entry: there is one, because the producers'
\* counter can only have grown since it was read.
LEMMA DequeueStep == ASSUME PlugIInv, NEW t \in RingThreads, Dequeue(t) PROVE PlugIInv'
<1> USE Typed
<1>1. /\ user[t].at = "test" /\ user[t].side = "dequeue" /\ user[t].got = "nothing"
      /\ Occupied(t) /\ Moves(t, "count")
      /\ order' = IF content # <<>> /\ queue_[Entry(user[t].d)] = Head(content)
                  THEN order ELSE "broken"
      /\ UNCHANGED <<enqueued_, dequeued_, queue_, word, content, left, ringcalls>>
  BY DEF Dequeue, UserAt, Sound, Users
<1>2. user[t].d = dequeued_ /\ dequeued_ < enqueued_
  BY <1>1 DEF Knows, Occupied, Users
<1>3. /\ Only(t) /\ user'[t].at = "count" /\ user'[t].side = user[t].side
      /\ user'[t].got = user[t].got
  BY <1>1, MoveOnly DEF Locations
<1>4. /\ Sound(user'[t]) /\ Knows(user'[t], enqueued_, dequeued_)
      /\ \A z \in RingSides : Has(user'[t], z) <=> Has(user[t], z)
  BY <1>1, <1>2, <1>3 DEF Sound, Knows, Has
<1>5. RingLocked'
  BY <1>1, <1>3, <1>4, LocksSame
<1>6. order' = order
  <2>1. /\ content \in Seq(Nat) /\ Len(content) = enqueued_ - dequeued_
        /\ \A i \in DOMAIN content : queue_[Entry(dequeued_ + i - 1)] = content[i]
    BY DEF PlugIInv, RingKeepsOrder, PlugTypeOK
  <2>2. Len(content) # 0 /\ 1 \in DOMAIN content
    BY <1>2, <2>1
  <2>3. content # <<>> /\ Head(content) = content[1]
    BY <2>1, <2>2, EmptySeq
  <2>4. dequeued_ + 1 - 1 = dequeued_
    OBVIOUS
  <2>5. queue_[Entry(dequeued_)] = content[1]
    BY <2>1, <2>2, <2>4
  <2> QED
    BY <1>1, <1>2, <2>3, <2>5
<1> QED
  BY <1>1, <1>3, <1>4, <1>5, <1>6, RecordStep

\* No other thread of t's side is past its lock.
LEMMA Alone ==
    ASSUME PlugIInv, NEW t \in RingThreads, NEW u \in RingThreads, u # t,
           user[t].side \in RingSides, Has(user[t], user[t].side), user[u].side = user[t].side
    PROVE  user[u].at \notin {"counts", "counts2", "test", "count", "plugged"}
BY DEF PlugIInv, RingLocked, Holds, Has

\* A producer's count makes its entry the ring's youngest; what the threads of
\* the other side know stays true.
LEMMA EnqueueCounts ==
    ASSUME PlugIInv, NEW t \in RingThreads, Count(t), user[t].side = "enqueue"
    PROVE  PlugIInv'
<1> USE Typed
<1>1. /\ user[t].at = "count" /\ user[t].got = "nothing" /\ Moves(t, "plugged")
      /\ enqueued_' = enqueued_ + 1 /\ dequeued_' = dequeued_
      /\ content' = Append(content, queue_[Entry(user[t].e)])
      /\ UNCHANGED <<queue_, word, order, left, ringcalls>>
  BY DEF Count, UserAt, Sound, Users
<1>2. user[t].e = enqueued_ /\ enqueued_ - dequeued_ < RingDepth
  BY <1>1 DEF Knows
<1>3. /\ Only(t) /\ user'[t].at = "plugged" /\ user'[t].side = user[t].side
      /\ user'[t].got = user[t].got
  BY <1>1, MoveOnly DEF Locations
<1>4. /\ Sound(user'[t]) /\ Knows(user'[t], enqueued_', dequeued_')
      /\ \A z \in RingSides : Has(user'[t], z) <=> Has(user[t], z)
  BY <1>1, <1>3 DEF Sound, Knows, Has, RingSides
<1>5. RingLocked'
  BY <1>1, <1>3, <1>4, LocksSame
<1>6. Registers'
  <2>1. ASSUME NEW u \in RingThreads, u # t PROVE Knows(user[u], enqueued_', dequeued_')
    <3>1. Knows(user[u], enqueued_, dequeued_) /\ user[u] \in Users
      BY <2>1
    <3>2. user[u].side = "enqueue" => user[u].at \notin {"counts2", "test", "count"}
      BY <1>1, <2>1, Alone DEF Has, RingSides
    <3> QED
      BY <1>1, <3>1, <3>2 DEF Knows, Users
  <2>2. \A u \in RingThreads : Knows(user[u], enqueued_, dequeued_)'
    BY <1>3, <1>4, <2>1 DEF Only
  <2>3. (dequeued_ <= enqueued_)' /\ (enqueued_ - dequeued_ <= RingDepth)'
    BY <1>1, <1>2, PlugAssumption
  <2> QED
    BY <2>2, <2>3 DEF Registers
<1>7. /\ content \in Seq(Nat) /\ Len(content) = enqueued_ - dequeued_ /\ order = "kept"
      /\ \A i \in DOMAIN content : queue_[Entry(dequeued_ + i - 1)] = content[i]
      /\ queue_ \in [0 .. RingDepth - 1 -> Nat]
  BY DEF PlugIInv, RingKeepsOrder, PlugTypeOK
<1> DEFINE v == queue_[Entry(enqueued_)]
<1>8. v \in Nat /\ content' = Append(content, v)
  BY <1>1, <1>2, <1>7, EntryType
<1> HIDE DEF v
<1>9. /\ content' \in Seq(Nat) /\ Len(content') = Len(content) + 1
      /\ \A i \in 1 .. Len(content) : content'[i] = content[i]
      /\ content'[Len(content) + 1] = v
  BY <1>7, <1>8, AppendProperties
<1>10. PlugTypeOK'
  <2>1. enqueued_' \in Nat /\ dequeued_' \in Nat
    BY <1>1
  <2>2. user' \in [RingThreads -> Users] /\ \A u \in RingThreads : Sound(user'[u])
    BY <1>3, <1>4 DEF Only
  <2> QED
    BY <1>1, <1>9, <2>1, <2>2 DEF PlugIInv, PlugTypeOK
<1>11. RingKeepsOrder'
  <2>1. /\ order' = "kept" /\ Len(content') = enqueued_' - dequeued_'
        /\ Len(content') <= RingDepth
    BY <1>1, <1>2, <1>7, <1>9, PlugAssumption
  <2>2. ASSUME NEW i \in DOMAIN content' PROVE queue_[Entry(dequeued_ + i - 1)] = content'[i]
    <3>1. i \in 1 .. Len(content) + 1 /\ Len(content) \in Nat
      BY <1>7, <1>9, <2>2
    <3>2. CASE i \in 1 .. Len(content)
      BY <1>7, <1>9, <3>2
    <3>3. CASE i = Len(content) + 1
      <4>1. dequeued_ + i - 1 = enqueued_
        BY <1>7, <3>3
      <4> QED
        BY <1>9, <3>3, <4>1 DEF v
    <3> QED
      BY <3>1, <3>2, <3>3
  <2> QED
    BY <1>1, <2>1, <2>2 DEF RingKeepsOrder, Entry
<1> QED
  BY <1>5, <1>6, <1>10, <1>11 DEF PlugIInv

\* A consumer's count drops the ring's oldest entry.
LEMMA DequeueCounts ==
    ASSUME PlugIInv, NEW t \in RingThreads, Count(t), user[t].side = "dequeue"
    PROVE  PlugIInv'
<1> USE Typed
<1>1. /\ user[t].at = "count" /\ user[t].got = "nothing" /\ Moves(t, "plugged")
      /\ dequeued_' = dequeued_ + 1 /\ enqueued_' = enqueued_
      /\ content' = Tail(content)
      /\ UNCHANGED <<queue_, word, order, left, ringcalls>>
  BY DEF Count, UserAt, Sound, Users
<1>2. dequeued_ < enqueued_
  BY <1>1 DEF Knows
<1>3. /\ Only(t) /\ user'[t].at = "plugged" /\ user'[t].side = user[t].side
      /\ user'[t].got = user[t].got
  BY <1>1, MoveOnly DEF Locations
<1>4. /\ Sound(user'[t]) /\ Knows(user'[t], enqueued_', dequeued_')
      /\ \A z \in RingSides : Has(user'[t], z) <=> Has(user[t], z)
  BY <1>1, <1>3 DEF Sound, Knows, Has, RingSides
<1>5. RingLocked'
  BY <1>1, <1>3, <1>4, LocksSame
<1>6. Registers'
  <2>1. ASSUME NEW u \in RingThreads, u # t PROVE Knows(user[u], enqueued_', dequeued_')
    <3>1. Knows(user[u], enqueued_, dequeued_) /\ user[u] \in Users
      BY <2>1
    <3>2. user[u].side = "dequeue" => user[u].at \notin {"counts2", "test", "count"}
      BY <1>1, <2>1, Alone DEF Has, RingSides
    <3> QED
      BY <1>1, <3>1, <3>2, PlugAssumption DEF Knows, Users
  <2>2. \A u \in RingThreads : Knows(user[u], enqueued_, dequeued_)'
    BY <1>3, <1>4, <2>1 DEF Only
  <2>3. (dequeued_ <= enqueued_)' /\ (enqueued_ - dequeued_ <= RingDepth)'
    BY <1>1, <1>2, PlugAssumption
  <2> QED
    BY <2>2, <2>3 DEF Registers
<1>7. /\ content \in Seq(Nat) /\ Len(content) = enqueued_ - dequeued_ /\ order = "kept"
      /\ Len(content) <= RingDepth
      /\ \A i \in DOMAIN content : queue_[Entry(dequeued_ + i - 1)] = content[i]
  BY DEF PlugIInv, RingKeepsOrder, PlugTypeOK
<1>8. content # <<>> /\ Len(content) \in Nat
  BY <1>2, <1>7, EmptySeq
<1>9. /\ content' \in Seq(Nat) /\ Len(content') = Len(content) - 1
      /\ \A i \in 1 .. Len(content') : content'[i] = content[i + 1]
  BY <1>1, <1>7, <1>8, HeadTailProperties
<1>10. PlugTypeOK'
  <2>1. enqueued_' \in Nat /\ dequeued_' \in Nat
    BY <1>1
  <2>2. user' \in [RingThreads -> Users] /\ \A u \in RingThreads : Sound(user'[u])
    BY <1>3, <1>4 DEF Only
  <2> QED
    BY <1>1, <1>9, <2>1, <2>2 DEF PlugIInv, PlugTypeOK
<1>11. RingKeepsOrder'
  <2>1. /\ order' = "kept" /\ Len(content') = enqueued_' - dequeued_'
        /\ Len(content') <= RingDepth
    BY <1>1, <1>2, <1>7, <1>9, PlugAssumption
  <2>2. ASSUME NEW i \in DOMAIN content'
        PROVE  queue_[Entry(dequeued_ + 1 + i - 1)] = content'[i]
    <3> DEFINE n == Len(content)
               k == Len(content')
    <3>1. DOMAIN content = 1 .. n /\ DOMAIN content' = 1 .. k
      BY <1>7, <1>9
    <3>2. n \in Nat /\ k = n - 1
      BY <1>8, <1>9
    <3> HIDE DEF n, k
    <3>3. i \in 1 .. k /\ i + 1 \in DOMAIN content /\ i \in Int
      BY <2>2, <3>1, <3>2
    <3>4. dequeued_ + 1 + i - 1 = dequeued_ + (i + 1) - 1
      BY <3>3
    <3> QED
      BY <1>7, <1>9, <3>3, <3>4 DEF k
  <2> QED
    BY <1>1, <2>1, <2>2 DEF RingKeepsOrder, Entry
<1> QED
  BY <1>5, <1>6, <1>10, <1>11 DEF PlugIInv

-----------------------------------------------------------------------------
\* Every step of a thread keeps the invariant.
LEMMA PlugStepInv == ASSUME PlugIInv, NEW t \in RingThreads, RingStep(t) PROVE PlugIInv'
<1>1. CASE Count(t)
  <2>1. user[t].side \in RingSides
    BY <1>1, Typed DEF Count, UserAt, Sound
  <2> QED
    BY <1>1, <2>1, EnqueueCounts, DequeueCounts DEF RingSides
<1> QED
  BY <1>1, TryStep, ReadEnqueuedStep, ReadDequeuedStep, RefuseStep, EnqueueStep, DequeueStep,
     AcquireStep, ReleaseStep, TimedSpinStep, TimedYieldStep, TimedOutStep DEF RingStep

\* A step that changes nothing keeps it too.
LEMMA PlugStutterInv == ASSUME PlugIInv, UNCHANGED ringvars PROVE PlugIInv'
<1> USE DEF PlugIInv, ringvars
<1>1. PlugTypeOK'
  BY DEF PlugTypeOK
<1>2. RingLocked'
  BY LocksKept DEF Holds
<1>3. Registers'
  BY DEF Registers
<1> QED
  BY <1>1, <1>2, <1>3, RingKept

\* For every number of threads and every depth, the ring is a queue and each of
\* its locks has one holder at most: PlugInv, with the timed wait that takes the
\* lock and reports that it has not.
THEOREM PlugInvariant == PlugSpec => []PlugInv
<1>1. PlugIInv /\ [PlugNext]_ringvars => PlugIInv'
  <2> SUFFICES ASSUME PlugIInv, [PlugNext]_ringvars PROVE PlugIInv'
    OBVIOUS
  <2> QED
    BY PlugStepInv, CallStep, PlugStutterInv DEF PlugNext
<1>2. PlugIInv => PlugInv
  BY DEF PlugIInv, PlugInv
<1> QED
  BY <1>1, <1>2, PlugInitInv, PTL DEF PlugSpec

=============================================================================
