------------------------------ MODULE PlugRing ------------------------------
(***************************************************************************)
(* The ring of many producers and consumers (mpmc::ring_buffer), which     *)
(* holds the ids of the namespace and of the block devices, with its two   *)
(* locks.  Enqueue and Dequeue try their lock once and give up; the calls  *)
(* "for queue plugging" wait for it, for ever or for some time, and leave  *)
(* it held.  Loads and stores of the header are steps of their own.  The   *)
(* ring counts ids handed out, far from the 2^32 where its counters wrap.  *)
(*                                                                         *)
(* The timed wait is a loop of yields around a loop of spins.  Its "break" *)
(* on success leaves the inner loop only: the thread goes on to wait for   *)
(* the lock it has just taken, until the time is over.                     *)
(***************************************************************************)
EXTENDS Integers, Sequences

CONSTANTS
    RingThreads,
    RingDepth,      \* max_depth_
    MAX_YIELDS,     \* 1000 in the code
    MaxPasses,      \* bound: passes of a timed wait after the clock has started
    MaxRingCalls    \* bound: calls

ASSUME PlugAssumption == RingDepth \in Nat \ {0} /\ MAX_YIELDS \in Nat \ {0}

VARIABLES
    enqueued_, dequeued_, queue_,
    word,           \* e_lock_ and d_lock_
    user,           \* each thread: location, side, the counters it read, ...
    content,        \* history: what is in the ring, oldest first
    order,          \* history: "broken" once a Dequeue has returned something else
    left,           \* history: locks that a timed wait took and never released
    ringcalls

ringvars == <<enqueued_, dequeued_, queue_, word, user, content, order, left, ringcalls>>

RingSides == {"enqueue", "dequeue"}
Entry(n) == n % RingDepth
Fresh(l, s) == [at |-> l, side |-> s, e |-> 0, d |-> 0, yields |-> 0, passes |-> 0,
                got |-> "nothing"]
RingIdle == Fresh("idle", "none")

PlugInit ==
    /\ enqueued_ = 0 /\ dequeued_ = 0
    /\ queue_ = [i \in 0 .. RingDepth - 1 |-> 0]
    /\ word = [s \in RingSides |-> 0]
    /\ user = [t \in RingThreads |-> RingIdle]
    /\ content = <<>> /\ order = "kept"
    /\ left = {} /\ ringcalls = 0

UserAt(t, l) == user[t].at = l
Moves(t, l) == user' = [user EXCEPT ![t].at = l]

\* Slip: no test of the lock.
TRYLOCK_Blind(s) == word' = [word EXCEPT ![s] = 1]

\* LABSTOR_INF_LOCK_TRYLOCK, when it succeeds.
TRYLOCK(s) == word[s] = 0 /\ word' = [word EXCEPT ![s] = 1]

RELEASE(s) == word' = [word EXCEPT ![s] = 0]

\* A call of thread t: "try" for Enqueue and Dequeue; "trylock", "acquire" and
\* "timed" for the calls that plug the ring.
RingCall(t, s, how) ==
    /\ UserAt(t, "idle") /\ ringcalls < MaxRingCalls
    /\ ringcalls' = ringcalls + 1
    /\ user' = [user EXCEPT ![t] = Fresh(how, s)]
    /\ UNCHANGED <<enqueued_, dequeued_, queue_, word, content, order, left>>

-----------------------------------------------------------------------------
(* Enqueue and Dequeue *)

Try(t) ==
    /\ UserAt(t, "try") \/ UserAt(t, "trylock")
    /\ \/ TRYLOCK(user[t].side) /\ Moves(t, IF UserAt(t, "try") THEN "counts" ELSE "plugged")
       \/ /\ word[user[t].side] = 1 /\ UNCHANGED word
          /\ user' = [user EXCEPT ![t] = RingIdle]
    /\ UNCHANGED <<enqueued_, dequeued_, queue_, content, order, left, ringcalls>>

ReadEnqueued(t) ==
    /\ UserAt(t, "counts")
    /\ user' = [user EXCEPT ![t].e = enqueued_, ![t].at = "counts2"]
    /\ UNCHANGED <<enqueued_, dequeued_, queue_, word, content, order, left, ringcalls>>
ReadDequeued(t) ==
    /\ UserAt(t, "counts2")
    /\ user' = [user EXCEPT ![t].d = dequeued_, ![t].at = "test"]
    /\ UNCHANGED <<enqueued_, dequeued_, queue_, word, content, order, left, ringcalls>>

\* Slip: one too many.
Fits_OneMore(t) == user[t].e - user[t].d <= RingDepth

\* What the two counters say: room for one more, something to take.
Fits(t) == user[t].e - user[t].d < RingDepth

Occupied(t) == user[t].e - user[t].d # 0

\* Full, or empty: the lock is released and the call returns false.
Refuse(t) ==
    /\ UserAt(t, "test")
    /\ IF user[t].side = "enqueue" THEN ~Fits(t) ELSE ~Occupied(t)
    /\ RELEASE(user[t].side)
    /\ user' = [user EXCEPT ![t] = RingIdle]
    /\ UNCHANGED <<enqueued_, dequeued_, queue_, content, order, left, ringcalls>>

\* queue_[entry] = data; the data is the number of the call.
Enqueue(t) ==
    /\ UserAt(t, "test") /\ user[t].side = "enqueue" /\ Fits(t)
    /\ queue_' = [queue_ EXCEPT ![Entry(user[t].e)] = ringcalls]
    /\ Moves(t, "count")
    /\ UNCHANGED <<enqueued_, dequeued_, word, content, order, left, ringcalls>>

\* data = queue_[entry].
Dequeue(t) ==
    /\ UserAt(t, "test") /\ user[t].side = "dequeue" /\ Occupied(t)
    /\ order' = IF content # <<>> /\ queue_[Entry(user[t].d)] = Head(content)
                THEN order ELSE "broken"
    /\ Moves(t, "count")
    /\ UNCHANGED <<enqueued_, dequeued_, queue_, word, content, left, ringcalls>>

\* ++enqueued_ or ++dequeued_.
Count(t) ==
    /\ UserAt(t, "count")
    /\ IF user[t].side = "enqueue"
       THEN /\ enqueued_' = enqueued_ + 1 /\ UNCHANGED dequeued_
            /\ content' = Append(content, queue_[Entry(user[t].e)])
       ELSE /\ dequeued_' = dequeued_ + 1 /\ UNCHANGED enqueued_
            /\ content' = Tail(content)
    /\ Moves(t, "plugged")
    /\ UNCHANGED <<queue_, word, order, left, ringcalls>>

-----------------------------------------------------------------------------
(* Queue plugging *)

Acquire(t) ==
    /\ UserAt(t, "acquire")
    /\ TRYLOCK(user[t].side) /\ Moves(t, "plugged")
    /\ UNCHANGED <<enqueued_, dequeued_, queue_, content, order, left, ringcalls>>

Release(t) ==
    /\ UserAt(t, "plugged")
    /\ RELEASE(user[t].side)
    /\ user' = [user EXCEPT ![t] = RingIdle]
    /\ UNCHANGED <<enqueued_, dequeued_, queue_, content, order, left, ringcalls>>

\* The inner loop: it ends with the lock, or when the spins are used up.
TimedSpin(t) ==
    /\ UserAt(t, "timed")
    /\ \/ /\ TRYLOCK(user[t].side)
          /\ user' = [user EXCEPT ![t].at = "yield", ![t].got = "lock"]
       \/ word[user[t].side] = 1 /\ UNCHANGED word /\ Moves(t, "yield")
    /\ UNCHANGED <<enqueued_, dequeued_, queue_, content, order, left, ringcalls>>

\* The outer loop, and the clock behind it, which the first pass starts.
PassEnds(t) == user[t].yields + 1 = MAX_YIELDS
TimedYield(t) ==
    /\ UserAt(t, "yield") /\ (PassEnds(t) => user[t].passes < MaxPasses)
    /\ user' = [user EXCEPT ![t].at = "timed", ![t].yields = (@ + 1) % MAX_YIELDS,
                            ![t].passes = IF PassEnds(t) THEN @ + 1 ELSE @]
    /\ UNCHANGED <<enqueued_, dequeued_, queue_, word, content, order, left, ringcalls>>

\* The time is over: the call returns LABSTOR_LOCK_TIMED_OUT, which is true.
TimedOut(t) ==
    LET me == user[t] IN
    /\ UserAt(t, "yield") /\ me.passes > 0 /\ PassEnds(t)
    /\ user' = [user EXCEPT ![t] = RingIdle]
    /\ left' = IF me.got = "lock" THEN left \union {me.side} ELSE left
    /\ UNCHANGED <<enqueued_, dequeued_, queue_, word, content, order, ringcalls>>

RingStep(t) ==
    \/ Try(t) \/ ReadEnqueued(t) \/ ReadDequeued(t) \/ Refuse(t) \/ Enqueue(t) \/ Dequeue(t)
    \/ Count(t) \/ Acquire(t) \/ Release(t) \/ TimedSpin(t) \/ TimedYield(t) \/ TimedOut(t)

PlugNext ==
    \E t \in RingThreads :
        RingStep(t) \/ \E s \in RingSides, how \in {"try", "trylock", "acquire", "timed"} : RingCall(t, s, how)

PlugSpec == PlugInit /\ [][PlugNext]_ringvars

-----------------------------------------------------------------------------
Holds(t, s) ==
    /\ user[t].side = s
    /\ user[t].got = "lock" \/ user[t].at \in {"counts", "counts2", "test", "count", "plugged"}

\* A lock's word says whether somebody holds it, and one thread does at most:
\* an Enqueue, a Dequeue, a plug, or a timed wait that does not know it has it.
RingLocked ==
    \A s \in RingSides :
        /\ word[s] = 1 <=> s \in left \/ \E t \in RingThreads : Holds(t, s)
        /\ s \in left => \A t \in RingThreads : ~Holds(t, s)
        /\ \A t, u \in RingThreads : Holds(t, s) /\ Holds(u, s) => t = u

\* The ring is a queue: the entries between the two counters are what was put
\* in and not yet taken, in order, never more than fit; and each Dequeue takes
\* the oldest, although producers and consumers hold different locks.
RingKeepsOrder ==
    /\ order = "kept"
    /\ Len(content) = enqueued_ - dequeued_ /\ Len(content) <= RingDepth
    /\ \A i \in DOMAIN content : queue_[Entry(dequeued_ + i - 1)] = content[i]

\* What Enqueue, Dequeue and the plugging calls keep together.
PlugInv == RingLocked /\ RingKeepsOrder

\* No call is under way, but for a wait for a lock that a timed wait has left
\* held, having told its caller that the time was over.
RingCallsEnd ==
    \A t \in DOMAIN user : UserAt(t, "idle") \/ (UserAt(t, "acquire") /\ user[t].side \in left)
=============================================================================
