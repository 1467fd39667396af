------------------------------ MODULE SpinLock ------------------------------
(***************************************************************************)
(* The spin lock in shared memory (shmem_spinlock.h) at the granularity of *)
(* its compare-and-swaps.  A failed compare-and-swap stores what it found  *)
(* in the local it compared with, and neither local is set again: after    *)
(* one failure Lock compares with, or stores, the wrong word.              *)
(*                                                                         *)
(* Init drops the time limit it is given, so a lock that is held has       *)
(* expired unless the clock still shows the time of the last Lock.         *)
(***************************************************************************)
EXTENDS Integers, FiniteSets

CONSTANTS
    LockThreads,
    MaxLocks      \* calls of Lock

VARIABLES
    lock_,
    locker,       \* each thread: location, and its is_unlocked and lock
    locks,        \* calls made
    contended     \* history: some Lock found the lock held

lockvars == <<lock_, locker, locks, contended>>

Unlocked == 0
Locked == 1
LockIdle == [at |-> "idle", is_unlocked |-> Unlocked, lock |-> Locked]

LockInit ==
    /\ lock_ = Unlocked
    /\ locker = [t \in LockThreads |-> LockIdle]
    /\ locks = 0 /\ contended = FALSE

LockCall(t) ==
    /\ locker[t].at = "idle" /\ locks < MaxLocks
    /\ locks' = locks + 1
    /\ locker' = [locker EXCEPT ![t].at = "try"]
    /\ UNCHANGED <<lock_, contended>>

\* Slip: the lock is taken without a look at it.
LockTry_Blind(t) ==
    /\ locker[t].at = "try"
    /\ lock_' = Locked
    /\ locker' = [locker EXCEPT ![t].at = "inside"]
    /\ UNCHANGED <<locks, contended>>

\* The condition of the while loop; Lock returns when it holds.
LockTry(t) ==
    LET me == locker[t] IN
    /\ me.at = "try"
    /\ IF lock_ = me.is_unlocked
       THEN /\ lock_' = me.lock
            /\ locker' = [locker EXCEPT ![t].at = "inside"]
            /\ UNCHANGED contended
       ELSE /\ locker' = [locker EXCEPT ![t].at = "expire", ![t].is_unlocked = lock_]
            /\ contended' = TRUE
            /\ UNCHANGED lock_
    /\ UNCHANGED locks

\* The body of the loop: a lock that has expired is to be taken from its holder.
Expire(t) ==
    LET me == locker[t] IN
    /\ me.at = "expire"
    /\ \/ locker' = [locker EXCEPT ![t].at = "try"] /\ UNCHANGED lock_
       \/ /\ lock_ = me.lock
          /\ lock_' = me.is_unlocked
          /\ locker' = [locker EXCEPT ![t].at = "try"]
       \/ /\ lock_ # me.lock
          /\ locker' = [locker EXCEPT ![t].at = "try", ![t].lock = lock_]
          /\ UNCHANGED lock_
    /\ UNCHANGED <<locks, contended>>

UnLock(t) ==
    /\ locker[t].at = "inside"
    /\ lock_' = Unlocked
    /\ locker' = [locker EXCEPT ![t] = LockIdle]
    /\ UNCHANGED <<locks, contended>>

LockStep(t) == LockTry(t) \/ Expire(t) \/ UnLock(t)
LockNext == \E t \in LockThreads : LockCall(t) \/ LockStep(t)

-----------------------------------------------------------------------------
\* As long as no Lock meets a held lock, the word says whether somebody is
\* inside, and one thread is there at most.  After the first one it says neither:
\* the second compare-and-swap of a waiting Lock succeeds on a held lock.
LockInv ==
    LET inside == {t \in DOMAIN locker : locker[t].at = "inside"} IN
    /\ lock_ \in {Unlocked, Locked}
    /\ contended \/ (Cardinality(inside) = lock_)

LocksIdle == \A t \in DOMAIN locker : locker[t].at = "idle"
=============================================================================
