------------------------- MODULE SharedTablesProofs -------------------------
(***************************************************************************)
(* Proofs about the tables threads share, for every number of threads,     *)
(* keys, buckets and queue pairs: the spin lock and the work queue keep    *)
(* their invariants, and with PlugRingProofs and UnorderedMapProofs so     *)
(* does SharedTables.                                                      *)
(***************************************************************************)
EXTENDS SharedTables, PlugRingProofs, UnorderedMapProofs

\* How long, in seconds, each prover may search.
USE SMTT(30), ZenonT(30)

-----------------------------------------------------------------------------
(* SpinLock *)

Lockers == [at : {"idle", "try", "expire", "inside"}, is_unlocked : {0, 1}, lock : {0, 1}]

LockTypeOK == lock_ \in {0, 1} /\ locker \in [LockThreads -> Lockers] /\ contended \in BOOLEAN

\* Nobody has failed a compare-and-swap yet, so the locals are as Lock sets them,
\* and the word tells whether a thread is inside; u is that thread.
FirstComers ==
    /\ \A t \in LockThreads : locker[t].at # "expire" /\ locker[t].is_unlocked = 0 /\ locker[t].lock = 1
    /\ lock_ = 0 => \A t \in LockThreads : locker[t].at # "inside"
    /\ lock_ = 1 => \E u \in LockThreads : \A t \in LockThreads : locker[t].at = "inside" <=> t = u

LockIInv == LockTypeOK /\ (contended = FALSE => FirstComers)

\* The initial state satisfies the invariant.
LEMMA LockInitInv == ASSUME LockInit PROVE LockIInv
<1>1. LockTypeOK
  BY ZenonT(30) DEF LockInit, LockTypeOK, Lockers, LockIdle, Unlocked, Locked
<1>2. FirstComers
  BY DEF LockInit, FirstComers, LockIdle, Unlocked, Locked
<1> QED
  BY <1>1, <1>2 DEF LockIInv

\* Every step of the lock keeps it.
LEMMA LockNextInv == ASSUME LockIInv, LockNext PROVE LockIInv'
<1> PICK t \in LockThreads : LockCall(t) \/ LockTry(t) \/ Expire(t) \/ UnLock(t)
  BY DEF LockNext, LockStep
<1> USE DEF LockIInv, LockTypeOK, Lockers
<1>1. CASE LockCall(t)
  <2>1. LockTypeOK'
    BY <1>1 DEF LockCall
  <2>2. ASSUME contended' = FALSE PROVE FirstComers'
    BY <1>1, <2>2 DEF LockCall, FirstComers
  <2> QED
    BY <2>1, <2>2, ZenonT(30)
<1>2. CASE LockTry(t)
  <2>1. LockTypeOK'
    BY <1>2 DEF LockTry
  <2>2. ASSUME contended' = FALSE PROVE FirstComers'
    <3>1. /\ contended = FALSE /\ lock_ = 0 /\ lock_' = 1
          /\ locker' = [locker EXCEPT ![t].at = "inside"]
      BY <1>2, <2>2 DEF LockTry, FirstComers
    <3>2. \A u \in LockThreads : locker'[u].at = "inside" <=> u = t
      BY <3>1 DEF FirstComers
    <3> QED
      BY <3>1, <3>2 DEF FirstComers
  <2> QED
    BY <2>1, <2>2, ZenonT(30)
<1>3. CASE Expire(t)
  <2>1. LockTypeOK'
    BY <1>3 DEF Expire
  <2>2. contended' # FALSE
    BY <1>3, ZenonT(30) DEF Expire, FirstComers
  <2> QED
    BY <2>1, <2>2, ZenonT(30)
<1>4. CASE UnLock(t)
  <2>1. LockTypeOK'
    BY <1>4 DEF UnLock, LockIdle, Unlocked, Locked
  <2>2. ASSUME contended' = FALSE PROVE FirstComers'
    BY <1>4, <2>2 DEF UnLock, FirstComers, LockIdle, Unlocked, Locked
  <2> QED
    BY <2>1, <2>2, ZenonT(30)
<1> QED
  BY <1>1, <1>2, <1>3, <1>4, ZenonT(30)

\* It says what LockInv says: the threads inside are none or one.
LEMMA LockInvHolds == LockIInv => LockInv
<1> SUFFICES ASSUME LockIInv, contended = FALSE
             PROVE  Cardinality({t \in DOMAIN locker : locker[t].at = "inside"}) = lock_
  BY ZenonT(30) DEF LockInv, LockIInv, LockTypeOK, Unlocked, Locked
<1> DEFINE inside == {t \in DOMAIN locker : locker[t].at = "inside"}
<1>1. DOMAIN locker = LockThreads /\ lock_ \in {0, 1} /\ FirstComers
  BY DEF LockIInv, LockTypeOK
<1>2. CASE lock_ = 0
  <2>1. inside = {}
    BY <1>1, <1>2 DEF FirstComers
  <2> QED
    BY <1>2, <2>1, FS_EmptySet
<1>3. CASE lock_ = 1
  <2>1. PICK u \in LockThreads : \A t \in LockThreads : locker[t].at = "inside" <=> t = u
    BY <1>1, <1>3 DEF FirstComers
  <2>2. inside = {u}
    BY <1>1, <2>1
  <2> QED
    BY <1>3, <2>2, FS_Singleton
<1> QED
  BY <1>1, <1>2, <1>3

\* A step that changes nothing keeps the invariant too.
LEMMA LockStutter == ASSUME LockIInv, UNCHANGED lockvars PROVE LockIInv'
BY DEF LockIInv, lockvars, LockTypeOK, FirstComers

-----------------------------------------------------------------------------
(* WorkQueue *)

WorkCreds == {Creds(q) : q \in Assigned} \union {Junk}
WorkEntries == [qp : Assigned \union {Junk}, creds : WorkCreds]

WorkTypeOK ==
    /\ depth_ \in Nat /\ used_ \in Nat
    /\ entries \in [0 .. depth_ - 1 -> WorkEntries]
    /\ given \in Seq(Assigned)
    /\ giver \in [at : {"idle", "qp", "creds", "count"}, qp : Assigned \union {Junk}]
    /\ doer \in [at : {"depth", "peek", "owner"}, depth : Nat, i : Nat, qp : Assigned \union {Junk}]

\* The entry under construction lies behind the counted ones and holds what has
\* been stored so far; the worker is at a counted entry and has loaded its queue
\* pair.
WorkHands ==
    /\ giver.at # "idle" => used_ < depth_ /\ giver.qp \in Assigned
    /\ giver.at \in {"creds", "count"} => entries[used_].qp = giver.qp
    /\ giver.at = "count" => entries[used_].creds = Creds(giver.qp)
    /\ doer.at = "owner" => doer.i < doer.depth /\ doer.qp = entries[doer.i].qp

WorkIInv == WorkTypeOK /\ WorkHands /\ WorkInv

\* The initial state satisfies the invariant.
LEMMA WorkInitInv == ASSUME NEW D \in SUBSET Nat, WorkInit(D) PROVE WorkIInv
<1>1. WorkTypeOK
  BY EmptySeq DEF WorkInit, WorkTypeOK, WorkEntries, WorkCreds, NoGiver, NoDoer
<1>2. WorkHands
  BY DEF WorkInit, WorkHands, NoGiver, NoDoer
<1>3. given = <<>> /\ Len(given) = 0 /\ DOMAIN given = {}
  BY EmptySeq DEF WorkInit
<1>4. WorkInv
  BY <1>1, <1>3 DEF WorkInit, WorkInv, NoDoer, WorkTypeOK
<1> QED
  BY <1>1, <1>2, <1>4 DEF WorkIInv

\* The stores of an assignment.
LEMMA AssignInv == ASSUME WorkIInv, NEW q \in Assigned, AssignQP(q) PROVE WorkIInv'
<1> USE DEF WorkIInv, WorkTypeOK, AssignQP
<1>1. WorkTypeOK'
  OBVIOUS
<1>2. WorkHands'
  BY DEF WorkHands
<1>3. WorkInv'
  BY DEF WorkInv
<1> QED
  BY <1>1, <1>2, <1>3

LEMMA StoreQPInv == ASSUME WorkIInv, StoreQP PROVE WorkIInv'
<1> USE DEF WorkIInv, WorkTypeOK, StoreQP
<1>0. used_ \in 0 .. depth_ - 1 /\ giver.qp \in Assigned
  BY DEF WorkHands
<1>1. WorkTypeOK'
  BY <1>0 DEF WorkEntries
<1>2. \A i \in 0 .. depth_ - 1 : i # used_ => entries'[i] = entries[i]
  OBVIOUS
<1>3. WorkHands'
  BY <1>0, <1>2 DEF WorkHands, WorkInv, WorkEntries
<1>4. WorkInv'
  BY <1>0, <1>2 DEF WorkInv
<1> QED
  BY <1>1, <1>3, <1>4

LEMMA StoreCredsInv == ASSUME WorkIInv, StoreCreds PROVE WorkIInv'
<1> USE DEF WorkIInv, WorkTypeOK, StoreCreds
<1>0. used_ \in 0 .. depth_ - 1 /\ giver.qp \in Assigned
  BY DEF WorkHands
<1>1. WorkTypeOK'
  BY <1>0, ZenonT(30) DEF WorkEntries, WorkCreds
<1>2. \A i \in 0 .. depth_ - 1 : i # used_ => entries'[i] = entries[i]
  OBVIOUS
<1>3. WorkHands'
  BY <1>0, <1>2 DEF WorkHands, WorkInv, WorkEntries
<1>4. WorkInv'
  BY <1>0, <1>2 DEF WorkInv
<1> QED
  BY <1>1, <1>3, <1>4

LEMMA CountEntryInv == ASSUME WorkIInv, CountEntry PROVE WorkIInv'
<1> USE DEF WorkIInv, WorkTypeOK, CountEntry
<1>0. /\ used_ \in 0 .. depth_ - 1 /\ giver.qp \in Assigned
      /\ entries[used_] = [qp |-> giver.qp, creds |-> Creds(giver.qp)]
  BY DEF WorkHands, WorkEntries
<1>1. /\ given' \in Seq(Assigned) /\ Len(given') = Len(given) + 1
      /\ DOMAIN given' = 1 .. Len(given) + 1 /\ DOMAIN given = 1 .. Len(given)
      /\ \A i \in DOMAIN given : given'[i] = given[i]
      /\ given'[Len(given) + 1] = giver.qp
  BY <1>0
<1>2. WorkTypeOK'
  BY <1>1 DEF NoGiver
<1>3. WorkHands'
  BY DEF WorkHands, NoGiver
<1>4. WorkInv'
  BY <1>0, <1>1 DEF WorkInv
<1> QED
  BY <1>2, <1>3, <1>4

\* The loads of a pass.
LEMMA BeginPassInv == ASSUME WorkIInv, BeginPass PROVE WorkIInv'
<1> USE DEF WorkIInv, WorkTypeOK, BeginPass
<1>1. WorkTypeOK'
  BY ZenonT(30)
<1>2. WorkHands'
  BY DEF WorkHands
<1>3. WorkInv'
  BY DEF WorkInv
<1> QED
  BY <1>1, <1>2, <1>3

LEMMA PeekQPInv == ASSUME WorkIInv, PeekQP PROVE WorkIInv'
<1> USE DEF WorkIInv, WorkTypeOK, PeekQP
<1>1. CASE doer.i < doer.depth /\ doer.i < used_
  <2>1. doer.i \in 0 .. depth_ - 1 /\ entries[doer.i].qp \in Assigned \union {Junk}
    BY <1>1 DEF WorkInv, WorkEntries
  <2>2. doer' = [doer EXCEPT !.at = "owner", !.qp = entries[doer.i].qp]
    BY <1>1
  <2>3. WorkTypeOK'
    BY <2>1, <2>2, ZenonT(30)
  <2>4. WorkHands'
    BY <1>1, <2>2 DEF WorkHands
  <2>5. WorkInv'
    BY <2>2 DEF WorkInv
  <2> QED
    BY <2>3, <2>4, <2>5
<1>2. CASE ~(doer.i < doer.depth /\ doer.i < used_)
  <2>1. doer' = NoDoer
    BY <1>2
  <2>2. WorkTypeOK'
    BY <2>1 DEF NoDoer
  <2>3. WorkHands' /\ WorkInv'
    BY <2>1 DEF NoDoer, WorkHands, WorkInv
  <2> QED
    BY <2>2, <2>3
<1> QED
  BY <1>1, <1>2

\* What the worker is about to poll was assigned, with these credentials.
LEMMA Polled ==
    ASSUME WorkIInv, doer.at = "owner"
    PROVE  /\ entries[doer.i].creds = Creds(doer.qp)
           /\ \E k \in DOMAIN given : given[k] = doer.qp
<1> DEFINE k == doer.i + 1
<1>1. k \in DOMAIN given /\ k - 1 = doer.i
  BY DEF WorkIInv, WorkTypeOK, WorkHands, WorkInv
<1>2. entries[k - 1] = [qp |-> given[k], creds |-> Creds(given[k])]
  BY <1>1 DEF WorkIInv, WorkInv
<1>3. doer.qp = given[k] /\ entries[doer.i].creds = Creds(given[k])
  BY <1>1, <1>2 DEF WorkIInv, WorkHands
<1> QED
  BY <1>1, <1>3

LEMMA PollInv == ASSUME WorkIInv, PeekCreds \/ PassThrows PROVE WorkIInv'
<1>1. /\ UNCHANGED <<depth_, used_, entries, giver, given>>
      /\ doer.at = "owner" /\ served' = served \union {<<doer.qp, entries[doer.i].creds>>}
      /\ doer' = [doer EXCEPT !.at = "peek", !.i = @ + 1, !.qp = Junk] \/ doer' = NoDoer
  BY DEF PeekCreds, PassThrows
<1> DEFINE Doers == [at : {"depth", "peek", "owner"}, depth : Nat, i : Nat,
                     qp : Assigned \union {Junk}]
<1>2. /\ doer' \in Doers /\ doer'.at # "owner"
      /\ doer'.i <= doer'.depth /\ doer'.depth <= used_'
  <2>1. /\ doer.i < doer.depth /\ doer.depth <= used_ /\ used_ \in Nat
        /\ doer \in Doers
    BY <1>1 DEF WorkIInv, WorkTypeOK, WorkHands, WorkInv
  <2>2. CASE doer' = NoDoer
    BY <1>1, <2>1, <2>2 DEF NoDoer
  <2>3. CASE doer' = [doer EXCEPT !.at = "peek", !.i = @ + 1, !.qp = Junk]
    <3>1. doer'.at = "peek" /\ doer'.i = doer.i + 1 /\ doer'.depth = doer.depth
      BY <2>1, <2>3
    <3>2. doer' = [at |-> "peek", depth |-> doer.depth, i |-> doer.i + 1, qp |-> Junk]
      BY <2>1, <2>3, ZenonT(30)
    <3>3. doer' \in Doers
      BY <2>1, <3>2
    <3> QED
      BY <1>1, <2>1, <3>1, <3>3
  <2> QED
    BY <1>1, <2>2, <2>3
<1>3. WorkTypeOK'
  BY <1>1, <1>2 DEF WorkIInv, WorkTypeOK
<1>4. WorkHands'
  BY <1>1, <1>2 DEF WorkIInv, WorkHands
<1>5. \A s \in served' : s[2] = Creds(s[1]) /\ \E i \in DOMAIN given : given[i] = s[1]
  BY <1>1, Polled DEF WorkIInv, WorkInv
<1>6. WorkInv'
  BY <1>1, <1>2, <1>5 DEF WorkIInv, WorkInv
<1> QED
  BY <1>3, <1>4, <1>6 DEF WorkIInv

\* A step that changes nothing.
LEMMA WorkStutter == ASSUME WorkIInv, UNCHANGED workvars PROVE WorkIInv'
BY DEF WorkIInv, workvars, WorkTypeOK, WorkHands, WorkInv

\* Every step of the work queue keeps the invariant.
LEMMA WorkNextInv == ASSUME WorkIInv, WorkNext PROVE WorkIInv'
BY AssignInv, StoreQPInv, StoreCredsInv, CountEntryInv, BeginPassInv, PeekQPInv, PollInv
   DEF WorkNext, Gives, Does

-----------------------------------------------------------------------------
(* SharedTables *)

TablesIInv == MapIInv /\ PlugIInv /\ LockIInv /\ WorkIInv

\* Each table keeps its invariant while it is used, and while another one is.
LEMMA TablesNextInv == ASSUME TablesIInv, [TablesNext]_tablevars PROVE TablesIInv'
<1> USE DEF TablesIInv
<1>1. CASE UsesMap(Next)
  BY <1>1, MapNextInv, PlugStutterInv, LockStutter, WorkStutter DEF UsesMap
<1>2. CASE UsesRing(PlugNext)
  <2>1. PlugIInv'
    BY <1>2, PlugStepInv, CallStep DEF UsesRing, PlugNext
  <2> QED
    BY <1>2, <2>1, MapStutter, LockStutter, WorkStutter DEF UsesRing
<1>3. CASE UsesLock(LockNext)
  BY <1>3, LockNextInv, MapStutter, PlugStutterInv, WorkStutter DEF UsesLock
<1>4. CASE UsesWork(WorkNext)
  BY <1>4, WorkNextInv, MapStutter, PlugStutterInv, LockStutter DEF UsesWork
<1>5. CASE UNCHANGED tablevars
  BY <1>5, MapStutter, PlugStutterInv, LockStutter, WorkStutter DEF tablevars
<1> QED
  BY <1>1, <1>2, <1>3, <1>4, <1>5 DEF TablesNext, Rest

LEMMA TablesInitInv == ASSUME TablesInit PROVE TablesIInv
<1> DEFINE D == IF table = "work" THEN WorkDepths ELSE {0}
<1>1. D \in SUBSET Nat
  BY WorkAssumption
<1>2. WorkInit(D) /\ Init /\ PlugInit /\ LockInit
  BY DEF TablesInit
<1> HIDE DEF D
<1> QED
  BY <1>1, <1>2, MapInitInv, PlugInitInv, LockInitInv, WorkInitInv DEF TablesIInv

\* For every number of threads, keys, buckets, ids and queue pairs: the bit pair of
\* a bucket lets in one holder at a time and no entry of the map is lost or removed
\* twice (unordered_map.h, bit2map.h), the ring of free ids keeps its order and its
\* locks, the lock lets in one thread until somebody had to wait for it, and the
\* worker polls only queue pairs it was given, with the credentials they came with.
THEOREM TablesInvariant == TablesSpec => []TablesInv
<1>1. TablesIInv => TablesInv
  BY MapInvHolds, LockInvHolds DEF TablesIInv, TablesInv, PlugIInv, PlugInv, WorkIInv
<1>2. TablesInit => TablesIInv
  BY TablesInitInv
<1>3. TablesIInv /\ [TablesNext]_tablevars => TablesIInv'
  BY TablesNextInv
<1> QED
  BY <1>1, <1>2, <1>3, PTL DEF TablesSpec

\* Find(k) returns true when k was in the map at the call and no Remove(k) ran
\* meanwhile, and the value k was set with as long as nobody removes keys: for
\* every number of threads, buckets and collisions, and whatever they call.
THEOREM FindCorrect == TablesSpec => []FindAgrees
<1>1. TablesIInv => FindAgrees
  BY DEF TablesIInv, MapIInv
<1>2. TablesInit => TablesIInv
  BY TablesInitInv
<1>3. TablesIInv /\ [TablesNext]_tablevars => TablesIInv'
  BY TablesNextInv
<1> QED
  BY <1>1, <1>2, <1>3, PTL DEF TablesSpec

=============================================================================
