---------------------------- MODULE UnorderedMap ----------------------------
(***************************************************************************)
(* The shared-memory hash map behind the namespace's key_to_ns_id_ table,  *)
(* with the two-bit-per-bucket bitmap that arbitrates its buckets.         *)
(*                                                                         *)
(* A bucket's bits are a subset of {"VALID", "BEING_SET"}.  The bitmap     *)
(* packs 16 entries in a word and changes one by compare-and-swap of the   *)
(* word; a retry caused by a neighbouring entry has no other effect, so    *)
(* each successful exchange is one atomic test and update of one entry.    *)
(* The bucket itself (key, value) is plain memory, written word by word    *)
(* and read without a lock.  A key is a number and its own hash, as in the *)
(* integer map, so two keys collide when they agree modulo NumBuckets; the *)
(* value stored with a key is written as the key, to tell values apart.    *)
(***************************************************************************)
EXTENDS Integers, FiniteSets

CONSTANTS
    Threads,        \* threads of the processes that attached the map
    Keys,           \* hash values of the keys in use
    NumBuckets,
    MaxCollisions,  \* a key lives in one of MaxCollisions + 1 buckets
    OpSets,         \* sets of operations the threads may call in one run
    MaxSets         \* bound: calls of Set

ASSUME MapAssumption ==
    /\ Keys \subseteq Nat \ {0}
    /\ NumBuckets \in Nat \ {0}
    /\ MaxCollisions \in Nat
    /\ OpSets \subseteq SUBSET {"Set", "Find", "Remove"}
    /\ MaxSets \in Nat

VARIABLES
    ops,      \* the operations the threads call: fixed
    bitmap,   \* bitmap_[b]
    bucket,   \* buckets_[b]: key and value words
    th,       \* the call each thread is in: its locals, then its result
    started,  \* history: calls of Set
    added,    \* history: Sets that committed, per key
    removed   \* history: Removes that committed, per key

vars == <<ops, bitmap, bucket, th, started, added, removed>>

Buckets == 0..(NumBuckets - 1)

iters == MaxCollisions + 1

VALID == "VALID"

BEING_SET == "BEING_SET"

KeyHash(k) == k

HomeBucket(k) == KeyHash(k) % NumBuckets

NextBucket(b) == (b + 1) % NumBuckets

\* The buckets a call may probe, from the key's home bucket on.
Window(k) == {(HomeBucket(k) + i) % NumBuckets : i \in 0..MaxCollisions}

\* A thread between calls; "ret" and "sure" describe the Find it finished last.
Idle(op, k, ret, v, sure) ==
    [pc |-> "idle", op |-> op, key |-> k, val |-> v, b |-> 0, i |-> 0,
     words |-> {}, sure |-> sure, ret |-> ret]

Call(t, op, pc, k, v, sure) ==
    th' = [th EXCEPT ![t] =
            [pc |-> pc, op |-> op, key |-> k, val |-> v, b |-> HomeBucket(k),
             i |-> 0, words |-> {}, sure |-> sure, ret |-> FALSE]]

NoCall == Idle("none", 0, FALSE, 0, FALSE)

Return(t, ret) ==
    th' = [th EXCEPT ![t] =
            IF @.op = "Find" THEN Idle("Find", @.key, ret, @.val, @.sure) ELSE NoCall]

\* k is in the map, and stays there until some Remove(k) is called.
Settled(k) ==
    /\ added[k] > removed[k]
    /\ \A t \in Threads : ~(th[t].pc # "idle" /\ th[t].op = "Remove" /\ th[t].key = k)

Init ==
    /\ ops \in OpSets
    /\ bitmap = [b \in Buckets |-> {}]
    /\ bucket = [b \in Buckets |-> [key |-> 0, val |-> 0]]
    /\ th = [t \in Threads |-> NoCall]
    /\ started = 0
    /\ added = [k \in Keys |-> 0]
    /\ removed = [k \in Keys |-> 0]

-----------------------------------------------------------------------------
(* Set *)

SetCall(t, k) ==
    /\ "Set" \in ops
    /\ th[t].pc = "idle"
    /\ started < MaxSets
    /\ started' = started + 1
    /\ Call(t, "Set", "set", k, k, FALSE)
    /\ UNCHANGED <<ops, bitmap, bucket, added, removed>>

\* Slip: the test looks at VALID only.
BeginModify_ValidOnly(b) == VALID \notin bitmap[b]

BeginModify(b) == bitmap[b] \intersect {VALID, BEING_SET} = {}

\* One turn of the for loop of Set.
SetProbe(t) ==
    LET b == th[t].b IN
    /\ th[t].pc = "set"
    /\ IF BeginModify(b)
         THEN /\ bitmap' = [bitmap EXCEPT ![b] = @ \union {BEING_SET}]
              /\ th' = [th EXCEPT ![t].pc = "store", ![t].words = {"key", "val"}]
         ELSE /\ IF th[t].i + 1 < iters
                   THEN th' = [th EXCEPT ![t].b = NextBucket(b), ![t].i = @ + 1]
                   ELSE Return(t, FALSE)
              /\ UNCHANGED bitmap
    /\ UNCHANGED <<ops, bucket, started, added, removed>>

\* buckets_[b] = bucket copies the words of the bucket in either order.
StoreWord(t, w) ==
    /\ th[t].pc = "store"
    /\ w \in th[t].words
    /\ bucket' = [bucket EXCEPT ![th[t].b][w] = th[t][w]]
    /\ th' = [th EXCEPT ![t].words = @ \ {w}]
    /\ UNCHANGED <<ops, bitmap, started, added, removed>>

CommitModify(b) ==
    bitmap' = [bitmap EXCEPT ![b] = (@ \union {VALID}) \ {BEING_SET}]

\* Slip: the bucket is published before both its words are written.
SetCommit_Early(t) ==
    /\ th[t].pc = "store"
    /\ "key" \notin th[t].words
    /\ CommitModify(th[t].b)
    /\ added' = [added EXCEPT ![th[t].key] = @ + 1]
    /\ Return(t, TRUE)
    /\ UNCHANGED <<ops, bucket, started, removed>>

SetCommit(t) ==
    /\ th[t].pc = "store"
    /\ th[t].words = {}
    /\ CommitModify(th[t].b)
    /\ added' = [added EXCEPT ![th[t].key] = @ + 1]
    /\ Return(t, TRUE)
    /\ UNCHANGED <<ops, bucket, started, removed>>

-----------------------------------------------------------------------------
(* Find *)

FindCall(t, k) ==
    /\ "Find" \in ops
    /\ th[t].pc = "idle"
    /\ Call(t, "Find", "find", k, 0, Settled(k))
    /\ UNCHANGED <<ops, bitmap, bucket, started, added, removed>>

\* Slip: the turns are not counted.
FindAdvance_NoCount(t) ==
    th' = [th EXCEPT ![t].pc = "find", ![t].b = NextBucket(@)]

\* The next turn of the for loop of Find, or its "return false".
FindAdvance(t) ==
    IF th[t].i + 1 < iters
      THEN th' = [th EXCEPT ![t].pc = "find", ![t].b = NextBucket(@), ![t].i = @ + 1]
      ELSE Return(t, FALSE)

\* Slip: a bucket somebody holds is skipped.
IsValid_NotHeld(b) == bitmap[b] = {VALID}

IsValid(b) == VALID \in bitmap[b]

FindProbe(t) ==
    /\ th[t].pc = "find"
    /\ IF IsValid(th[t].b)
         THEN th' = [th EXCEPT ![t].pc = "compare"]
         ELSE FindAdvance(t)
    /\ UNCHANGED <<ops, bitmap, bucket, started, added, removed>>

KeyCompare(k1, k2) == k1 = k2

FindCompare(t) ==
    /\ th[t].pc = "compare"
    /\ IF KeyCompare(bucket[th[t].b].key, th[t].key)
         THEN th' = [th EXCEPT ![t].pc = "value"]
         ELSE FindAdvance(t)
    /\ UNCHANGED <<ops, bitmap, bucket, started, added, removed>>

FindValue(t) ==
    /\ th[t].pc = "value"
    /\ th' = [th EXCEPT ![t] =
                Idle("Find", @.key, TRUE, bucket[@.b].val, @.sure)]
    /\ UNCHANGED <<ops, bitmap, bucket, started, added, removed>>

-----------------------------------------------------------------------------
(* Remove.  Its b is never set back to the home bucket and a mismatch does *)
(* not advance it, so the for loop's own counter decides nothing; "i" is   *)
(* num_failed here.  A Find(k) in progress is no longer sure to find k     *)
(* once a Remove(k) starts.                                                *)

RemoveCall(t, k) ==
    /\ "Remove" \in ops
    /\ th[t].pc = "idle"
    /\ th' = [u \in Threads |->
                IF u = t
                  THEN [pc |-> "remove", op |-> "Remove", key |-> k, val |-> 0,
                        b |-> HomeBucket(k), i |-> 0, words |-> {},
                        sure |-> FALSE, ret |-> FALSE]
                  ELSE IF th[u].pc # "idle" /\ th[u].key = k
                    THEN [th[u] EXCEPT !.sure = FALSE]
                    ELSE th[u]]
    /\ UNCHANGED <<ops, bitmap, bucket, started, added, removed>>

\* Slip: the test looks at VALID only.
BeginRemove_ValidOnly(b) == VALID \in bitmap[b]

BeginRemove(b) == VALID \in bitmap[b] /\ BEING_SET \notin bitmap[b]

RemoveProbe(t) ==
    LET b == th[t].b IN
    /\ th[t].pc = "remove"
    /\ IF BeginRemove(b)
         THEN /\ bitmap' = [bitmap EXCEPT ![b] = @ \union {VALID, BEING_SET}]
              /\ th' = [th EXCEPT ![t].pc = "held"]
         ELSE /\ th' = [th EXCEPT ![t].b = NextBucket(b)]
              /\ UNCHANGED bitmap
    /\ UNCHANGED <<ops, bucket, started, added, removed>>

CommitRemove(t) ==
    /\ th[t].pc = "held"
    /\ KeyCompare(bucket[th[t].b].key, th[t].key)
    /\ bitmap' = [bitmap EXCEPT ![th[t].b] = @ \ {VALID, BEING_SET}]
    /\ removed' = [removed EXCEPT ![th[t].key] = @ + 1]
    /\ Return(t, TRUE)
    /\ UNCHANGED <<ops, bucket, started, added>>

IgnoreRemove(t) ==
    /\ th[t].pc = "held"
    /\ ~KeyCompare(bucket[th[t].b].key, th[t].key)
    /\ CommitModify(th[t].b)
    /\ IF th[t].i + 1 # iters
         THEN th' = [th EXCEPT ![t].pc = "remove", ![t].i = @ + 1]
         ELSE Return(t, FALSE)
    /\ UNCHANGED <<ops, bucket, started, added, removed>>

-----------------------------------------------------------------------------

Step(t) ==
    \/ SetProbe(t)
    \/ \E w \in {"key", "val"} : StoreWord(t, w)
    \/ SetCommit(t)
    \/ FindProbe(t)
    \/ FindCompare(t)
    \/ FindValue(t)
    \/ RemoveProbe(t)
    \/ CommitRemove(t)
    \/ IgnoreRemove(t)

Next ==
    \E t \in Threads :
        \/ \E k \in Keys : SetCall(t, k)
        \/ \E k \in Keys : FindCall(t, k)
        \/ \E k \in Keys : RemoveCall(t, k)
        \/ Step(t)

Spec == Init /\ [][Next]_vars

\* Every thread inside a call keeps running: none of the calls blocks.
FairSpec == Spec /\ \A t \in Threads : WF_vars(Step(t))

-----------------------------------------------------------------------------
\* Types of the bitmap, the buckets and the calls under way.
TypeOK ==
    /\ bitmap \in [Buckets -> SUBSET {VALID, BEING_SET}]
    /\ bucket \in [Buckets -> [key : Keys \union {0}, val : Keys \union {0}]]
    /\ th \in [Threads ->
            [pc : {"idle", "set", "store", "find", "compare", "value", "remove", "held"},
             op : {"none", "Set", "Find", "Remove"}, key : Keys \union {0}, val : Keys \union {0},
             b : Buckets, i : 0..MaxCollisions, words : SUBSET {"key", "val"},
             sure : BOOLEAN, ret : BOOLEAN]]
    /\ started \in 0..MaxSets
    /\ added \in [Keys -> 0..MaxSets]
    /\ removed \in [Keys -> Nat]

Holders(b) == {t \in Threads : th[t].pc \in {"store", "held"} /\ th[t].b = b}

\* Between BeginModify or BeginRemove and the matching Commit or Ignore a
\* bucket has one holder: BEING_SET says exactly that somebody is between the
\* two, and a bucket being removed, unlike one being set, stays VALID.
OneHolder ==
    \A b \in Buckets :
        /\ Cardinality(Holders(b)) <= 1
        /\ (BEING_SET \in bitmap[b]) <=> (Holders(b) # {})
        /\ \A t \in Holders(b) : (th[t].pc = "held") <=> (VALID \in bitmap[b])

\* No entry is lost and none is removed twice: the valid buckets that hold k
\* are exactly the Sets of k that committed less the Removes of k that did,
\* and each lies in the window Find(k) and Set(k) probe.
EntriesConserved ==
    \A k \in Keys :
        LET B == {b \in Buckets : VALID \in bitmap[b] /\ bucket[b].key = k}
        IN  /\ B \subseteq Window(k)
            /\ Cardinality(B) = added[k] - removed[k]

\* The types, one holder per bucket and no entry lost: what the compare-and-swaps
\* of bit2map keep at every step of Set, Find and Remove.
MapInv == TypeOK /\ OneHolder /\ EntriesConserved

\* Find(k) returns true when k was in the map at the call and no Remove(k) ran
\* meanwhile, whatever Sets and Removes of colliding keys did to its window; and
\* as long as nobody removes keys, as in the namespace, the value it returns is
\* the one k was set with.
FindAgrees ==
    \A t \in Threads : th[t].pc = "idle" /\ th[t].op = "Find" =>
        /\ th[t].sure => th[t].ret
        /\ "Remove" \notin ops /\ th[t].ret => th[t].val = th[t].key

\* Set and Find return: their probes are bounded whatever the others do.
SetFindReturn ==
    \A t \in Threads :
        (th[t].pc # "idle" /\ th[t].op \in {"Set", "Find"}) ~> (th[t].pc = "idle")
=============================================================================
