------------------------- MODULE UnorderedMapProofs -------------------------
(***************************************************************************)
(* Proofs about the shared hash map, for every number of threads, keys,    *)
(* buckets and collisions. The inductive invariant MapIInv says what each  *)
(* call knows while it probes: the bucket it is at is the one of its turn, *)
(* the words it copied are the ones the bucket holds, and a key it is      *)
(* bound to find lies in a bucket ahead of it.                             *)
(***************************************************************************)
EXTENDS UnorderedMap, CounterArithmetic, FiniteSetTheorems

\* How long, in seconds, each prover may search.
USE SMTT(30), ZenonT(30)

CallPCs == {"idle", "set", "store", "find", "compare", "value", "remove", "held"}

Calls == [pc : CallPCs, op : {"none", "Set", "Find", "Remove"}, key : Keys \union {0},
          val : Keys \union {0}, b : Buckets, i : 0..MaxCollisions,
          words : SUBSET {"key", "val"}, sure : BOOLEAN, ret : BOOLEAN]

\* The bucket a call on k probes in its turn j.
Probed(k, j) == (HomeBucket(k) + j) % NumBuckets

\* The locals of a call: its operation, the key it is about and, for Set and Find,
\* the bucket its loop counter stands for.
Formed(r) ==
    /\ r.pc = "idle" => r.op \in {"none", "Find"}
    /\ r.pc # "idle" => r.key \in Keys
    /\ r.pc \in {"set", "store"} => r.op = "Set" /\ r.val = r.key
    /\ r.pc \in {"find", "compare", "value"} => r.op = "Find"
    /\ r.pc \in {"remove", "held"} => r.op = "Remove"
    /\ r.pc \in {"set", "store", "find", "compare", "value"} => r.b = Probed(r.key, r.i)

\* A Set has copied the words it no longer has to.
Copied(r) ==
    r.pc = "store" =>
        /\ "key" \notin r.words => bucket[r.b].key = r.key
        /\ "val" \notin r.words => bucket[r.b].val = r.val

\* A valid bucket is complete: it holds the value that goes with its key.
Complete == \A b \in Buckets : VALID \in bitmap[b] => bucket[b].val = bucket[b].key

Grip(r) == r.pc \in {"store", "held"}

\* OneHolder without counting.
Held ==
    /\ \A t, u \in Threads : Grip(th[t]) /\ Grip(th[u]) /\ th[t].b = th[u].b => t = u
    /\ \A b \in Buckets : BEING_SET \in bitmap[b] <=> \E t \in Threads : Grip(th[t]) /\ th[t].b = b
    /\ \A t \in Threads : Grip(th[t]) => (th[t].pc = "held" <=> VALID \in bitmap[th[t].b])

\* The bucket b holds an entry of k.
Lives(b, k) == VALID \in bitmap[b] /\ bucket[b].key = k

Homes(k) == {b \in Buckets : Lives(b, k)}

\* Every Set under way may still commit once.
Setting == {t \in Threads : th[t].pc \in {"set", "store"}}

Budget ==
    /\ IsFiniteSet(Setting)
    /\ \A k \in Keys : added[k] + Cardinality(Setting) <= started

\* A Find that was sure when it was called still has the entry before it, and
\* nobody removes its key.
Ahead(t) ==
    th[t].pc \in {"find", "compare", "value"} /\ th[t].sure =>
        /\ \A u \in Threads : ~(th[u].pc # "idle" /\ th[u].op = "Remove" /\ th[u].key = th[t].key)
        /\ th[t].pc # "value" =>
              \E j \in th[t].i .. MaxCollisions : Lives(Probed(th[t].key, j), th[t].key)

\* Where no key is removed, what a Find has seen stays so.
Seen(t) ==
    "Remove" \notin ops =>
        /\ th[t].pc \notin {"remove", "held"}
        /\ th[t].pc = "compare" => VALID \in bitmap[th[t].b]
        /\ th[t].pc = "value" => Lives(th[t].b, th[t].key)

MapIInv ==
    /\ TypeOK /\ Complete /\ Held /\ EntriesConserved /\ Budget /\ FindAgrees
    /\ \A t \in Threads : Formed(th[t]) /\ Copied(th[t]) /\ Ahead(t) /\ Seen(t)

\* The turns of a loop probe one bucket after the other.
LEMMA ProbeTurns ==
    ASSUME NEW k \in Nat, NEW j \in Nat
    PROVE  /\ Probed(k, j) \in Buckets /\ HomeBucket(k) \in Buckets
           /\ Probed(k, 0) = HomeBucket(k)
           /\ NextBucket(Probed(k, j)) = Probed(k, j + 1)
<1> DEFINE n == NumBuckets
           h == HomeBucket(k)
           x == h + j
           r == x % n
           s == (r + 1) % n
           q == x \div n
           p == (r + 1) \div n
<1>1. n \in Nat \ {0}
  BY MapAssumption
<1>2. h \in 0 .. n - 1
  BY <1>1, ModDef DEF HomeBucket, KeyHash
<1> HIDE DEF n, h
<1>3. h % n = h
  BY <1>1, <1>2, ModSmall
<1>4. x \in Int
  BY <1>2
<1> HIDE DEF x
<1>5. r \in 0 .. n - 1 /\ q \in Int /\ x = n * q + r
  BY <1>1, <1>4, ModDef
<1> HIDE DEF r, q
<1>6. r + 1 \in Int
  BY <1>5
<1>7. s \in 0 .. n - 1 /\ p \in Int /\ r + 1 = n * p + s
  BY <1>1, <1>6, ModDef, ZenonT(30)
<1> HIDE DEF s, p
<1>8. x + 1 = n * (q + p) + s /\ q + p \in Int /\ x + 1 \in Int
  BY <1>1, <1>4, <1>5, <1>7
<1>9. (x + 1) % n = s
  BY <1>1, <1>7, <1>8, ModUnique, ZenonT(30)
<1>10. x + 1 = h + (j + 1)
  BY <1>2 DEF x
<1>11. NextBucket(Probed(k, j)) = s
  BY DEF NextBucket, Probed, s, r, x, h, n
<1>12. Probed(k, j + 1) = (h + (j + 1)) % n
  BY DEF Probed, h, n
<1>13. Probed(k, j) \in Buckets /\ HomeBucket(k) \in Buckets
  BY <1>2, <1>5 DEF Probed, Buckets, r, x, h, n
<1>14. Probed(k, 0) = HomeBucket(k)
  <2>1. h + 0 = h
    BY <1>2
  <2>2. Probed(k, 0) = (h + 0) % n
    BY DEF Probed, h, n
  <2> QED
    BY <1>3, <2>1, <2>2 DEF h
<1> QED
  BY <1>9, <1>10, <1>11, <1>12, <1>13, <1>14

\* The step of t leaves the other calls alone, but for a Remove that takes their
\* certainty away.
Like(q, r) ==
    /\ q.pc = r.pc /\ q.op = r.op /\ q.key = r.key /\ q.val = r.val /\ q.b = r.b
    /\ q.i = r.i /\ q.words = r.words /\ q.ret = r.ret
    /\ q.sure => r.sure

Beside(t) ==
    /\ th' \in [Threads -> Calls]
    /\ \A u \in Threads : u # t => Like(th'[u], th[u])

\* It writes to a bucket only while it holds it, and an entry that goes is the
\* one it removes.
Careful(t) ==
    /\ \A b \in Buckets : bucket'[b] = bucket[b] \/ (Grip(th[t]) /\ th[t].b = b)
    /\ \A b \in Buckets : VALID \in bitmap[b] =>
          \/ VALID \in bitmap'[b] /\ bucket'[b] = bucket[b]
          \/ th[t].pc = "held" /\ bucket[b].key = th[t].key

\* What FindAgrees says of a call.
Agrees(r) ==
    r.pc = "idle" /\ r.op = "Find" =>
        /\ r.sure => r.ret
        /\ "Remove" \notin ops /\ r.ret => r.val = r.key

\* The calls of the other threads after a careful step of t.
LEMMA OthersFormed ==
    ASSUME MapIInv, NEW t \in Threads, Beside(t), NEW u \in Threads, u # t
    PROVE  Formed(th'[u])
BY DEF MapIInv, Beside, Like, Formed

LEMMA OthersCopied ==
    ASSUME MapIInv, NEW t \in Threads, Beside(t), Careful(t), NEW u \in Threads, u # t
    PROVE  Copied(th[u])'
<1>1. th[u].pc = "store" => bucket'[th[u].b] = bucket[th[u].b]
  BY DEF MapIInv, TypeOK, Careful, Held, Grip
<1> QED
  BY <1>1 DEF MapIInv, Copied, Beside, Like

LEMMA OthersSeen ==
    ASSUME MapIInv, NEW t \in Threads, Beside(t), Careful(t), NEW u \in Threads, u # t,
           UNCHANGED ops
    PROVE  Seen(u)'
<1> SUFFICES ASSUME "Remove" \notin ops PROVE Seen(u)'
  BY DEF Seen
<1>1. th[t].pc # "held"
  BY DEF MapIInv, Seen
<1>2. th[u].b \in Buckets
  BY DEF MapIInv, TypeOK
<1>3. VALID \in bitmap[th[u].b] =>
         VALID \in bitmap'[th[u].b] /\ bucket'[th[u].b] = bucket[th[u].b]
  BY <1>1, <1>2 DEF Careful
<1> QED
  BY <1>3 DEF MapIInv, Seen, Beside, Like, Lives

LEMMA OthersAgree ==
    ASSUME MapIInv, NEW t \in Threads, Beside(t), NEW u \in Threads, u # t, UNCHANGED ops
    PROVE  Agrees(th[u])'
BY DEF MapIInv, FindAgrees, Agrees, Beside, Like

LEMMA OthersAhead ==
    ASSUME MapIInv, NEW t \in Threads, Beside(t), Careful(t), NEW u \in Threads, u # t,
           \/ th'[t].pc = "idle" \/ th'[t].op # "Remove"
           \/ th[t].pc # "idle" /\ th[t].op = "Remove" /\ th'[t].key = th[t].key
           \/ th'[u].pc = "idle" \/ ~th'[u].sure \/ th'[t].key # th[u].key
    PROVE  Ahead(u)'
<1> SUFFICES ASSUME th'[u].pc \in {"find", "compare", "value"}, th'[u].sure PROVE Ahead(u)'
  BY DEF Ahead
<1> PICK k \in Keys : k = th[u].key
  BY DEF MapIInv, Formed, Beside, Like
<1>1. th'[u].pc = th[u].pc /\ th'[u].key = k /\ th'[u].i = th[u].i /\ th[u].sure
  BY DEF Beside, Like
<1>2. \A v \in Threads : ~(th[v].pc # "idle" /\ th[v].op = "Remove" /\ th[v].key = k)
  BY <1>1 DEF MapIInv, Ahead
<1>3. \A v \in Threads : ~(th'[v].pc # "idle" /\ th'[v].op = "Remove" /\ th'[v].key = k)
  BY <1>1, <1>2 DEF Beside, Like
<1>4. ASSUME NEW b \in Buckets, Lives(b, k) PROVE Lives(b, k)'
  <2>1. ~(th[t].pc = "held" /\ bucket[b].key = th[t].key)
    BY <1>2, <1>4 DEF MapIInv, Formed, Lives
  <2> QED
    BY <1>4, <2>1 DEF Careful, Lives
<1>5. ASSUME th'[u].pc # "value"
      PROVE  \E j \in th[u].i .. MaxCollisions : Lives(Probed(k, j), k)'
  <2>1. PICK j \in th[u].i .. MaxCollisions : Lives(Probed(k, j), k)
    BY <1>1, <1>5 DEF MapIInv, Ahead
  <2>2. k \in Nat /\ j \in Nat
    BY MapAssumption DEF MapIInv, TypeOK
  <2>3. Probed(k, j) \in Buckets
    BY <2>2, ProbeTurns
  <2>4. Lives(Probed(k, j), k)'
    BY <1>4, <2>1, <2>3
  <2> QED
    BY <2>4
<1> QED
  BY <1>1, <1>3, <1>5 DEF Ahead, Lives, Probed, HomeBucket, KeyHash

\* What remains to show of a careful step of t: its own call and the buckets.
LEMMA MapStep ==
    ASSUME MapIInv, NEW t \in Threads, Beside(t), Careful(t), UNCHANGED ops,
           \A u \in Threads : u # t =>
              \/ th'[t].pc = "idle" \/ th'[t].op # "Remove"
              \/ th[t].pc # "idle" /\ th[t].op = "Remove" /\ th'[t].key = th[t].key
              \/ th'[u].pc = "idle" \/ ~th'[u].sure \/ th'[t].key # th[u].key,
           Formed(th'[t]), Copied(th[t])', Ahead(t)', Seen(t)', Agrees(th[t])',
           TypeOK', Complete', Held', EntriesConserved', Budget'
    PROVE  MapIInv'
<1>1. \A u \in Threads : Formed(th'[u]) /\ Copied(th[u])'
  BY OthersFormed, OthersCopied
<1>2. \A u \in Threads : Ahead(u)' /\ Seen(u)'
  BY OthersAhead, OthersSeen
<1>3. \A u \in Threads : Agrees(th[u])'
  BY OthersAgree
<1>4. FindAgrees'
  BY <1>3 DEF FindAgrees, Agrees
<1> QED
  BY <1>1, <1>2, <1>4 DEF MapIInv, Formed, Copied

\* Nobody takes or gives a bucket.
LEMMA HeldSame ==
    ASSUME MapIInv, NEW t \in Threads, Beside(t), UNCHANGED bitmap,
           \/ ~Grip(th[t]) /\ ~Grip(th'[t])
           \/ th'[t].pc = th[t].pc /\ th'[t].b = th[t].b
    PROVE  Held'
<1>1. \A u \in Threads : /\ Grip(th'[u]) <=> Grip(th[u])
                         /\ Grip(th[u]) => th'[u].pc = th[u].pc /\ th'[u].b = th[u].b
  BY DEF Beside, Like, Grip
<1> QED
  BY <1>1 DEF MapIInv, Held, Grip

\* t takes the bucket b, which nobody had.
LEMMA HeldTaken ==
    ASSUME MapIInv, NEW t \in Threads, Beside(t), ~Grip(th[t]), Grip(th'[t]),
           NEW b \in Buckets, th'[t].b = b, BEING_SET \notin bitmap[b],
           NEW X \in SUBSET {VALID, BEING_SET}, BEING_SET \in X,
           bitmap' = [bitmap EXCEPT ![b] = X],
           th'[t].pc = "held" <=> VALID \in X
    PROVE  Held'
<1>1. \A u \in Threads : u # t =>
         /\ Grip(th'[u]) <=> Grip(th[u])
         /\ th'[u].pc = th[u].pc /\ th'[u].b = th[u].b
  BY DEF Beside, Like, Grip
<1>2. \A u \in Threads : Grip(th[u]) => th[u].b # b /\ u # t
  BY DEF MapIInv, Held
<1>3. /\ bitmap'[b] = X
      /\ \A c \in Buckets : c # b => bitmap'[c] = bitmap[c]
  BY DEF MapIInv, TypeOK
<1>4. \A u \in Threads : th[u].b \in Buckets
  BY DEF MapIInv, TypeOK
<1>5. \A u, v \in Threads : Grip(th'[u]) /\ Grip(th'[v]) /\ th'[u].b = th'[v].b => u = v
  BY <1>1, <1>2 DEF MapIInv, Held
<1>6. \A c \in Buckets :
         BEING_SET \in bitmap'[c] <=> \E u \in Threads : Grip(th'[u]) /\ th'[u].b = c
  BY <1>1, <1>2, <1>3 DEF MapIInv, Held
<1>7. \A u \in Threads : Grip(th'[u]) => (th'[u].pc = "held" <=> VALID \in bitmap'[th'[u].b])
  BY <1>1, <1>2, <1>3, <1>4 DEF MapIInv, Held
<1> QED
  BY <1>5, <1>6, <1>7 DEF Held, Grip

\* t gives its bucket back.
LEMMA HeldGiven ==
    ASSUME MapIInv, NEW t \in Threads, Beside(t), Grip(th[t]), ~Grip(th'[t]),
           NEW X \in SUBSET {VALID, BEING_SET}, BEING_SET \notin X,
           bitmap' = [bitmap EXCEPT ![th[t].b] = X]
    PROVE  Held'
<1> DEFINE b == th[t].b
<1>1. \A u \in Threads : u # t =>
         /\ Grip(th'[u]) <=> Grip(th[u])
         /\ th'[u].pc = th[u].pc /\ th'[u].b = th[u].b
  BY DEF Beside, Like, Grip
<1>2. \A u \in Threads : Grip(th[u]) /\ u # t => th[u].b # b
  BY DEF MapIInv, Held
<1>3. /\ bitmap'[b] = X
      /\ \A c \in Buckets : c # b => bitmap'[c] = bitmap[c]
  BY DEF MapIInv, TypeOK
<1>4. \A u \in Threads : th[u].b \in Buckets
  BY DEF MapIInv, TypeOK
<1>5. \A u, v \in Threads : Grip(th'[u]) /\ Grip(th'[v]) /\ th'[u].b = th'[v].b => u = v
  BY <1>1, <1>2 DEF MapIInv, Held
<1>6. \A c \in Buckets :
         BEING_SET \in bitmap'[c] <=> \E u \in Threads : Grip(th'[u]) /\ th'[u].b = c
  BY <1>1, <1>2, <1>3 DEF MapIInv, Held
<1>7. \A u \in Threads : Grip(th'[u]) => (th'[u].pc = "held" <=> VALID \in bitmap'[th'[u].b])
  BY <1>1, <1>2, <1>3, <1>4 DEF MapIInv, Held
<1> QED
  BY <1>5, <1>6, <1>7 DEF Held, Grip

\* EntriesConserved says how many buckets are the homes of a key.
LEMMA ConservedIs ==
    EntriesConserved <=>
        \A k \in Keys : Homes(k) \subseteq Window(k) /\ Cardinality(Homes(k)) = added[k] - removed[k]
BY DEF EntriesConserved, Homes, Lives

LEMMA ConservedNext ==
    ASSUME \A k \in Keys : /\ Homes(k)' \subseteq Window(k)
                           /\ Cardinality(Homes(k)') = added'[k] - removed'[k]
    PROVE  EntriesConserved'
BY DEF EntriesConserved, Homes, Lives, Window, HomeBucket, KeyHash

\* No entry comes or goes.
LEMMA ConservedSame ==
    ASSUME EntriesConserved, UNCHANGED <<added, removed>>,
           \A b \in Buckets, k \in Keys : Lives(b, k)' <=> Lives(b, k)
    PROVE  EntriesConserved'
<1>1. \A k \in Keys : Homes(k)' = Homes(k)
  BY DEF Homes
<1> QED
  BY <1>1, ConservedIs, ConservedNext

\* The homes of a key are finitely many.
LEMMA HomesFinite == ASSUME NEW k PROVE IsFiniteSet(Homes(k))
<1>1. IsFiniteSet(Buckets)
  BY MapAssumption, FS_Interval DEF Buckets
<1> QED
  BY <1>1, FS_Subset DEF Homes

\* No Set begins or ends.
LEMMA BudgetSame ==
    ASSUME Budget, NEW t \in Threads, Beside(t), UNCHANGED <<added, started>>,
           th'[t].pc \in {"set", "store"} <=> th[t].pc \in {"set", "store"}
    PROVE  Budget'
<1>1. Setting' = Setting
  BY DEF Setting, Beside, Like
<1> QED
  BY <1>1 DEF Budget

\* t calls Set.
LEMMA BudgetCall ==
    ASSUME MapIInv, NEW t \in Threads, Beside(t), UNCHANGED added, started' = started + 1,
           th'[t].pc \in {"set", "store"}, th[t].pc \notin {"set", "store"}
    PROVE  Budget'
<1>1. Setting' = Setting \union {t} /\ t \notin Setting
  BY DEF Setting, Beside, Like
<1>2. IsFiniteSet(Setting) /\ Cardinality(Setting) \in Nat
  BY FS_CardinalityType DEF MapIInv, Budget
<1>3. IsFiniteSet(Setting') /\ Cardinality(Setting') = Cardinality(Setting) + 1
  BY <1>1, <1>2, FS_AddElement
<1>4. \A k \in Keys : added[k] + Cardinality(Setting) <= started
  BY DEF MapIInv, Budget
<1> DEFINE c == Cardinality(Setting)
           d == Cardinality(Setting')
<1>5. started \in Nat /\ \A k \in Keys : added[k] \in Nat
  BY DEF MapIInv, TypeOK
<1>6. \A k \in Keys : added'[k] + d <= started'
  <2> HIDE DEF c, d
  <2>1. d = c + 1 /\ c \in Nat /\ \A k \in Keys : added[k] + c <= started
    BY <1>2, <1>3, <1>4 DEF c, d
  <2> QED
    BY <1>5, <2>1
<1> QED
  BY <1>3, <1>6 DEF Budget

\* t returns from Set, having committed it or not.
LEMMA BudgetReturn ==
    ASSUME MapIInv, NEW t \in Threads, Beside(t), UNCHANGED started,
           \/ UNCHANGED added
           \/ \E k \in Keys : added' = [added EXCEPT ![k] = @ + 1],
           th[t].pc \in {"set", "store"}, th'[t].pc \notin {"set", "store"}
    PROVE  Budget' /\ added' \in [Keys -> 0..MaxSets]
<1>1. Setting' = Setting \ {t} /\ t \in Setting
  BY DEF Setting, Beside, Like
<1>2. IsFiniteSet(Setting) /\ Cardinality(Setting) \in Nat
  BY FS_CardinalityType DEF MapIInv, Budget
<1>3. IsFiniteSet(Setting') /\ Cardinality(Setting') = Cardinality(Setting) - 1
  BY <1>1, <1>2, FS_RemoveElement
<1>4. Cardinality(Setting') \in Nat
  BY <1>3, FS_CardinalityType
<1> DEFINE c == Cardinality(Setting)
           d == Cardinality(Setting')
<1>5. started \in 0..MaxSets /\ added \in [Keys -> Nat]
  BY MapAssumption DEF MapIInv, TypeOK
<1>6. c \in Nat /\ d \in Nat /\ d = c - 1 /\ \A k \in Keys : added[k] + c <= started
  BY <1>2, <1>3, <1>4 DEF MapIInv, Budget
<1> HIDE DEF c, d
<1>7. added' \in [Keys -> Nat] /\ \A k \in Keys : added'[k] <= added[k] + 1
  BY <1>5
<1>8. \A k \in Keys : added'[k] + d <= started'
  BY <1>5, <1>6, <1>7
<1>9. added' \in [Keys -> 0..MaxSets]
  <2>1. ASSUME NEW k \in Keys PROVE added'[k] \in 0..MaxSets
    <3>1. added'[k] \in Nat /\ added'[k] + d <= started'
      BY <1>7, <1>8
    <3>2. started' \in Nat /\ started' <= MaxSets /\ MaxSets \in Nat
      BY <1>5, MapAssumption
    <3> QED
      BY <1>6, <3>1, <3>2
  <2> QED
    BY <1>7, <2>1
<1> QED
  BY <1>3, <1>8, <1>9 DEF Budget, d

\* The records a call goes through.
LEMMA IdleCalls ==
    ASSUME NEW op \in {"none", "Find"}, NEW k \in Keys \union {0}, NEW ret \in BOOLEAN,
           NEW v \in Keys \union {0}, NEW sure \in BOOLEAN
    PROVE  /\ Idle(op, k, ret, v, sure) \in Calls
           /\ Idle(op, k, ret, v, sure).pc = "idle"
           /\ Idle(op, k, ret, v, sure).op = op
<1>1. 0 \in Buckets /\ 0 \in 0..MaxCollisions
  BY MapAssumption DEF Buckets
<1> QED
  BY <1>1 DEF Idle, Calls, CallPCs

LEMMA Becomes ==
    ASSUME TypeOK, NEW t \in Threads, NEW r \in Calls, th' = [th EXCEPT ![t] = r]
    PROVE  Beside(t) /\ th'[t] = r
BY DEF TypeOK, Beside, Like, Calls, CallPCs

LEMMA Returned ==
    ASSUME TypeOK, NEW t \in Threads, NEW ret \in BOOLEAN, Return(t, ret)
    PROVE  /\ Beside(t) /\ th'[t].pc = "idle"
           /\ th[t].op # "Find" => th'[t] = NoCall
           /\ th[t].op = "Find" => th'[t] = Idle("Find", th[t].key, ret, th[t].val, th[t].sure)
<1> DEFINE q == Idle("Find", th[t].key, ret, th[t].val, th[t].sure)
           r == IF th[t].op = "Find" THEN q ELSE NoCall
<1>1. th[t].key \in Keys \union {0} /\ th[t].val \in Keys \union {0} /\ th[t].sure \in BOOLEAN
  BY DEF TypeOK
<1>2. q \in Calls /\ q.pc = "idle"
  <2>1. \A x, v \in Keys \union {0}, s \in BOOLEAN :
           Idle("Find", x, ret, v, s) \in Calls /\ Idle("Find", x, ret, v, s).pc = "idle"
    BY IdleCalls
  <2> QED
    BY <1>1, <2>1, ZenonT(30)
<1>3. NoCall \in Calls /\ NoCall.pc = "idle"
  BY IdleCalls, ZenonT(30) DEF NoCall
<1>4. r \in Calls /\ r.pc = "idle"
  BY <1>2, <1>3
<1>5. th' = [th EXCEPT ![t] = r]
  BY DEF Return, TypeOK
<1> HIDE DEF q
<1>6. Beside(t) /\ th'[t] = r
  BY <1>4, <1>5, Becomes, ZenonT(30)
<1> QED
  BY <1>4, <1>6 DEF q

\* A step that changes no bucket.
LEMMA ProbeStep ==
    ASSUME MapIInv, NEW t \in Threads, Beside(t),
           UNCHANGED <<ops, bitmap, bucket, added, removed>>, started' \in 0..MaxSets, Budget',
           \A u \in Threads : u # t =>
              \/ th'[t].pc = "idle" \/ th'[t].op # "Remove"
              \/ th[t].pc # "idle" /\ th[t].op = "Remove" /\ th'[t].key = th[t].key
              \/ th'[u].pc = "idle" \/ ~th'[u].sure \/ th'[t].key # th[u].key,
           ~Grip(th[t]), ~Grip(th'[t]),
           Formed(th'[t]), Ahead(t)', Seen(t)', Agrees(th[t])'
    PROVE  MapIInv'
<1>1. Careful(t)
  BY DEF Careful
<1>2. TypeOK'
  BY DEF MapIInv, TypeOK, Beside, Calls, CallPCs
<1>3. Complete'
  BY DEF MapIInv, Complete
<1>4. Held'
  BY HeldSame
<1>5. EntriesConserved'
  BY ConservedSame DEF MapIInv, Lives
<1>6. Copied(th[t])'
  BY DEF Copied, Grip
<1> QED
  BY <1>1, <1>2, <1>3, <1>4, <1>5, <1>6, MapStep

\* Set is called.
LEMMA SetCallInv == ASSUME MapIInv, NEW t \in Threads, NEW k \in Keys, SetCall(t, k) PROVE MapIInv'
<1> DEFINE r == [pc |-> "set", op |-> "Set", key |-> k, val |-> k, b |-> HomeBucket(k),
                 i |-> 0, words |-> {}, sure |-> FALSE, ret |-> FALSE]
<1>1. k \in Nat /\ HomeBucket(k) \in Buckets /\ HomeBucket(k) = Probed(k, 0) /\ 0 \in 0..MaxCollisions
  BY MapAssumption, ProbeTurns
<1>2. r \in Calls
  BY <1>1 DEF Calls, CallPCs
<1>3. th' = [th EXCEPT ![t] = r]
  BY DEF SetCall, Call
<1>4. Beside(t) /\ th'[t] = r
  BY <1>2, <1>3, Becomes, ZenonT(30) DEF MapIInv
<1>5. started' \in 0..MaxSets /\ started' = started + 1
  BY MapAssumption DEF SetCall, MapIInv, TypeOK
<1>6. Budget'
  BY <1>4, <1>5, BudgetCall DEF SetCall
<1>7. Formed(r) /\ ~Grip(r) /\ ~Grip(th[t])
  BY <1>1 DEF Formed, Grip, SetCall
<1>8. Ahead(t)' /\ Seen(t)' /\ Agrees(th[t])'
  BY <1>4 DEF Ahead, Seen, Agrees
<1> QED
  BY <1>4, <1>5, <1>6, <1>7, <1>8, ProbeStep DEF SetCall

\* The call of t goes to another place of the code: with other words to copy,
Copies(t, p, w) == th' = [th EXCEPT ![t].pc = p, ![t].words = w]

LEMMA MovedStore ==
    ASSUME TypeOK, NEW t \in Threads, NEW p \in CallPCs, NEW w \in SUBSET {"key", "val"},
           Copies(t, p, w)
    PROVE  /\ Beside(t) /\ th'[t].pc = p /\ th'[t].words = w
           /\ th'[t].b = th[t].b /\ th'[t].i = th[t].i
           /\ th'[t].op = th[t].op /\ th'[t].key = th[t].key /\ th'[t].val = th[t].val
<1> DEFINE r == [th[t] EXCEPT !.pc = p, !.words = w]
<1>1. th[t] \in Calls
  BY DEF TypeOK, Calls, CallPCs
<1>2. r \in Calls
  BY <1>1, ZenonT(30) DEF Calls, CallPCs
<1>3. /\ r.pc = p /\ r.words = w /\ r.b = th[t].b /\ r.i = th[t].i
      /\ r.op = th[t].op /\ r.key = th[t].key /\ r.val = th[t].val
  BY <1>1 DEF Calls
<1>4. th' = [th EXCEPT ![t] = r]
  BY ZenonT(30) DEF Copies, TypeOK
<1> HIDE DEF r
<1> QED
  BY <1>2, <1>3, <1>4, Becomes, ZenonT(30)

\* to another turn,
Turn(r, p, c, j) == [r EXCEPT !.pc = p, !.b = c, !.i = j]
Turns(t, p, c, j) == th' = [th EXCEPT ![t] = Turn(th[t], p, c, j)]

LEMMA MovedNext ==
    ASSUME TypeOK, NEW t \in Threads, NEW p \in CallPCs, NEW c \in Buckets,
           NEW j \in 0..MaxCollisions,
           Turns(t, p, c, j)
    PROVE  /\ Beside(t) /\ th'[t].pc = p /\ th'[t].b = c /\ th'[t].i = j
           /\ th'[t].op = th[t].op /\ th'[t].key = th[t].key /\ th'[t].val = th[t].val
           /\ th'[t].sure => th[t].sure
<1> DEFINE r == Turn(th[t], p, c, j)
<1>1. th[t] \in Calls
  BY DEF TypeOK, Calls, CallPCs
<1>2. r \in Calls
  BY <1>1, ZenonT(30) DEF Turn, Calls, CallPCs
<1>3. /\ r.pc = p /\ r.b = c /\ r.i = j
      /\ r.op = th[t].op /\ r.key = th[t].key /\ r.val = th[t].val /\ (r.sure => th[t].sure)
  BY <1>1 DEF Turn, Calls
<1>4. th' = [th EXCEPT ![t] = r]
  BY DEF Turns
<1> HIDE DEF r
<1> QED
  BY <1>2, <1>3, <1>4, Becomes, ZenonT(30)

\* or just there.
Goes(t, p) == th' = [th EXCEPT ![t].pc = p]

LEMMA MovedTo ==
    ASSUME TypeOK, NEW t \in Threads, NEW p \in CallPCs, Goes(t, p)
    PROVE  /\ Beside(t) /\ th'[t].pc = p /\ th'[t].b = th[t].b /\ th'[t].i = th[t].i
           /\ th'[t].op = th[t].op /\ th'[t].key = th[t].key /\ th'[t].val = th[t].val
           /\ th'[t].sure => th[t].sure
<1> DEFINE r == [th[t] EXCEPT !.pc = p]
<1>1. th[t] \in Calls
  BY DEF TypeOK, Calls, CallPCs
<1>2. r \in Calls
  BY <1>1 DEF Calls, CallPCs
<1>3. /\ r.pc = p /\ r.b = th[t].b /\ r.i = th[t].i
      /\ r.op = th[t].op /\ r.key = th[t].key /\ r.val = th[t].val /\ (r.sure => th[t].sure)
  BY <1>1 DEF Calls
<1>4. th' = [th EXCEPT ![t] = r]
  BY DEF Goes, TypeOK
<1> HIDE DEF r
<1> QED
  BY <1>2, <1>3, <1>4, Becomes, ZenonT(30)

\* One turn of Set.
LEMMA SetProbeInv == ASSUME MapIInv, NEW t \in Threads, SetProbe(t) PROVE MapIInv'
<1> DEFINE b == th[t].b
<1>1. /\ th[t].pc = "set" /\ b \in Buckets /\ th[t].key \in Keys /\ th[t].op = "Set"
      /\ th[t].i \in 0..MaxCollisions /\ th[t].words \in SUBSET {"key", "val"}
      /\ b = Probed(th[t].key, th[t].i) /\ th[t].val = th[t].key
      /\ th \in [Threads -> Calls]
  BY DEF SetProbe, MapIInv, TypeOK, Formed, Calls, CallPCs
<1>2. UNCHANGED <<ops, bucket, started, added, removed>> /\ started' \in 0..MaxSets
  BY DEF SetProbe, MapIInv, TypeOK
<1>3. ~Grip(th[t])
  BY <1>1 DEF Grip
<1>4. CASE BeginModify(b)
  <2>1. /\ bitmap' = [bitmap EXCEPT ![b] = @ \union {BEING_SET}]
        /\ Copies(t, "store", {"key", "val"})
    BY <1>4 DEF SetProbe, Copies
  <2>3. /\ Beside(t)
        /\ th'[t].pc = "store" /\ th'[t].b = b /\ th'[t].i = th[t].i
        /\ th'[t].words = {"key", "val"}
        /\ th'[t].op = "Set" /\ th'[t].key = th[t].key /\ th'[t].val = th[t].val
    BY <1>1, <2>1, MovedStore DEF MapIInv, CallPCs
  <2>4. bitmap[b] = {}
    BY <1>1, <1>4 DEF BeginModify, MapIInv, TypeOK
  <2>5. bitmap' = [bitmap EXCEPT ![b] = {BEING_SET}]
    BY <1>1, <2>1, <2>4 DEF MapIInv, TypeOK
  <2>6. \A c \in Buckets : VALID \in bitmap'[c] <=> VALID \in bitmap[c]
    BY <1>1, <2>4, <2>5 DEF MapIInv, TypeOK, VALID, BEING_SET
  <2>7. TypeOK'
    BY <1>1, <1>2, <2>3, <2>5 DEF MapIInv, TypeOK, Beside, Calls, CallPCs
  <2>8. Careful(t)
    BY <1>2, <2>6 DEF Careful
  <2>9. Held'
    BY <1>1, <1>3, <2>3, <2>4, <2>5, HeldTaken, ZenonT(30) DEF Grip, VALID, BEING_SET
  <2>10. Complete'
    BY <1>2, <2>6 DEF MapIInv, Complete
  <2>11. EntriesConserved'
    BY <1>2, <2>6, ConservedSame DEF MapIInv, Lives
  <2>12. Budget'
    BY <1>1, <1>2, <2>3, BudgetSame DEF MapIInv
  <2>13. Formed(th'[t])
    BY <1>1, <2>3 DEF Formed
  <2>14. Copied(th[t])' /\ Ahead(t)' /\ Agrees(th[t])'
    BY <2>3 DEF Copied, Ahead, Agrees
  <2>15. Seen(t)'
    BY <2>3 DEF Seen
  <2> QED
    BY <1>2, <2>3, <2>7, <2>8, <2>9, <2>10, <2>11, <2>12, <2>13, <2>14, <2>15, MapStep
<1>5. CASE ~BeginModify(b) /\ th[t].i + 1 < iters
  <2>1. UNCHANGED bitmap /\ th' = [th EXCEPT ![t].b = NextBucket(b), ![t].i = @ + 1]
    BY <1>5 DEF SetProbe
  <2>2. /\ NextBucket(b) = Probed(th[t].key, th[t].i + 1) /\ NextBucket(b) \in Buckets
        /\ th[t].i + 1 \in 0..MaxCollisions
    <3> DEFINE i == th[t].i
    <3>1. th[t].key \in Nat /\ i \in 0..MaxCollisions /\ MaxCollisions \in Nat
      BY <1>1, MapAssumption, ZenonT(30)
    <3>2. i + 1 < iters
      BY <1>5
    <3> HIDE DEF i
    <3>3. i \in Nat /\ i + 1 \in 0..MaxCollisions
      BY <3>1, <3>2 DEF iters
    <3>4. b = Probed(th[t].key, i)
      BY <1>1 DEF i
    <3>5. i + 1 \in Nat
      BY <3>3
    <3>6. NextBucket(b) = Probed(th[t].key, i + 1) /\ Probed(th[t].key, i + 1) \in Buckets
      BY <3>1, <3>3, <3>4, <3>5, ProbeTurns, ZenonT(30)
    <3> QED
      BY <3>3, <3>6, ZenonT(30) DEF i
  <2>3. Turns(t, "set", NextBucket(b), th[t].i + 1)
    <3>1. th' = [th EXCEPT ![t].pc = "set", ![t].b = NextBucket(b), ![t].i = th[t].i + 1]
      BY <1>1, <2>1, ZenonT(30)
    <3> QED
      BY <1>1, <3>1, ZenonT(30) DEF Turn, Turns
  <2>4. /\ Beside(t)
        /\ th'[t].pc = "set" /\ th'[t].b = NextBucket(b) /\ th'[t].i = th[t].i + 1
        /\ th'[t].op = "Set" /\ th'[t].key = th[t].key /\ th'[t].val = th[t].val
    <3>1. TypeOK /\ "set" \in CallPCs
      BY DEF MapIInv, CallPCs
    <3> QED
      BY <1>1, <2>2, <2>3, <3>1, MovedNext
  <2>5. Budget'
    BY <1>1, <1>2, <2>4, BudgetSame, ZenonT(30) DEF MapIInv
  <2>6. Formed(th'[t]) /\ ~Grip(th'[t])
    BY <1>1, <2>2, <2>4 DEF Formed, Grip
  <2>7. Ahead(t)' /\ Seen(t)' /\ Agrees(th[t])'
    BY <2>4 DEF Ahead, Seen, Agrees
  <2> QED
    BY <1>2, <1>3, <2>1, <2>4, <2>5, <2>6, <2>7, ProbeStep, ZenonT(30)
<1>6. CASE ~BeginModify(b) /\ ~(th[t].i + 1 < iters)
  <2>1. UNCHANGED bitmap /\ Return(t, FALSE)
    BY <1>6, ZenonT(30) DEF SetProbe
  <2>2. Beside(t) /\ th'[t].pc = "idle" /\ th'[t] = NoCall
    BY <1>1, <2>1, Returned, ZenonT(30) DEF MapIInv
  <2>3. Budget'
    BY <1>1, <1>2, <2>2, BudgetReturn
  <2>4. NoCall.op = "none"
    BY DEF NoCall, Idle
  <2>5. Formed(th'[t]) /\ ~Grip(th'[t])
    BY <2>2, <2>4 DEF Formed, Grip
  <2>6. Ahead(t)' /\ Seen(t)' /\ Agrees(th[t])'
    BY <2>2, <2>4 DEF Ahead, Seen, Agrees
  <2> QED
    BY <1>2, <1>3, <2>1, <2>2, <2>3, <2>5, <2>6, ProbeStep
<1> QED
  BY <1>4, <1>5, <1>6

\* A Set copies a word of its bucket, which is not valid.
LEMMA StoreWordInv ==
    ASSUME MapIInv, NEW t \in Threads, NEW w \in {"key", "val"}, StoreWord(t, w)
    PROVE  MapIInv'
<1> DEFINE b == th[t].b
<1>1. /\ th[t].pc = "store" /\ b \in Buckets /\ th[t].key \in Keys /\ th[t].op = "Set"
      /\ th[t].words \in SUBSET {"key", "val"}
      /\ th[t].i \in 0..MaxCollisions
      /\ b = Probed(th[t].key, th[t].i) /\ th[t].val = th[t].key
      /\ th \in [Threads -> Calls]
  BY DEF StoreWord, MapIInv, TypeOK, Formed, Calls, CallPCs
<1>2. UNCHANGED <<ops, bitmap, started, added, removed>>
  BY DEF StoreWord
<1>3. Grip(th[t]) /\ VALID \notin bitmap[b]
  BY <1>1 DEF Grip, MapIInv, Held
<1>4. Copies(t, "store", th[t].words \ {w})
  BY <1>1, ZenonT(30) DEF StoreWord, Copies
<1>5. /\ Beside(t)
      /\ th'[t].pc = "store" /\ th'[t].b = b /\ th'[t].i = th[t].i
      /\ th'[t].words = th[t].words \ {w}
      /\ th'[t].op = "Set" /\ th'[t].key = th[t].key /\ th'[t].val = th[t].val
  BY <1>1, <1>4, MovedStore DEF MapIInv, CallPCs
<1>6. /\ bucket' \in [Buckets -> [key : Keys \union {0}, val : Keys \union {0}]]
      /\ \A c \in Buckets : c # b => bucket'[c] = bucket[c]
      /\ w = "key" => bucket'[b].key = th[t].key /\ bucket'[b].val = bucket[b].val
      /\ w = "val" => bucket'[b].val = th[t].val /\ bucket'[b].key = bucket[b].key
  <2>1. bucket \in [Buckets -> [key : Keys \union {0}, val : Keys \union {0}]]
    BY DEF MapIInv, TypeOK
  <2>2. CASE w = "key"
    <3>1. bucket' = [bucket EXCEPT ![b].key = th[t].key]
      BY <2>2, ZenonT(30) DEF StoreWord
    <3> QED
      BY <1>1, <2>1, <2>2, <3>1
  <2>3. CASE w = "val"
    <3>1. bucket' = [bucket EXCEPT ![b].val = th[t].val]
      BY <2>3, ZenonT(30) DEF StoreWord
    <3> QED
      BY <1>1, <2>1, <2>3, <3>1
  <2> QED
    BY <2>2, <2>3
<1>7. \A c \in Buckets : VALID \in bitmap[c] => bucket'[c] = bucket[c]
  BY <1>3, <1>6
<1>8. Careful(t)
  BY <1>2, <1>3, <1>6, <1>7 DEF Careful
<1>9. TypeOK'
  BY <1>2, <1>5, <1>6 DEF MapIInv, TypeOK, Beside, Calls, CallPCs
<1>10. Complete'
  BY <1>2, <1>7 DEF MapIInv, Complete
<1>11. Held'
  BY <1>1, <1>2, <1>5, HeldSame
<1>12. EntriesConserved'
  BY <1>2, <1>7, ConservedSame DEF MapIInv, Lives
<1>13. Budget'
  BY <1>1, <1>2, <1>5, BudgetSame DEF MapIInv
<1>14. Formed(th'[t])
  BY <1>1, <1>5 DEF Formed
<1>15. Copied(th[t])'
  BY <1>1, <1>5, <1>6 DEF MapIInv, Copied
<1>16. Ahead(t)' /\ Agrees(th[t])' /\ Seen(t)'
  BY <1>5 DEF Ahead, Agrees, Seen
<1> QED
  BY <1>2, <1>5, <1>8, <1>9, <1>10, <1>11, <1>12, <1>13, <1>14, <1>15, <1>16, MapStep

\* A Set commits: its bucket becomes a home of its key.
LEMMA SetCommitInv == ASSUME MapIInv, NEW t \in Threads, SetCommit(t) PROVE MapIInv'
<1> PICK b \in Buckets, k \in Keys : b = th[t].b /\ k = th[t].key
  BY DEF SetCommit, MapIInv, TypeOK, Formed
<1>1. /\ th[t].pc = "store" /\ th[t].op = "Set" /\ th[t].i \in 0..MaxCollisions
      /\ b = Probed(k, th[t].i)
      /\ bucket[b].key = k /\ bucket[b].val = k
  BY DEF SetCommit, MapIInv, TypeOK, Formed, Copied
<1>2. UNCHANGED <<ops, bucket, started, removed>> /\ added' = [added EXCEPT ![k] = @ + 1]
  BY DEF SetCommit
<1>3. Grip(th[t]) /\ VALID \notin bitmap[b]
  BY <1>1, ZenonT(30) DEF Grip, MapIInv, Held
<1>4. Beside(t) /\ th'[t].pc = "idle" /\ th'[t] = NoCall /\ NoCall.op = "none"
  BY <1>1, Returned, ZenonT(30) DEF MapIInv, SetCommit, NoCall, Idle
<1>5. bitmap' = [bitmap EXCEPT ![b] = {VALID}]
  BY <1>3, ZenonT(30) DEF SetCommit, CommitModify, MapIInv, TypeOK, VALID, BEING_SET
<1>6. \A c \in Buckets : VALID \in bitmap'[c] <=> (c = b \/ VALID \in bitmap[c])
  BY <1>5 DEF MapIInv, TypeOK
<1>7. Careful(t)
  BY <1>2, <1>6 DEF Careful
<1>8. Budget' /\ added' \in [Keys -> 0..MaxSets]
  BY <1>1, <1>2, <1>4, BudgetReturn, ZenonT(30)
<1>9. TypeOK'
  BY <1>2, <1>4, <1>5, <1>8 DEF MapIInv, TypeOK, Beside, Calls, CallPCs
<1>10. Complete'
  BY <1>1, <1>2, <1>6 DEF MapIInv, Complete
<1>11. Held'
  <2>1. ~Grip(th'[t])
    BY <1>4 DEF Grip
  <2> QED
    BY <1>3, <1>4, <1>5, <2>1, HeldGiven, ZenonT(30) DEF VALID, BEING_SET
<1>12. EntriesConserved'
  <2>1. \A m \in Keys : m # k => Homes(m)' = Homes(m)
    BY <1>1, <1>2, <1>6 DEF Homes, Lives
  <2>2. Homes(k)' = Homes(k) \union {b} /\ b \notin Homes(k)
    BY <1>1, <1>2, <1>3, <1>6 DEF Homes, Lives
  <2>3. Cardinality(Homes(k)') = Cardinality(Homes(k)) + 1
    BY <2>2, HomesFinite, FS_AddElement, ZenonT(30)
  <2>4. b \in Window(k)
    BY <1>1 DEF Window, Probed
  <2>5. \A m \in Keys : /\ Homes(m) \subseteq Window(m)
                        /\ Cardinality(Homes(m)) = added[m] - removed[m]
    BY ConservedIs DEF MapIInv
  <2>6. /\ added \in [Keys -> Nat] /\ removed \in [Keys -> Nat]
        /\ removed' = removed /\ added'[k] = added[k] + 1
        /\ \A m \in Keys : m # k => added'[m] = added[m]
    BY <1>2 DEF MapIInv, TypeOK
  <2>7. Homes(k)' \subseteq Window(k) /\ Cardinality(Homes(k)') = added'[k] - removed'[k]
    BY <2>2, <2>3, <2>4, <2>5, <2>6
  <2>8. \A m \in Keys : /\ Homes(m)' \subseteq Window(m)
                        /\ Cardinality(Homes(m)') = added'[m] - removed'[m]
    BY <2>1, <2>5, <2>6, <2>7
  <2> QED
    BY <2>8, ConservedNext
<1>13. Formed(th'[t])
  BY <1>4 DEF Formed
<1>14. Copied(th[t])' /\ Ahead(t)' /\ Agrees(th[t])' /\ Seen(t)'
  BY <1>4 DEF Copied, Ahead, Agrees, Seen
<1> QED
  BY <1>2, <1>4, <1>7, <1>8, <1>9, <1>10, <1>11, <1>12, <1>13, <1>14, MapStep

\* A key that is in the map is before a Find that starts.
LEMMA SettledAhead ==
    ASSUME MapIInv, NEW k \in Keys, Settled(k)
    PROVE  \E j \in 0..MaxCollisions : Lives(Probed(k, j), k)
<1>1. Homes(k) \subseteq Window(k) /\ Cardinality(Homes(k)) = added[k] - removed[k]
  BY ConservedIs DEF MapIInv
<1>2. added[k] \in Nat /\ removed[k] \in Nat /\ added[k] > removed[k]
  BY DEF Settled, MapIInv, TypeOK
<1>3. Homes(k) # {}
  BY <1>1, <1>2, FS_EmptySet
<1>4. PICK b \in Homes(k) : TRUE
  BY <1>3
<1>5. PICK j \in 0..MaxCollisions : b = (HomeBucket(k) + j) % NumBuckets
  BY <1>1, <1>4 DEF Window
<1> QED
  BY <1>4, <1>5 DEF Homes, Probed

LEMMA FindCallInv ==
    ASSUME MapIInv, NEW t \in Threads, NEW k \in Keys, FindCall(t, k)
    PROVE  MapIInv'
<1> DEFINE s == Settled(k)
           r == [pc |-> "find", op |-> "Find", key |-> k, val |-> 0, b |-> HomeBucket(k),
                 i |-> 0, words |-> {}, sure |-> s, ret |-> FALSE]
<1>1. k \in Nat /\ HomeBucket(k) \in Buckets /\ HomeBucket(k) = Probed(k, 0) /\ 0 \in 0..MaxCollisions
  BY MapAssumption, ProbeTurns
<1>2. s \in BOOLEAN
  BY DEF Settled
<1>3. th' = [th EXCEPT ![t] = r] /\ UNCHANGED <<ops, bitmap, bucket, started, added, removed>>
  BY ZenonT(30) DEF FindCall, Call
<1>4. started' \in 0..MaxSets /\ th[t].pc = "idle"
  BY <1>3 DEF FindCall, MapIInv, TypeOK
<1>5. s => /\ \A u \in Threads : ~(th[u].pc # "idle" /\ th[u].op = "Remove" /\ th[u].key = k)
           /\ \E j \in 0..MaxCollisions : Lives(Probed(k, j), k)
  BY SettledAhead DEF Settled
<1> HIDE DEF s
<1>6. r \in Calls
  BY <1>1, <1>2 DEF Calls, CallPCs
<1>7. /\ r.pc = "find" /\ r.op = "Find" /\ r.key = k /\ r.b = HomeBucket(k) /\ r.i = 0
      /\ r.sure => s
  OBVIOUS
<1> HIDE DEF r
<1>8. Beside(t) /\ th'[t] = r
  BY <1>3, <1>6, Becomes, ZenonT(30) DEF MapIInv
<1>9. Budget'
  BY <1>3, <1>4, <1>7, <1>8, BudgetSame DEF MapIInv
<1>10. Formed(r) /\ ~Grip(r) /\ ~Grip(th[t])
  BY <1>1, <1>4, <1>7 DEF Formed, Grip
<1>11. Ahead(t)'
  <2>1. th'[t].key = k /\ th'[t].i = 0 /\ th'[t].op = "Find" /\ (th'[t].sure => s)
    BY <1>7, <1>8
  <2>2. s => \A u \in Threads : ~(th'[u].pc # "idle" /\ th'[u].op = "Remove" /\ th'[u].key = k)
    BY <1>5, <1>8, <2>1 DEF Beside, Like
  <2>3. s => \E j \in 0..MaxCollisions : Lives(Probed(k, j), k)'
    BY <1>3, <1>5 DEF Lives
  <2> QED
    BY <2>1, <2>2, <2>3 DEF Ahead, Lives, Probed, HomeBucket, KeyHash
<1>12. Seen(t)' /\ Agrees(th[t])'
  BY <1>7, <1>8 DEF Seen, Agrees
<1> QED
  BY <1>3, <1>4, <1>7, <1>8, <1>9, <1>10, <1>11, <1>12, ProbeStep

\* A Find goes on to the next bucket, the one it is at having no entry of its key.
LEMMA AdvanceInv ==
    ASSUME MapIInv, NEW t \in Threads, th[t].pc \in {"find", "compare"},
           ~Lives(th[t].b, th[t].key), FindAdvance(t),
           UNCHANGED <<ops, bitmap, bucket, started, added, removed>>
    PROVE  MapIInv'
<1> PICK k \in Keys : k = th[t].key
  BY DEF MapIInv, Formed
<1> PICK i \in 0..MaxCollisions : i = th[t].i
  BY DEF MapIInv, TypeOK
<1>1. /\ th[t].b \in Buckets /\ th[t].op = "Find" /\ th[t].b = Probed(k, i)
      /\ th \in [Threads -> Calls] /\ th[t].val \in Keys \union {0} /\ th[t].sure \in BOOLEAN
  BY DEF MapIInv, TypeOK, Formed, Calls, CallPCs
<1>2. ~Grip(th[t]) /\ started' \in 0..MaxSets
  BY DEF Grip, MapIInv, TypeOK
<1>3. th[t].sure => /\ \A u \in Threads : ~(th[u].pc # "idle" /\ th[u].op = "Remove" /\ th[u].key = k)
                    /\ \E j \in i + 1 .. MaxCollisions : Lives(Probed(k, j), k)
  <2> SUFFICES ASSUME th[t].sure
               PROVE  /\ \A u \in Threads : ~(th[u].pc # "idle" /\ th[u].op = "Remove" /\ th[u].key = k)
                      /\ \E j \in i + 1 .. MaxCollisions : Lives(Probed(k, j), k)
    OBVIOUS
  <2>1. PICK j \in i .. MaxCollisions : Lives(Probed(k, j), k)
    BY DEF MapIInv, Ahead
  <2>2. j # i
    BY <1>1, <2>1
  <2>3. j \in i + 1 .. MaxCollisions
    BY <2>2, MapAssumption
  <2>4. \A u \in Threads : ~(th[u].pc # "idle" /\ th[u].op = "Remove" /\ th[u].key = k)
    BY DEF MapIInv, Ahead
  <2> QED
    BY <2>1, <2>3, <2>4
<1>4. CASE i + 1 < iters
  <2>1. Turns(t, "find", NextBucket(th[t].b), th[t].i + 1)
    BY <1>1, <1>4, ZenonT(30) DEF FindAdvance, Turns, Turn
  <2>2. /\ NextBucket(th[t].b) = Probed(k, i + 1) /\ NextBucket(th[t].b) \in Buckets
        /\ th[t].i + 1 \in 0..MaxCollisions
    BY <1>1, <1>4, MapAssumption, ProbeTurns DEF iters
  <2>3. /\ Beside(t)
        /\ th'[t].pc = "find" /\ th'[t].b = Probed(k, i + 1) /\ th'[t].i = i + 1
        /\ th'[t].op = "Find" /\ th'[t].key = k /\ (th'[t].sure => th[t].sure)
    <3>1. TypeOK /\ "find" \in CallPCs
      BY ZenonT(30) DEF MapIInv, CallPCs
    <3> DEFINE c == NextBucket(th[t].b)
               j == th[t].i + 1
    <3>2. c \in Buckets /\ j \in 0..MaxCollisions /\ Turns(t, "find", c, j)
      BY <2>1, <2>2
    <3> HIDE DEF c, j
    <3>3. /\ Beside(t) /\ th'[t].pc = "find" /\ th'[t].b = c /\ th'[t].i = j
          /\ th'[t].op = th[t].op /\ th'[t].key = th[t].key /\ (th'[t].sure => th[t].sure)
      BY <3>1, <3>2, MovedNext, ZenonT(30)
    <3> QED
      BY <1>1, <2>2, <3>3 DEF c, j
  <2>4. Budget'
    BY <2>3, BudgetSame, ZenonT(30) DEF MapIInv
  <2>5. Formed(th'[t]) /\ ~Grip(th'[t])
    BY <2>3 DEF Formed, Grip
  <2>6. Ahead(t)'
    <3>1. th'[t].sure => \A u \in Threads :
             ~(th'[u].pc # "idle" /\ th'[u].op = "Remove" /\ th'[u].key = k)
      BY <1>3, <2>3 DEF Beside, Like
    <3>2. th'[t].sure => \E j \in i + 1 .. MaxCollisions : Lives(Probed(k, j), k)'
      BY <1>3, <2>3 DEF Lives
    <3> QED
      BY <2>3, <3>1, <3>2 DEF Ahead, Lives, Probed, HomeBucket, KeyHash
  <2>7. Seen(t)' /\ Agrees(th[t])'
    BY <2>3 DEF Seen, Agrees
  <2> QED
    BY <1>2, <2>3, <2>4, <2>5, <2>6, <2>7, ProbeStep
<1>5. CASE ~(i + 1 < iters)
  <2>1. ~th[t].sure
    BY <1>3, <1>5, MapAssumption DEF iters
  <2>2. Return(t, FALSE)
    BY <1>5, ZenonT(30) DEF FindAdvance
  <2>3. Beside(t) /\ th'[t].pc = "idle" /\ th'[t] = Idle("Find", k, FALSE, th[t].val, th[t].sure)
    BY <1>1, <2>2, Returned, ZenonT(30) DEF MapIInv
  <2>4. th'[t].op = "Find" /\ ~th'[t].sure /\ ~th'[t].ret
    BY <2>1, <2>3 DEF Idle
  <2>5. Budget'
    BY <2>3, BudgetSame, ZenonT(30) DEF MapIInv
  <2>6. Formed(th'[t]) /\ ~Grip(th'[t])
    BY <2>3, <2>4, ZenonT(30) DEF Formed, Grip
  <2>7. Ahead(t)' /\ Seen(t)' /\ Agrees(th[t])'
    BY <2>3, <2>4, ZenonT(30) DEF Ahead, Seen, Agrees
  <2> QED
    BY <1>2, <2>3, <2>4, <2>5, <2>6, <2>7, ProbeStep, ZenonT(30)
<1> QED
  BY <1>4, <1>5

\* A Find goes on with the bucket it is at.
LEMMA GoesOn ==
    ASSUME MapIInv, NEW t \in Threads,
           NEW p \in {"compare", "value"}, Goes(t, p), th[t].pc \in {"find", "compare"},
           UNCHANGED <<ops, bitmap, bucket, started, added, removed>>,
           "Remove" \notin ops =>
               /\ p = "compare" => VALID \in bitmap[th[t].b]
               /\ p = "value" => Lives(th[t].b, th[t].key)
    PROVE  MapIInv'
<1>1. /\ Beside(t) /\ th'[t].pc = p /\ th'[t].b = th[t].b /\ th'[t].i = th[t].i
      /\ th'[t].op = "Find" /\ th'[t].key = th[t].key /\ (th'[t].sure => th[t].sure)
  BY MovedTo, ZenonT(30) DEF MapIInv, Formed, CallPCs
<1>2. ~Grip(th[t]) /\ ~Grip(th'[t]) /\ started' \in 0..MaxSets
  BY <1>1 DEF Grip, MapIInv, TypeOK
<1>3. Budget'
  BY <1>1, BudgetSame DEF MapIInv
<1>4. Formed(th'[t])
  BY <1>1, ZenonT(30) DEF MapIInv, Formed
<1>5. Ahead(t)'
  <2>1. th'[t].sure => \A u \in Threads :
           ~(th'[u].pc # "idle" /\ th'[u].op = "Remove" /\ th'[u].key = th'[t].key)
    BY <1>1 DEF MapIInv, Ahead, Beside, Like
  <2> PICK k \in Keys : k = th[t].key
    BY DEF MapIInv, Formed
  <2> PICK i \in 0..MaxCollisions : i = th[t].i
    BY DEF MapIInv, TypeOK
  <2>2. th[t].sure => \E j \in i .. MaxCollisions : Lives(Probed(k, j), k)
    BY DEF MapIInv, Ahead
  <2>3. th'[t].sure => \E j \in i .. MaxCollisions : Lives(Probed(k, j), k)'
    BY <1>1, <2>2 DEF Lives
  <2>4. th'[t].i = i /\ th'[t].key = k
    BY <1>1
  <2> QED
    BY <2>1, <2>3, <2>4 DEF Ahead, Lives, Probed, HomeBucket, KeyHash
<1>6. Seen(t)' /\ Agrees(th[t])'
  BY <1>1 DEF Seen, Agrees, Lives
<1> QED
  BY <1>1, <1>2, <1>3, <1>4, <1>5, <1>6, ProbeStep, ZenonT(30)

LEMMA FindProbeInv == ASSUME MapIInv, NEW t \in Threads, FindProbe(t) PROVE MapIInv'
<1>1. CASE IsValid(th[t].b)
  BY <1>1, GoesOn DEF FindProbe, IsValid, Goes
<1>2. CASE ~IsValid(th[t].b)
  BY <1>2, AdvanceInv DEF FindProbe, IsValid, Lives
<1> QED
  BY <1>1, <1>2

LEMMA FindCompareInv == ASSUME MapIInv, NEW t \in Threads, FindCompare(t) PROVE MapIInv'
<1>1. CASE bucket[th[t].b].key = th[t].key
  <2>1. "Remove" \notin ops => Lives(th[t].b, th[t].key)
    BY <1>1 DEF FindCompare, MapIInv, Seen, Lives
  <2> QED
    BY <1>1, <2>1, GoesOn DEF FindCompare, KeyCompare, Goes
<1>2. CASE bucket[th[t].b].key # th[t].key
  BY <1>2, AdvanceInv DEF FindCompare, KeyCompare, Lives
<1> QED
  BY <1>1, <1>2

\* A Find returns the value of the bucket.
LEMMA FindValueInv == ASSUME MapIInv, NEW t \in Threads, FindValue(t) PROVE MapIInv'
<1> PICK k \in Keys, b \in Buckets : k = th[t].key /\ b = th[t].b
  BY DEF FindValue, MapIInv, Formed, TypeOK
<1> DEFINE v == bucket[b].val
           r == Idle("Find", k, TRUE, v, th[t].sure)
<1>1. th[t].pc = "value" /\ v \in Keys \union {0} /\ th[t].sure \in BOOLEAN
  BY DEF FindValue, MapIInv, TypeOK
<1>2. \A x \in Keys \union {0}, e, s \in BOOLEAN :
         /\ Idle("Find", k, e, x, s) \in Calls
         /\ Idle("Find", k, e, x, s).pc = "idle"
  BY IdleCalls
<1>3. r \in Calls /\ r.pc = "idle"
  <2>1. TRUE \in BOOLEAN
    OBVIOUS
  <2> QED
    BY <1>1, <1>2, <2>1, ZenonT(30)
<1>4. r.op = "Find" /\ r.ret /\ r.val = v /\ r.key = k
  BY DEF Idle
<1>5. th' = [th EXCEPT ![t] = r] /\ UNCHANGED <<ops, bitmap, bucket, started, added, removed>>
  BY DEF FindValue
<1>6. "Remove" \notin ops => v = k
  BY <1>1 DEF MapIInv, Seen, Lives, Complete
<1> HIDE DEF r
<1>7. Beside(t) /\ th'[t] = r
  BY <1>3, <1>5, Becomes, ZenonT(30) DEF MapIInv
<1>8. ~Grip(th[t]) /\ ~Grip(th'[t]) /\ started' \in 0..MaxSets
  BY <1>1, <1>3, <1>5, <1>7 DEF Grip, MapIInv, TypeOK
<1>9. Budget'
  BY <1>1, <1>3, <1>5, <1>7, BudgetSame, ZenonT(30) DEF MapIInv
<1>10. Formed(th'[t]) /\ Ahead(t)' /\ Seen(t)'
  BY <1>3, <1>4, <1>7, ZenonT(30) DEF Formed, Ahead, Seen
<1>11. Agrees(th[t])'
  BY <1>4, <1>5, <1>6, <1>7 DEF Agrees
<1> QED
  BY <1>3, <1>5, <1>7, <1>8, <1>9, <1>10, <1>11, ProbeStep

\* Remove is called: the Finds of its key under way are no longer sure.
LEMMA RemoveCallInv ==
    ASSUME MapIInv, NEW t \in Threads, NEW k \in Keys, RemoveCall(t, k)
    PROVE  MapIInv'
<1> DEFINE r == [pc |-> "remove", op |-> "Remove", key |-> k, val |-> 0, b |-> HomeBucket(k),
                 i |-> 0, words |-> {}, sure |-> FALSE, ret |-> FALSE]
           Dim(q) == [q EXCEPT !.sure = FALSE]
<1>1. k \in Nat /\ HomeBucket(k) \in Buckets /\ 0 \in 0..MaxCollisions
  BY MapAssumption, ProbeTurns
<1>2. r \in Calls /\ r.pc = "remove" /\ r.op = "Remove" /\ r.key = k
  BY <1>1, ZenonT(30) DEF Calls, CallPCs
<1>3. \A u \in Threads : th[u] \in Calls
  BY DEF MapIInv, TypeOK, Calls, CallPCs
<1>4. ASSUME NEW q \in Calls PROVE Dim(q) \in Calls /\ Like(Dim(q), q) /\ ~Dim(q).sure
  <2>1. Dim(q) \in Calls
    BY ZenonT(30) DEF Calls, CallPCs
  <2>2. Like(Dim(q), q) /\ ~Dim(q).sure
    BY DEF Calls, CallPCs, Like
  <2> QED
    BY <2>1, <2>2
<1>5. th' = [u \in Threads |-> IF u = t THEN r
                               ELSE IF th[u].pc # "idle" /\ th[u].key = k THEN Dim(th[u]) ELSE th[u]]
  BY DEF RemoveCall
<1>6. /\ th[t].pc = "idle" /\ "Remove" \in ops
      /\ UNCHANGED <<ops, bitmap, bucket, started, added, removed>> /\ started' \in 0..MaxSets
  BY DEF RemoveCall, MapIInv, TypeOK
<1> HIDE DEF r, Dim
<1>7. th' \in [Threads -> Calls]
  BY <1>2, <1>3, <1>4, <1>5
<1>8. \A u \in Threads : u # t => Like(th'[u], th[u])
  BY <1>3, <1>4, <1>5 DEF Like
<1>9. Beside(t) /\ th'[t] = r
  BY <1>5, <1>7, <1>8 DEF Beside
<1>10. ASSUME NEW u \in Threads, u # t PROVE th'[u].pc = "idle" \/ ~th'[u].sure \/ th[u].key # k
  BY <1>3, <1>4, <1>5, <1>10
<1>11. ~Grip(th[t]) /\ ~Grip(th'[t])
  BY <1>2, <1>6, <1>9 DEF Grip
<1>12. Budget'
  BY <1>2, <1>6, <1>9, BudgetSame DEF MapIInv
<1>13. Formed(th'[t]) /\ Ahead(t)' /\ Seen(t)' /\ Agrees(th[t])'
  BY <1>2, <1>6, <1>9 DEF Formed, Ahead, Seen, Agrees
<1> QED
  BY <1>2, <1>6, <1>9, <1>10, <1>11, <1>12, <1>13, ProbeStep

\* A Remove takes a bucket, or looks at the next.
LEMMA RemoveProbeInv == ASSUME MapIInv, NEW t \in Threads, RemoveProbe(t) PROVE MapIInv'
<1> PICK b \in Buckets : b = th[t].b
  BY DEF MapIInv, TypeOK
<1>1. /\ th[t].pc = "remove" /\ th[t].key \in Keys /\ th[t].op = "Remove" /\ "Remove" \in ops
      /\ th[t].i \in 0..MaxCollisions /\ th \in [Threads -> Calls]
  BY DEF RemoveProbe, MapIInv, TypeOK, Formed, Seen, Calls, CallPCs
<1>2. UNCHANGED <<ops, bucket, started, added, removed>> /\ started' \in 0..MaxSets
  BY DEF RemoveProbe, MapIInv, TypeOK
<1>3. ~Grip(th[t])
  BY <1>1 DEF Grip
<1>4. CASE BeginRemove(b)
  <2>1. bitmap' = [bitmap EXCEPT ![b] = {VALID, BEING_SET}]
    BY <1>4 DEF RemoveProbe, MapIInv, TypeOK
  <2>2. Goes(t, "held")
    BY <1>4 DEF RemoveProbe, Goes
  <2>3. /\ Beside(t) /\ th'[t].pc = "held" /\ th'[t].b = b
        /\ th'[t].op = "Remove" /\ th'[t].key = th[t].key
    BY <1>1, <2>2, MovedTo, ZenonT(30) DEF MapIInv, CallPCs
  <2>4. VALID \in bitmap[b] /\ BEING_SET \notin bitmap[b]
    BY <1>4 DEF BeginRemove
  <2>5. \A c \in Buckets : VALID \in bitmap'[c] <=> VALID \in bitmap[c]
    BY <2>1, <2>4 DEF MapIInv, TypeOK
  <2>6. TypeOK'
    BY <1>2, <2>1, <2>3 DEF MapIInv, TypeOK, Beside, Calls, CallPCs
  <2>7. Careful(t)
    BY <1>2, <2>5 DEF Careful
  <2>8. Held'
    <3>1. Grip(th'[t])
      BY <2>3 DEF Grip
    <3> QED
      BY <1>3, <2>1, <2>3, <2>4, <3>1, HeldTaken, ZenonT(30)
  <2>9. Complete'
    BY <1>2, <2>5 DEF MapIInv, Complete
  <2>10. EntriesConserved'
    BY <1>2, <2>5, ConservedSame DEF MapIInv, Lives
  <2>11. Budget'
    BY <1>1, <1>2, <2>3, BudgetSame DEF MapIInv
  <2>12. Formed(th'[t])
    BY <1>1, <2>3 DEF Formed
  <2>13. Copied(th[t])' /\ Ahead(t)' /\ Agrees(th[t])' /\ Seen(t)'
    BY <1>1, <1>2, <2>3, ZenonT(30) DEF Copied, Ahead, Agrees, Seen
  <2> QED
    BY <1>1, <1>2, <2>3, <2>6, <2>7, <2>8, <2>9, <2>10, <2>11, <2>12, <2>13, MapStep, ZenonT(30)
<1>5. CASE ~BeginRemove(b)
  <2>1. UNCHANGED bitmap /\ th' = [th EXCEPT ![t].b = NextBucket(b)]
    BY <1>5 DEF RemoveProbe
  <2>2. NextBucket(b) \in Buckets
    <3>1. b + 1 \in Int
      BY DEF Buckets
    <3> QED
      BY <3>1, ModDef, MapAssumption, ZenonT(30) DEF NextBucket, Buckets
  <2>3. Turns(t, "remove", NextBucket(b), th[t].i)
    <3>1. th' = [th EXCEPT ![t].pc = "remove", ![t].b = NextBucket(b), ![t].i = th[t].i]
      BY <1>1, <2>1, ZenonT(30) DEF Calls, CallPCs
    <3> QED
      BY <1>1, <3>1, ZenonT(30) DEF Turn, Turns
  <2>4. /\ Beside(t) /\ th'[t].pc = "remove"
        /\ th'[t].op = "Remove" /\ th'[t].key = th[t].key
    <3> DEFINE c == NextBucket(b)
    <3>1. TypeOK /\ "remove" \in CallPCs
      BY ZenonT(30) DEF MapIInv, CallPCs
    <3>2. c \in Buckets /\ Turns(t, "remove", c, th[t].i) /\ th[t].i \in 0..MaxCollisions
      BY <1>1, <2>2, <2>3
    <3> HIDE DEF c
    <3>3. Beside(t) /\ th'[t].pc = "remove" /\ th'[t].op = th[t].op /\ th'[t].key = th[t].key
      BY <3>1, <3>2, MovedNext, ZenonT(30)
    <3> QED
      BY <1>1, <3>3
  <2>5. Budget'
    BY <1>1, <1>2, <2>4, BudgetSame, ZenonT(30) DEF MapIInv
  <2>6. Formed(th'[t]) /\ ~Grip(th'[t])
    BY <1>1, <2>4 DEF Formed, Grip
  <2>7. Ahead(t)' /\ Seen(t)' /\ Agrees(th[t])'
    BY <1>1, <1>2, <2>4, ZenonT(30) DEF Ahead, Seen, Agrees
  <2> QED
    BY <1>1, <1>2, <1>3, <2>1, <2>4, <2>5, <2>6, <2>7, ProbeStep
<1> QED
  BY <1>4, <1>5

\* A Remove commits: its bucket was a home of its key and is none any more.
LEMMA CommitRemoveInv == ASSUME MapIInv, NEW t \in Threads, CommitRemove(t) PROVE MapIInv'
<1> PICK b \in Buckets, k \in Keys : b = th[t].b /\ k = th[t].key
  BY DEF CommitRemove, MapIInv, TypeOK, Formed
<1>1. th[t].pc = "held" /\ th[t].op = "Remove" /\ bucket[b].key = k
  BY DEF CommitRemove, MapIInv, Formed, KeyCompare
<1>2. UNCHANGED <<ops, bucket, started, added>> /\ removed' = [removed EXCEPT ![k] = @ + 1]
  BY DEF CommitRemove
<1>3. Grip(th[t]) /\ VALID \in bitmap[b]
  BY <1>1 DEF Grip, MapIInv, Held
<1>4. Beside(t) /\ th'[t].pc = "idle" /\ th'[t] = NoCall /\ NoCall.op = "none"
  BY <1>1, Returned, ZenonT(30) DEF MapIInv, CommitRemove, NoCall, Idle
<1>5. bitmap' = [bitmap EXCEPT ![b] = {}]
  BY ZenonT(30) DEF CommitRemove, MapIInv, TypeOK
<1>6. \A c \in Buckets : VALID \in bitmap'[c] <=> (c # b /\ VALID \in bitmap[c])
  BY <1>5 DEF MapIInv, TypeOK
<1>7. Careful(t)
  BY <1>1, <1>2, <1>6 DEF Careful
<1>8. Budget'
  BY <1>1, <1>2, <1>4, BudgetSame DEF MapIInv
<1>9. TypeOK'
  BY <1>2, <1>4, <1>5 DEF MapIInv, TypeOK, Beside, Calls, CallPCs
<1>10. Complete'
  BY <1>2, <1>6, ZenonT(30) DEF MapIInv, Complete
<1>11. Held'
  <2>1. ~Grip(th'[t])
    BY <1>4 DEF Grip
  <2> QED
    <3>1. {} \in SUBSET {VALID, BEING_SET} /\ BEING_SET \notin {}
      OBVIOUS
    <3>2. bitmap' = [bitmap EXCEPT ![th[t].b] = {}]
      BY <1>5
    <3> QED
      BY <1>3, <1>4, <2>1, <3>1, <3>2, HeldGiven, ZenonT(30)
<1>12. EntriesConserved'
  <2>1. \A m \in Keys : m # k => Homes(m)' = Homes(m)
    BY <1>1, <1>2, <1>6 DEF Homes, Lives
  <2>2. Homes(k)' = Homes(k) \ {b} /\ b \in Homes(k)
    BY <1>1, <1>2, <1>3, <1>6 DEF Homes, Lives
  <2>3. Cardinality(Homes(k)') = Cardinality(Homes(k)) - 1
    <3>1. IsFiniteSet(Homes(k))
      BY HomesFinite
    <3>2. Cardinality(Homes(k) \ {b}) = Cardinality(Homes(k)) - 1
      BY <2>2, <3>1, FS_RemoveElement, ZenonT(30)
    <3> QED
      BY <2>2, <3>2
  <2>4. \A m \in Keys : /\ Homes(m) \subseteq Window(m)
                        /\ Cardinality(Homes(m)) = added[m] - removed[m]
    BY ConservedIs DEF MapIInv
  <2>5. /\ added \in [Keys -> Nat] /\ removed \in [Keys -> Nat]
        /\ added' = added /\ removed'[k] = removed[k] + 1
        /\ \A m \in Keys : m # k => removed'[m] = removed[m]
    BY <1>2 DEF MapIInv, TypeOK
  <2>6. Homes(k)' \subseteq Window(k) /\ Cardinality(Homes(k)') = added'[k] - removed'[k]
    BY <2>2, <2>3, <2>4, <2>5
  <2>7. \A m \in Keys : /\ Homes(m)' \subseteq Window(m)
                        /\ Cardinality(Homes(m)') = added'[m] - removed'[m]
    BY <2>1, <2>4, <2>5, <2>6
  <2> QED
    BY <2>7, ConservedNext
<1>13. Formed(th'[t])
  BY <1>4 DEF Formed
<1>14. Copied(th[t])' /\ Ahead(t)' /\ Agrees(th[t])' /\ Seen(t)'
  BY <1>4 DEF Copied, Ahead, Agrees, Seen
<1> QED
  BY <1>2, <1>4, <1>7, <1>8, <1>9, <1>10, <1>11, <1>12, <1>13, <1>14, MapStep, ZenonT(30)

\* A Remove puts back a bucket that is not its own.
LEMMA IgnoreRemoveInv == ASSUME MapIInv, NEW t \in Threads, IgnoreRemove(t) PROVE MapIInv'
<1> PICK b \in Buckets : b = th[t].b
  BY DEF MapIInv, TypeOK
<1>1. /\ th[t].pc = "held" /\ th[t].key \in Keys /\ th[t].op = "Remove" /\ "Remove" \in ops
      /\ th[t].i \in 0..MaxCollisions /\ th \in [Threads -> Calls]
  BY DEF IgnoreRemove, MapIInv, TypeOK, Formed, Seen, Calls, CallPCs
<1>2. UNCHANGED <<ops, bucket, started, added, removed>> /\ started' \in 0..MaxSets
  BY DEF IgnoreRemove, MapIInv, TypeOK
<1>3. Grip(th[t]) /\ VALID \in bitmap[b]
  BY <1>1 DEF Grip, MapIInv, Held
<1>4. bitmap' = [bitmap EXCEPT ![b] = {VALID}]
  BY <1>3, ZenonT(30) DEF IgnoreRemove, CommitModify, MapIInv, TypeOK, VALID, BEING_SET
<1>5. \A c \in Buckets : VALID \in bitmap'[c] <=> VALID \in bitmap[c]
  BY <1>3, <1>4 DEF MapIInv, TypeOK
<1>6. /\ Beside(t) /\ Formed(th'[t])
      /\ \/ th'[t].pc = "idle" /\ th'[t].op = "none"
         \/ th'[t].pc = "remove" /\ th'[t].op = "Remove" /\ th'[t].key = th[t].key
  <2>1. CASE th[t].i + 1 # iters
    <3>1. th' = [th EXCEPT ![t].pc = "remove", ![t].i = @ + 1]
      BY <2>1 DEF IgnoreRemove
    <3>2. Turns(t, "remove", b, th[t].i + 1)
      <4>1. th' = [th EXCEPT ![t].pc = "remove", ![t].b = b, ![t].i = th[t].i + 1]
        BY <1>1, <3>1 DEF Calls, CallPCs
      <4> QED
        BY <1>1, <4>1, ZenonT(30) DEF Turn, Turns
    <3>3. th[t].i + 1 \in 0..MaxCollisions
      BY <1>1, <2>1, MapAssumption DEF iters
    <3>4. Beside(t) /\ th'[t].pc = "remove" /\ th'[t].op = "Remove" /\ th'[t].key = th[t].key
      BY <1>1, <3>2, <3>3, MovedNext, ZenonT(30) DEF MapIInv, CallPCs
    <3> QED
      BY <1>1, <3>4 DEF Formed
  <2>2. CASE th[t].i + 1 = iters
    <3>1. Beside(t) /\ th'[t].pc = "idle" /\ th'[t] = NoCall /\ NoCall.op = "none"
      BY <1>1, <2>2, Returned, ZenonT(30) DEF MapIInv, IgnoreRemove, NoCall, Idle
    <3> QED
      BY <3>1 DEF Formed
  <2> QED
    BY <2>1, <2>2
<1>7. Careful(t)
  BY <1>2, <1>5 DEF Careful
<1>8. TypeOK'
  BY <1>2, <1>4, <1>6 DEF MapIInv, TypeOK, Beside, Calls, CallPCs
<1>9. Held'
  <2>1. ~Grip(th'[t])
    BY <1>6 DEF Grip
  <2> QED
    BY <1>3, <1>4, <1>6, <2>1, HeldGiven, ZenonT(30) DEF VALID, BEING_SET
<1>10. Complete'
  BY <1>2, <1>5 DEF MapIInv, Complete
<1>11. EntriesConserved'
  BY <1>2, <1>5, ConservedSame DEF MapIInv, Lives
<1>12. Budget'
  BY <1>1, <1>2, <1>6, BudgetSame, ZenonT(30) DEF MapIInv
<1>13. Copied(th[t])' /\ Ahead(t)' /\ Agrees(th[t])' /\ Seen(t)'
  BY <1>1, <1>2, <1>6, ZenonT(30) DEF Copied, Ahead, Agrees, Seen
<1> QED
  BY <1>1, <1>2, <1>6, <1>7, <1>8, <1>9, <1>10, <1>11, <1>12, <1>13, MapStep, ZenonT(30)

\* The empty map satisfies the invariant.
LEMMA MapInitInv == ASSUME Init PROVE MapIInv
<1>1. NoCall \in Calls /\ NoCall.pc = "idle" /\ NoCall.op = "none"
  BY IdleCalls, ZenonT(30) DEF NoCall, Idle
<1>2. \A t \in Threads : th[t] = NoCall
  BY DEF Init
<1>3. TypeOK
  BY <1>1, MapAssumption DEF Init, TypeOK, Calls, CallPCs
<1>4. Complete /\ \A b \in Buckets : bitmap[b] = {}
  BY DEF Init, Complete
<1>5. Held
  BY <1>1, <1>2, <1>4 DEF Held, Grip
<1>6. EntriesConserved
  <2>1. \A k \in Keys : Homes(k) = {} /\ added[k] = 0 /\ removed[k] = 0
    BY <1>4 DEF Homes, Lives, Init
  <2> QED
    BY <2>1, ConservedIs, FS_EmptySet
<1>7. Budget
  <2>1. Setting = {} /\ started = 0 /\ \A k \in Keys : added[k] = 0
    BY <1>1, <1>2 DEF Setting, Init
  <2> QED
    BY <2>1, FS_EmptySet DEF Budget
<1>8. FindAgrees /\ \A t \in Threads : Formed(th[t]) /\ Copied(th[t]) /\ Ahead(t) /\ Seen(t)
  BY <1>1, <1>2 DEF FindAgrees, Formed, Copied, Ahead, Seen
<1> QED
  BY <1>3, <1>4, <1>5, <1>6, <1>7, <1>8 DEF MapIInv

\* Every step of the map keeps the invariant.
LEMMA MapNextInv == ASSUME MapIInv, Next PROVE MapIInv'
BY SetCallInv, FindCallInv, RemoveCallInv, SetProbeInv, StoreWordInv, SetCommitInv,
   FindProbeInv, FindCompareInv, FindValueInv, RemoveProbeInv, CommitRemoveInv, IgnoreRemoveInv
   DEF Next, Step

LEMMA MapStutter == ASSUME MapIInv, UNCHANGED vars PROVE MapIInv'
<1> USE DEF MapIInv, vars
<1>1. TypeOK' /\ Complete'
  BY DEF TypeOK, Complete
<1>2. Held'
  BY ZenonT(30) DEF Held, Grip
<1>3. EntriesConserved'
  BY ConservedSame DEF Lives
<1>4. Budget'
  BY DEF Budget, Setting
<1>5. FindAgrees'
  BY DEF FindAgrees
<1>6. \A t \in Threads : Formed(th[t])' /\ Copied(th[t])'
  BY ZenonT(30) DEF Formed, Copied, Probed, HomeBucket, KeyHash
<1>7. \A t \in Threads : Ahead(t)'
  BY ZenonT(30) DEF Ahead, Lives, Probed, HomeBucket, KeyHash
<1>8. \A t \in Threads : Seen(t)'
  BY DEF Seen, Lives
<1> QED
  BY <1>1, <1>2, <1>3, <1>4, <1>5, <1>6, <1>7, <1>8

\* It says what MapInv says: a bucket has no holder or exactly one.
LEMMA MapInvHolds == MapIInv => MapInv
<1> SUFFICES ASSUME MapIInv, NEW b \in Buckets
             PROVE  /\ Cardinality(Holders(b)) <= 1
                    /\ (BEING_SET \in bitmap[b]) <=> (Holders(b) # {})
                    /\ \A t \in Holders(b) : (th[t].pc = "held") <=> (VALID \in bitmap[b])
  BY DEF MapInv, MapIInv, OneHolder
<1>1. Holders(b) = {t \in Threads : Grip(th[t]) /\ th[t].b = b}
  BY DEF Holders, Grip
<1>2. Cardinality(Holders(b)) <= 1
  <2>1. CASE Holders(b) = {}
    BY <2>1, FS_EmptySet
  <2>2. CASE Holders(b) # {}
    <3>1. PICK t \in Holders(b) : TRUE
      BY <2>2
    <3>2. Holders(b) = {t}
      BY <1>1, <3>1 DEF MapIInv, Held
    <3> QED
      BY <3>2, FS_Singleton
  <2> QED
    BY <2>1, <2>2
<1>3. (BEING_SET \in bitmap[b]) <=> (Holders(b) # {})
  BY <1>1 DEF MapIInv, Held
<1>4. \A t \in Holders(b) : (th[t].pc = "held") <=> (VALID \in bitmap[b])
  BY <1>1 DEF MapIInv, Held
<1> QED
  BY <1>2, <1>3, <1>4

=============================================================================
