--------------------------- MODULE MQDriverProofs ---------------------------
(***************************************************************************)
(* Proofs about the MQ driver, for every number of clients, request pages  *)
(* and requests: MQInv and IssuedOnce hold.                                *)
(*                                                                         *)
(* MQInv counts the places where the kernel side holds a page.  The proof  *)
(* does not count: Places says that the submission queue, the kernel       *)
(* worker and the completion queue hold a page in one place at most, and   *)
(* exactly when some client waits for it.  IssuedOnce needs to know that   *)
(* the page a client stands behind describes its oldest request, that the  *)
(* page's op_ goes with code_, and that the request has not been issued    *)
(* while the submission is still to be handled.                            *)
(***************************************************************************)
EXTENDS MQDriver, TLAPS, SequenceTheorems, FiniteSetTheorems

\* How long, in seconds, each prover may search.
USE SMTT(30), ZenonT(30)

\* The elements of a sequence; none occurs twice.
Elems(s) == {s[i] : i \in DOMAIN s}
NoTwice(s) == \A i, j \in DOMAIN s : s[i] = s[j] => i = j

\* A client waits for the answer of page p.
Waits(p) == \E c \in Clients : page[c] = p /\ code[c] \in {1, 2}

\* Every client has a page of its own while its request is under way.
Owners ==
    /\ \A c, d \in Clients : (c # d /\ page[c] # None) => page[c] # page[d]
    /\ \A c \in Clients : (code[c] = 0) <=> (page[c] = None)

\* The kernel side holds a page in one place at most, and a page it holds is one
\* a client waits for.
Places ==
    /\ NoTwice(ksq)
    /\ \A p \in Pages :
        /\ p \in Elems(ksq) => kcur.page # p /\ p \notin kcq
        /\ kcur.page = p => p \notin kcq
        /\ Waits(p) <=> (p \in Elems(ksq) \/ kcur.page = p \/ p \in kcq)

\* The kernel worker handles a page as its op_ says.
Worker ==
    /\ kcur.page = None <=> kcur.pc = "idle"
    /\ kcur.pc \in {"io", "poll"} => op[kcur.page] = kcur.pc

\* A page describes the request it stands for.
Described ==
    \A c \in Clients : code[c] # 0 =>
        /\ answered[c] < asked[c]
        /\ io[page[c]] = HeadIO(c)
        /\ code[c] = 1 => op[page[c]] = "io"
        /\ code[c] = 2 => op[page[c]] = "poll"

\* The submission of a client's oldest request is still to come.
Unsubmitted(c) ==
    \/ code[c] = 0
    \/ /\ code[c] = 1
       /\ page[c] \in Elems(ksq) \/ (kcur.page = page[c] /\ kcur.pc = "io")

Unissued ==
    \A c \in Clients, n \in 1..MaxIOs :
        /\ issued[<<c, n>>] <= 1
        /\ n > answered[c] + 1 => issued[<<c, n>>] = 0
        /\ n = answered[c] + 1 /\ Unsubmitted(c) => issued[<<c, n>>] = 0

MQIInv == TypeOK /\ Owners /\ Places /\ Worker /\ Described /\ Unissued

-----------------------------------------------------------------------------
(* Sequences *)

\* What Append and Tail do to the elements of a sequence.
LEMMA ElemsAppend ==
    ASSUME NEW S, NEW s \in Seq(S), NEW x \in S
    PROVE  /\ Append(s, x) \in Seq(S)
           /\ Elems(Append(s, x)) = Elems(s) \union {x}
           /\ NoTwice(s) /\ x \notin Elems(s) => NoTwice(Append(s, x))
<1>1. /\ Append(s, x) \in Seq(S) /\ DOMAIN s = 1 .. Len(s) /\ Len(s) \in Nat
      /\ DOMAIN Append(s, x) = 1 .. Len(s) + 1
      /\ \A i \in 1 .. Len(s) : Append(s, x)[i] = s[i]
      /\ Append(s, x)[Len(s) + 1] = x
  OBVIOUS
<1> DEFINE a == Append(s, x)
<1> HIDE DEF a
<1>2. Elems(a) \subseteq Elems(s) \union {x}
  BY <1>1 DEF Elems, a
<1>3. Elems(s) \union {x} \subseteq Elems(a)
  <2>1. Len(s) + 1 \in DOMAIN a /\ a[Len(s) + 1] = x
    BY <1>1 DEF a
  <2>2. \A i \in DOMAIN s : i \in DOMAIN a /\ a[i] = s[i]
    BY <1>1 DEF a
  <2> QED
    BY <2>1, <2>2 DEF Elems
<1>4. NoTwice(s) /\ x \notin Elems(s) => NoTwice(a)
  BY <1>1 DEF Elems, NoTwice, a
<1> QED
  BY <1>1, <1>2, <1>3, <1>4 DEF a

LEMMA ElemsTail ==
    ASSUME NEW S, NEW s \in Seq(S), s # <<>>, NoTwice(s)
    PROVE  /\ Tail(s) \in Seq(S) /\ s[1] \in S
           /\ s[1] \in Elems(s) /\ Elems(Tail(s)) = Elems(s) \ {s[1]}
           /\ NoTwice(Tail(s))
<1>1. /\ Tail(s) \in Seq(S) /\ DOMAIN s = 1 .. Len(s) /\ Len(s) \in Nat \ {0}
      /\ DOMAIN Tail(s) = 1 .. Len(s) - 1
      /\ \A i \in 1 .. Len(s) - 1 : Tail(s)[i] = s[i + 1]
  OBVIOUS
<1>2. s[1] \in S /\ s[1] \in Elems(s)
  BY <1>1 DEF Elems
<1> DEFINE r == Tail(s)
<1> HIDE DEF r
<1>3. Elems(r) \subseteq Elems(s) \ {s[1]}
  <2> SUFFICES ASSUME NEW i \in DOMAIN r PROVE r[i] \in Elems(s) /\ r[i] # s[1]
    BY DEF Elems
  <2>1. i + 1 \in DOMAIN s /\ 1 \in DOMAIN s /\ r[i] = s[i + 1] /\ i + 1 # 1
    BY <1>1 DEF r
  <2> QED
    BY <2>1 DEF Elems, NoTwice
<1>4. Elems(s) \ {s[1]} \subseteq Elems(r)
  <2> SUFFICES ASSUME NEW i \in DOMAIN s, s[i] # s[1] PROVE s[i] \in Elems(r)
    BY DEF Elems
  <2>1. i - 1 \in DOMAIN r /\ r[i - 1] = s[i]
    BY <1>1 DEF r
  <2> QED
    BY <2>1 DEF Elems
<1>5. NoTwice(r)
  <2> SUFFICES ASSUME NEW i \in DOMAIN r, NEW j \in DOMAIN r, r[i] = r[j] PROVE i = j
    BY DEF NoTwice
  <2>1. i + 1 \in DOMAIN s /\ j + 1 \in DOMAIN s /\ s[i + 1] = s[j + 1] /\ i \in Int /\ j \in Int
    BY <1>1 DEF r
  <2>2. i + 1 = j + 1
    BY <2>1 DEF NoTwice
  <2> QED
    BY <2>1, <2>2
<1> QED
  BY <1>1, <1>2, <1>3, <1>4, <1>5 DEF r

\* An element that does not occur twice occurs once or not at all.
LEMMA Occurs ==
    ASSUME NEW s, NoTwice(s), NEW x
    PROVE  Cardinality({i \in DOMAIN s : s[i] = x}) = IF x \in Elems(s) THEN 1 ELSE 0
<1> DEFINE I == {i \in DOMAIN s : s[i] = x}
<1>1. CASE x \in Elems(s)
  <2>1. PICK i \in DOMAIN s : s[i] = x
    BY <1>1 DEF Elems
  <2>2. I = {i}
    BY <2>1 DEF NoTwice
  <2> QED
    BY <1>1, <2>2, FS_Singleton, ZenonT(30)
<1>2. CASE x \notin Elems(s)
  <2>1. I = {}
    BY <1>2 DEF Elems
  <2> QED
    BY <1>2, <2>1, FS_EmptySet
<1> QED
  BY <1>1, <1>2

-----------------------------------------------------------------------------
(* What the invariant says. *)

\* It is MQInv, with the places counted, and IssuedOnce.
LEMMA InvariantSays == MQIInv => MQInv /\ IssuedOnce
<1> SUFFICES ASSUME MQIInv PROVE MQInv /\ IssuedOnce
  OBVIOUS
<1>1. IssuedOnce
  <2> SUFFICES ASSUME NEW i \in IOs PROVE issued[i] <= 1
    BY DEF IssuedOnce
  <2>1. PICK c \in Clients, n \in 1..MaxIOs : i = <<c, n>>
    BY DEF IOs
  <2> QED
    BY <2>1 DEF MQIInv, Unissued
<1>2. ASSUME NEW p \in Pages PROVE KernelHolds(p) = IF Waits(p) THEN 1 ELSE 0
  <2> DEFINE n == Cardinality({i \in DOMAIN ksq : ksq[i] = p})
  <2>1. n = IF p \in Elems(ksq) THEN 1 ELSE 0
    BY Occurs DEF MQIInv, Places
  <2> HIDE DEF n
  <2>2. KernelHolds(p) = n + (IF kcur.page = p THEN 1 ELSE 0) + (IF p \in kcq THEN 1 ELSE 0)
    BY DEF KernelHolds, n
  <2> QED
    BY <2>1, <2>2 DEF MQIInv, Places
<1>3. OneAnswerDue
  BY <1>2 DEF OneAnswerDue, Waits, MQIInv, Owners
<1> QED
  BY <1>1, <1>3 DEF MQInv, MQIInv

\* The initial state satisfies it.
LEMMA InitInv == Init => MQIInv
<1> SUFFICES ASSUME Init PROVE MQIInv
  OBVIOUS
<1>0. ksq = <<>> /\ ksq \in Seq(Pages) /\ DOMAIN ksq = {}
  BY DEF Init
<1>1. TypeOK
  BY <1>0, MQAssumption DEF Init, TypeOK, Idle
<1>2. Owners
  BY DEF Init, Owners
<1>3. Places
  BY <1>0, MQAssumption DEF Init, Places, NoTwice, Elems, Waits, Idle
<1>4. Worker /\ Described
  BY DEF Init, Worker, Described, Idle
<1>5. Unissued
  BY DEF Init, Unissued, IOs
<1> QED
  BY <1>1, <1>2, <1>3, <1>4, <1>5 DEF MQIInv

-----------------------------------------------------------------------------
(* Steps *)

\* The clients' history while nothing is issued or answered.
LEMMA UnissuedKept ==
    ASSUME Unissued, UNCHANGED <<issued, answered>>,
           \A c \in Clients : Unsubmitted(c)' => Unsubmitted(c)
    PROVE  Unissued'
BY ZenonT(30) DEF Unissued

\* A client asks.
LEMMA AIOInv == ASSUME MQIInv, NEW c \in Clients, AIO(c) PROVE MQIInv'
<1> USE DEF AIO, MQIInv, kernel, disk
<1>1. TypeOK'
  BY MQAssumption DEF TypeOK
<1>2. Owners' /\ Places' /\ Worker'
  BY DEF Owners, Places, Worker, NoTwice, Elems, Waits
<1>3. \A d \in Clients : asked'[d] >= asked[d] /\ asked[d] \in Nat
  BY MQAssumption DEF TypeOK
<1>4. Described'
  BY <1>3 DEF Described, HeadIO, TypeOK
<1>5. Unissued'
  BY UnissuedKept DEF Unsubmitted, Elems
<1> QED
  BY <1>1, <1>2, <1>4, <1>5

\* The server submits the oldest request of c with a page nobody has.
LEMMA SubmitIOInv == ASSUME MQIInv, NEW c \in Clients, SubmitIO(c) PROVE MQIInv'
<1>1. PICK p \in Unused :
        /\ page' = [page EXCEPT ![c] = p]
        /\ word60' = [word60 EXCEPT ![p] = {}]
        /\ op' = [op EXCEPT ![p] = "io"]
        /\ io' = [io EXCEPT ![p] = HeadIO(c)]
        /\ ksq' = Append(ksq, p)
  BY ZenonT(30) DEF SubmitIO
<1>2. /\ asked[c] > answered[c] /\ code[c] = 0 /\ code' = [code EXCEPT ![c] = 1]
      /\ UNCHANGED <<layer, pollable, asked, answered, word64, kcur, kcq, device, issued, finished>>
  BY DEF SubmitIO, disk
<1>3. TypeOK /\ Owners /\ Places /\ Worker /\ Described /\ Unissued
  BY DEF MQIInv
<1>4. p \in Pages /\ \A d \in Clients : page[d] # p
  BY DEF Unused
<1>5. ~Waits(p) /\ p \notin Elems(ksq) /\ kcur.page # p /\ p \notin kcq
  BY <1>3, <1>4 DEF Waits, Places
<1>6. /\ page'[c] = p /\ code'[c] = 1
      /\ \A d \in Clients : d # c => page'[d] = page[d] /\ code'[d] = code[d]
  BY <1>1, <1>2, <1>3 DEF TypeOK
<1>7. /\ op'[p] = "io" /\ io'[p] = HeadIO(c)
      /\ \A q \in Pages : q # p => op'[q] = op[q] /\ io'[q] = io[q]
  BY <1>1, <1>3, <1>4 DEF TypeOK
<1>8. /\ ksq' \in Seq(Pages) /\ Elems(ksq') = Elems(ksq) \union {p} /\ NoTwice(ksq')
  BY <1>1, <1>3, <1>4, <1>5, ElemsAppend DEF TypeOK, Places
<1>9. TypeOK'
  <2>1. HeadIO(c) \in IOs
    BY <1>2, <1>3, MQAssumption DEF TypeOK, HeadIO, IOs
  <2> QED
    BY <1>1, <1>2, <1>3, <1>4, <1>8, <2>1 DEF TypeOK
<1>10. Owners'
  BY <1>2, <1>3, <1>4, <1>6, MQAssumption DEF Owners
<1>11. Places'
  <2>1. \A q \in Pages : Waits(q)' <=> (Waits(q) \/ q = p)
    BY <1>2, <1>4, <1>6 DEF Waits
  <2> QED
    BY <1>2, <1>3, <1>5, <1>8, <2>1, ZenonT(30) DEF Places, Elems, NoTwice
<1>12. Worker'
  BY <1>2, <1>3, <1>5, <1>7, MQAssumption DEF Worker, TypeOK
<1>13. Described'
  <2>1. \A d \in Clients : d # c /\ code[d] # 0 => page[d] \in Pages /\ page[d] # p
    BY <1>3, <1>4 DEF Owners, TypeOK
  <2> QED
    BY <1>2, <1>3, <1>6, <1>7, <2>1 DEF Described, HeadIO
<1>14. Unissued'
  <2>1. \A d \in Clients : Unsubmitted(d)' => Unsubmitted(d)
    BY <1>2, <1>4, <1>6, <1>8, ZenonT(30) DEF Unsubmitted, Elems
  <2> QED
    BY <1>2, <1>3, <2>1, UnissuedKept
<1> QED
  BY <1>9, <1>10, <1>11, <1>12, <1>13, <1>14 DEF MQIInv

\* The page a waiting client owns is not waited for by another.
LEMMA OwnPage ==
    ASSUME MQIInv, NEW c \in Clients, code[c] # 0
    PROVE  /\ page[c] \in Pages
           /\ \A d \in Clients : d # c => page[d] # page[c]
           /\ Waits(page[c]) <=> code[c] \in {1, 2}
BY DEF MQIInv, Owners, TypeOK, Waits

\* The server takes the answer to the submission of c, polling or not.
LEMMA AfterSubmissionInv ==
    ASSUME MQIInv, NEW c \in Clients, AfterSubmission(c)
    PROVE  MQIInv'
<1> PICK p \in Pages : p = page[c]
  BY OwnPage DEF AfterSubmission
<1>1. /\ code[c] = 1 /\ p \in kcq /\ kcq' = kcq \ {p}
      /\ UNCHANGED <<layer, pollable, asked, answered, page, word60, word64, io, kcur,
                     device, issued, finished>>
  BY DEF AfterSubmission, disk
<1>2. TypeOK /\ Owners /\ Places /\ Worker /\ Described /\ Unissued
  BY DEF MQIInv
<1>3. Waits(p) /\ p \notin Elems(ksq) /\ kcur.page # p /\ \A d \in Clients : d # c => page[d] # p
  BY <1>1, <1>2, OwnPage DEF Places
<1>4. CASE PollingEnabled(p)
  <2>1. /\ op' = [op EXCEPT ![p] = "poll"] /\ ksq' = Append(ksq, p)
        /\ code' = [code EXCEPT ![c] = 2]
    BY <1>4 DEF AfterSubmission, PollStart
  <2>2. code'[c] = 2 /\ \A d \in Clients : d # c => code'[d] = code[d]
    BY <1>2, <2>1 DEF TypeOK
  <2>3. op'[p] = "poll" /\ \A q \in Pages : q # p => op'[q] = op[q]
    BY <1>2, <2>1 DEF TypeOK
  <2>4. /\ ksq' \in Seq(Pages) /\ Elems(ksq') = Elems(ksq) \union {p} /\ NoTwice(ksq')
    BY <1>2, <1>3, <2>1, ElemsAppend DEF TypeOK, Places
  <2>5. TypeOK'
    BY <1>1, <1>2, <2>1, <2>4 DEF TypeOK
  <2>6. Owners'
    BY <1>1, <1>2, <2>2 DEF Owners
  <2>7. Places'
    <3>1. \A q \in Pages : Waits(q)' <=> Waits(q)
      BY <1>1, <2>2 DEF Waits
    <3> QED
      BY <1>1, <1>2, <1>3, <2>4, <3>1 DEF Places, Elems, NoTwice
  <2>8. Worker'
    BY <1>1, <1>2, <1>3, <2>3, MQAssumption DEF Worker, TypeOK
  <2>9. Described'
    BY <1>1, <1>2, <1>3, <2>2, <2>3, OwnPage DEF Described, HeadIO
  <2>10. Unissued'
    <3>1. \A d \in Clients : Unsubmitted(d)' => Unsubmitted(d)
      <4> SUFFICES ASSUME NEW d \in Clients, Unsubmitted(d)' PROVE Unsubmitted(d)
        OBVIOUS
      <4>1. d # c
        BY <2>2 DEF Unsubmitted
      <4>2. page'[d] = page[d] /\ code'[d] = code[d] /\ kcur' = kcur /\ page[d] # p
        BY <1>1, <1>3, <2>2, <4>1
      <4>3. Elems(ksq)' = Elems(ksq) \union {p}
        BY <2>4, ZenonT(30) DEF Elems
      <4> QED
        BY <4>2, <4>3 DEF Unsubmitted
    <3> QED
      BY <1>1, <1>2, <3>1, UnissuedKept
  <2> QED
    BY <2>5, <2>6, <2>7, <2>8, <2>9, <2>10 DEF MQIInv
<1>5. CASE ~PollingEnabled(p)
  <2>1. UNCHANGED <<op, ksq>> /\ code' = [code EXCEPT ![c] = 3]
    BY <1>5 DEF AfterSubmission
  <2>2. code'[c] = 3 /\ \A d \in Clients : d # c => code'[d] = code[d]
    BY <1>2, <2>1 DEF TypeOK
  <2>3. TypeOK'
    BY <1>1, <1>2, <2>1 DEF TypeOK
  <2>4. Owners' /\ Worker'
    BY <1>1, <1>2, <2>1, <2>2 DEF Owners, Worker
  <2>5. Places'
    <3>1. \A q \in Pages : Waits(q)' <=> (Waits(q) /\ q # p)
      BY <1>1, <1>3, <2>2 DEF Waits
    <3> QED
      BY <1>1, <1>2, <1>3, <2>1, <3>1 DEF Places, Elems, NoTwice
  <2>6. Described'
    BY <1>1, <1>2, <2>1, <2>2 DEF Described, HeadIO
  <2>7. Unissued'
    <3>1. \A d \in Clients : Unsubmitted(d)' => Unsubmitted(d)
      BY <1>1, <2>1, <2>2 DEF Unsubmitted, Elems
    <3> QED
      BY <1>1, <1>2, <3>1, UnissuedKept
  <2> QED
    BY <2>3, <2>4, <2>5, <2>6, <2>7 DEF MQIInv
<1> QED
  BY <1>4, <1>5

\* The server completes the oldest request of c; the kernel side no longer has its page.
LEMMA AnswerInv ==
    ASSUME MQIInv, NEW c \in Clients, code[c] # 0, Answer(c),
           UNCHANGED <<layer, pollable, asked, word60, word64, op, io, ksq, kcur, device, issued,
                       finished>>,
           \/ kcq' = kcq /\ code[c] = 3
           \/ kcq' = kcq \ {page[c]} /\ page[c] \in kcq
    PROVE  MQIInv'
<1> PICK p \in Pages : p = page[c]
  BY OwnPage
<1>1. TypeOK /\ Owners /\ Places /\ Worker /\ Described /\ Unissued
  BY DEF MQIInv
<1>2. /\ answered' = [answered EXCEPT ![c] = @ + 1] /\ code' = [code EXCEPT ![c] = 0]
      /\ page' = [page EXCEPT ![c] = None]
  BY DEF Answer
<1>3. /\ code'[c] = 0 /\ page'[c] = None /\ answered'[c] = answered[c] + 1
      /\ \A d \in Clients : d # c =>
            code'[d] = code[d] /\ page'[d] = page[d] /\ answered'[d] = answered[d]
  BY <1>1, <1>2 DEF TypeOK
<1>4. \A d \in Clients : d # c => page[d] # p
  BY OwnPage
<1>5. kcq' = kcq \ {p} /\ p \notin Elems(ksq) /\ kcur.page # p
  BY <1>1, OwnPage DEF Places
<1>6. TypeOK'
  <2>1. answered[c] \in 0..MaxIOs /\ answered[c] < asked[c] /\ asked[c] \in 0..MaxIOs
    BY <1>1 DEF TypeOK, Described
  <2>2. answered' \in [Clients -> 0..MaxIOs] /\ \A d \in Clients : answered'[d] <= asked[d]
    BY <1>1, <1>2, <2>1, MQAssumption DEF TypeOK
  <2> QED
    BY <1>1, <1>2, <1>5, <2>2 DEF TypeOK
<1>7. Owners'
  BY <1>1, <1>3 DEF Owners
<1>8. Places'
  <2>1. \A q \in Pages : Waits(q)' <=> (Waits(q) /\ q # p)
    BY <1>3, <1>4, MQAssumption DEF Waits
  <2> QED
    BY <1>1, <1>5, <2>1 DEF Places, Elems, NoTwice
<1>9. Worker'
  BY <1>1 DEF Worker
<1>10. Described'
  BY <1>1, <1>3 DEF Described, HeadIO
<1>11. Unissued'
  <2> SUFFICES ASSUME NEW d \in Clients, NEW n \in 1..MaxIOs
               PROVE  /\ issued[<<d, n>>] <= 1
                      /\ n > answered'[d] + 1 => issued[<<d, n>>] = 0
                      /\ n = answered'[d] + 1 /\ Unsubmitted(d)' => issued[<<d, n>>] = 0
    BY ZenonT(30) DEF Unissued
  <2>1. CASE d = c
    BY <1>1, <1>3, <2>1 DEF Unissued, TypeOK
  <2>2. CASE d # c
    <3>1. Unsubmitted(d)' => Unsubmitted(d)
      BY <1>3, <2>2 DEF Unsubmitted, Elems
    <3> QED
      BY <1>1, <1>3, <2>2, <3>1 DEF Unissued
  <2> QED
    BY <2>1, <2>2
<1> QED
  BY <1>6, <1>7, <1>8, <1>9, <1>10, <1>11 DEF MQIInv

\* The server takes the answer to a poll of c, and asks again or is done.
LEMMA AfterPollInv == ASSUME MQIInv, NEW c \in Clients, AfterPoll(c) PROVE MQIInv'
<1> PICK p \in Pages : p = page[c]
  BY OwnPage DEF AfterPoll
<1>1. /\ code[c] = 2 /\ p \in kcq /\ kcq' = kcq \ {p}
      /\ UNCHANGED <<layer, pollable, asked, word60, word64, op, io, kcur, device, issued, finished>>
  BY DEF AfterPoll, disk
<1>2. CASE IOIsComplete(p)
  BY <1>1, <1>2, AnswerInv DEF AfterPoll
<1>3. CASE ~IOIsComplete(p)
  <2>1. ksq' = Append(ksq, p) /\ UNCHANGED <<answered, code, page>>
    BY <1>3 DEF AfterPoll
  <2>2. TypeOK /\ Owners /\ Places /\ Worker /\ Described /\ Unissued
    BY DEF MQIInv
  <2>3. Waits(p) /\ p \notin Elems(ksq) /\ kcur.page # p /\ \A d \in Clients : d # c => page[d] # p
    BY <1>1, <2>2, OwnPage DEF Places
  <2>4. /\ ksq' \in Seq(Pages) /\ Elems(ksq') = Elems(ksq) \union {p} /\ NoTwice(ksq')
    BY <2>1, <2>2, <2>3, ElemsAppend DEF TypeOK, Places
  <2>5. TypeOK'
    BY <1>1, <2>1, <2>2, <2>4 DEF TypeOK
  <2>6. Owners' /\ Worker'
    BY <1>1, <2>1, <2>2 DEF Owners, Worker
  <2>7. Places'
    <3>1. \A q \in Pages : Waits(q)' <=> Waits(q)
      BY <2>1 DEF Waits
    <3> QED
      BY <1>1, <2>2, <2>3, <2>4, <3>1 DEF Places, Elems, NoTwice
  <2>8. Described'
    BY <1>1, <2>1, <2>2 DEF Described, HeadIO
  <2>9. Unissued'
    <3>1. ASSUME NEW d \in Clients, Unsubmitted(d)' PROVE Unsubmitted(d)
      <4>1. d # c
        BY <1>1, <2>1, <3>1 DEF Unsubmitted
      <4>2. page'[d] = page[d] /\ code'[d] = code[d] /\ kcur' = kcur /\ page[d] # p
        BY <1>1, <2>1, <2>3, <4>1
      <4>3. Elems(ksq)' = Elems(ksq) \union {p}
        BY <2>4, ZenonT(30) DEF Elems
      <4> QED
        BY <3>1, <4>2, <4>3 DEF Unsubmitted
    <3> QED
      BY <1>1, <2>1, <2>2, <3>1, UnissuedKept
  <2> QED
    BY <2>5, <2>6, <2>7, <2>8, <2>9 DEF MQIInv
<1> QED
  BY <1>2, <1>3

\* The server sees the interrupt's mark.
LEMMA AfterInterruptInv == ASSUME MQIInv, NEW c \in Clients, AfterInterrupt(c) PROVE MQIInv'
BY AnswerInv DEF AfterInterrupt, kernel, disk

\* The kernel worker takes the oldest page.
LEMMA KernelTakeInv == ASSUME MQIInv, KernelTake PROVE MQIInv'
<1>1. TypeOK /\ Owners /\ Places /\ Worker /\ Described /\ Unissued
  BY DEF MQIInv
<1>2. /\ kcur.pc = "idle" /\ ksq # <<>> /\ ksq' = Tail(ksq)
      /\ kcur' = [page |-> ksq[1], pc |-> op[ksq[1]]]
      /\ UNCHANGED <<layer, pollable, asked, answered, code, page, word60, word64, op, io, kcq,
                     device, issued, finished>>
  BY DEF KernelTake, server, disk
<1>3. PICK p \in Pages : p = ksq[1]
  BY <1>1, <1>2, ElemsTail DEF TypeOK, Places
<1>4. /\ ksq' \in Seq(Pages) /\ p \in Elems(ksq) /\ Elems(ksq') = Elems(ksq) \ {p} /\ NoTwice(ksq')
  BY <1>1, <1>2, <1>3, ElemsTail DEF TypeOK, Places
<1>5. /\ kcur' \in [page : Pages \union {None}, pc : {"idle", "io", "poll", "reply"}]
      /\ kcur'.page = p /\ kcur'.pc = op[p] /\ op[p] \in {"io", "poll"}
  BY <1>1, <1>2, <1>3 DEF TypeOK
<1>6. kcur.page = None /\ p # None
  BY <1>1, <1>2, MQAssumption DEF Worker
<1>7. TypeOK'
  BY <1>1, <1>2, <1>4, <1>5 DEF TypeOK
<1>8. Owners' /\ Described'
  BY <1>1, <1>2 DEF Owners, Described, HeadIO
<1>9. Places'
  <2>1. \A q \in Pages : Waits(q)' <=> Waits(q)
    BY <1>2 DEF Waits
  <2>2. \A q \in Pages : q # None
    BY MQAssumption
  <2> QED
    BY <1>1, <1>2, <1>4, <1>5, <1>6, <2>1, <2>2 DEF Places, Elems, NoTwice
<1>10. Worker'
  BY <1>2, <1>5, <1>6 DEF Worker
<1>11. Unissued'
  <2>1. ASSUME NEW d \in Clients, Unsubmitted(d)' PROVE Unsubmitted(d)
    <3>1. page'[d] = page[d] /\ code'[d] = code[d]
      BY <1>2
    <3>2. Elems(ksq)' = Elems(ksq) \ {p}
      BY <1>4, ZenonT(30) DEF Elems
    <3> QED
      BY <1>4, <1>5, <2>1, <3>1, <3>2 DEF Unsubmitted
  <2> QED
    BY <1>1, <1>2, <2>1, UnissuedKept
<1> QED
  BY <1>7, <1>8, <1>9, <1>10, <1>11 DEF MQIInv

\* The kernel worker has handled its page and will answer.
LEMMA RepliesInv ==
    ASSUME MQIInv, kcur.pc \in {"io", "poll"}, kcur' = [kcur EXCEPT !.pc = "reply"],
           UNCHANGED <<layer, pollable, asked, answered, code, page, op, io, ksq, kcq>>,
           word60' \in [Pages -> SUBSET Bits], word64' \in [Pages -> SUBSET Bits],
           device' \subseteq [page : Pages, io : IOs], finished' \subseteq IOs,
           issued' \in [IOs -> Nat], Unissued'
    PROVE  MQIInv'
<1>1. TypeOK /\ Owners /\ Places /\ Worker /\ Described
  BY DEF MQIInv
<1>2. /\ kcur' \in [page : Pages \union {None}, pc : {"idle", "io", "poll", "reply"}]
      /\ kcur'.page = kcur.page /\ kcur'.pc = "reply"
  BY <1>1, ZenonT(30) DEF TypeOK
<1>3. TypeOK'
  BY <1>1, <1>2 DEF TypeOK
<1>4. Owners' /\ Described'
  BY <1>1 DEF Owners, Described, HeadIO
<1>5. Places'
  BY <1>1, <1>2 DEF Places, Waits, Elems, NoTwice
<1>6. Worker'
  BY <1>1, <1>2 DEF Worker
<1> QED
  BY <1>3, <1>4, <1>5, <1>6 DEF MQIInv

\* The same when it has issued nothing.
LEMMA RepliesOnly ==
    ASSUME MQIInv, kcur.pc \in {"io", "poll"}, kcur' = [kcur EXCEPT !.pc = "reply"],
           UNCHANGED <<layer, pollable, asked, answered, code, page, op, io, ksq, kcq, issued, word60>>,
           word64' \in [Pages -> SUBSET Bits],
           device' \subseteq [page : Pages, io : IOs], finished' \subseteq IOs
    PROVE  MQIInv'
<1>1. kcur'.page = kcur.page /\ kcur'.pc = "reply"
  BY DEF MQIInv, TypeOK
<1>2. \A d \in Clients : Unsubmitted(d)' => Unsubmitted(d)
  BY <1>1 DEF Unsubmitted, Elems
<1>3. Unissued'
  BY <1>2, UnissuedKept DEF MQIInv
<1> QED
  BY <1>3, RepliesInv DEF MQIInv, TypeOK

\* The page of the kernel worker, and whose it is.
LEMMA WorkersClient ==
    ASSUME MQIInv, kcur.pc = "io"
    PROVE  /\ kcur.page \in Pages /\ kcur.page \notin Elems(ksq)
           /\ \E c \in Clients : /\ page[c] = kcur.page /\ code[c] = 1 /\ Unsubmitted(c)
                                 /\ io[kcur.page] = HeadIO(c) /\ HeadIO(c) \in IOs
                                 /\ issued[HeadIO(c)] = 0
<1>1. TypeOK /\ Owners /\ Places /\ Worker /\ Described /\ Unissued
  BY DEF MQIInv
<1>2. kcur.page \in Pages
  BY <1>1 DEF TypeOK, Worker
<1>3. Waits(kcur.page) /\ kcur.page \notin Elems(ksq)
  BY <1>1, <1>2 DEF Places
<1>4. PICK c \in Clients : page[c] = kcur.page /\ code[c] \in {1, 2}
  BY <1>3 DEF Waits
<1>5. code[c] = 1 /\ io[kcur.page] = HeadIO(c) /\ answered[c] < asked[c]
  BY <1>1, <1>4 DEF Worker, Described
<1>6. Unsubmitted(c)
  BY <1>4, <1>5 DEF Unsubmitted
<1>7. answered[c] + 1 \in 1..MaxIOs
  BY <1>1, <1>5, MQAssumption DEF TypeOK
<1>8. HeadIO(c) \in IOs /\ issued[HeadIO(c)] = 0
  BY <1>1, <1>6, <1>7 DEF HeadIO, IOs, Unissued
<1> QED
  BY <1>2, <1>3, <1>4, <1>5, <1>6, <1>8

\* The block layer gets the bio.
LEMMA IssueInv ==
    ASSUME MQIInv, kcur.pc = "io", kcur' = [kcur EXCEPT !.pc = "reply"],
           UNCHANGED <<layer, pollable, asked, answered, code, page, op, io, ksq, kcq>>,
           NEW w64 \in SUBSET Bits, NEW w60 \in SUBSET Bits, Issue(kcur.page, w64, w60)
    PROVE  MQIInv'
<1> PICK p \in Pages : p = kcur.page
  BY WorkersClient
<1>1. TypeOK /\ Owners /\ Unissued
  BY DEF MQIInv
<1>2. PICK c \in Clients : /\ page[c] = p /\ code[c] = 1 /\ Unsubmitted(c)
                           /\ io[p] = HeadIO(c) /\ HeadIO(c) \in IOs /\ issued[HeadIO(c)] = 0
  BY WorkersClient
<1>3. p \notin Elems(ksq) /\ \A d \in Clients : d # c => page[d] # p
  BY <1>2, WorkersClient, OwnPage
<1>4. /\ device' = device \union {[page |-> p, io |-> io[p]]}
      /\ issued' = [issued EXCEPT ![io[p]] = @ + 1]
      /\ word64' = [word64 EXCEPT ![p] = @ \union w64]
      /\ word60' = [word60 EXCEPT ![p] = w60] /\ finished' = finished
  BY DEF Issue
<1>5. /\ issued' \in [IOs -> Nat] /\ issued'[HeadIO(c)] = 1
      /\ \A i \in IOs : i # HeadIO(c) => issued'[i] = issued[i]
  BY <1>1, <1>2, <1>4 DEF TypeOK
<1>6. /\ word60' \in [Pages -> SUBSET Bits] /\ word64' \in [Pages -> SUBSET Bits]
      /\ device' \subseteq [page : Pages, io : IOs] /\ finished' \subseteq IOs
  BY <1>1, <1>2, <1>4 DEF TypeOK
<1>7. kcur'.page = p /\ kcur'.pc = "reply"
  BY <1>1 DEF TypeOK
<1>8. ~Unsubmitted(c)'
  BY <1>2, <1>3, <1>7 DEF Unsubmitted, Elems
<1>9. Unissued'
  <2> SUFFICES ASSUME NEW d \in Clients, NEW n \in 1..MaxIOs
               PROVE  /\ issued'[<<d, n>>] <= 1
                      /\ n > answered[d] + 1 => issued'[<<d, n>>] = 0
                      /\ n = answered[d] + 1 /\ Unsubmitted(d)' => issued'[<<d, n>>] = 0
    BY ZenonT(30) DEF Unissued
  <2>1. <<d, n>> \in IOs
    BY DEF IOs
  <2>2. CASE <<d, n>> = HeadIO(c)
    <3>1. d = c /\ n = answered[c] + 1
      BY <2>2 DEF HeadIO
    <3>2. issued'[<<d, n>>] = 1 /\ ~Unsubmitted(d)'
      BY <1>5, <1>8, <2>2, <3>1
    <3>3. answered[d] \in Nat
      BY <1>1, MQAssumption DEF TypeOK
    <3> QED
      BY <3>1, <3>2, <3>3
  <2>3. CASE <<d, n>> # HeadIO(c)
    <3>1. Unsubmitted(d)' => Unsubmitted(d)
      BY <1>7 DEF Unsubmitted, Elems
    <3> QED
      BY <1>1, <1>5, <2>1, <2>3, <3>1 DEF Unissued
  <2> QED
    BY <2>2, <2>3
<1> QED
  BY <1>5, <1>6, <1>9, RepliesInv

\* Bios end.
LEMMA CompleteTypes ==
    ASSUME TypeOK, NEW D \in SUBSET device, IoComplete(D)
    PROVE  /\ word64' \in [Pages -> SUBSET Bits] /\ finished' \subseteq IOs
           /\ device' \subseteq [page : Pages, io : IOs] /\ issued' = issued
<1>1. {d.io : d \in D} \subseteq IOs
  BY DEF TypeOK
<1>2. word64' \in [Pages -> SUBSET Bits]
  BY DEF TypeOK, IoComplete, Bits
<1> QED
  BY <1>1, <1>2 DEF TypeOK, IoComplete

\* The submission of the kernel worker, on every path.
LEMMA SubmitInv ==
    ASSUME MQIInv,
           convert_user_buf \/ SubmitFails \/ SubmitHctx \/ SubmitRefused \/ SubmitBio
    PROVE  MQIInv'
<1> USE DEF server, disk
<1>1. TypeOK /\ PolledFlag \in SUBSET Bits /\ {"IO_IS_COMPLETE"} \in SUBSET Bits
  BY DEF MQIInv, PolledFlag, Bits
<1>2. kcur.pc = "io"
  BY DEF convert_user_buf, SubmitFails, SubmitHctx, SubmitRefused, SubmitBio
<1>3. PICK p \in Pages : p = kcur.page /\ io[p] \in IOs
  BY <1>2, WorkersClient
<1>4. CASE convert_user_buf
  BY <1>1, <1>4, RepliesOnly DEF convert_user_buf, TypeOK
<1>5. CASE SubmitFails
  <2>1. word64' \in [Pages -> SUBSET Bits]
    BY <1>1, <1>3, <1>5 DEF SubmitFails, TypeOK
  <2> QED
    BY <1>1, <1>5, <2>1, RepliesOnly DEF SubmitFails, TypeOK
<1>6. CASE SubmitHctx
  <2>1. word60[kcur.page] \in SUBSET Bits
    BY <1>1, <1>3 DEF TypeOK
  <2> QED
    BY <1>1, <1>6, <2>1, IssueInv DEF SubmitHctx
<1>7. CASE SubmitRefused
  <2>1. word64' \in [Pages -> SUBSET Bits] /\ finished' \subseteq IOs
    BY <1>1, <1>3, <1>7 DEF SubmitRefused, TypeOK
  <2> QED
    BY <1>1, <1>7, <2>1, RepliesOnly DEF SubmitRefused, TypeOK
<1>8. CASE SubmitBio
  <2>1. PICK cookie \in Cookies : Issue(kcur.page, PolledFlag, cookie)
    BY <1>8 DEF SubmitBio
  <2>2. cookie \in SUBSET Bits
    BY MQAssumption
  <2> QED
    BY <1>1, <1>8, <2>1, <2>2, IssueInv DEF SubmitBio
<1> QED
  BY <1>4, <1>5, <1>6, <1>7, <1>8

\* The kernel worker polls the device.
LEMMA PollCompletionInv == ASSUME MQIInv, PollCompletion PROVE MQIInv'
<1>1. /\ kcur.pc = "poll" /\ kcur' = [kcur EXCEPT !.pc = "reply"]
      /\ UNCHANGED <<layer, pollable, asked, answered, code, page, op, io, ksq, kcq, word60>>
      /\ (\E D \in SUBSET device : IoComplete(D)) \/ UNCHANGED <<word64, device, issued, finished>>
  BY DEF PollCompletion, server, disk
<1>2. TypeOK
  BY DEF MQIInv
<1>3. /\ word64' \in [Pages -> SUBSET Bits] /\ finished' \subseteq IOs
      /\ device' \subseteq [page : Pages, io : IOs] /\ issued' = issued
  <2>1. CASE \E D \in SUBSET device : IoComplete(D)
    BY <1>2, <2>1, CompleteTypes
  <2>2. CASE UNCHANGED <<word64, device, issued, finished>>
    BY <1>2, <2>2 DEF TypeOK
  <2> QED
    BY <1>1, <2>1, <2>2
<1> QED
  BY <1>1, <1>3, RepliesOnly

\* The kernel worker answers.
LEMMA KernelReplyInv == ASSUME MQIInv, KernelReply PROVE MQIInv'
<1>1. TypeOK /\ Owners /\ Places /\ Worker /\ Described /\ Unissued
  BY DEF MQIInv
<1>2. /\ kcur.pc = "reply" /\ kcq' = kcq \union {kcur.page} /\ kcur' = Idle
      /\ UNCHANGED <<layer, pollable, asked, answered, code, page, word60, word64, op, io, ksq,
                     device, issued, finished>>
  BY DEF KernelReply, server, disk
<1>3. /\ kcur.page \in Pages /\ kcur'.page = None /\ kcur'.pc = "idle"
      /\ kcur' \in [page : Pages \union {None}, pc : {"idle", "io", "poll", "reply"}]
  BY <1>1, <1>2 DEF TypeOK, Worker, Idle
<1>4. TypeOK'
  BY <1>1, <1>2, <1>3 DEF TypeOK
<1>5. Owners' /\ Described'
  BY <1>1, <1>2 DEF Owners, Described, HeadIO
<1>6. Places'
  BY <1>1, <1>2, <1>3, MQAssumption DEF Places, Waits, Elems, NoTwice
<1>7. Worker'
  BY <1>3 DEF Worker
<1>8. Unissued'
  <2>1. \A d \in Clients : Unsubmitted(d)' => Unsubmitted(d)
    BY <1>2, <1>3 DEF Unsubmitted, Elems
  <2> QED
    BY <1>1, <1>2, <2>1, UnissuedKept
<1> QED
  BY <1>4, <1>5, <1>6, <1>7, <1>8 DEF MQIInv

\* Steps that leave the server and the kernel side as they are.
LEMMA DeviceInv ==
    ASSUME MQIInv,
           UNCHANGED <<layer, pollable, asked, answered, code, page, word60, op, io, ksq, kcur, kcq,
                       issued>>,
           word64' \in [Pages -> SUBSET Bits], finished' \subseteq IOs,
           device' \subseteq [page : Pages, io : IOs]
    PROVE  MQIInv'
<1> USE DEF MQIInv
<1>1. TypeOK'
  BY DEF TypeOK
<1>2. Owners' /\ Described'
  BY DEF Owners, Described, HeadIO
<1>3. Places' /\ Worker'
  BY DEF Places, Worker, NoTwice, Elems, Waits
<1>4. Unissued'
  BY UnissuedKept DEF Unsubmitted, Elems
<1> QED
  BY <1>1, <1>2, <1>3, <1>4

LEMMA InterruptInv == ASSUME MQIInv, Interrupt PROVE MQIInv'
<1>1. PICK d \in device : IoComplete({d})
  BY DEF Interrupt
<1>2. /\ word64' \in [Pages -> SUBSET Bits] /\ finished' \subseteq IOs
      /\ device' \subseteq [page : Pages, io : IOs] /\ issued' = issued
  <2>1. {d} \in SUBSET device
    OBVIOUS
  <2> QED
    BY <1>1, <2>1, CompleteTypes DEF MQIInv
<1> QED
  BY <1>2, DeviceInv DEF Interrupt, server, kernel

\* Every step keeps the invariant.
LEMMA StepInv == ASSUME MQIInv, [Next]_vars PROVE MQIInv'
<1>1. ASSUME NEW c \in Clients, AIO(c) \/ Server(c) PROVE MQIInv'
  BY <1>1, AIOInv, SubmitIOInv, AfterSubmissionInv, AfterPollInv, AfterInterruptInv DEF Server
<1>2. ASSUME Kernel PROVE MQIInv'
  BY <1>2, KernelTakeInv, SubmitInv, PollCompletionInv, KernelReplyInv DEF Kernel
<1>3. ASSUME UNCHANGED vars PROVE MQIInv'
  BY <1>3, DeviceInv DEF vars, MQIInv, TypeOK
<1> QED
  BY <1>1, <1>2, <1>3, InterruptInv DEF Next

\* In codes 1 and 2 of IO exactly one answer of the kernel is due and in codes 0
\* and 3 none is (mq_driver_server.cpp), for every number of clients and pages:
\* no request page is used again with an answer still to come.
THEOREM MQInvariant == Spec => []MQInv
<1>1. MQIInv /\ [Next]_vars => MQIInv'
  BY StepInv
<1>2. MQIInv => MQInv
  BY InvariantSays
<1> QED
  BY InitInv, <1>1, <1>2, PTL DEF Spec

\* A client I/O is given to the device at most once, however often the server asks
\* the kernel about it and whatever the two make of each other's words.
THEOREM MQIssuedOnce == Spec => []IssuedOnce
<1>1. MQIInv /\ [Next]_vars => MQIInv'
  BY StepInv
<1>2. MQIInv => IssuedOnce
  BY InvariantSays
<1> QED
  BY InitInv, <1>1, <1>2, PTL DEF Spec

=============================================================================
