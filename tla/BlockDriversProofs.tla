------------------------- MODULE BlockDriversProofs -------------------------
(***************************************************************************)
(* Proofs about the drivers that bring an I/O to a block device, for every *)
(* number of clients, devices, slots, pages and sectors.                   *)
(***************************************************************************)
EXTENDS BlockDrivers, CounterArithmetic, FiniteSetTheorems

\* How long, in seconds, each prover may search.
USE SMTT(30), ZenonT(30)
-----------------------------------------------------------------------------
(* BioLayer *)

BioPCs == {"idle", "oops", "answered", "open", "activate", "reject", "create", "wait"}
Ends == {"no", "ok", "failed"}
Dones == {<<>>} \cup UNION {[0 .. NumBios(len) - 1 -> Ends] : len \in Lengths}

Handlers == [pc : BioPCs, dev : Names \cup {NoDev}, dd : Slots, len : Lengths \cup {0}, i : Nat,
             done : Dones, answer : {"none", "ok", "error"}]
Entries == [is_active : BOOLEAN, dev_name : Names \cup {NoDev}, bdev : Names \cup {NoDev}]

BioTypes ==
    /\ device_list \in [Slots -> Entries]
    /\ queue_tail \in Slots
    /\ opened \in [Names -> Int]
    /\ raced \subseteq Slots
    /\ call \in [Clients -> Handlers]

Mounting(r) == r.pc \in {"open", "activate", "reject"}

\* What a handler knows of its request: a mount has a name, and a handler that
\* waits has waited for the bios before the one it is at.
Knows(r) ==
    /\ r.pc # "answered" => r.answer = "none"
    /\ Mounting(r) \/ r.pc = "create" => r.dev \in Names
    /\ r.pc \in {"create", "wait"} => r.len \in Lengths
    /\ r.pc = "create" => r.i = 0
    /\ r.pc = "wait" =>
         /\ r.done \in [0 .. NumBios(r.len) - 1 -> Ends]
         /\ r.i <= NumBios(r.len)
         /\ \A j \in 0 .. r.i - 1 : r.done[j] = "ok"

\* One mount at a time holds a slot that is not in raced, and the slot is not
\* active before that mount ends.
OneMount ==
    /\ \A c, d \in Clients :
         Mounting(call[c]) /\ Mounting(call[d]) /\ call[c].dd = call[d].dd =>
             c = d \/ call[c].dd \in raced
    /\ \A c \in Clients : Mounting(call[c]) /\ call[c].dd \notin raced =>
         /\ ~device_list[call[c].dd].is_active
         /\ device_list[call[c].dd].dev_name = call[c].dev
         /\ call[c].pc = "activate" => device_list[call[c].dd].bdev = call[c].dev

\* The slot an I/O found still holds the device when the bios are made.
SlotStays ==
    \A c \in Clients : call[c].pc = "create" /\ call[c].dd \notin raced =>
        device_list[call[c].dd].is_active /\ device_list[call[c].dd].dev_name = call[c].dev

NamesTrue ==
    \A s \in Slots \ raced : device_list[s].is_active =>
        device_list[s].bdev = device_list[s].dev_name

ActiveOn(n) == {s \in Slots : device_list[s].is_active /\ device_list[s].bdev = n}
Activating(n) == {c \in Clients : Calling(c, "activate") /\ call[c].dev = n}

OpensCounted ==
    raced = {} => \A n \in Names :
        opened[n] = Cardinality(ActiveOn(n)) + Cardinality(Activating(n))

\* A bio the block layer holds belongs to a handler that has not been told of it
\* yet, and is the only one of its place in the chain.
InFlight(b) ==
    /\ b.owner \in Clients
    /\ LET r == call[b.owner] IN
         /\ r.pc = "wait" /\ b.i \in 0 .. NumBios(r.len) - 1 /\ r.done[b.i] = "no"
         /\ b.sector = BioSector(b.i) /\ b.pages = BioPages(r.len, b.i)
         /\ b.bdev = r.dev \/ r.dd \in raced

OneBio == \A b, d \in flight : b.owner = d.owner /\ b.i = d.i => b = d

BioIInv ==
    /\ BioTypes /\ \A c \in Clients : Knows(call[c])
    /\ OneMount /\ SlotStays /\ NamesTrue /\ OpensCounted
    /\ (\A b \in flight : InFlight(b)) /\ OneBio
    /\ FreedBehindFailure

\* How create_bios shares out the pages of a request: NumPages whole pages, in
\* NumBios bios that are full but for the last.
LEMMA DivNat ==
    ASSUME NEW a \in Nat, NEW n \in Nat \ {0}
    PROVE  a \div n \in Nat /\ a % n \in 0 .. n - 1 /\ a = n * (a \div n) + (a % n)
<1> DEFINE q == a \div n
           x == a % n
<1>1. q \in Int /\ x \in 0 .. n - 1 /\ a = n * q + x
  BY ModDef
<1> HIDE DEF q, x
<1>2. q <= -1 => n * q <= -n
  BY <1>1, MulBound
<1>3. q >= 0
  BY <1>1, <1>2
<1> QED
  BY <1>1, <1>3 DEF q, x

LEMMA NumBiosNat ==
    ASSUME NEW len \in Lengths
    PROVE  NumBios(len) \in Nat /\ NumPages(len) \in Nat
<1>1. NumPages(len) \in Nat
  BY BioAssumption, DivNat, ZenonT(30) DEF NumPages
<1>2. NumPages(len) \div MaxBioPages \in Nat
  BY <1>1, BioAssumption, DivNat
<1> QED
  BY <1>1, <1>2 DEF NumBios

LEMMA SharedOut ==
    ASSUME NEW len \in Lengths, NEW i \in 0 .. NumBios(len) - 1
    PROVE  /\ BioPages(len, i) \in 1 .. MaxBioPages
           /\ BioSector(i) + BioPages(len, i) * PageSectors =
                IF i = NumBios(len) - 1 THEN NumPages(len) * PageSectors ELSE BioSector(i + 1)
<1> DEFINE n == NumPages(len)
           M == MaxBioPages
           P == PageSectors
           q == n \div M
           x == n % M
<1>1. n \in Nat /\ M \in Nat \ {0} /\ P \in Nat \ {0}
  BY BioAssumption, NumBiosNat
<1>2. q \in Nat /\ x \in 0 .. M - 1 /\ n = M * q + x
  BY <1>1, DivNat, ZenonT(30)
<1>3. NumBios(len) = q + (IF x # 0 THEN 1 ELSE 0)
  BY DEF NumBios, Remainder
<1>4. BioPages(len, i) = IF i < q THEN M ELSE x
  BY DEF BioPages, Remainder
<1>5. BioSector(i) = i * M * P /\ BioSector(i + 1) = (i + 1) * M * P
  BY DEF BioSector
<1> HIDE DEF n, M, P, q, x
<1>6. CASE i < q
  <2>1. BioPages(len, i) = M /\ i * M * P + M * P = (i + 1) * M * P
    BY <1>1, <1>4, <1>6
  <2>2. ASSUME i = NumBios(len) - 1 PROVE (i + 1) * M * P = n * P
    <3>1. x = 0 /\ i + 1 = q
      BY <1>2, <1>3, <1>6, <2>2
    <3>2. n = M * (i + 1) /\ (i + 1) * M = M * (i + 1)
      BY <1>1, <1>2, <3>1
    <3> QED
      BY <3>2
  <2> QED
    BY <1>1, <1>5, <2>1, <2>2 DEF M, P, n
<1>7. CASE ~(i < q)
  <2>1. x # 0 /\ i = q /\ i = NumBios(len) - 1
    BY <1>2, <1>3, <1>7
  <2>2. BioPages(len, i) = x
    BY <1>4, <1>7
  <2>3. i * M * P + x * P = (M * q + x) * P
    BY <1>1, <1>2, <2>1
  <2> QED
    BY <1>1, <1>2, <1>5, <2>1, <2>2, <2>3 DEF M, P, n
<1> QED
  BY <1>6, <1>7

\* The handler of c goes on, with r for its locals.
Put(c, r) == call' = [call EXCEPT ![c] = r]

Alone(c) ==
    call' \in [Clients -> Handlers] /\ \A d \in Clients : d # c => call'[d] = call[d]

LEMMA PutAlone ==
    ASSUME BioTypes, NEW c \in Clients, NEW r \in Handlers, Put(c, r)
    PROVE  Alone(c) /\ call'[c] = r
BY DEF BioTypes, Put, Alone

\* A handler without bios in the block layer's hands leaves the others' as they are.
LEMMA OthersInFlight ==
    ASSUME BioIInv, NEW c \in Clients, Alone(c), raced \subseteq raced', flight' \subseteq flight,
           \A b \in flight' : b.owner # c
    PROVE  (\A b \in flight' : InFlight(b)') /\ OneBio'
<1>1. ASSUME NEW b \in flight' PROVE InFlight(b)'
  <2>1. InFlight(b) /\ b.owner \in Clients /\ b.owner # c
    BY <1>1 DEF BioIInv, InFlight
  <2>2. call'[b.owner] = call[b.owner]
    BY <2>1 DEF Alone
  <2> QED
    BY <2>1, <2>2 DEF InFlight, BioSector, BioPages, NumBios, NumPages, Remainder
<1> QED
  BY <1>1 DEF BioIInv, OneBio

LEMMA NotWaiting ==
    ASSUME BioIInv, NEW c \in Clients, call[c].pc # "wait"
    PROVE  \A b \in flight : b.owner # c
BY DEF BioIInv, InFlight

\* The opens of a device are counted as long as both counts stay.
LEMMA OpensSame ==
    ASSUME OpensCounted, raced' = {} => raced = {}, UNCHANGED opened,
           \A n \in Names : ActiveOn(n)' = ActiveOn(n) /\ Activating(n)' = Activating(n)
    PROVE  OpensCounted'
BY DEF OpensCounted

\* A step that leaves the table alone and is no part of a mount.
LEMMA TableSame ==
    ASSUME BioIInv, NEW c \in Clients, Alone(c), UNCHANGED <<device_list, opened, raced>>,
           ~Mounting(call'[c]), call[c].pc # "activate",
           call'[c].pc = "create" /\ call'[c].dd \notin raced =>
               /\ device_list[call'[c].dd].is_active
               /\ device_list[call'[c].dd].dev_name = call'[c].dev
    PROVE  OneMount' /\ SlotStays' /\ NamesTrue' /\ OpensCounted'
<1>1. \A d \in Clients : d = c \/ call'[d] = call[d]
  BY DEF Alone
<1>2. OneMount'
  BY <1>1 DEF BioIInv, OneMount
<1>3. SlotStays'
  BY <1>1 DEF BioIInv, SlotStays
<1>4. NamesTrue'
  BY DEF BioIInv, NamesTrue
<1>5. \A n \in Names : ActiveOn(n)' = ActiveOn(n) /\ Activating(n)' = Activating(n)
  BY <1>1 DEF ActiveOn, Activating, Calling, Mounting
<1>6. OpensCounted'
  BY <1>5, OpensSame DEF BioIInv
<1> QED
  BY <1>2, <1>3, <1>4, <1>6

\* What is left to show of a step of the handler of c.
LEMMA HandlerStep ==
    ASSUME BioIInv, NEW c \in Clients, Alone(c), Knows(call'[c]),
           device_list' \in [Slots -> Entries], queue_tail' \in Slots,
           opened' \in [Names -> Int], raced' \subseteq Slots,
           OneMount', SlotStays', NamesTrue', OpensCounted',
           \A b \in flight' : InFlight(b)', OneBio', 0 \notin stray'
    PROVE  BioIInv'
<1>1. \A d \in Clients : Knows(call'[d])
  BY DEF Alone, BioIInv
<1>2. \A d \in Clients : Knows(call[d])'
  BY <1>1 DEF Knows, NumBios, NumPages, Remainder, Mounting
<1> QED
  BY <1>2 DEF BioIInv, BioTypes, Alone, FreedBehindFailure

LEMMA QuietHandler ==
    /\ Quiet \in Handlers /\ Knows(Quiet) /\ ~Mounting(Quiet)
    /\ 0 \in Slots /\ <<>> \in Dones
<1>1. 0 \in Slots /\ <<>> \in Dones
  BY BioAssumption DEF Slots, Dones
<1>2. Quiet \in Handlers
  BY <1>1 DEF Quiet, Handlers, BioPCs
<1>3. Quiet.pc = "idle" /\ Quiet.answer = "none"
  BY DEF Quiet
<1> QED
  BY <1>1, <1>2, <1>3 DEF Knows, Mounting

\* A handler that answers is done.
LEMMA Answered ==
    ASSUME BioIInv, NEW c \in Clients, NEW code \in {"ok", "error"}, send_msg_to_usr(c, code)
    PROVE  /\ Alone(c) /\ Knows(call'[c]) /\ ~Mounting(call'[c])
           /\ call'[c].pc = "answered" /\ call'[c].answer = code
<1> DEFINE r == [Quiet EXCEPT !.pc = "answered", !.answer = code]
<1>1. r \in Handlers
  BY QuietHandler, ZenonT(30) DEF Handlers, BioPCs
<1>2. r.pc = "answered" /\ r.answer = code
  BY DEF Quiet
<1>3. Put(c, r) /\ BioTypes
  BY DEF send_msg_to_usr, Put, BioIInv
<1> HIDE DEF r
<1>4. Alone(c) /\ call'[c] = r
  BY <1>1, <1>3, PutAlone
<1> QED
  BY <1>2, <1>4 DEF Knows, Mounting

\* A handler that answers, or has its answer received, without a word to the table.
LEMMA QuietStep ==
    ASSUME BioIInv, NEW c \in Clients, Alone(c), Knows(call'[c]), ~Mounting(call'[c]),
           call'[c].pc # "create", call[c].pc \notin {"activate", "wait"},
           UNCHANGED <<device_list, queue_tail, opened, flight, stray, raced>>
    PROVE  BioIInv'
<1>1. OneMount' /\ SlotStays' /\ NamesTrue' /\ OpensCounted'
  BY TableSame
<1>2. (\A b \in flight' : InFlight(b)') /\ OneBio'
  BY NotWaiting, OthersInFlight
<1> QED
  BY <1>1, <1>2, HandlerStep DEF BioIInv, BioTypes, FreedBehindFailure

LEMMA ReceiveInv == ASSUME BioIInv, NEW c \in Clients, Receive(c) PROVE BioIInv'
<1>1. Put(c, Quiet) /\ BioTypes /\ call[c].pc = "answered"
  BY DEF Receive, Put, BioIInv, Calling
<1>2. Alone(c) /\ call'[c] = Quiet
  BY <1>1, QuietHandler, PutAlone
<1>3. Quiet.pc = "idle"
  BY DEF Quiet
<1> QED
  BY <1>1, <1>2, <1>3, QuietHandler, QuietStep DEF Receive

LEMMA CreateFailsInv == ASSUME BioIInv, NEW c \in Clients, CreateFails(c) PROVE BioIInv'
<1>1. call[c].pc = "create" /\ send_msg_to_usr(c, "error")
  BY DEF CreateFails, Calling
<1> QED
  BY <1>1, Answered, QuietStep DEF CreateFails

\* The I/O finds its device in the table.
LEMMA IoBypassInv ==
    ASSUME BioIInv, NEW c \in Clients, NEW n \in Names, NEW len \in Lengths, io_bypass(c, n, len)
    PROVE  BioIInv'
<1>1. call[c].pc = "idle" /\ UNCHANGED <<device_list, queue_tail, opened, flight, stray, raced>>
  BY ZenonT(30) DEF io_bypass, Calling
<1>2. CASE send_msg_to_usr(c, "error")
  BY <1>1, <1>2, Answered, QuietStep
<1>3. ASSUME NEW s \in find_block_device(n),
             Put(c, [Quiet EXCEPT !.pc = "create", !.dev = n, !.dd = s, !.len = len])
      PROVE  BioIInv'
  <2> DEFINE r == [Quiet EXCEPT !.pc = "create", !.dev = n, !.dd = s, !.len = len]
  <2>1. s \in Slots /\ device_list[s].is_active /\ device_list[s].dev_name = n
    BY DEF find_block_device
  <2>2. r \in Handlers
    BY <2>1, QuietHandler, ZenonT(30) DEF Handlers, BioPCs
  <2>3. r.pc = "create" /\ r.dev = n /\ r.dd = s /\ r.len = len /\ r.i = 0 /\ r.answer = "none"
    BY DEF Quiet
  <2> HIDE DEF r
  <2>4. Alone(c) /\ call'[c] = r
    BY <1>3, <2>2, PutAlone DEF BioIInv, r
  <2>5. Knows(r) /\ ~Mounting(r)
    BY <2>3 DEF Knows, Mounting
  <2>6. OneMount' /\ SlotStays' /\ NamesTrue' /\ OpensCounted'
    BY <1>1, <2>1, <2>3, <2>4, <2>5, TableSame
  <2>7. (\A b \in flight' : InFlight(b)') /\ OneBio'
    BY <1>1, <2>4, NotWaiting, OthersInFlight
  <2> QED
    BY <1>1, <2>4, <2>5, <2>6, <2>7, HandlerStep DEF BioIInv, BioTypes, FreedBehindFailure
<1> QED
  BY <1>2, <1>3, ZenonT(30) DEF io_bypass, Put

\* The bios of a request go to the device the slot holds, each of them unfinished.
LEMMA CreateAndSubmitInv ==
    ASSUME BioIInv, NEW c \in Clients, CreateAndSubmit(c)
    PROVE  BioIInv'
<1> PICK len \in Lengths : len = call[c].len
  BY DEF BioIInv, Knows, CreateAndSubmit, Calling
<1> PICK e : e = device_list[call[c].dd].bdev
  OBVIOUS
<1> DEFINE N == NumBios(len)
           bio(i) == [owner |-> c, i |-> i, sector |-> BioSector(i),
                      pages |-> BioPages(len, i), bdev |-> e]
           done == [i \in 0 .. N - 1 |-> "no"]
           r == [call[c] EXCEPT !.pc = "wait", !.done = done]
<1>1. /\ call[c].pc = "create" /\ call[c] \in Handlers /\ call[c].i = 0 /\ call[c].answer = "none"
      /\ call \in [Clients -> Handlers]
  BY DEF CreateAndSubmit, Calling, BioIInv, BioTypes, Knows
<1>2. flight' = flight \cup {bio(i) : i \in 0 .. N - 1}
  BY DEF CreateAndSubmit
<1>3. UNCHANGED <<device_list, queue_tail, opened, stray, raced>>
  BY DEF CreateAndSubmit
<1>4. Put(c, r)
  BY <1>1, ZenonT(30) DEF CreateAndSubmit, Put
<1>5. N \in Nat /\ done \in [0 .. N - 1 -> Ends] /\ \A i \in 0 .. N - 1 : done[i] = "no"
  BY NumBiosNat DEF Ends
<1>6. done \in Dones
  BY <1>5 DEF Dones
<1> HIDE DEF done
<1>7. r \in Handlers
  BY <1>1, <1>6, ZenonT(30) DEF Handlers, BioPCs
<1>8. /\ r.pc = "wait" /\ r.done = done /\ r.i = 0 /\ r.len = len /\ r.answer = "none"
      /\ r.dev = call[c].dev /\ r.dd = call[c].dd
  BY <1>1 DEF Handlers
<1> HIDE DEF r
<1>9. Alone(c) /\ call'[c] = r
  BY <1>4, <1>7, PutAlone DEF BioIInv
<1>10. Knows(r) /\ ~Mounting(r)
  BY <1>5, <1>8 DEF Knows, Mounting
<1>11. OneMount' /\ SlotStays' /\ NamesTrue' /\ OpensCounted'
  BY <1>1, <1>3, <1>8, <1>9, <1>10, TableSame
<1>12. e = call[c].dev \/ call[c].dd \in raced
  BY <1>1 DEF BioIInv, SlotStays, NamesTrue, Handlers
<1>13. ASSUME NEW i \in 0 .. N - 1 PROVE InFlight(bio(i))'
  <2>1. /\ bio(i).owner = c /\ bio(i).i = i /\ bio(i).sector = BioSector(i)
        /\ bio(i).pages = BioPages(len, i) /\ bio(i).bdev = e
    BY ZenonT(30)
  <2> QED
    BY <1>3, <1>5, <1>8, <1>9, <1>12, <2>1, ZenonT(30)
       DEF InFlight, BioSector, BioPages, NumBios, NumPages, Remainder
<1>14. ASSUME NEW b \in flight PROVE InFlight(b)' /\ b.owner # c
  <2>1. InFlight(b) /\ b.owner \in Clients /\ b.owner # c
    BY <1>1, ZenonT(30) DEF BioIInv, InFlight
  <2>2. call'[b.owner] = call[b.owner]
    BY <1>9, <2>1 DEF Alone
  <2> QED
    BY <1>3, <2>1, <2>2, ZenonT(30) DEF InFlight, BioSector, BioPages, NumBios, NumPages, Remainder
<1>15. \A b \in flight' : InFlight(b)'
  BY <1>2, <1>13, <1>14, ZenonT(30)
<1>16. OneBio'
  BY <1>2, <1>14 DEF BioIInv, OneBio
<1> QED
  BY <1>3, <1>9, <1>10, <1>11, <1>15, <1>16, HandlerStep, ZenonT(30) DEF BioIInv, BioTypes, FreedBehindFailure

\* One bio is done, and the handler looks at the next.
LEMMA WaitNextInv == ASSUME BioIInv, NEW c \in Clients, WaitNext(c) PROVE BioIInv'
<1> PICK len \in Lengths : len = call[c].len
  BY DEF BioIInv, Knows, WaitNext, Calling
<1> DEFINE r == [call[c] EXCEPT !.i = @ + 1]
<1>1. /\ call[c].pc = "wait" /\ call[c] \in Handlers /\ call[c].answer = "none"
      /\ call \in [Clients -> Handlers] /\ call[c].i \in Nat
      /\ call[c].done \in [0 .. NumBios(len) - 1 -> Ends]
      /\ \A j \in 0 .. call[c].i - 1 : call[c].done[j] = "ok"
  BY DEF WaitNext, Calling, BioIInv, BioTypes, Knows, Handlers
<1>2. call[c].i < NumBios(len) /\ call[c].done[call[c].i] = "ok" /\ NumBios(len) \in Nat
  BY <1>1, NumBiosNat DEF WaitNext, AllWaited
<1>3. UNCHANGED <<device_list, queue_tail, opened, flight, stray, raced>>
  BY DEF WaitNext
<1>4. Put(c, r)
  BY <1>1 DEF WaitNext, Put
<1>5. r \in Handlers
  BY <1>1 DEF Handlers
<1>6. /\ r.pc = "wait" /\ r.done = call[c].done /\ r.i = call[c].i + 1 /\ r.len = len
      /\ r.answer = "none" /\ r.dev = call[c].dev /\ r.dd = call[c].dd
  BY <1>1 DEF Handlers
<1> HIDE DEF r
<1>7. Alone(c) /\ call'[c] = r
  BY <1>4, <1>5, PutAlone DEF BioIInv
<1>8. Knows(r) /\ ~Mounting(r)
  BY <1>1, <1>2, <1>6 DEF Knows, Mounting
<1>9. OneMount' /\ SlotStays' /\ NamesTrue' /\ OpensCounted'
  BY <1>1, <1>3, <1>6, <1>7, <1>8, TableSame, ZenonT(30)
<1>10. ASSUME NEW b \in flight PROVE InFlight(b)'
  <2>1. InFlight(b) /\ b.owner \in Clients
    BY DEF BioIInv, InFlight
  <2>2. b.owner = c \/ call'[b.owner] = call[b.owner]
    BY <1>7, <2>1 DEF Alone
  <2> QED
    BY <1>1, <1>3, <1>6, <1>7, <2>1, <2>2, ZenonT(30)
       DEF InFlight, BioSector, BioPages, NumBios, NumPages, Remainder
<1>11. (\A b \in flight' : InFlight(b)') /\ OneBio'
  BY <1>3, <1>10 DEF BioIInv, OneBio
<1> QED
  BY <1>3, <1>7, <1>8, <1>9, <1>11, HandlerStep DEF BioIInv, BioTypes, FreedBehindFailure

\* When the loop of wait_for_bios has seen every bio, each ended well and the block
\* layer holds none.
LEMMA AllDone ==
    ASSUME BioIInv, NEW c \in Clients, Calling(c, "wait"), AllWaited(c)
    PROVE  /\ \A i \in 0 .. NumBios(call[c].len) - 1 : call[c].done[i] = "ok"
           /\ \A b \in flight : b.owner # c
<1> PICK len \in Lengths : len = call[c].len
  BY DEF BioIInv, Knows, Calling
<1>1. /\ NumBios(len) \in Nat /\ call[c].i \in Nat /\ call[c].i >= NumBios(len)
      /\ \A j \in 0 .. call[c].i - 1 : call[c].done[j] = "ok"
  BY NumBiosNat DEF BioIInv, BioTypes, Handlers, Knows, Calling, AllWaited
<1>2. \A i \in 0 .. NumBios(len) - 1 : call[c].done[i] = "ok"
  BY <1>1
<1> QED
  BY <1>2 DEF BioIInv, InFlight

\* The bios a handler frees are behind the one that failed.
LEMMA FreeBiosInv ==
    ASSUME BioIInv, NEW c \in Clients, call[c].pc = "wait", FreeBios(c),
           NEW code \in {"ok", "error"}, send_msg_to_usr(c, code),
           UNCHANGED <<device_list, queue_tail, opened, raced>>,
           \A b \in flight : b.owner = c => b.i # 0
    PROVE  BioIInv'
<1>1. /\ Alone(c) /\ Knows(call'[c]) /\ ~Mounting(call'[c]) /\ call'[c].pc = "answered"
  BY Answered
<1>2. OneMount' /\ SlotStays' /\ NamesTrue' /\ OpensCounted'
  BY <1>1, TableSame, ZenonT(30)
<1>3. (\A b \in flight' : InFlight(b)') /\ OneBio'
  BY <1>1, OthersInFlight, ZenonT(30) DEF FreeBios
<1>4. 0 \notin stray'
  BY ZenonT(30) DEF FreeBios, BioIInv, FreedBehindFailure
<1> QED
  BY <1>1, <1>2, <1>3, <1>4, HandlerStep, ZenonT(30) DEF BioIInv, BioTypes

LEMMA WaitFailsInv == ASSUME BioIInv, NEW c \in Clients, WaitFails(c) PROVE BioIInv'
<1> PICK k \in Nat : k = call[c].i
  BY DEF BioIInv, BioTypes, Handlers
<1>1. /\ call[c].pc = "wait" /\ call[c].done[k] = "failed"
      /\ \A j \in 0 .. k - 1 : call[c].done[j] = "ok"
  BY ZenonT(30) DEF WaitFails, Calling, BioIInv, Knows
<1>2. ASSUME NEW b \in flight, b.owner = c PROVE b.i # 0
  <2>1. call[c].done[b.i] = "no"
    BY <1>2 DEF BioIInv, InFlight
  <2> QED
    BY <1>1, <2>1
<1> QED
  BY <1>1, <1>2, FreeBiosInv DEF WaitFails

LEMMA IODoneInv == ASSUME BioIInv, NEW c \in Clients, IODone(c) PROVE BioIInv'
<1>1. \A b \in flight : b.owner # c
  BY AllDone DEF IODone
<1> QED
  BY <1>1, FreeBiosInv DEF IODone, Calling

\* The device ends a bio: its handler is told, once.
LEMMA IoCompleteInv ==
    ASSUME BioIInv, NEW b \in flight, io_complete(b)
    PROVE  BioIInv'
<1> PICK c \in Clients : c = b.owner
  BY DEF BioIInv, InFlight
<1> PICK len \in Lengths : len = call[c].len
  BY DEF BioIInv, InFlight, Knows
<1> PICK j \in 0 .. NumBios(len) - 1 : j = b.i
  BY DEF BioIInv, InFlight
<1>1. /\ call[c].pc = "wait" /\ call[c] \in Handlers /\ call[c].answer = "none"
      /\ call \in [Clients -> Handlers] /\ call[c].i \in Nat /\ call[c].i <= NumBios(len)
      /\ call[c].done \in [0 .. NumBios(len) - 1 -> Ends]
      /\ \A m \in 0 .. call[c].i - 1 : call[c].done[m] = "ok"
  BY ZenonT(30) DEF BioIInv, BioTypes, InFlight, Knows, Handlers
<1>2. call[c].done[j] = "no" /\ NumBios(len) \in Nat
  BY NumBiosNat, ZenonT(30) DEF BioIInv, InFlight
<1>3. flight' = flight \ {b} /\ UNCHANGED <<device_list, queue_tail, opened, stray, raced>>
  BY DEF io_complete
<1> PICK status \in {"ok", "failed"} : call' = [call EXCEPT ![c].done[j] = status]
  BY ZenonT(30) DEF io_complete
<1> DEFINE done == [call[c].done EXCEPT ![j] = status]
           r == [call[c] EXCEPT !.done = done]
<1>4. Put(c, r)
  BY <1>1 DEF Put
<1>5. done \in [0 .. NumBios(len) - 1 -> Ends] /\ \A m \in 0 .. NumBios(len) - 1 : m # j =>
         done[m] = call[c].done[m]
  BY <1>1 DEF Ends
<1>6. done \in Dones
  BY <1>5 DEF Dones
<1> HIDE DEF done
<1>7. r \in Handlers
  BY <1>1, <1>6 DEF Handlers
<1>8. /\ r.pc = "wait" /\ r.done = done /\ r.i = call[c].i /\ r.len = len
      /\ r.answer = "none" /\ r.dev = call[c].dev /\ r.dd = call[c].dd
  BY <1>1 DEF Handlers
<1> HIDE DEF r
<1>9. Alone(c) /\ call'[c] = r
  BY <1>4, <1>7, PutAlone DEF BioIInv
<1>10. ASSUME NEW m \in 0 .. r.i - 1 PROVE done[m] = "ok"
  <2>1. m \in 0 .. NumBios(len) - 1 /\ call[c].done[m] = "ok"
    BY <1>1, <1>2, <1>8
  <2> QED
    BY <1>2, <1>5, <2>1
<1>11. Knows(r) /\ ~Mounting(r)
  BY <1>1, <1>5, <1>8, <1>10 DEF Knows, Mounting
<1>12. OneMount' /\ SlotStays' /\ NamesTrue' /\ OpensCounted'
  BY <1>1, <1>3, <1>8, <1>9, <1>11, TableSame
<1>13. ASSUME NEW d \in flight, d # b PROVE InFlight(d)'
  <2>1. InFlight(d) /\ d.owner \in Clients /\ (d.owner = c => d.i # j)
    BY <1>13 DEF BioIInv, InFlight, OneBio
  <2>2. CASE d.owner # c
    <3>1. call'[d.owner] = call[d.owner]
      BY <1>9, <2>1, <2>2 DEF Alone
    <3> QED
      BY <1>3, <2>1, <3>1 DEF InFlight, BioSector, BioPages, NumBios, NumPages, Remainder
  <2>3. CASE d.owner = c
    <3>1. /\ d.i \in 0 .. NumBios(len) - 1 /\ call[c].done[d.i] = "no"
          /\ d.sector = BioSector(d.i) /\ d.pages = BioPages(len, d.i)
          /\ d.bdev = call[c].dev \/ call[c].dd \in raced
      BY <2>1, <2>3 DEF InFlight
    <3>2. call'[d.owner].done[d.i] = "no"
      BY <1>5, <1>8, <1>9, <2>1, <2>3, <3>1
    <3>3. /\ call'[d.owner].pc = "wait" /\ call'[d.owner].len = len
          /\ call'[d.owner].dev = call[c].dev /\ call'[d.owner].dd = call[c].dd
          /\ raced' = raced /\ d.owner \in Clients
      BY <1>3, <1>8, <1>9, <2>3, ZenonT(30)
    <3> QED
      BY <3>1, <3>2, <3>3 DEF InFlight, BioSector, BioPages, NumBios, NumPages, Remainder
  <2> QED
    BY <2>2, <2>3
<1>14. (\A d \in flight' : InFlight(d)') /\ OneBio'
  BY <1>3, <1>13 DEF BioIInv, OneBio
<1> QED
  BY <1>3, <1>9, <1>8, <1>11, <1>12, <1>14, HandlerStep DEF BioIInv, BioTypes, FreedBehindFailure

LEMMA StrayInv == ASSUME BioIInv, NEW i \in stray, StrayCompletion(i) PROVE BioIInv'
<1>1. UNCHANGED <<device_list, queue_tail, opened, call, flight, raced>> /\ stray' \subseteq stray
  BY DEF StrayCompletion
<1>2. BioTypes' /\ OneMount' /\ SlotStays' /\ NamesTrue'
  BY <1>1 DEF BioIInv, BioTypes, OneMount, SlotStays, NamesTrue
<1>3. OpensCounted'
  BY <1>1 DEF BioIInv, OpensCounted, ActiveOn, Activating, Calling
<1>4. (\A c \in Clients : Knows(call[c]))' /\ (\A b \in flight' : InFlight(b)') /\ OneBio'
  BY <1>1, ZenonT(30)
     DEF BioIInv, Knows, InFlight, OneBio, BioSector, BioPages, NumBios, NumPages, Remainder, Mounting
<1> QED
  BY <1>1, <1>2, <1>3, <1>4 DEF BioIInv, FreedBehindFailure

\* A mount writes the slot it was given, and no other.
SlotOnly(s) ==
    device_list' \in [Slots -> Entries] /\ \A u \in Slots : u # s => device_list'[u] = device_list[u]

\* What is left to show of a step of a mount: the handler of c works on slot s.
LEMMA MountStep ==
    ASSUME BioIInv, NEW c \in Clients, call[c].pc # "wait", Alone(c), Knows(call'[c]),
           NEW s \in Slots, SlotOnly(s), queue_tail' \in Slots, opened' \in [Names -> Int],
           raced' \subseteq Slots, raced \subseteq raced', UNCHANGED <<flight, stray>>,
           call'[c].pc # "create", Mounting(call'[c]) => call'[c].dd = s,
           \A d \in Clients : d # c /\ Mounting(call[d]) /\ call[d].dd = s => s \in raced',
           s \notin raced' /\ Mounting(call'[c]) =>
               /\ ~device_list'[s].is_active /\ device_list'[s].dev_name = call'[c].dev
               /\ call'[c].pc = "activate" => device_list'[s].bdev = call'[c].dev,
           s \notin raced' /\ device_list[s].is_active =>
               device_list'[s].is_active /\ device_list'[s].dev_name = device_list[s].dev_name,
           s \notin raced' /\ device_list'[s].is_active =>
               device_list'[s].bdev = device_list'[s].dev_name,
           OpensCounted'
    PROVE  BioIInv'
<1>1. \A d \in Clients : d = c \/ call'[d] = call[d]
  BY DEF Alone
<1>2. \A u \in Slots : u = s \/ device_list'[u] = device_list[u]
  BY DEF SlotOnly
<1>3. \A d \in Clients : call[d].dd \in Slots
  BY ZenonT(30) DEF BioIInv, BioTypes, Handlers
<1>4. ASSUME NEW a \in Clients, NEW d \in Clients, Mounting(call'[a]), Mounting(call'[d]),
             call'[a].dd = call'[d].dd
      PROVE  a = d \/ call'[a].dd \in raced'
  <2>1. CASE a # c /\ d # c
    BY <1>1, <1>4, <2>1, ZenonT(30) DEF BioIInv, OneMount
  <2>2. CASE a = c \/ d = c
    BY <1>1, <1>4, <2>2
  <2> QED
    BY <2>1, <2>2, ZenonT(30)
<1>5. ASSUME NEW d \in Clients, Mounting(call'[d]), call'[d].dd \notin raced'
      PROVE  /\ ~device_list'[call'[d].dd].is_active
             /\ device_list'[call'[d].dd].dev_name = call'[d].dev
             /\ call'[d].pc = "activate" => device_list'[call'[d].dd].bdev = call'[d].dev
  <2>1. CASE d = c
    BY <1>5, <2>1
  <2>2. CASE d # c
    <3>1. call'[d] = call[d] /\ call[d].dd \notin raced
      BY <1>1, <1>5, <2>2
    <3>2. /\ ~device_list[call[d].dd].is_active /\ device_list[call[d].dd].dev_name = call[d].dev
          /\ call[d].pc = "activate" => device_list[call[d].dd].bdev = call[d].dev
      BY <1>5, <3>1, ZenonT(30) DEF BioIInv, OneMount
    <3>3. CASE call[d].dd = s
      BY <1>5, <2>2, <3>1, <3>2, <3>3
    <3>4. CASE call[d].dd # s
      BY <1>2, <1>3, <3>1, <3>2, <3>4
    <3> QED
      BY <3>3, <3>4, ZenonT(30)
  <2> QED
    BY <2>1, <2>2
<1>6. OneMount'
  BY <1>4, <1>5, ZenonT(30) DEF OneMount, Mounting
<1>7. ASSUME NEW d \in Clients, call'[d].pc = "create", call'[d].dd \notin raced'
      PROVE  device_list'[call'[d].dd].is_active /\ device_list'[call'[d].dd].dev_name = call'[d].dev
  <2>1. call'[d] = call[d] /\ call[d].dd \notin raced
    BY <1>1, <1>7
  <2>2. device_list[call[d].dd].is_active /\ device_list[call[d].dd].dev_name = call[d].dev
    BY <1>7, <2>1, ZenonT(30) DEF BioIInv, SlotStays
  <2> QED
    BY <1>2, <1>3, <1>7, <2>1, <2>2, ZenonT(30)
<1>8. SlotStays'
  BY <1>7, ZenonT(30) DEF SlotStays
<1>9. NamesTrue'
  BY <1>2, ZenonT(30) DEF BioIInv, NamesTrue
<1>10. (\A b \in flight' : InFlight(b)') /\ OneBio'
  BY NotWaiting, OthersInFlight
<1> QED
  BY <1>6, <1>8, <1>9, <1>10, HandlerStep, ZenonT(30) DEF SlotOnly, BioIInv, FreedBehindFailure

\* A mount is given a slot; a slot it has to share is in raced from then on.
LEMMA AllocInv ==
    ASSUME BioIInv, NEW c \in Clients, NEW n \in Names, alloc_block_device(c, n)
    PROVE  BioIInv'
<1> DEFINE begun == [Quiet EXCEPT !.dev = n]
<1>1. call[c].pc = "idle" /\ UNCHANGED <<opened, flight, stray>> /\ BioTypes
  BY ZenonT(30) DEF alloc_block_device, Calling, BioIInv
<1>2. ASSUME Put(c, [begun EXCEPT !.pc = "oops"]), UNCHANGED <<device_list, queue_tail, raced>>
      PROVE  BioIInv'
  <2> DEFINE r == [begun EXCEPT !.pc = "oops"]
  <2>1. r \in Handlers
    BY QuietHandler, ZenonT(30) DEF Handlers, BioPCs
  <2>2. r.pc = "oops" /\ r.answer = "none"
    BY DEF Quiet
  <2> HIDE DEF r
  <2>3. Alone(c) /\ call'[c] = r
    BY <1>1, <1>2, <2>1, PutAlone DEF r
  <2>4. Knows(r) /\ ~Mounting(r)
    BY <2>2 DEF Knows, Mounting
  <2> QED
    BY <1>1, <1>2, <2>2, <2>3, <2>4, QuietStep
<1>3. ASSUME NEW i \in FreeProbes, NEW s, s = SlotAt(i),
             device_list' = [device_list EXCEPT ![s].dev_name = n],
             queue_tail' = SlotAt(1 % MaxMounted),
             Put(c, [begun EXCEPT !.pc = "open", !.dd = s]),
             raced' = IF MountInProgress(s) THEN raced \cup {s} ELSE raced
      PROVE  BioIInv'
  <2>1. \A x \in Int : SlotAt(x) \in Slots
    BY <1>1, BioAssumption, ModDef DEF SlotAt, BioTypes, Slots
  <2>2. i \in Int /\ 1 % MaxMounted \in Int /\ ~device_list[SlotAt(i)].is_active
    BY BioAssumption, ModDef DEF FreeProbes, Slots
  <2>3. s \in Slots /\ queue_tail' \in Slots /\ ~device_list[s].is_active
    BY <1>3, <2>1, <2>2
  <2>4. SlotOnly(s)
    BY <1>1, <1>3, <2>3 DEF BioTypes, SlotOnly, Entries
  <2>5. /\ device_list'[s].dev_name = n /\ ~device_list'[s].is_active
        /\ \A u \in Slots : /\ device_list'[u].is_active = device_list[u].is_active
                            /\ device_list'[u].bdev = device_list[u].bdev
    BY <1>1, <1>3, <2>3 DEF BioTypes, Entries
  <2> DEFINE r == [begun EXCEPT !.pc = "open", !.dd = s]
  <2>6. r \in Handlers
    BY <2>3, QuietHandler, ZenonT(30) DEF Handlers, BioPCs
  <2>7. r.pc = "open" /\ r.dd = s /\ r.dev = n /\ r.answer = "none"
    BY DEF Quiet
  <2> HIDE DEF r
  <2>8. Alone(c) /\ call'[c] = r
    BY <1>1, <1>3, <2>6, PutAlone DEF r
  <2>9. Knows(r) /\ Mounting(r)
    BY <2>7 DEF Knows, Mounting
  <2>10. raced' \subseteq Slots /\ raced \subseteq raced'
    BY <1>1, <1>3, <2>3 DEF BioTypes
  <2>11. \A d \in Clients : d # c /\ Mounting(call[d]) /\ call[d].dd = s => s \in raced'
    BY <1>3 DEF MountInProgress, Mounting
  <2>12. \A m \in Names : ActiveOn(m)' = ActiveOn(m) /\ Activating(m)' = Activating(m)
    BY <1>1, <2>5, <2>7, <2>8 DEF ActiveOn, Activating, Calling, Alone
  <2>13. OpensCounted'
    BY <1>1, <2>10, <2>12, OpensSame DEF BioIInv
  <2>14. Knows(call'[c]) /\ call'[c].pc = "open" /\ call'[c].dd = s /\ call'[c].dev = n
    BY <2>7, <2>8, <2>9
  <2>15. opened' \in [Names -> Int] /\ call[c].pc # "wait" /\ UNCHANGED <<flight, stray>>
    BY <1>1 DEF BioTypes
  <2>16. /\ call'[c].pc # "create" /\ (Mounting(call'[c]) => call'[c].dd = s)
         /\ s \notin raced' /\ Mounting(call'[c]) =>
               /\ ~device_list'[s].is_active /\ device_list'[s].dev_name = call'[c].dev
               /\ call'[c].pc = "activate" => device_list'[s].bdev = call'[c].dev
         /\ s \notin raced' /\ device_list[s].is_active =>
               device_list'[s].is_active /\ device_list'[s].dev_name = device_list[s].dev_name
         /\ s \notin raced' /\ device_list'[s].is_active =>
               device_list'[s].bdev = device_list'[s].dev_name
    BY <2>3, <2>5, <2>14
  <2> QED
    BY <2>3, <2>4, <2>8, <2>10, <2>11, <2>13, <2>14, <2>15, <2>16, MountStep, ZenonT(30)
<1> QED
  BY <1>2, <1>3, ZenonT(30) DEF alloc_block_device, Put

\* The sets that are counted are finite.
LEMMA CountsFinite ==
    ASSUME NEW n
    PROVE  /\ IsFiniteSet(ActiveOn(n)) /\ Cardinality(ActiveOn(n)) \in Nat
           /\ IsFiniteSet(Activating(n)) /\ Cardinality(Activating(n)) \in Nat
<1>1. IsFiniteSet(Slots)
  BY BioAssumption, FS_Interval DEF Slots
<1>2. ActiveOn(n) \subseteq Slots /\ Activating(n) \subseteq Clients
  BY DEF ActiveOn, Activating
<1>3. IsFiniteSet(ActiveOn(n)) /\ IsFiniteSet(Activating(n))
  BY <1>1, <1>2, BioAssumption, FS_Subset
<1> QED
  BY <1>3, FS_CardinalityType

\* A mount that has its slot: its handler goes on at p, on slot s for device n.
LEMMA MountGoesOn ==
    ASSUME BioIInv, NEW c \in Clients, call[c].pc = "open", NEW p \in {"activate", "reject"},
           call' = [call EXCEPT ![c].pc = p]
    PROVE  /\ Alone(c) /\ Knows(call'[c]) /\ Mounting(call'[c]) /\ Mounting(call[c])
           /\ call'[c].pc = p /\ call'[c].dd = call[c].dd /\ call'[c].dev = call[c].dev
<1> DEFINE r == [call[c] EXCEPT !.pc = p]
<1>1. call[c] \in Handlers /\ call \in [Clients -> Handlers] /\ Knows(call[c]) /\ Mounting(call[c])
  BY DEF BioIInv, BioTypes, Mounting
<1>2. r \in Handlers
  BY <1>1 DEF Handlers, BioPCs
<1>3. r.pc = p /\ r.dd = call[c].dd /\ r.dev = call[c].dev /\ r.answer = call[c].answer
  BY <1>1 DEF Handlers
<1>4. Put(c, r)
  BY <1>1 DEF Put
<1> HIDE DEF r
<1>5. Alone(c) /\ call'[c] = r
  BY <1>2, <1>4, PutAlone DEF BioIInv
<1>6. Mounting(r)
  BY <1>3 DEF Mounting
<1>7. Knows(r)
  BY <1>1, <1>3 DEF Knows, Mounting
<1> QED
  BY <1>1, <1>3, <1>5, <1>6, <1>7

\* What a mount knows of its slot.
LEMMA MountKnows ==
    ASSUME BioIInv, NEW c \in Clients, Mounting(call[c])
    PROVE  /\ call[c].dd \in Slots /\ call[c].dev \in Names /\ device_list[call[c].dd] \in Entries
           /\ \A d \in Clients : d # c /\ Mounting(call[d]) /\ call[d].dd = call[c].dd =>
                 call[c].dd \in raced
           /\ call[c].dd \notin raced =>
                /\ ~device_list[call[c].dd].is_active
                /\ device_list[call[c].dd].dev_name = call[c].dev
                /\ call[c].pc = "activate" => device_list[call[c].dd].bdev = call[c].dev
<1>1. call[c].dd \in Slots
  BY DEF BioIInv, BioTypes, Handlers
<1>2. call[c].dev \in Names
  BY ZenonT(30) DEF BioIInv, Knows
<1>3. device_list[call[c].dd] \in Entries
  BY <1>1 DEF BioIInv, BioTypes
<1> QED
  BY <1>1, <1>2, <1>3 DEF BioIInv, OneMount

\* The device is opened, or cannot be.
LEMMA GetByPathInv == ASSUME BioIInv, NEW c \in Clients, blkdev_get_by_path(c) PROVE BioIInv'
<1> PICK s \in Slots : s = call[c].dd
  BY DEF BioIInv, BioTypes, Handlers
<1>1. /\ call[c].pc = "open" /\ Mounting(call[c]) /\ UNCHANGED <<queue_tail, flight, stray, raced>>
      /\ BioTypes
  BY DEF blkdev_get_by_path, Calling, BioIInv, Mounting
<1> PICK n \in Names : n = call[c].dev
  BY <1>1, MountKnows
<1>2. /\ device_list[s] \in Entries
      /\ \A d \in Clients : d # c /\ Mounting(call[d]) /\ call[d].dd = s => s \in raced
      /\ s \notin raced => ~device_list[s].is_active /\ device_list[s].dev_name = n
  BY <1>1, MountKnows
<1>3. ASSUME NEW e \in Names \cup {NoDev}, NEW p \in {"activate", "reject"},
             p = "activate" => e = n,
             device_list' = [device_list EXCEPT ![s].bdev = e],
             call' = [call EXCEPT ![c].pc = p],
             opened' = IF p = "activate" THEN [opened EXCEPT ![n] = @ + 1] ELSE opened
      PROVE  BioIInv'
  <2>1. /\ Alone(c) /\ Knows(call'[c]) /\ Mounting(call'[c])
        /\ call'[c].pc = p /\ call'[c].dd = s /\ call'[c].dev = n
    BY <1>1, <1>3, MountGoesOn, ZenonT(30)
  <2>2. SlotOnly(s)
    BY <1>1, <1>3 DEF BioTypes, SlotOnly, Entries
  <2>3. /\ device_list'[s].bdev = e
        /\ \A u \in Slots : /\ device_list'[u].is_active = device_list[u].is_active
                            /\ device_list'[u].dev_name = device_list[u].dev_name
                            /\ u # s => device_list'[u].bdev = device_list[u].bdev
    BY <1>1, <1>3 DEF BioTypes, Entries
  <2>4. opened' \in [Names -> Int]
    BY <1>1, <1>3 DEF BioTypes
  <2>5. ASSUME raced = {}, NEW m \in Names
        PROVE  opened'[m] = Cardinality(ActiveOn(m)') + Cardinality(Activating(m)')
    <3>1. opened[m] = Cardinality(ActiveOn(m)) + Cardinality(Activating(m)) /\ opened[m] \in Int
      BY <1>1, <2>5 DEF BioIInv, OpensCounted, BioTypes
    <3>2. ActiveOn(m)' = ActiveOn(m)
      BY <1>2, <2>3, <2>5 DEF ActiveOn
    <3>3. CASE m = n /\ p = "activate"
      <4>1. Activating(m)' = Activating(m) \cup {c} /\ c \notin Activating(m)
        BY <1>1, <2>1, <3>3, ZenonT(30) DEF Activating, Calling, Alone
      <4>2. Cardinality(Activating(m)') = Cardinality(Activating(m)) + 1
        BY <4>1, CountsFinite, FS_AddElement, ZenonT(30)
      <4>3. opened'[m] = opened[m] + 1
        BY <1>1, <1>3, <3>3 DEF BioTypes
      <4>4. Cardinality(ActiveOn(m)) \in Nat /\ Cardinality(Activating(m)) \in Nat
        BY CountsFinite, ZenonT(30)
      <4> QED
        BY <3>1, <3>2, <4>2, <4>3, <4>4
    <3>4. CASE ~(m = n /\ p = "activate")
      <4>1. Activating(m)' = Activating(m)
        BY <1>1, <2>1, <3>4 DEF Activating, Calling, Alone
      <4>2. opened'[m] = opened[m]
        BY <1>1, <1>3, <3>4 DEF BioTypes
      <4> QED
        BY <3>1, <3>2, <4>1, <4>2
    <3> QED
      BY <3>3, <3>4
  <2>6. OpensCounted'
    BY <1>1, <2>5 DEF OpensCounted
  <2> QED
    BY <1>1, <1>2, <1>3, <2>1, <2>2, <2>3, <2>4, <2>6, MountStep DEF BioTypes
<1>4. CASE call' = [call EXCEPT ![c].pc = "activate"]
  <2>1. device_list' = [device_list EXCEPT ![s].bdev = n] /\ opened' = [opened EXCEPT ![n] = @ + 1]
    BY <1>1, <1>4 DEF blkdev_get_by_path, BioTypes, Handlers
  <2> QED
    BY <1>3, <1>4, <2>1, ZenonT(30)
<1>5. CASE call' = [call EXCEPT ![c].pc = "reject"]
  <2>1. device_list' = [device_list EXCEPT ![s].bdev = NoDev] /\ opened' = opened
    BY <1>1, <1>5 DEF blkdev_get_by_path, BioTypes, Handlers
  <2> QED
    BY <1>3, <1>5, <2>1, ZenonT(30)
<1> QED
  BY <1>4, <1>5 DEF blkdev_get_by_path

\* A mount ends: it leaves its slot active if it could open the device.
LEMMA MountEnds ==
    ASSUME BioIInv, NEW c \in Clients, Mounting(call[c]), NEW s \in Slots, s = call[c].dd,
           NEW code \in {"ok", "error"}, send_msg_to_usr(c, code),
           NEW active \in BOOLEAN, active <=> Calling(c, "activate"),
           device_list' = [device_list EXCEPT ![s].is_active = active],
           UNCHANGED <<queue_tail, opened, flight, stray, raced>>
    PROVE  BioIInv'
<1> PICK n \in Names : n = call[c].dev
  BY MountKnows
<1>1. /\ device_list[s] \in Entries
      /\ \A d \in Clients : d # c /\ Mounting(call[d]) /\ call[d].dd = s => s \in raced
      /\ s \notin raced =>
           /\ ~device_list[s].is_active /\ device_list[s].dev_name = n
           /\ active => device_list[s].bdev = n
  BY MountKnows DEF Calling
<1>2. /\ Alone(c) /\ Knows(call'[c]) /\ ~Mounting(call'[c]) /\ call'[c].pc = "answered" /\ BioTypes
  BY Answered DEF BioIInv
<1>3. SlotOnly(s)
  BY <1>2 DEF BioTypes, SlotOnly, Entries
<1>4. /\ device_list'[s].is_active = active
      /\ \A u \in Slots : /\ device_list'[u].bdev = device_list[u].bdev
                          /\ device_list'[u].dev_name = device_list[u].dev_name
                          /\ u # s => device_list'[u].is_active = device_list[u].is_active
  BY <1>2 DEF BioTypes, Entries
<1>5. ASSUME raced = {}, NEW m \in Names
      PROVE  opened'[m] = Cardinality(ActiveOn(m)') + Cardinality(Activating(m)')
  <2>1. opened[m] = Cardinality(ActiveOn(m)) + Cardinality(Activating(m)) /\ opened[m] \in Int
    BY <1>2, <1>5 DEF BioIInv, OpensCounted, BioTypes
  <2>2. CASE active /\ m = n
    <3>1. Activating(m)' = Activating(m) \ {c} /\ c \in Activating(m)
      BY <1>2, <2>2 DEF Activating, Calling, Alone
    <3>2. ActiveOn(m)' = ActiveOn(m) \cup {s} /\ s \notin ActiveOn(m)
      BY <1>1, <1>4, <1>5, <2>2, ZenonT(30) DEF ActiveOn
    <3>3. Cardinality(Activating(m)') = Cardinality(Activating(m)) - 1
      BY <3>1, CountsFinite, FS_RemoveElement, ZenonT(30)
    <3>4. Cardinality(ActiveOn(m)') = Cardinality(ActiveOn(m)) + 1
      BY <3>2, CountsFinite, FS_AddElement, ZenonT(30)
    <3>5. Cardinality(ActiveOn(m)) \in Nat /\ Cardinality(Activating(m)) \in Nat
      BY CountsFinite, ZenonT(30)
    <3> QED
      BY <2>1, <3>3, <3>4, <3>5
  <2>3. CASE ~(active /\ m = n)
    <3>1. Activating(m)' = Activating(m)
      BY <1>2, <2>3 DEF Activating, Calling, Alone
    <3>2. ActiveOn(m)' = ActiveOn(m)
      BY <1>1, <1>4, <1>5, <2>3 DEF ActiveOn
    <3> QED
      BY <2>1, <3>1, <3>2
  <2> QED
    BY <2>2, <2>3
<1>6. OpensCounted'
  BY <1>5 DEF OpensCounted
<1>7. call[c].pc # "wait"
  BY DEF Mounting
<1> QED
  BY <1>1, <1>2, <1>3, <1>4, <1>6, <1>7, MountStep DEF BioTypes

LEMMA MountFailsInv == ASSUME BioIInv, NEW c \in Clients, MountFails(c) PROVE BioIInv'
<1>1. call[c].dd \in Slots /\ Mounting(call[c]) /\ ~Calling(c, "activate")
  BY DEF BioIInv, BioTypes, Handlers, MountFails, Calling, Mounting
<1> QED
  BY <1>1, MountEnds, ZenonT(30) DEF MountFails

LEMMA MountedInv == ASSUME BioIInv, NEW c \in Clients, Mounted(c) PROVE BioIInv'
<1>1. call[c].dd \in Slots /\ Mounting(call[c]) /\ Calling(c, "activate")
  BY DEF BioIInv, BioTypes, Handlers, Mounted, Calling, Mounting
<1> QED
  BY <1>1, MountEnds, ZenonT(30) DEF Mounted

\* A module that was just loaded, with no mount and no I/O yet.
Loaded ==
    /\ device_list = [s \in Slots |-> Unmounted]
    /\ queue_tail = 0
    /\ opened = [n \in Names |-> 0]
    /\ call = [c \in Clients |-> Quiet]
    /\ flight = {}
    /\ stray = {}
    /\ raced = {}

LEMMA LoadedInv == Loaded => BioIInv
<1> HAVE Loaded
<1>1. Unmounted \in Entries /\ Unmounted.is_active = FALSE
  BY DEF Unmounted, Entries
<1>2. BioTypes
  BY <1>1, QuietHandler DEF Loaded, BioTypes
<1>3. \A c \in Clients : call[c] = Quiet /\ Quiet.pc = "idle"
  BY DEF Loaded, Quiet
<1>4. OneMount /\ SlotStays
  BY <1>3, QuietHandler, ZenonT(30) DEF OneMount, SlotStays
<1>5. \A s \in Slots : ~device_list[s].is_active
  BY <1>1 DEF Loaded
<1>6. NamesTrue
  BY <1>5 DEF NamesTrue
<1>7. ASSUME NEW n \in Names PROVE opened[n] = Cardinality(ActiveOn(n)) + Cardinality(Activating(n))
  <2>1. ActiveOn(n) = {} /\ Activating(n) = {}
    BY <1>3, <1>5 DEF ActiveOn, Activating, Calling
  <2>2. Cardinality(ActiveOn(n)) = 0 /\ Cardinality(Activating(n)) = 0
    BY <2>1, FS_EmptySet
  <2> QED
    BY <2>2 DEF Loaded
<1>8. OpensCounted
  BY <1>7 DEF OpensCounted
<1> QED
  BY <1>2, <1>3, <1>4, <1>6, <1>8, QuietHandler DEF BioIInv, Loaded, OneBio, FreedBehindFailure

LEMMA ReloadInv == ASSUME BioIInv, Reload PROVE BioIInv'
<1>1. opened' = [n \in Names |-> 0]
  BY DEF Reload
<1>2. Loaded'
  BY <1>1 DEF Reload, Loaded, Slots, Unmounted, Quiet
<1> QED
  BY <1>2, LoadedInv, PTL

LEMMA BioStutter == ASSUME BioIInv, UNCHANGED biovars PROVE BioIInv'
<1>1. UNCHANGED <<device_list, queue_tail, opened, call, flight, raced, stray>>
  BY DEF biovars
<1>2. BioTypes' /\ OneMount' /\ SlotStays' /\ NamesTrue'
  BY <1>1, ZenonT(30) DEF BioIInv, BioTypes, OneMount, SlotStays, NamesTrue
<1>3. OpensCounted'
  BY <1>1 DEF BioIInv, OpensCounted, ActiveOn, Activating, Calling
<1>4. (\A c \in Clients : Knows(call[c]))' /\ (\A b \in flight' : InFlight(b)') /\ OneBio'
  BY <1>1, ZenonT(30)
     DEF BioIInv, Knows, InFlight, OneBio, BioSector, BioPages, NumBios, NumPages, Remainder, Mounting
<1> QED
  BY <1>1, <1>2, <1>3, <1>4 DEF BioIInv, FreedBehindFailure

LEMMA BioNextInv == ASSUME BioIInv, BioNext PROVE BioIInv'
<1>1. ASSUME NEW c \in Clients, server_loop(c) PROVE BioIInv'
  <2>1. CASE \E n \in Names : alloc_block_device(c, n)
    BY <2>1, AllocInv
  <2>2. CASE c \in IOClients /\ \E n \in Names, len \in Lengths : io_bypass(c, n, len)
    BY <2>2, IoBypassInv
  <2>3. CASE Handle(c)
    BY <2>3, GetByPathInv, MountFailsInv, MountedInv, CreateFailsInv, CreateAndSubmitInv,
       WaitNextInv, WaitFailsInv, IODoneInv, ReceiveInv DEF Handle
  <2> QED
    BY <1>1, <2>1, <2>2, <2>3 DEF server_loop
<1>2. ASSUME NEW b \in flight, io_complete(b) PROVE BioIInv'
  BY <1>2, IoCompleteInv
<1>3. ASSUME NEW i \in stray, StrayCompletion(i) PROVE BioIInv'
  BY <1>3, StrayInv
<1> QED
  BY <1>1, <1>2, <1>3, ReloadInv DEF BioNext

\* What the invariant says of the chains of bios and of the table.
LEMMA BioInvHolds == BioIInv => BioInv
<1> HAVE BioIInv
<1>1. BioTypeOK
  BY DEF BioIInv, BioTypes, BioTypeOK, Entries, Handlers, BioPCs
<1>2. ASSUME NEW c \in Clients, Calling(c, "wait"), NEW b \in flight, b.owner = c
      PROVE  /\ b.pages \in 1 .. MaxBioPages
             /\ b.sector + b.pages * PageSectors =
                  IF b.i = NumBios(call[c].len) - 1 THEN NumPages(call[c].len) * PageSectors
                                                    ELSE BioSector(b.i + 1)
  <2> PICK len \in Lengths : len = call[c].len
    BY <1>2 DEF BioIInv, Knows, Calling
  <2>1. b.i \in 0 .. NumBios(len) - 1 /\ b.sector = BioSector(b.i) /\ b.pages = BioPages(len, b.i)
    BY <1>2 DEF BioIInv, InFlight
  <2> QED
    BY <2>1, SharedOut
<1>3. SplitIsExact
  BY <1>2 DEF SplitIsExact
<1>4. TableIsTrue
  BY DEF BioIInv, NamesTrue, OpensCounted, ActiveOn, Activating, TableIsTrue
<1>5. IOReachesDevice
  BY DEF BioIInv, InFlight, IOReachesDevice
<1> QED
  BY <1>1, <1>3, <1>4, <1>5 DEF BioInv, BioIInv

LEMMA BioInductive == Spec => []BioIInv
<1>1. Init => BioIInv
  BY LoadedInv DEF Init, BioInit, Loaded
<1>2. BioIInv /\ [Next]_vars => BioIInv'
  BY BioStutter, BioNextInv DEF Next, vars, RequestDriver, BioDriver, UserDriver
<1> QED
  BY <1>1, <1>2, PTL DEF Spec

\* The handlers of bio_layer_km.c, run at the same time and without a lock, split
\* each request into bios that cover its whole pages, send them to the device that
\* the client named unless two mounts were given its slot at once, and keep the
\* opens of the devices equal to those of the table.
THEOREM BioInvariant == Spec => []BioInv
BY BioInductive, BioInvHolds, PTL

\* What answers a request that waits for its bios.
LEMMA AnswersAfter ==
    ASSUME BioIInv, BioNext, NEW c \in Clients, Calling(c, "wait"), call'[c].answer = "ok"
    PROVE  AllWaited(c)
<1>1. call[c].answer = "none" /\ call[c].pc = "wait" /\ BioTypes
  BY DEF BioIInv, Knows, Calling
<1>2. ASSUME NEW d \in Clients, server_loop(d) PROVE AllWaited(c)
  <2>1. CASE d # c
    <3>1. call'[c] = call[c]
      BY <1>1, <1>2, <2>1, ZenonT(30) DEF server_loop, Handle, alloc_block_device, io_bypass, blkdev_get_by_path,
         MountFails, Mounted, CreateFails, CreateAndSubmit, WaitNext, WaitFails, IODone, Receive,
         send_msg_to_usr, BioTypes
    <3> QED
      BY <1>1, <3>1
  <2>2. CASE d = c
    <3>1. WaitNext(c) \/ WaitFails(c) \/ IODone(c)
      BY <1>1, <1>2, <2>2, ZenonT(30) DEF server_loop, Handle, alloc_block_device, io_bypass, blkdev_get_by_path,
         MountFails, Mounted, CreateFails, CreateAndSubmit, Receive, Calling
    <3>2. CASE WaitNext(c)
      <4>1. call'[c].answer = call[c].answer
        BY <1>1, <3>2 DEF WaitNext, BioTypes, Handlers
      <4> QED
        BY <1>1, <4>1
    <3>3. CASE WaitFails(c)
      <4>1. call'[c].answer = "error"
        BY <3>3, Answered DEF WaitFails
      <4> QED
        BY <4>1
    <3>4. CASE IODone(c)
      BY <3>4 DEF IODone
    <3> QED
      BY <3>1, <3>2, <3>3, <3>4
  <2> QED
    BY <2>1, <2>2
<1>3. ASSUME NEW b \in flight, io_complete(b) PROVE FALSE
  <2>1. b.owner \in Clients
    BY DEF BioIInv, InFlight
  <2>2. call'[c].answer = call[c].answer
    BY <1>1, <1>3, <2>1 DEF io_complete, BioTypes, Handlers
  <2> QED
    BY <1>1, <2>2
<1>4. ASSUME NEW i \in stray, StrayCompletion(i) PROVE FALSE
  BY <1>1, <1>4 DEF StrayCompletion
<1>5. ASSUME Reload PROVE FALSE
  BY <1>1, <1>5 DEF Reload, Calling
<1> QED
  BY <1>2, <1>3, <1>4, <1>5 DEF BioNext

\* wait_for_bios lets a request be answered with success only after each of its bios
\* ended well, and the block layer holds none of them.
THEOREM BioAnswers == Spec => AnsweredAfterBios
<1> DEFINE A == \A c \in Clients : Calling(c, "wait") /\ call'[c].answer = "ok" =>
                   /\ \A i \in 0 .. NumBios(call[c].len) - 1 : call[c].done[i] = "ok"
                   /\ \A b \in flight : b.owner # c
<1>1. BioIInv /\ [Next]_vars => [A]_biovars
  <2> SUFFICES ASSUME BioIInv, [Next]_vars, biovars' # biovars PROVE A
    OBVIOUS
  <2>1. BioNext
    BY DEF Next, vars, RequestDriver, BioDriver, UserDriver
  <2> QED
    BY <2>1, AnswersAfter, AllDone
<1> QED
  BY <1>1, BioInductive, PTL DEF Spec, AnsweredAfterBios

=============================================================================
