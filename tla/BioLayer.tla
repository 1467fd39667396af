------------------------------ MODULE BioLayer ------------------------------
(***************************************************************************)
(* The bio_layer driver: a kernel module that mounts block devices by name *)
(* and performs reads and writes on them as chains of bios, on request of  *)
(* netlink messages.  A message is handled in the context of the process   *)
(* that sends it, so the handlers of several clients run concurrently; the *)
(* table of mounted devices has no lock.                                   *)
(*                                                                         *)
(* Lengths and positions are in sectors.  Reads and writes differ only in  *)
(* the operation code of their bios and are one action here.               *)
(***************************************************************************)
EXTENDS Integers, FiniteSets

CONSTANTS
    Clients,
    IOClients,       \* those that do I/O; any client mounts
    Names,           \* device names the clients use
    NoDev,           \* no device, or the error blkdev_get_by_path returned
    MaxMounted,      \* MAX_MOUNTED_BDEVS
    MaxBioPages,     \* BIO_MAX_PAGES_ALLOC
    PageSectors,     \* PAGE_TO_SECTOR
    Lengths,         \* lengths of the clients' requests
    MaxMounts        \* bound: mounts asked for between two loads of the module

ASSUME BioAssumption ==
    /\ IsFiniteSet(Clients) /\ IOClients \subseteq Clients /\ NoDev \notin Names
    /\ MaxMounted \in Nat \ {0} /\ MaxBioPages \in Nat \ {0}
    /\ PageSectors \in Nat \ {0} /\ Lengths \subseteq Nat /\ MaxMounts \in Nat

VARIABLES
    device_list,
    queue_tail,
    opened,   \* opens of each device that were not put
    call,     \* the message each client has sent, and its handler's locals
    flight,   \* bios the block layer holds
    stray,    \* indices of bios it holds that were freed
    mounts,   \* mounts asked for since the module was loaded
    raced     \* history: slots two mounts were given at once

biovars == <<device_list, queue_tail, opened, call, flight, stray, mounts, raced>>

Slots == 0 .. MaxMounted - 1
Unmounted == [is_active |-> FALSE, dev_name |-> NoDev, bdev |-> NoDev]
Quiet == [pc |-> "idle", dev |-> NoDev, dd |-> 0, len |-> 0, i |-> 0,
          done |-> <<>>, answer |-> "none"]

BioInit ==
    /\ device_list = [s \in Slots |-> Unmounted]
    /\ queue_tail = 0
    /\ opened = [n \in Names |-> 0]
    /\ call = [c \in Clients |-> Quiet]
    /\ flight = {}
    /\ stray = {}
    /\ mounts = 0
    /\ raced = {}

Calling(c, pc) == call[c].pc = pc

\* The handler ends with its answer.  An answer for which no socket buffer can
\* be allocated is lost, which the handler does not notice.
send_msg_to_usr(c, code) ==
    call' = [call EXCEPT ![c] = [Quiet EXCEPT !.pc = "answered", !.answer = code]]

Receive(c) ==
    /\ Calling(c, "answered")
    /\ call' = [call EXCEPT ![c] = Quiet]
    /\ UNCHANGED <<device_list, queue_tail, opened, flight, stray, mounts, raced>>
-----------------------------------------------------------------------------
(* mount_device *)

\* The slots in the order alloc_block_device looks at them.
SlotAt(i) == (queue_tail + i) % MaxMounted

FreeProbes == {i \in Slots : ~device_list[SlotAt(i)].is_active}

MountInProgress(s) ==
    \E c \in Clients : call[c].dd = s /\ call[c].pc \in {"open", "activate", "reject"}

\* With no slot left the handler uses the NULL it gets.
alloc_block_device(c, n) ==
    LET begun == [Quiet EXCEPT !.dev = n] IN
    /\ Calling(c, "idle")
    /\ mounts < MaxMounts
    /\ mounts' = mounts + 1
    /\ \/ /\ FreeProbes = {}
          /\ call' = [call EXCEPT ![c] = [begun EXCEPT !.pc = "oops"]]
          /\ UNCHANGED <<device_list, queue_tail, raced>>
       \/ \E i \in FreeProbes :
            LET s == SlotAt(i) IN
            /\ \A j \in FreeProbes : i <= j
            /\ device_list' = [device_list EXCEPT ![s].dev_name = n]
            /\ queue_tail' = SlotAt(1 % MaxMounted)
            /\ call' = [call EXCEPT ![c] = [begun EXCEPT !.pc = "open", !.dd = s]]
            /\ raced' = IF MountInProgress(s) THEN raced \cup {s} ELSE raced
    /\ UNCHANGED <<opened, flight, stray>>

blkdev_get_by_path(c) ==
    LET s == call[c].dd
        n == call[c].dev IN
    /\ Calling(c, "open")
    /\ \/ /\ device_list' = [device_list EXCEPT ![s].bdev = n]
          /\ opened' = [opened EXCEPT ![n] = @ + 1]
          /\ call' = [call EXCEPT ![c].pc = "activate"]
       \/ /\ device_list' = [device_list EXCEPT ![s].bdev = NoDev]
          /\ call' = [call EXCEPT ![c].pc = "reject"]
          /\ UNCHANGED opened
    /\ UNCHANGED <<queue_tail, flight, stray, mounts, raced>>

MountFails(c) ==
    /\ Calling(c, "reject")
    /\ device_list' = [device_list EXCEPT ![call[c].dd].is_active = FALSE]
    /\ send_msg_to_usr(c, "error")
    /\ UNCHANGED <<queue_tail, opened, flight, stray, mounts, raced>>

Mounted(c) ==
    /\ Calling(c, "activate")
    /\ device_list' = [device_list EXCEPT ![call[c].dd].is_active = TRUE]
    /\ send_msg_to_usr(c, "ok")
    /\ UNCHANGED <<queue_tail, opened, flight, stray, mounts, raced>>
-----------------------------------------------------------------------------
(* io_bypass *)

find_block_device(n) ==
    {s \in Slots : device_list[s].is_active /\ device_list[s].dev_name = n}

io_bypass(c, n, len) ==
    /\ Calling(c, "idle")
    /\ \/ /\ find_block_device(n) = {}
          /\ send_msg_to_usr(c, "error")
       \/ \E s \in find_block_device(n) :
            /\ \A t \in find_block_device(n) : s <= t
            /\ call' = [call EXCEPT ![c] = [Quiet EXCEPT !.pc = "create", !.dev = n,
                                                                  !.dd = s, !.len = len]]
    /\ UNCHANGED <<device_list, queue_tail, opened, flight, stray, mounts, raced>>

\* convert_usr_buf: whole pages only.
NumPages(len) == len \div PageSectors

\* create_bios: the pages of bio i, and the sector it starts at.
Remainder(len) == NumPages(len) % MaxBioPages

NumBios(len) ==
    NumPages(len) \div MaxBioPages + (IF Remainder(len) # 0 THEN 1 ELSE 0)

\* Slip: the last bio always takes a full share.
BioPages_Full(len, i) == MaxBioPages

BioPages(len, i) ==
    IF i < NumPages(len) \div MaxBioPages THEN MaxBioPages ELSE Remainder(len)

BioSector(i) == i * MaxBioPages * PageSectors

\* Neither the pages nor the bios can be allocated.
CreateFails(c) ==
    /\ Calling(c, "create")
    /\ send_msg_to_usr(c, "error")
    /\ UNCHANGED <<device_list, queue_tail, opened, flight, stray, mounts, raced>>

\* The bios name the device the slot holds when they are created.
CreateAndSubmit(c) ==
    LET len == call[c].len
        new == {[owner |-> c, i |-> i, sector |-> BioSector(i), pages |-> BioPages(len, i),
                 bdev |-> device_list[call[c].dd].bdev] :
                  i \in 0 .. NumBios(len) - 1}
    IN
    /\ Calling(c, "create")
    /\ flight' = flight \cup new
    /\ call' = [call EXCEPT ![c].pc = "wait",
                            ![c].done = [i \in 0 .. NumBios(len) - 1 |-> "no"]]
    /\ UNCHANGED <<device_list, queue_tail, opened, stray, mounts, raced>>

\* free_bios, for the bios the block layer still holds.
FreeBios(c) ==
    /\ flight' = {b \in flight : b.owner # c}
    /\ stray' = stray \cup {b.i : b \in {b \in flight : b.owner = c}}

\* Slip: the loop stops one bio early.
AllWaited_OffByOne(c) == call[c].i + 1 >= NumBios(call[c].len)

AllWaited(c) == call[c].i >= NumBios(call[c].len)

\* A turn of the loop of wait_for_bios: the bio is done, and well.
WaitNext(c) ==
    /\ Calling(c, "wait") /\ ~AllWaited(c)
    /\ call[c].done[call[c].i] = "ok"
    /\ call' = [call EXCEPT ![c].i = @ + 1]
    /\ UNCHANGED <<device_list, queue_tail, opened, flight, stray, mounts, raced>>

\* It failed: the bios are freed, those that follow it included.
WaitFails(c) ==
    /\ Calling(c, "wait") /\ ~AllWaited(c)
    /\ call[c].done[call[c].i] = "failed"
    /\ FreeBios(c)
    /\ send_msg_to_usr(c, "error")
    /\ UNCHANGED <<device_list, queue_tail, opened, mounts, raced>>

IODone(c) ==
    /\ Calling(c, "wait") /\ AllWaited(c)
    /\ FreeBios(c)
    /\ send_msg_to_usr(c, "ok")
    /\ UNCHANGED <<device_list, queue_tail, opened, mounts, raced>>

\* io_complete, called when the device has finished a bio.
io_complete(b) ==
    /\ flight' = flight \ {b}
    /\ \E status \in {"ok", "failed"} : call' = [call EXCEPT ![b.owner].done[b.i] = status]
    /\ UNCHANGED <<device_list, queue_tail, opened, stray, mounts, raced>>

\* The callback of a freed bio runs on memory that is no longer its own.
StrayCompletion(i) ==
    /\ stray' = stray \ {i}
    /\ UNCHANGED <<device_list, queue_tail, opened, call, flight, mounts, raced>>

DeviceEndsBio(c, i) ==
    \E b \in flight : b.owner = c /\ b.i = i /\ io_complete(b)

MaxBios == CHOOSE n \in {NumBios(len) : len \in Lengths} :
             \A len \in Lengths : n >= NumBios(len)

\* exit_linux_driver_io, then a new load.  The module cannot be removed while
\* a client has a socket open, nor is it before the device is idle.  Bound:
\* an open that was never put ends the sequence of loads.
Reload ==
    /\ \A c \in Clients : Calling(c, "idle")
    /\ flight = {} /\ stray = {}
    /\ \E s \in Slots : device_list[s].is_active
    /\ opened' = [n \in Names |-> opened[n] - Cardinality(
                    {s \in Slots : device_list[s].is_active /\ device_list[s].bdev = n})]
    /\ \A n \in Names : opened'[n] = 0
    /\ device_list' = [s \in Slots |-> Unmounted]
    /\ queue_tail' = 0
    /\ mounts' = 0
    /\ raced' = {}
    /\ call' = [c \in Clients |-> Quiet]
    /\ UNCHANGED <<flight, stray>>
-----------------------------------------------------------------------------
Handle(c) ==
    \/ blkdev_get_by_path(c) \/ MountFails(c) \/ Mounted(c)
    \/ CreateFails(c) \/ CreateAndSubmit(c)
    \/ WaitNext(c) \/ WaitFails(c) \/ IODone(c)
    \/ Receive(c)

server_loop(c) ==
    \/ \E n \in Names : alloc_block_device(c, n)
    \/ c \in IOClients /\ \E n \in Names, len \in Lengths : io_bypass(c, n, len)
    \/ Handle(c)

BioNext ==
    \/ \E c \in Clients : server_loop(c)
    \/ \E b \in flight : io_complete(b)
    \/ \E i \in stray : StrayCompletion(i)
    \/ Reload

BioFairness ==
    /\ \A c \in Clients : WF_biovars(Handle(c))
    /\ \A c \in IOClients, i \in 0 .. MaxBios - 1 : WF_biovars(DeviceEndsBio(c, i))

BioSpec == BioInit /\ [][BioNext]_biovars /\ BioFairness
-----------------------------------------------------------------------------
BioTypeOK ==
    /\ device_list \in [Slots -> [is_active : BOOLEAN, dev_name : Names \cup {NoDev},
                                  bdev : Names \cup {NoDev}]]
    /\ queue_tail \in Slots
    /\ opened \in [Names -> Int]
    /\ raced \subseteq Slots
    /\ \A c \in Clients :
         /\ call[c].pc \in {"idle", "oops", "answered", "open", "activate", "reject", "create", "wait"}
         /\ call[c].answer \in {"none", "ok", "error"}

\* The bios of a request cover its whole pages, in order and without overlap.
SplitIsExact ==
    \A c \in Clients : Calling(c, "wait") =>
      LET mine == {b \in flight : b.owner = c}
          end(b) == b.sector + b.pages * PageSectors
      IN  \A b \in mine :
            /\ b.pages \in 1 .. MaxBioPages
            /\ end(b) = IF b.i = NumBios(call[c].len) - 1
                          THEN NumPages(call[c].len) * PageSectors
                          ELSE BioSector(b.i + 1)

\* A slot that one mount at a time was given holds the device it names, and
\* the opens of the devices are those of the table.
TableIsTrue ==
    /\ \A s \in Slots \ raced : device_list[s].is_active =>
         device_list[s].bdev = device_list[s].dev_name
    /\ raced = {} => \A n \in Names :
         opened[n] = Cardinality({s \in Slots :
                        device_list[s].is_active /\ device_list[s].bdev = n})
                     + Cardinality({c \in Clients : Calling(c, "activate") /\ call[c].dev = n})

\* I/O goes to the device the client named, unless two mounts shared its slot.
IOReachesDevice ==
    \A b \in flight :
        b.bdev = call[b.owner].dev \/ call[b.owner].dd \in raced

\* A bio is freed in the block layer's hands only behind one that failed.
FreedBehindFailure == 0 \notin stray

\* The types, a table and chains of bios that say what the devices are asked to do,
\* and no bio freed too early: what the handlers of bio_layer_km.c keep, without a
\* lock, when they run at the same time.
BioInv == BioTypeOK /\ SplitIsExact /\ TableIsTrue /\ IOReachesDevice /\ FreedBehindFailure

\* A request is answered with success only after each of its bios ended well.
AnsweredAfterBios ==
    [][\A c \in Clients : Calling(c, "wait") /\ call'[c].answer = "ok" =>
         /\ \A i \in 0 .. NumBios(call[c].len) - 1 : call[c].done[i] = "ok"
         /\ \A b \in flight : b.owner # c]_biovars

\* Every message's handler returns, or stops at the full table's NULL.
HandlersReturn ==
    \A c \in Clients : call[c].pc \notin {"idle", "oops"} ~> call[c].pc = "idle"
=============================================================================
