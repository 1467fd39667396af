---------------------------- MODULE SecureShmem ----------------------------
(***************************************************************************)
(* The kernel module that hands out shared memory.  Processes ask it over  *)
(* netlink to reserve a region, to grant one to a process, to have the     *)
(* kernel use one and to free one, and map a region through its character  *)
(* device.  A netlink request runs in the context of its sender, so those  *)
(* of several processes interleave.                                        *)
(*                                                                         *)
(* The two lists are guarded by labstor_mmap_mutex, which is taken with    *)
(* mutex_lock_interruptible; what that returns is ignored.  A process that *)
(* gets a signal while it waits goes on without the mutex, and releases    *)
(* it for whoever holds it.  list_add is therefore two steps: reading the  *)
(* first node, and putting the new one in front of it.                     *)
(*                                                                         *)
(* Region ids count up from 1 and are never used twice, so an id stands    *)
(* for the region's shmem_region_info.  Small allocations succeed.         *)
(***************************************************************************)
EXTENDS Integers, Sequences, FiniteSets

CONSTANTS
    Procs,      \* processes, by pid
    ShmSizes,   \* sizes asked for
    PageBytes,  \* PAGE_SIZE
    MaxRegions, \* bound: regions reserved
    MaxCalls    \* bound: calls

ASSUME ShmemAssumption ==
    /\ IsFiniteSet(Procs) /\ 0 \notin Procs
    /\ ShmSizes \subseteq Nat \ {0} /\ PageBytes \in Nat \ {0}
    /\ MaxRegions \in Nat /\ MaxCalls \in Nat

VARIABLES
    loaded_shm,  \* "off", or whether the module is registered: fixed
    mutex,       \* the process holding labstor_mmap_mutex, or 0
    region_map,  \* region ids, newest first
    pid_regions, \* grants, newest first
    infos,       \* shmem_region_info of every id used
    proc,        \* each process: its call
    inbox,       \* each process: answers on its netlink socket
    vmas,        \* mappings of the regions
    shmcalls,    \* calls made
    oopsed,      \* the kernel met a freed list node
    owns,        \* history: regions each process reserved
    granted,     \* history: grants that were answered with 0
    intruded,    \* history: a critical section ran without the mutex
    dangling,    \* history: a grant outlived its region
    stale        \* history: a lookup read a region that had been freed

lists == <<region_map, pid_regions, infos>>
causes == <<oopsed, intruded, dangling, stale>>
shmvars == <<loaded_shm, mutex, lists, proc, inbox, vmas, shmcalls,
             owns, granted, causes>>

Freed == 0  \* the region of a grant that outlived it
Resting == [at |-> "idle", op |-> "", id |-> 0, size |-> 0, pid |-> 0, next |-> <<>>]

ShmemInit(states) ==
    /\ loaded_shm \in states
    /\ mutex = 0 /\ region_map = <<>> /\ pid_regions = <<>> /\ infos = <<>>
    /\ proc = [p \in Procs |-> Resting]
    /\ inbox = [p \in Procs |-> <<>>]
    /\ vmas = {} /\ shmcalls = 0
    /\ owns = [p \in Procs |-> {}] /\ granted = {}
    /\ oopsed = FALSE /\ intruded = FALSE /\ dangling = FALSE /\ stale = FALSE

SetProc(p, r) == proc' = [proc EXCEPT ![p] = r]
In(p, at, op) == ~oopsed /\ proc[p].at = at /\ proc[p].op = op

-----------------------------------------------------------------------------
(* A request is sent, and answered to the socket of the process *)

Begin(p, rq) ==
    /\ ~oopsed /\ proc[p].at = "idle" /\ shmcalls < MaxCalls
    /\ shmcalls' = shmcalls + 1
    /\ SetProc(p, rq)
    /\ UNCHANGED <<loaded_shm, mutex, lists, vmas, owns, granted, causes>>

Request(op, id, size, pid) ==
    [Resting EXCEPT !.at = "lock", !.op = op, !.id = id, !.size = size, !.pid = pid]

\* SendMSG and server_loop: a request for a module that is not registered is
\* answered at once.
SendMSG(p, rq) ==
    \/ loaded_shm = "yes" /\ Begin(p, rq) /\ UNCHANGED inbox
    \/ /\ loaded_shm = "no" /\ Begin(p, [rq EXCEPT !.at = "recv"])
       /\ inbox' = [inbox EXCEPT ![p] = Append(@, -1)]

CreateShmem(p) ==
    /\ Len(infos) + Cardinality({q \in Procs : proc[q].op = "reserve"}) < MaxRegions
    /\ \E size \in ShmSizes : SendMSG(p, Request("reserve", 0, size, 0))

\* A process grants and frees the regions it has reserved itself.
GrantPidShmem(p) ==
    \E id \in owns[p], q \in Procs : SendMSG(p, Request("grant", id, 0, q))

FreeShmem(p) == \E id \in owns[p] : SendMSG(p, Request("free", id, 0, 0))

\* The IPC manager's Register: the kernel looks up the region it is to use.
RegisterRegion(p) == \E id \in owns[p] : SendMSG(p, Request("find", id, 0, 0))

\* open, lseek to the id of a region some process has reserved, and mmap with
\* the size that was asked for.
MapShmem(p) ==
    /\ loaded_shm = "yes"
    /\ \E q \in Procs : \E id \in owns[q] :
         Begin(p, Request("map", id, infos[id].size, 0))
    /\ UNCHANGED inbox

\* Slip: failures are not answered.
Reply_Lost(p, code) ==
    /\ inbox' = IF code = -1 THEN inbox ELSE [inbox EXCEPT ![p] = Append(@, code)]
    /\ SetProc(p, [proc[p] EXCEPT !.at = "recv"])

\* labstor_msg_trusted_server.
Reply(p, code) ==
    /\ inbox' = [inbox EXCEPT ![p] = Append(@, code)]
    /\ SetProc(p, [proc[p] EXCEPT !.at = "recv"])

RecvMSG(p) ==
    /\ ~oopsed /\ proc[p].at = "recv" /\ inbox[p] # <<>>
    /\ owns' = IF proc[p].op = "reserve" /\ Head(inbox[p]) # -1
               THEN [owns EXCEPT ![p] = @ \union {Head(inbox[p])}] ELSE owns
    /\ inbox' = [inbox EXCEPT ![p] = Tail(@)]
    /\ SetProc(p, Resting)
    /\ UNCHANGED <<loaded_shm, mutex, lists, vmas, shmcalls, granted, causes>>

-----------------------------------------------------------------------------
(* The critical sections *)

\* LABSTOR_MMAP_LOCK.
Lock(p) ==
    /\ ~oopsed /\ proc[p].at = "lock" /\ mutex = 0
    /\ mutex' = p
    /\ SetProc(p, [proc[p] EXCEPT !.at = "in"])
    /\ UNCHANGED <<loaded_shm, lists, inbox, vmas, shmcalls, owns, granted, causes>>

\* A signal ends the wait.
Interrupt(p) ==
    /\ ~oopsed /\ proc[p].at = "lock" /\ mutex # 0
    /\ intruded' = TRUE
    /\ SetProc(p, [proc[p] EXCEPT !.at = "in"])
    /\ UNCHANGED <<loaded_shm, mutex, lists, inbox, vmas, shmcalls, owns, granted,
                   oopsed, dangling, stale>>

\* LABSTOR_MMAP_UNLOCK, whoever holds the mutex.
Unlock == mutex' = 0

\* list_del poisons a node before it is freed: a list that still leads to one
\* cannot be followed.
Dead(id) == id # Freed /\ ~infos[id].live
Broken(p) ==
    LET regions == {region_map[i] : i \in DOMAIN region_map}
        grants == {pid_regions[i].id : i \in DOMAIN pid_regions}
    IN \/ proc[p].op \in {"grant", "free", "find"} /\ \E id \in regions : Dead(id)
       \/ proc[p].op \in {"map", "free"} /\ \E id \in grants : Dead(id)

Oops(p) ==
    /\ ~oopsed /\ proc[p].at = "in" /\ Broken(p)
    /\ oopsed' = TRUE
    /\ UNCHANGED <<loaded_shm, mutex, lists, proc, inbox, vmas, shmcalls, owns,
                   granted, intruded, dangling, stale>>

find_shmem_region_nolock(id) == \E i \in DOMAIN region_map : region_map[i] = id

\* Slip: the last page is not counted when it is not full.
PagesOf_Floor(size) == size \div PageBytes

\* The size rounded up to whole pages.
PagesOf(size) == (size + PageBytes - 1) \div PageBytes

\* reserve_shmem_nolock, up to list_add.  vmalloc may fail; the id is used up.
Reserve(p) ==
    /\ In(p, "in", "reserve")
    /\ LET id == Len(infos) + 1
           info == [size |-> proc[p].size, pages |-> PagesOf(proc[p].size), live |-> TRUE]
       IN \/ /\ infos' = Append(infos, info)
             /\ SetProc(p, [proc[p] EXCEPT !.at = "add", !.id = id, !.next = region_map])
             /\ UNCHANGED <<mutex, inbox>>
          \/ /\ infos' = Append(infos, [info EXCEPT !.live = FALSE])
             /\ Unlock /\ Reply(p, -1)
    /\ UNCHANGED <<loaded_shm, region_map, pid_regions, vmas, shmcalls, owns, granted,
                   causes>>

AddRegion(p) ==
    /\ In(p, "add", "reserve")
    /\ region_map' = <<proc[p].id>> \o proc[p].next
    /\ Unlock /\ Reply(p, proc[p].id)
    /\ UNCHANGED <<loaded_shm, pid_regions, infos, vmas, shmcalls, owns, granted, causes>>

\* grant_pid_shmem_nolock, up to list_add.
Grant(p) ==
    /\ In(p, "in", "grant") /\ ~Broken(p)
    /\ \/ /\ find_shmem_region_nolock(proc[p].id)
          /\ SetProc(p, [proc[p] EXCEPT !.at = "add", !.next = pid_regions])
          /\ UNCHANGED <<mutex, inbox>>
       \/ /\ ~find_shmem_region_nolock(proc[p].id)
          /\ Unlock /\ Reply(p, -1)
    /\ UNCHANGED <<loaded_shm, lists, vmas, shmcalls, owns, granted, causes>>

AddGrant(p) ==
    /\ In(p, "add", "grant")
    /\ pid_regions' = <<[pid |-> proc[p].pid, id |-> proc[p].id]>> \o proc[p].next
    /\ granted' = granted \union {<<proc[p].pid, proc[p].id>>}
    /\ Unlock /\ Reply(p, 0)
    /\ UNCHANGED <<loaded_shm, region_map, infos, vmas, shmcalls, owns, causes>>

\* labstor_find_shmem_region: the search, and the read of vmalloc_ptr, for which
\* the mutex is no longer held.
LookUp(p) ==
    /\ In(p, "in", "find") /\ ~Broken(p)
    /\ Unlock
    /\ \/ /\ find_shmem_region_nolock(proc[p].id)
          /\ SetProc(p, [proc[p] EXCEPT !.at = "read"])
          /\ UNCHANGED inbox
       \/ ~find_shmem_region_nolock(proc[p].id) /\ Reply(p, 0)
    /\ UNCHANGED <<loaded_shm, lists, vmas, shmcalls, owns, granted, causes>>

ReadPointer(p) ==
    /\ In(p, "read", "find")
    /\ stale' = (stale \/ Dead(proc[p].id))
    /\ Reply(p, 0)
    /\ UNCHANGED <<loaded_shm, mutex, lists, vmas, shmcalls, owns, granted,
                   oopsed, intruded, dangling>>

\* free_shmem_region_by_id_nolock, up to list_del.
Find(p) ==
    /\ In(p, "in", "free") /\ ~Broken(p)
    /\ \/ /\ find_shmem_region_nolock(proc[p].id)
          /\ SetProc(p, [proc[p] EXCEPT !.at = "del"])
          /\ UNCHANGED <<mutex, inbox>>
       \/ /\ ~find_shmem_region_nolock(proc[p].id)
          /\ Unlock /\ Reply(p, 0)
    /\ UNCHANGED <<loaded_shm, lists, vmas, shmcalls, owns, granted, causes>>

\* Entries of pid_regions but those at the positions gone; those of the region
\* id now refer to freed memory.
Without(gone, id) ==
    LET kept == SelectSeq([i \in DOMAIN pid_regions |-> i], LAMBDA i : i \notin gone)
    IN [k \in DOMAIN kept |->
          LET e == pid_regions[kept[k]] IN IF e.id = id THEN [e EXCEPT !.id = Freed] ELSE e]

\* Slip: the region stays on region_map.
Delete_Kept(p) ==
    /\ In(p, "del", "free")
    /\ infos' = [infos EXCEPT ![proc[p].id].live = FALSE]
    /\ LET mine == {i \in DOMAIN pid_regions : pid_regions[i].id = proc[p].id} IN
       pid_regions' = Without(mine, proc[p].id)
    /\ Unlock /\ Reply(p, 0)
    /\ UNCHANGED <<loaded_shm, region_map, vmas, shmcalls, owns, granted, causes>>

\* The grants of the region are recognised by region_id, which is read after the
\* region has been freed: any of them, and any left behind earlier, may or may
\* not be taken for this region's.
Delete(p) ==
    /\ In(p, "del", "free")
    /\ region_map' = SelectSeq(region_map, LAMBDA id : id # proc[p].id)
    /\ infos' = [infos EXCEPT ![proc[p].id].live = FALSE]
    /\ LET mine == {i \in DOMAIN pid_regions : pid_regions[i].id = proc[p].id}
           lost == {i \in DOMAIN pid_regions : pid_regions[i].id = Freed}
       IN \E gone \in SUBSET (mine \union lost) :
            /\ pid_regions' = Without(gone, proc[p].id)
            /\ dangling' = (dangling \/ ~ mine \subseteq gone)
    /\ Unlock /\ Reply(p, 0)
    /\ UNCHANGED <<loaded_shm, vmas, shmcalls, owns, granted, oopsed, intruded, stale>>

\* Slip: any process's grant will do.
find_pid_region_nolock_AnyPid(p, id) ==
    \E i \in DOMAIN pid_regions : pid_regions[i].id = id

find_pid_region_nolock(p, id) ==
    \E i \in DOMAIN pid_regions : pid_regions[i].pid = p /\ pid_regions[i].id = id

\* The kernel rounds the length of a mapping up.
PagesMapped(size) == IF size % PageBytes = 0 THEN size \div PageBytes
                                             ELSE size \div PageBytes + 1

\* labstor_mmap_nolock.  A grant of p that refers to freed memory may be taken
\* for one of this region, if the memory now holds this region's info.
Map(p) ==
    /\ In(p, "in", "map") /\ ~Broken(p)
    /\ \/ /\ \/ find_pid_region_nolock(p, proc[p].id)
             \/ infos[proc[p].id].live /\ find_pid_region_nolock(p, Freed)
          /\ vmas' = vmas \union {[pid |-> p, id |-> proc[p].id,
                                   pages |-> PagesMapped(proc[p].size)]}
       \/ ~find_pid_region_nolock(p, proc[p].id) /\ UNCHANGED vmas
    /\ Unlock /\ SetProc(p, Resting)
    /\ UNCHANGED <<loaded_shm, lists, inbox, shmcalls, owns, granted, causes>>

-----------------------------------------------------------------------------

ShmemCall(p) == CreateShmem(p) \/ GrantPidShmem(p) \/ FreeShmem(p) \/ MapShmem(p)
                \/ RegisterRegion(p)
ShmemStep(p) ==
    \/ Reserve(p) \/ AddRegion(p) \/ Grant(p) \/ AddGrant(p) \/ Find(p) \/ Delete(p)
    \/ LookUp(p) \/ ReadPointer(p) \/ Map(p) \/ Oops(p) \/ RecvMSG(p)
ShmemNext == \E p \in Procs : ShmemCall(p) \/ Lock(p) \/ Interrupt(p) \/ ShmemStep(p)

\* Every call has come back, or the kernel is gone.
ShmemIdle == oopsed \/ \A p \in Procs : proc[p].at = "idle"
ShmemRest == ShmemIdle /\ UNCHANGED shmvars

\* A section goes on and ends, and the mutex is handed over in turn.
ShmemFairness == \A p \in Procs : WF_shmvars(ShmemStep(p)) /\ SF_shmvars(Lock(p))

-----------------------------------------------------------------------------
(* Properties *)

ShmemTypeOK ==
    /\ mutex \in Procs \union {0}
    /\ \A i \in DOMAIN region_map : region_map[i] \in 1..Len(infos)
    /\ \A i \in DOMAIN pid_regions : pid_regions[i].id \in 0..Len(infos)
    /\ \A p \in Procs : Len(inbox[p]) <= 1

\* While every section has the mutex, region_map holds each live region once: a
\* region that was answered with its id can be granted until it is freed, and
\* nothing freed is ever found.
RegionsKept ==
    ~intruded =>
      /\ \A i, j \in DOMAIN region_map : region_map[i] = region_map[j] => i = j
      /\ \A id \in DOMAIN infos : find_shmem_region_nolock(id) <=>
           infos[id].live /\ ~\E p \in Procs : proc[p].at = "add" /\ proc[p].op = "reserve"
                                               /\ proc[p].id = id

\* The ids two processes are given are different, mutex or not.
IdsOwn == \A p, q \in Procs : p # q => owns[p] \cap owns[q] = {}

\* A process maps a region only when that region has been granted to it, unless
\* a grant has been left behind by a region that was freed.
MappedWasGranted == ~dangling => \A v \in vmas : <<v.pid, v.id>> \in granted

\* A mapping has no page beyond the end of its region: the kernel and the
\* module round the same size in two places.
MapsInside == \A v \in vmas : v.pages <= infos[v.id].pages

\* List nodes are used after they were freed only if a section ran without the
\* mutex.
OopsHasCause == oopsed => intruded

\* The kernel uses no region that has been freed: the process that has it looked
\* up is the one that would free it, and waits for the answer.
LookedUpIsLive == ~stale

\* The types, and the lists agree with the regions, the grants and the mappings.
ShmemInv == ShmemTypeOK /\ RegionsKept /\ IdsOwn /\ MappedWasGranted /\ MapsInside
            /\ OopsHasCause /\ LookedUpIsLive
=============================================================================
