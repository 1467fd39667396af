---------------------------- MODULE SharedMemory ----------------------------
(***************************************************************************)
(* Shared memory from the kernel to a request: regions, which processes    *)
(* reserve, grant, map and free (SecureShmem), and the pages of a region,  *)
(* which threads allocate and free (ShmemAllocator).  Pages are shared out *)
(* only in a region that stays: the two touch no state of one another, and *)
(* a behaviour is one of them with the other at rest.                      *)
(***************************************************************************)
EXTENDS ShmemAllocator, SecureShmem

memvars == <<vars, shmvars>>

MemInit ==
  \/ Init /\ ShmemInit({"off"})
  \/ Init /\ users = 1 /\ ShmemInit({"yes", "no"})

UsesPages == loaded_shm = "off" /\ Next /\ UNCHANGED shmvars
UsesRegions == loaded_shm # "off" /\ (ShmemNext \/ ShmemRest) /\ UNCHANGED vars

MemNext == UsesPages \/ UsesRegions

MemSpec == MemInit /\ [][MemNext]_memvars /\ AllocFairness /\ ShmemFairness

\* Free gives the page back, some list having room for it; and a call for a
\* region is answered, whichever signals interrupt it.  Calls for regions are
\* bounded in number: when there are no more, all have returned.
MemoryCallsReturn == FreeReturns /\ <>[]ShmemIdle
=============================================================================
