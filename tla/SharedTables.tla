---------------------------- MODULE SharedTables ----------------------------
(***************************************************************************)
(* Tables that threads share: what the namespace is made of, the hash map  *)
(* of its keys (UnorderedMap) and the ring of its free ids (PlugRing), the *)
(* spin lock that is offered beside them (SpinLock), and the work queue of *)
(* a worker (WorkQueue).  They share no memory, so one is run at a time.   *)
(***************************************************************************)
EXTENDS UnorderedMap, PlugRing, SpinLock, WorkQueue

VARIABLE table      \* the one in use: fixed

tablevars == <<vars, ringvars, lockvars, workvars, table>>

TablesInit ==
    /\ table \in {"map", "ring", "lock", "work"}
    /\ Init /\ PlugInit /\ LockInit
    /\ (table = "map") <=> (ops # {})
    /\ WorkInit(IF table = "work" THEN WorkDepths ELSE {0})

\* Calls of the ring and the lock are bounded in number, and a worker that threw
\* does nothing; when none is under way the threads may rest.
Rest ==
    /\ \/ table = "ring" /\ RingCallsEnd
       \/ table = "lock" /\ LocksIdle
       \/ table = "work" /\ depth_ = 0
    /\ UNCHANGED tablevars

UsesMap(A) == table = "map" /\ A /\ UNCHANGED <<ringvars, lockvars, workvars, table>>
UsesRing(A) == table = "ring" /\ A /\ UNCHANGED <<vars, lockvars, workvars, table>>
UsesLock(A) == table = "lock" /\ A /\ UNCHANGED <<vars, ringvars, workvars, table>>
UsesWork(A) == table = "work" /\ A /\ UNCHANGED <<vars, ringvars, lockvars, table>>

TablesNext ==
    UsesMap(Next) \/ UsesRing(PlugNext) \/ UsesLock(LockNext) \/ UsesWork(WorkNext) \/ Rest

\* A thread inside a call.
Runs(t) == UsesMap(Step(t)) \/ UsesRing(RingStep(t)) \/ UsesLock(LockStep(t))

\* Every thread inside a call keeps running, and so does the worker.
TablesSpec ==
    /\ TablesInit /\ [][TablesNext]_tablevars
    /\ \A t \in Threads : WF_tablevars(Runs(t))
    /\ WF_tablevars(UsesWork(Gives)) /\ WF_tablevars(UsesWork(Does))

\* The map, the ring, the lock and the work queue keep their invariants.
TablesInv == MapInv /\ PlugInv /\ LockInv /\ WorkInv

\* Set and Find return, their probes being bounded whatever the others do; so do
\* the calls of the ring, but for a wait for a lock that a timed wait has left
\* held; Lock never waits for long, as it soon takes a lock that is held; and the
\* worker comes to poll every queue pair it was assigned.
TableCallsReturn == SetFindReturn /\ <>[](RingCallsEnd /\ LocksIdle /\ WorkServed)
=============================================================================
