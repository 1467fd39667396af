--------------------------- MODULE ClientRuntime ---------------------------
(***************************************************************************)
(* What a client of LabStor does: it shares memory with the server, laid   *)
(* out by the configuration (MemoryLayout); it opens the libraries of the  *)
(* modules (ModuleTable); its threads send requests to modules             *)
(* (RequestPath); and its calls on files are turned into requests          *)
(* (GenericPosix).  The four touch no state of one another: a behaviour is *)
(* one of them, with the other three at rest.                              *)
(***************************************************************************)
EXTENDS MemoryLayout, RequestPath, GenericPosix, ModuleTable

vars == <<layoutvars, pathvars, posixvars, modulevars>>

\* Workloads of two workers with the thread ids t.
Load(ths, n, depth, services, batch, c, t, p, k) ==
    [threads |-> ths, num_queues |-> n, depth |-> depth,
     services |-> services, batch |-> batch, calls |-> c, tids |-> t,
     pages |-> p, kpages |-> k]
Apart2 == [w \in 0..1 |-> w]
Same2 == [w \in 0..1 |-> 2 * w]   \* one kernel queue for both

\* Two threads with queues of their own, whose workers share a kernel queue or
\* not, and run out of kernel pages or not; two threads on one queue; a batch
\* of up to twice the depth, and of more; a client that does not free its
\* pages; and modules that are missing or unfinished.
AllWorkloads ==
    {Load({0, 1}, 2, 1, {"IPCTest"}, 1, 1, Same2, 2, 2)} \union
    {Load({0, 1}, 2, 1, {"IPCTest", "Dummy"}, 1, 1, Apart2, 2, k) : k \in 1..2} \union
    {Load({0, 1}, 1, 1, {"IPCTest", "Dummy"}, 1, 2, Apart2, 2, 1)} \union
    {Load({0}, 1, 2, {"Dummy"}, b, 2, Apart2, b, 1) : b \in 3..4} \union
    {Load({0}, 1, 1, {"IPCTest"}, 2, 2, Apart2, 3, 2)} \union
    {Load({0}, 1, 1, {s}, b, 2, Apart2, 3, 1) :
        b \in {1, 3}, s \in {"Dummy", "IPCTest", "Unknown", "BlockFS", "NoOp"}}
NoLoad == Load({}, 1, 1, {}, 1, 0, Apart2, 1, 1)

AllPaths == {<<"lab::", "a", "b">>, <<"tmp">>}
AllMounts == {<<"lab::">>, <<"lab::", "a">>}

Installed(dir, id) == Directory(dir, id, TRUE, TRUE)
Spdk == Directory("spdk", "SPDK", TRUE, FALSE)

\* Repositories: one as the build installs it; one with a module that lacks its
\* client library; and two that have a module in common, whose directory is
\* named for its id or not.
AllRepoLists ==
    {<<{Installed("mq_driver", "MQ_DRIVER"), Installed("dummy", "Dummy"), Spdk}>>,
     <<{Installed("mq_driver", "MQ_DRIVER"), Directory("dummy", "Dummy", FALSE, TRUE)}, {Spdk}>>,
     <<{Installed("dummy", "Dummy")}, {Installed("dummy", "Dummy"), Spdk}>>,
     <<{Installed("NO_OP", "NO_OP")}, {Installed("NO_OP", "NO_OP"), Installed("dummy", "Dummy")}>>}
NoRepos == <<>>

Init ==
    \/ LayoutInit(Kinds) /\ PathInit({NoLoad}) /\ PosixInit({0}, {0}) /\ ModulesInit({NoRepos})
    \/ LayoutInit({"none"}) /\ PathInit(Workloads) /\ PosixInit({0}, {0}) /\ ModulesInit({NoRepos})
    \/ /\ LayoutInit({"none"}) /\ PathInit({NoLoad})
       /\ PosixInit(NumCPU, {0, LABSTOR_FD_MIN}) /\ ModulesInit({NoRepos})
    \/ LayoutInit({"none"}) /\ PathInit({NoLoad}) /\ PosixInit({0}, {0}) /\ ModulesInit(RepoLists)

LaysOut == kind # "none" /\ LayoutNext /\ UNCHANGED <<pathvars, posixvars, modulevars>>
SendsRequests == load # NoLoad /\ PathNext /\ UNCHANGED <<layoutvars, posixvars, modulevars>>
UsesFiles == ncpu # 0 /\ PosixNext /\ UNCHANGED <<layoutvars, pathvars, modulevars>>
LoadsModules == repos # NoRepos /\ ModulesNext /\ UNCHANGED <<layoutvars, pathvars, posixvars>>

Next == LaysOut \/ SendsRequests \/ UsesFiles \/ LoadsModules

Fairness == PathFairness /\ PosixFairness /\ ModulesFairness
Spec == Init /\ [][Next]_vars /\ Fairness

\* Calls come back: a thread that calls a module gets all its answers,
\* whichever queues and workers the thread ids select, unless the call is
\* spoiled; an open ends, whatever the server registers meanwhile; and so does
\* the loading of a module.  Calls are bounded in number: when there are no
\* more, all have returned for good.
ClientCallsReturn == <>[](Returned /\ Opened /\ ModulesLoaded)
=============================================================================
