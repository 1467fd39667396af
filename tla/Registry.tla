------------------------------ MODULE Registry ------------------------------
(***************************************************************************)
(* The namespace and the Registrar module: clients register instances of   *)
(* modules under keys, look keys up by a request or in the shared table,   *)
(* and load the client side of a module; server workers answer them.       *)
(*                                                                         *)
(* A client has one request under way at a time, in a queue pair that one  *)
(* worker polls.  A worker goes through its queue pairs in order; an error *)
(* thrown by a request ends the pass with the request still in its queue.  *)
(* AddKey takes no lock, so two workers may be in it at once: overlap      *)
(* remembers that this happened, and the accesses to private_state_ and to *)
(* the key table then have any of the outcomes of the race.                *)
(*                                                                         *)
(* ns_ids_, the ring of ids to use again, is never filled, so a new id     *)
(* always is the size of private_state_.  The key table itself is the      *)
(* subject of UnorderedMap: here it lists the ids stored for a key in the  *)
(* order in which a lookup meets them.                                     *)
(***************************************************************************)
EXTENDS Integers, Sequences, FiniteSets

CONSTANTS
    NumClients,
    NumWorkers,  \* most workers the server may be configured with
    NumModules,  \* modules LoadRepos found
    Keys,
    MaxEntries,  \* keys the table has room for
    CallSets,    \* sets of calls the clients may make in one run
    MaxCalls,    \* bound: calls of all clients
    None

ASSUME RegistryAssumption ==
    /\ NumClients \in Nat /\ NumWorkers \in Nat \ {0} /\ MaxCalls \in Nat
    /\ MaxEntries \in Nat
    /\ CallSets \subseteq SUBSET {"init", "odd init", "id", "open", "upgrade", "terminate"}
    /\ NumModules \in Nat \ {0}

Clients == 1..NumClients
Workers == 0..(NumWorkers - 1)
Modules == 0..(NumModules - 1)
ModuleOf(c) == c % NumModules  \* the module a client makes instances of
Unknown == NumModules          \* a module id that no repository has
Registrar == [module |-> None, key |-> None, by |-> 0]  \* ns_id 0
InvalidKey == -1

VARIABLES
    mix,       \* the calls the clients make: fixed
    spread,    \* workers the queue pairs are spread over: fixed
    up,        \* the server process runs
    private,   \* private_state_ of the server: ns_id n is element n + 1
    names,     \* key_to_ns_id_
    upgrades,  \* upgrades_
    at,        \* the client whose queue pair each worker looks at
    wpc, ns,   \* AddKey of each worker: its step and its ns_id
    overlap,   \* history: two workers were in AddKey at once
    req,       \* the request each client waits for, or None
    reply,     \* its answer, or None
    loaded,    \* private_state_ of each client
    lost,      \* clients that wrote past the end of their private_state_
    calls,     \* history: calls of the clients
    granted,   \* history: ids RegisterInstance returned
    resolved   \* history: what keys were resolved to

server == <<up, private, names, upgrades>>
worker == <<at, wpc, ns, overlap>>
client == <<mix, spread, loaded, lost, calls, granted, resolved>>
vars == <<mix, spread, up, private, names, upgrades, at, wpc, ns, overlap,
          req, reply, loaded, lost, calls, granted, resolved>>

\* The queue pairs of a worker, in the order of its work queue.
WorkerOf(c) == c % spread
Queues(w) == {c \in Clients : WorkerOf(c) = w}
First(w) == IF Queues(w) = {} THEN 0 ELSE CHOOSE c \in Queues(w) : \A d \in Queues(w) : c <= d
After(w) ==
    LET Later == {c \in Queues(w) : c > at[w]}
    IN  IF Later = {} THEN First(w)
        ELSE CHOOSE c \in Later : \A d \in Later : c <= d

Init ==
    /\ mix \in CallSets
    /\ spread \in 1..NumWorkers
    /\ up = TRUE
    /\ private = <<Registrar>>
    /\ names = [k \in Keys |-> <<>>]
    /\ upgrades = {}
    /\ at = [w \in Workers |-> First(w)]
    /\ wpc = [w \in Workers |-> "scan"]
    /\ ns = [w \in Workers |-> 0]
    /\ overlap = FALSE
    /\ req = [c \in Clients |-> None]
    /\ reply = [c \in Clients |-> None]
    /\ loaded = [c \in Clients |-> <<>>]
    /\ lost = {}
    /\ calls = 0
    /\ granted = {}
    /\ resolved = {}

-----------------------------------------------------------------------------
(* The key table and the namespace *)

\* Slip: the newest entry wins.
Find_Newest(k) == IF names[k] = <<>> THEN InvalidKey ELSE names[k][Len(names[k])]

Find(k) == IF names[k] = <<>> THEN InvalidKey ELSE Head(names[k])

Entries == UNION {{<<k, i>> : i \in 1..Len(names[k])} : k \in Keys}

GetModule(table, n) == IF n \in 0..(Len(table) - 1) THEN table[n + 1] ELSE None

-----------------------------------------------------------------------------
(* Clients *)

\* AllocRequest and Enqueue.  A call made once the server is gone never ends
\* and touches nothing, so there is none.
Send(c, r) ==
    /\ req[c] = None /\ c \notin lost /\ up /\ calls < MaxCalls
    /\ calls' = calls + 1
    /\ req' = [req EXCEPT ![c] = r]
    /\ UNCHANGED <<mix, spread, server, worker, reply, loaded, lost, granted>>

RegisterInstance(c, m, k) ==
    Send(c, [op |-> "init", module |-> m, key |-> k]) /\ UNCHANGED resolved

\* GetNamespaceID of the Registrar's client; also LoadClientModule by key.
GetNamespaceID(c, k) ==
    Send(c, [op |-> "id", key |-> k]) /\ UNCHANGED resolved

PushUpgrade(c) == Send(c, [op |-> "upgrade"]) /\ UNCHANGED resolved

TerminateServer(c) == Send(c, [op |-> "terminate"]) /\ UNCHANGED resolved

\* Open reads the shared table and loads the module when it is not there yet.
Open(c, k) ==
    LET n == Find(k) IN
    /\ n # InvalidKey
    /\ GetModule(loaded[c], n) = None
    /\ Send(c, [op |-> "path", ns |-> n])
    /\ resolved' = resolved \cup {<<k, n>>}

\* The write of RegisterPrivateState.  An id equal to the size is written
\* past the end: nothing is registered, and the client may not survive it.
RegisterPrivateState(c, n, m) ==
    IF n = Len(loaded[c])
      THEN /\ UNCHANGED loaded
           /\ lost' \in {lost, lost \cup {c}}
      ELSE /\ loaded' = [loaded EXCEPT ![c] =
                [i \in 1..(IF n > Len(@) THEN n + 1 ELSE Len(@)) |->
                    IF i = n + 1 THEN m ELSE IF i <= Len(@) THEN @[i] ELSE None]]
           /\ UNCHANGED lost

\* Wait returns and the rest of the call runs: LoadClientModule asks for the
\* path of the module whose id it found, and registers what it loaded.
CallReturns(c) ==
    /\ req[c] # None /\ reply[c] # None
    /\ reply' = [reply EXCEPT ![c] = None]
    /\ \/ /\ req[c].op = "init"
          /\ granted' = granted \cup {[by |-> c, module |-> req[c].module,
                                       key |-> req[c].key, ns |-> reply[c]]}
          /\ req' = [req EXCEPT ![c] = None]
          /\ UNCHANGED <<loaded, lost, resolved>>
       \/ /\ req[c].op = "id"
          /\ \/ req' = [req EXCEPT ![c] = None]
             \/ /\ reply[c] # InvalidKey
                /\ req' = [req EXCEPT ![c] = [op |-> "path", ns |-> reply[c]]]
          /\ resolved' = resolved \cup ({<<req[c].key, reply[c]>>} \ (Keys \X {InvalidKey}))
          /\ UNCHANGED <<granted, loaded, lost>>
       \/ /\ req[c].op = "path"
          /\ RegisterPrivateState(c, req[c].ns, reply[c])
          /\ req' = [req EXCEPT ![c] = None]
          /\ UNCHANGED <<granted, resolved>>
       \/ /\ req[c].op = "terminate"
          /\ req' = [req EXCEPT ![c] = None]
          /\ UNCHANGED <<granted, loaded, lost, resolved>>
    /\ UNCHANGED <<mix, spread, server, worker, calls>>

-----------------------------------------------------------------------------
(* Workers: Worker::DoWork and ProcessRequest of the Registrar *)

Pending(w, op) ==
    /\ up /\ wpc[w] = "scan" /\ at[w] \in Clients
    /\ req[at[w]] # None /\ reply[at[w]] = None /\ at[w] \notin upgrades
    /\ req[at[w]].op = op

\* The request is answered and dequeued; the worker goes on.
Complete(w, r) ==
    /\ reply' = [reply EXCEPT ![at[w]] = r]
    /\ at' = [at EXCEPT ![w] = After(w)]

SkipQueue(w) ==
    /\ up /\ wpc[w] = "scan" /\ at[w] \in Clients
    /\ req[at[w]] = None \/ reply[at[w]] # None \/ at[w] \in upgrades
    /\ at' = [at EXCEPT ![w] = After(w)]
    /\ at' # at
    /\ UNCHANGED <<server, wpc, ns, overlap, req, reply, client>>

\* Slip: only a key that is found is answered.
ProcessGetNamespaceId_NotFound(w) ==
    /\ Pending(w, "id")
    /\ IF Find(req[at[w]].key) = InvalidKey
         THEN at' = [at EXCEPT ![w] = After(w)] /\ UNCHANGED reply
         ELSE Complete(w, Find(req[at[w]].key))
    /\ UNCHANGED <<server, wpc, ns, overlap, req, client>>

ProcessGetNamespaceId(w) ==
    /\ Pending(w, "id")
    /\ Complete(w, Find(req[at[w]].key))
    /\ UNCHANGED <<server, wpc, ns, overlap, req, client>>

\* Slip: the id is taken for a position.
ProcessGetModulePath_Position(w) ==
    /\ Pending(w, "path")
    /\ Complete(w, private[req[at[w]].ns].module)
    /\ UNCHANGED <<server, wpc, ns, overlap, req, client>>

\* The path is that of the client library of the instance's module; an id
\* without an instance is a null pointer.
ProcessGetModulePath(w) ==
    /\ Pending(w, "path")
    /\ LET module == GetModule(private, req[at[w]].ns) IN
       IF module = None
         THEN up' = FALSE /\ UNCHANGED <<reply, at>>
         ELSE Complete(w, module.module) /\ UNCHANGED up
    /\ UNCHANGED <<private, names, upgrades, wpc, ns, overlap, req, client>>

\* The request is dequeued and nobody ever completes it.
ProcessPushUpgrade(w) ==
    /\ Pending(w, "upgrade")
    /\ upgrades' = upgrades \cup {at[w]}
    /\ at' = [at EXCEPT ![w] = After(w)]
    /\ UNCHANGED <<up, private, names, wpc, ns, overlap, req, reply, client>>

ProcessTerminate(w) ==
    /\ Pending(w, "terminate")
    /\ Complete(w, 0)
    /\ up' = FALSE
    /\ UNCHANGED <<private, names, upgrades, wpc, ns, overlap, req, client>>

\* GetModuleConstructor throws: the pass ends, the request stays.
ProcessInitThrows(w) ==
    /\ Pending(w, "init")
    /\ req[at[w]].module \notin Modules
    /\ at' = [at EXCEPT ![w] = First(w)]
    /\ at' # at
    /\ UNCHANGED <<server, wpc, ns, overlap, req, reply, client>>

\* Slip: the id is that of the last instance.
AddKeySize_Last(w) ==
    /\ Pending(w, "init")
    /\ req[at[w]].module \in Modules
    /\ ns' = [ns EXCEPT ![w] = Len(private) - 1]
    /\ wpc' = [wpc EXCEPT ![w] = "emplace"]
    /\ overlap' = (overlap \/ \E v \in Workers : wpc[v] # "scan")
    /\ UNCHANGED <<server, at, req, reply, client>>

AddKeySize(w) ==
    /\ Pending(w, "init")
    /\ req[at[w]].module \in Modules
    /\ ns' = [ns EXCEPT ![w] = Len(private)]
    /\ wpc' = [wpc EXCEPT ![w] = "emplace"]
    /\ overlap' = (overlap \/ \E v \in Workers : wpc[v] # "scan")
    /\ UNCHANGED <<server, at, req, reply, client>>

Instance(w) ==
    [module |-> req[at[w]].module, key |-> req[at[w]].key, by |-> at[w]]

\* private_state_.emplace_back(module): the end it stores at and moves was
\* loaded at some time since the size was read.
AddKeyEmplace(w) ==
    /\ up /\ wpc[w] = "emplace"
    /\ \E end \in (ns[w]..Len(private)) \cup {Len(private)} :
        private' = Append(SubSeq(private, 1, end), Instance(w))
    /\ wpc' = [wpc EXCEPT ![w] = "set"]
    /\ UNCHANGED <<up, names, upgrades, at, ns, overlap, req, reply, client>>

\* Slip: the key is stored for the id after the new one.
AddKeySet_NextId(w) ==
    /\ up /\ wpc[w] = "set"
    /\ names' = [names EXCEPT ![req[at[w]].key] = Append(@, ns[w] + 1)]
    /\ wpc' = [wpc EXCEPT ![w] = "scan"]
    /\ Complete(w, ns[w])
    /\ UNCHANGED <<up, private, upgrades, ns, overlap, req, client>>

\* key_to_ns_id_.Set, whose failure is only printed, and the answer.  Two at
\* once may come to lie in either order.
AddKeySet(w) ==
    /\ up /\ wpc[w] = "set"
    /\ LET k == req[at[w]].key IN
       IF Cardinality(Entries) < MaxEntries
         THEN \/ names' = [names EXCEPT ![k] = Append(@, ns[w])]
              \/ overlap /\ names' = [names EXCEPT ![k] = <<ns[w]>> \o @]
         ELSE UNCHANGED names
    /\ wpc' = [wpc EXCEPT ![w] = "scan"]
    /\ Complete(w, ns[w])
    /\ UNCHANGED <<up, private, upgrades, ns, overlap, req, client>>

\* private_state_ moves while another worker reads it or adds to it.
ReallocationRace(w) ==
    /\ up /\ wpc[w] = "emplace"
    /\ \E v \in Workers \ {w} :
        \/ wpc[v] = "emplace"
        \/ wpc[v] = "scan" /\ at[v] \in Clients /\ req[at[v]] # None /\ reply[at[v]] = None
    /\ up' = FALSE
    /\ UNCHANGED <<private, names, upgrades, worker, req, reply, client>>

\* The upgrade thread: a file that asks for a code update makes the YAML
\* library throw, which nothing catches; any other file has no effect.
UpgradeThread ==
    /\ up /\ upgrades # {}
    /\ up' = FALSE
    /\ UNCHANGED <<private, names, upgrades, worker, req, reply, client>>

-----------------------------------------------------------------------------

Call(c) ==
    \/ "init" \in mix /\ \E k \in Keys : RegisterInstance(c, ModuleOf(c), k)
    \/ "odd init" \in mix /\ \E k \in Keys : RegisterInstance(c, Unknown, k)
    \/ "id" \in mix /\ \E k \in Keys : GetNamespaceID(c, k)
    \/ "open" \in mix /\ \E k \in Keys : Open(c, k)
    \/ "upgrade" \in mix /\ PushUpgrade(c)
    \/ "terminate" \in mix /\ TerminateServer(c)

Work(w) ==
    \/ SkipQueue(w) \/ ProcessGetNamespaceId(w) \/ ProcessGetModulePath(w)
    \/ ProcessPushUpgrade(w) \/ ProcessTerminate(w) \/ ProcessInitThrows(w)
    \/ AddKeySize(w) \/ AddKeyEmplace(w) \/ AddKeySet(w)

Next ==
    \/ \E c \in Clients : Call(c) \/ CallReturns(c)
    \/ \E w \in Workers : Work(w) \/ ReallocationRace(w)
    \/ UpgradeThread

Spec == Init /\ [][Next]_vars

\* Workers keep polling and clients keep waiting.
FairSpec ==
    /\ Spec
    /\ \A w \in Workers : WF_vars(Work(w))
    /\ \A c \in Clients : WF_vars(CallReturns(c))

-----------------------------------------------------------------------------
(* Properties *)

\* Types of the namespace, the workers and the clients; the key table never
\* holds more entries than it has room for.
TypeOK ==
    /\ up \in BOOLEAN /\ overlap \in BOOLEAN
    /\ private \in Seq([module : Modules \cup {None}, key : Keys \cup {None},
                        by : Clients \cup {0}])
    /\ Cardinality(Entries) <= MaxEntries
    /\ upgrades \subseteq Clients /\ lost \subseteq Clients
    /\ at \in [Workers -> Clients \cup {0}]
    /\ wpc \in [Workers -> {"scan", "emplace", "set"}]
    /\ ns \in [Workers -> Nat]
    /\ loaded \in [Clients -> Seq(Modules \cup {None})]

\* Unless two registrations overlapped, an id that can be found under a key,
\* or was returned to a client, has an instance: a client that asks for its
\* path never makes the server follow a null pointer (AddKey sets
\* private_state_ before it publishes the key).
PublishedResolves ==
    ~overlap =>
        /\ \A k \in Keys : \A i \in 1..Len(names[k]) :
            GetModule(private, names[k][i]) # None
        /\ \A g \in granted : GetModule(private, g.ns) # None

\* Unless two registrations overlapped, the id a client got is that of the
\* instance made for its request, and no two clients share one (Initialize,
\* AddKey).
GrantedIsOwn ==
    ~overlap => \A g \in granted :
        GetModule(private, g.ns) = [module |-> g.module, key |-> g.key, by |-> g.by]

\* Unless two registrations overlapped, a key is resolved to the same id at
\* all times and on both ways, by request and in the shared table, however
\* often the key is registered again (GetNamespaceID, Open).
KeysResolveAlike ==
    ~overlap => \A r, s \in resolved : r[1] = s[1] => r[2] = s[2]

\* The types, an instance behind every published id, the caller's own behind
\* the one it was given, and one id for a key: what AddKey keeps unless two
\* registrations overlap.
RegistryInv == TypeOK /\ PublishedResolves /\ GrantedIsOwn /\ KeysResolveAlike

\* Unless two registrations overlapped, the module a client loaded for an id
\* is the client side of the instance the server has under that id.
LoadedMatches ==
    ~overlap => \A c \in Clients : \A i \in 1..Len(loaded[c]) :
        loaded[c][i] # None => private[i].module = loaded[c][i]

\* The worker of c cannot get to c's queue pair: a request it passes before,
\* or c's own, names a module nobody has.
Stuck(c) ==
    \E d \in Queues(WorkerOf(c)) :
        d <= c /\ req[d] # None /\ req[d].op = "init" /\ req[d].module \notin Modules

\* Every call but an upgrade returns, unless the server ends or an earlier
\* queue pair of the same worker holds a request that throws (Worker::DoWork).
CallsReturn ==
    \A c \in Clients :
        (req[c] # None /\ req[c].op # "upgrade") ~> (req[c] = None \/ ~up \/ Stuck(c))
=============================================================================
