---------------------------- MODULE GenericPosix ----------------------------
(***************************************************************************)
(* Files of a client: the wrappers around open, close, read and write, the *)
(* GenericPosix client behind them, which finds the module a path belongs  *)
(* to and gives out descriptors, and the BlockFS client, which keeps the   *)
(* position of each file.                                                  *)
(*                                                                         *)
(* A path is the sequence of its parts, a key of the namespace a path.     *)
(* Threads interleave with each other and with the server's registrations  *)
(* between the lookups of one open.  The std containers are taken to be    *)
(* atomic: threads that meet inside one are undefined and left out.        *)
(***************************************************************************)
EXTENDS Integers, Sequences, FiniteSets

CONSTANTS
    FileThreads, \* thread ids of the client
    NumCPU,      \* GetNumCPU: the values tried
    Paths,       \* paths the client opens
    Mounts,      \* keys the server may register
    MaxOpens, MaxIO

\* The code's are 1000 and 50000.
LABSTOR_MAX_FDS_PER_THREAD == 10
LABSTOR_FD_MIN == 50
LABSTOR_PATH_PREFIX == "lab::"
RealFD == 3           \* what the real open returns

ASSUME PosixAssumption ==
    /\ FileThreads \subseteq Nat /\ NumCPU \subseteq Nat \ {0}
    /\ {MaxOpens, MaxIO} \subseteq Nat /\ \A p \in Paths : p # <<>>

VARIABLES
    ncpu,         \* fixed
    ns,           \* the shared namespace: keys in the order of their ids 1, 2, ...
    attached,     \* Connect has mapped the namespace
    locked, fd_min_, prefix_,
    psize, loaded,   \* private_state_: its size, and the ids it holds
    pool,         \* free_fds_ of every FDAllocator
    fd_to_ns_id_, fd_to_file_,
    thread,       \* each thread: location and what its call has found
    last,         \* how an open ended, until the next call
    held,         \* each thread: the file it has open, and what it asked of it
    crashed, early, lost, misused,
    opens, ios

server == ns
config == <<attached, locked, fd_min_, prefix_>>
modules == <<psize, loaded>>
tables == <<pool, fd_to_ns_id_, fd_to_file_>>
flags == <<crashed, early, lost, misused>>
counts == <<opens, ios>>
posixvars == <<ncpu, ns, config, modules, tables, thread, last, held, flags, counts>>

Ids == 1..Cardinality(Mounts)
Fds == {RealFD} \union {LABSTOR_FD_MIN + t * LABSTOR_MAX_FDS_PER_THREAD : t \in FileThreads}
Closed == -1
Nothing == [fd |-> -1, id |-> 0, pos |-> 0, blurred |-> FALSE]
NoOpen == [path |-> <<>>, len |-> 0, seen |-> {}]
Idle == [at |-> "idle", path |-> <<>>, len |-> 0, id |-> 0, fd |-> -1, seen |-> {}]

Prefix(p, len) == SubSeq(p, 1, len)
IsLab(p) == p[1] = LABSTOR_PATH_PREFIX
Registered == {ns[i] : i \in DOMAIN ns}
GetNamespaceID(key) == CHOOSE i \in DOMAIN ns : ns[i] = key

\* Slip: the first slash, not the last.
PriorSlash_First(p, len) == IF len > 1 THEN 1 ELSE 0

\* The path up to the last slash before len; 0 when there is none.
PriorSlash(p, len) == len - 1

PosixInit(cpus, mins) ==
    /\ ncpu \in cpus
    /\ ns = <<>> /\ attached = FALSE /\ locked = FALSE
    /\ fd_min_ \in mins              \* not initialised: some value
    /\ prefix_ = FALSE               \* the empty string
    /\ psize = 0 /\ loaded = {}
    /\ pool = [t \in FileThreads |-> <<>>]
    /\ fd_to_ns_id_ = [f \in Fds |-> Closed]
    /\ fd_to_file_ = [x \in (Ids \union {0}) \X Fds |-> Closed]
    /\ thread = [t \in FileThreads |-> Idle]
    /\ last = NoOpen
    /\ held = [t \in FileThreads |-> Nothing]
    /\ crashed = FALSE /\ early = FALSE /\ lost = FALSE /\ misused = FALSE
    /\ opens = 0 /\ ios = 0

\* The server registers a file system, at any time.
Register(k) ==
    /\ k \notin Registered /\ ns' = Append(ns, k)
    /\ UNCHANGED <<ncpu, config, modules, tables, thread, last, held, flags, counts>>

-----------------------------------------------------------------------------
(* Initialize.  The lock is tried, never released; the thread that does    *)
(* not get it returns at once.                                             *)

Go(t, r) == thread' = [thread EXCEPT ![t] = r]
At(t, l) == thread[t].at = l /\ ~crashed

Initialize(t) ==
    /\ At(t, "idle") /\ ~locked
    /\ locked' = TRUE
    /\ Go(t, [Idle EXCEPT !.at = "connect"])
    /\ UNCHANGED <<ncpu, server, attached, fd_min_, prefix_, modules, tables, last, held, flags, counts>>

Connect(t) ==
    /\ At(t, "connect")
    /\ attached' = TRUE
    /\ Go(t, [Idle EXCEPT !.at = "fd_min"])
    /\ UNCHANGED <<ncpu, server, locked, fd_min_, prefix_, modules, tables, last, held, flags, counts>>

SetMin(t) ==
    /\ At(t, "fd_min")
    /\ fd_min_' = LABSTOR_FD_MIN
    /\ Go(t, [Idle EXCEPT !.at = "prefix"])
    /\ UNCHANGED <<ncpu, server, attached, locked, prefix_, modules, tables, last, held, flags, counts>>

SetPrefix(t) ==
    /\ At(t, "prefix")
    /\ prefix_' = TRUE
    /\ Go(t, Idle)
    /\ UNCHANGED <<ncpu, server, attached, locked, fd_min_, modules, tables, last, held, flags, counts>>

-----------------------------------------------------------------------------
(* open *)

\* The wrapper and the prefix test.  A path of other files, and one no module
\* owns, goes to the real open.
Return(t, fd) ==
    /\ last' = [path |-> thread[t].path, len |-> thread[t].len, seen |-> thread[t].seen]
    /\ held' = [held EXCEPT ![t] = [Nothing EXCEPT !.fd = fd, !.id = thread[t].id]]
    /\ Go(t, Idle)

Open(t, p) ==
    /\ At(t, "idle") /\ opens < MaxOpens /\ opens' = opens + 1
    /\ early' = (early \/ ~prefix_)
    /\ misused' = (misused \/ held[t].fd >= LABSTOR_FD_MIN)
    /\ Go(t, [Idle EXCEPT !.at = IF prefix_ /\ ~IsLab(p) THEN "real" ELSE "lookup",
                          !.path = p, !.len = Len(p), !.seen = Registered])
    /\ last' = NoOpen
    /\ UNCHANGED <<ncpu, server, config, modules, tables, held, crashed, lost, ios>>

RealOpen(t) ==
    /\ At(t, "real") /\ Return(t, RealFD)
    /\ UNCHANGED <<ncpu, server, config, modules, tables, flags, counts>>

\* One round of the loop over the prefixes, longest first.  The namespace is
\* read through an unmapped region when nobody has connected.
Lookup(t) ==
    LET me == thread[t]
        key == Prefix(me.path, me.len)
    IN /\ At(t, "lookup")
       /\ \/ /\ ~attached /\ crashed' = TRUE /\ UNCHANGED thread
          \/ /\ attached /\ key \in Registered
             /\ Go(t, [me EXCEPT !.id = GetNamespaceID(key), !.at =
                         IF GetNamespaceID(key) \in loaded THEN "alloc" ELSE "load"])
             /\ UNCHANGED crashed
          \/ /\ attached /\ key \notin Registered
             /\ Go(t, [me EXCEPT !.len = PriorSlash(me.path, me.len),
                         !.at = IF PriorSlash(me.path, me.len) = 0 THEN "real" ELSE "lookup"])
             /\ UNCHANGED crashed
       /\ UNCHANGED <<ncpu, server, config, modules, tables, last, held, early, lost, misused, counts>>

\* LoadClientModule and RegisterPrivateState: an id equal to the size is
\* written behind the end of the vector, and no lookup finds it.
LoadClientModule(t) ==
    LET id == thread[t].id IN
    /\ At(t, "load")
    /\ psize' = IF id > psize THEN id + 1 ELSE psize
    /\ loaded' = IF id = psize THEN loaded ELSE loaded \union {id}
    /\ lost' = (lost \/ id = psize)
    /\ Go(t, [thread[t] EXCEPT !.at = "alloc"])
    /\ UNCHANGED <<ncpu, server, config, tables, last, held, crashed, early, misused, counts>>

\* AllocateFD takes a descriptor that was freed, or the first of the thread:
\* alloced_fds_ is never incremented.
AllocateFD(t) ==
    IF pool[t] # <<>> THEN Head(pool[t])
                      ELSE LABSTOR_FD_MIN + t * LABSTOR_MAX_FDS_PER_THREAD
Emplace(f, x, v) == IF f[x] = Closed THEN [f EXCEPT ![x] = v] ELSE f

\* The descriptor is entered with the module's id, and the module opens it.
\* There is one allocator per CPU, and no test that the thread has one.
FinishOpen(t) ==
    LET me == thread[t]
        fd == AllocateFD(t)
    IN /\ At(t, "alloc")
       /\ \/ /\ t >= ncpu /\ crashed' = TRUE
             /\ UNCHANGED <<tables, thread, last, held>>
          \/ /\ t < ncpu /\ UNCHANGED crashed
             /\ pool' = [pool EXCEPT ![t] = IF @ = <<>> THEN @ ELSE Tail(@)]
             /\ fd_to_ns_id_' = Emplace(fd_to_ns_id_, fd, me.id)
             /\ fd_to_file_' = Emplace(fd_to_file_, <<me.id, fd>>, 0)
             /\ Return(t, fd)
       /\ UNCHANGED <<ncpu, server, config, modules, early, lost, misused, counts>>

-----------------------------------------------------------------------------
(* close and I/O.  A thread uses the file it has open, or another's.       *)

Known == {held[t].fd : t \in FileThreads} \ {-1}
Owner(fd) == {t \in FileThreads : held[t].fd = fd}

\* fd_to_ns_id_[fd]: an unknown descriptor is entered, with id 0.
NsOf(fd) == IF fd_to_ns_id_[fd] = Closed THEN 0 ELSE fd_to_ns_id_[fd]
Misuse(t, fd) == misused' = (misused \/ (fd # RealFD /\ Owner(fd) # {t}))

\* Slip: the module forgets nothing.
FinishClose_Kept(t, fd) ==
    /\ fd_to_ns_id_' = [fd_to_ns_id_ EXCEPT ![fd] = Closed]
    /\ pool' = [pool EXCEPT ![t] = Append(@, fd)]
    /\ UNCHANGED fd_to_file_

\* The module closes, the entry is erased, and the descriptor goes to the
\* allocator of the calling thread.
FinishClose(t, fd) ==
    /\ fd_to_file_' = [fd_to_file_ EXCEPT ![<<NsOf(fd), fd>>] = Closed]
    /\ fd_to_ns_id_' = [fd_to_ns_id_ EXCEPT ![fd] = Closed]
    /\ pool' = [pool EXCEPT ![t] = Append(@, fd)]

\* A descriptor below fd_min_ gives -1, which is not the code on which the
\* wrapper calls the real close: the file stays open.
Close(t, fd) ==
    /\ At(t, "idle") /\ fd \in Known
    /\ Misuse(t, fd)
    /\ early' = (early \/ ~prefix_)
    /\ held' = [u \in FileThreads |-> IF u \in Owner(fd) THEN Nothing ELSE held[u]]
    /\ \/ fd < fd_min_ /\ UNCHANGED <<tables, crashed>>
       \/ /\ fd >= fd_min_ /\ (NsOf(fd) \notin loaded \/ t >= ncpu)
          /\ crashed' = TRUE /\ UNCHANGED tables
       \/ /\ fd >= fd_min_ /\ NsOf(fd) \in loaded /\ t < ncpu
          /\ FinishClose(t, fd) /\ UNCHANGED crashed
    /\ last' = NoOpen
    /\ UNCHANGED <<ncpu, server, config, modules, thread, lost, counts>>

\* The module's file of fd, entered with position 0 when it is not there.
Position(id, fd) == IF fd_to_file_[<<id, fd>>] = Closed THEN 0 ELSE fd_to_file_[<<id, fd>>]
Advance(id, fd, size) ==
    fd_to_file_' = [fd_to_file_ EXCEPT ![<<id, fd>>] = Position(id, fd) + size]

\* GenericPosix::AIO and the module's, which may advance the file's position;
\* every transfer is of one block.
Submit(t, fd, advances, mark, next) ==
    /\ At(t, "idle") /\ fd \in Known /\ ios < MaxIO /\ ios' = ios + 1
    /\ Misuse(t, fd)
    /\ early' = (early \/ ~prefix_)
    /\ \/ fd < fd_min_ /\ UNCHANGED <<fd_to_ns_id_, fd_to_file_, held, thread, crashed>>
       \/ /\ fd >= fd_min_ /\ NsOf(fd) \notin loaded
          /\ crashed' = TRUE /\ UNCHANGED <<fd_to_ns_id_, fd_to_file_, held, thread>>
       \/ /\ fd >= fd_min_ /\ NsOf(fd) \in loaded
          /\ fd_to_ns_id_' = Emplace(fd_to_ns_id_, fd, 0)
          /\ IF advances THEN Advance(NsOf(fd), fd, 1) ELSE UNCHANGED fd_to_file_
          /\ held' = [u \in FileThreads |-> IF u \in Owner(fd) THEN mark[u] ELSE held[u]]
          /\ Go(t, next)
          /\ UNCHANGED crashed
    /\ last' = NoOpen
    /\ UNCHANGED <<ncpu, server, config, modules, pool, lost, opens>>

Moved == [u \in FileThreads |-> [held[u] EXCEPT !.pos = @ + 1]]
Blurred == [u \in FileThreads |-> [held[u] EXCEPT !.blurred = TRUE]]
Waiting(fd) == [Idle EXCEPT !.at = "wait", !.fd = fd, !.id = NsOf(fd)]

AIO(t, fd) == Submit(t, fd, TRUE, Moved, Idle)
AIOAt(t, fd) == Submit(t, fd, FALSE, held, Idle)

\* IO submits with AIO, which has advanced the position already, and waits.
IO(t, fd) == Submit(t, fd, TRUE, Moved, [Waiting(fd) EXCEPT !.len = 1])

\* At an offset it does the same: the offset is not used.
IOAt(t, fd) == Submit(t, fd, TRUE, Blurred, Waiting(fd))

\* pread, pwrite, the vector calls and their variants: all go to the real
\* function, which fails on a descriptor that is not its own.
PassThrough(t, fd) ==
    /\ At(t, "idle") /\ fd \in Known /\ ios < MaxIO /\ ios' = ios + 1
    /\ last' = NoOpen
    /\ UNCHANGED <<ncpu, server, config, modules, tables, thread, held, flags, opens>>

\* If an answer comes, an IO without an offset advances the position again.
IOReturn(t) ==
    LET me == thread[t] IN
    /\ At(t, "wait")
    /\ \/ me.len = 0 /\ UNCHANGED <<fd_to_file_, held>>
       \/ /\ me.len = 1 /\ Advance(me.id, me.fd, 1)
          /\ held' = [u \in FileThreads |-> IF held[u].fd = me.fd THEN Blurred[u] ELSE held[u]]
    /\ Go(t, Idle)
    /\ UNCHANGED <<ncpu, server, config, modules, pool, fd_to_ns_id_, last, flags, counts>>

GoOn(t) ==
    \/ Connect(t) \/ SetMin(t) \/ SetPrefix(t)
    \/ RealOpen(t) \/ Lookup(t) \/ LoadClientModule(t) \/ FinishOpen(t)
Use(t) ==
    \E fd \in Known :
        \/ Close(t, fd) \/ PassThrough(t, fd)
        \/ AIO(t, fd) \/ AIOAt(t, fd) \/ IO(t, fd) \/ IOAt(t, fd)

PosixNext ==
    \/ \E k \in Mounts : Register(k)
    \/ \E t \in FileThreads : Initialize(t) \/ GoOn(t) \/ IOReturn(t) \/ Use(t)
                            \/ \E p \in Paths : Open(t, p)

\* A call that has begun goes on; nothing makes the server answer an IO.
PosixFairness == \A t \in FileThreads : WF_posixvars(GoOn(t))
-----------------------------------------------------------------------------
(* Properties *)

PosixTypeOK ==
    /\ psize \in Nat /\ loaded \subseteq Ids
    /\ fd_to_ns_id_ \in [Fds -> Ids \union {0, Closed}]
    /\ \A t \in FileThreads : held[t].fd \in Fds \union {-1} /\ thread[t].len >= 0

\* The process dies only of a call before Initialize has ended, of a module
\* entered behind the end of private_state_, of a descriptor that is not the
\* caller's, or of a thread without an allocator.
CrashHasCause == crashed => early \/ lost \/ misused \/ \E t \in FileThreads : t >= ncpu

\* An open ends at the longest prefix of its path that was registered when it
\* began, or a longer one registered since; and goes to the real open only if
\* none was.  The lookups are not atomic: the server registers between them.
ResolvesLongest ==
    last.path # <<>> /\ IsLab(last.path) =>
      \A len \in (last.len + 1)..Len(last.path) : Prefix(last.path, len) \notin last.seen

\* The types, a cause for every crash, and the right module for every path.
PosixInv == PosixTypeOK /\ CrashHasCause /\ ResolvesLongest

\* While every thread has at most one file open, uses and closes only its own,
\* and no module was lost: a descriptor is held by one thread, leads to the
\* module its path resolved to, and that module's position of the file is what
\* was asked of this file since its open, nothing left over from the one that
\* had the descriptor before; until an IO is answered, which counts twice, or
\* made at an offset, which counts although the position should stay.
OpenFileIsOwn ==
    ~early /\ ~lost /\ ~misused =>
      \A t \in FileThreads : held[t].fd >= LABSTOR_FD_MIN =>
        /\ Owner(held[t].fd) = {t}
        /\ fd_to_ns_id_[held[t].fd] = held[t].id
        /\ held[t].id \in loaded
        /\ held[t].blurred \/ fd_to_file_[<<held[t].id, held[t].fd>>] = held[t].pos

\* No open and no Initialize is under way.
Opened == crashed \/ \A t \in FileThreads : thread[t].at \in {"idle", "wait"}
=============================================================================
