----------------------------- MODULE ModuleTable -----------------------------
(***************************************************************************)
(* The libraries of the modules.  The server opens those of its            *)
(* repositories at the start; a client opens the client library of each    *)
(* module it uses, at the path the server tells it, again on every         *)
(* LoadClientModule.  Both keep one constructor per module id, and count   *)
(* on dlopen and dlclose to keep its library in memory.                    *)
(*                                                                         *)
(* A repository is a set of directories; their order is the file system's. *)
(* A directory is named for the module, but its libraries say which module *)
(* id they have, and the two names need not agree.                         *)
(***************************************************************************)
EXTENDS Integers, Sequences, FiniteSets

CONSTANTS
    RepoLists,    \* the configurations: sequences of repositories
    LoadThreads,  \* threads of the client
    MaxLoads      \* calls of LoadClientModule

\* A directory of a repository: its name, the id in its libraries, and which
\* libraries there are.
Directory(dir, id, client, server) ==
    [dir |-> dir, id |-> id, client |-> client, server |-> server]

VARIABLES
    repos, more,    \* fixed; the repositories and directories not yet read
    carried,        \* paths: declared once for a repository
    paths_,         \* AddModulePaths: [client, server] for each id
    pkg_pool_,      \* of each side: the handle kept for each id
    refs,           \* of each side: how often dlopen has the library open
    loader,         \* each thread of the client
    blank, loads    \* a client opened an empty path; calls made

modulevars == <<repos, more, carried, paths_, pkg_pool_, refs, loader, blank, loads>>

Sides == {"server", "client"}
Directories(rs) == UNION {rs[i] : i \in DOMAIN rs}
AllDirectories == UNION {Directories(rs) : rs \in RepoLists}
Names == {e.dir : e \in AllDirectories} \union {e.id : e \in AllDirectories}
\* A library is known by the repository and the directory it is in.
Libs == UNION {{<<i, e>> : e \in rs[i]} : <<rs, i>> \in
                 {<<rs, i>> \in RepoLists \X (1..3) : i \in DOMAIN rs}}
NoLib == <<>>
IdOf(lib) == lib[2].id
NoPaths == [client |-> NoLib, server |-> NoLib]
NoLoading == [at |-> "idle", id |-> "", path |-> NoLib, lib |-> NoLib, code |-> NoLib]

Dead == [NoLoading EXCEPT !.at = "dead"]

ModulesInit(lists) ==
    /\ repos \in lists /\ more = repos
    /\ carried = NoPaths
    /\ paths_ = [n \in Names |-> NoPaths]
    /\ pkg_pool_ = [s \in Sides |-> [n \in Names |-> [lib |-> NoLib, code |-> NoLib]]]
    /\ refs = [s \in Sides |-> [l \in Libs |-> 0]]
    /\ loader = [t \in LoadThreads |-> NoLoading]
    /\ blank = FALSE /\ loads = 0

-----------------------------------------------------------------------------
(* ModuleTable *)

HasModule(s, id) == pkg_pool_[s][id].code # NoLib

\* dlclose; NoLib is the program itself, which is never unloaded.
DLClose(count, lib) ==
    IF lib = NoLib \/ count[lib] = 0 THEN count ELSE [count EXCEPT ![lib] = @ - 1]

\* Slip: the handle just opened is closed, also when it is the one kept.
SetModuleConstructor_CloseNew(s, count, id, h) ==
    /\ refs' = [refs EXCEPT ![s] = DLClose(count, h.lib)]
    /\ pkg_pool_' = IF HasModule(s, id) THEN pkg_pool_
                    ELSE [pkg_pool_ EXCEPT ![s][id] = h]

\* The handle kept so far is closed, but it stays: emplace replaces nothing.
SetModuleConstructor(s, count, id, h) ==
    /\ refs' = [refs EXCEPT ![s] = DLClose(count, pkg_pool_[s][id].lib)]
    /\ pkg_pool_' = IF HasModule(s, id) THEN pkg_pool_
                    ELSE [pkg_pool_ EXCEPT ![s][id] = h]

\* dlopen of a path, and the library create_module is found in.  The empty path
\* is the program, whose symbols are those of every library it has opened.
OpenModule(s, path) ==
    IF path # NoLib THEN {[lib |-> path, code |-> path]}
    ELSE {[lib |-> NoLib, code |-> l] : l \in {k \in Libs : refs[s][k] > 0}}
DLOpen(s, path) == IF path = NoLib THEN refs[s] ELSE [refs[s] EXCEPT ![path] = @ + 1]

-----------------------------------------------------------------------------
(* LoadRepos *)

\* The paths of a directory; what it does not have is left from the directory
\* before it.
EntryPaths(e, lib) ==
    [client |-> IF e.client THEN lib ELSE carried.client,
     server |-> IF e.server THEN lib ELSE carried.server]

\* Slip: under the name of the directory.
PathKey_Dir(e) == e.dir

\* The key of a directory: the id its server library says, or else its name.
PathKey(e) == IF e.server THEN e.id ELSE e.dir
AddModulePaths(id, p) == paths_' = [paths_ EXCEPT ![id] = p]

\* The next directory, skipped when its name is a known module id.  A library
\* that does not open ends the server before there are clients; left out.
LoadEntry(e) ==
    LET r == Len(repos) - Len(more) + 1
        lib == <<r, e>>
    IN /\ more # <<>> /\ e \in Head(more)
       /\ more' = [more EXCEPT ![1] = @ \ {e}]
       /\ IF HasModule("server", e.dir) THEN UNCHANGED <<carried, paths_, pkg_pool_, refs>>
          ELSE /\ carried' = EntryPaths(e, lib)
               /\ IF e.server
                  THEN SetModuleConstructor("server", DLOpen("server", lib), e.id,
                                            [lib |-> lib, code |-> lib])
                  ELSE UNCHANGED <<pkg_pool_, refs>>
               /\ AddModulePaths(PathKey(e), carried')
       /\ UNCHANGED <<repos, loader, blank, loads>>

NextRepo ==
    /\ more # <<>> /\ Head(more) = {}
    /\ more' = Tail(more) /\ carried' = NoPaths
    /\ UNCHANGED <<repos, paths_, pkg_pool_, refs, loader, blank, loads>>

\* A repository without an include directory: those after it are not read.
RepoMissing ==
    /\ more # <<>> /\ Head(more) = repos[Len(repos) - Len(more) + 1]
    /\ more' = <<>>
    /\ UNCHANGED <<repos, carried, paths_, pkg_pool_, refs, loader, blank, loads>>

-----------------------------------------------------------------------------
(* LoadClientModule *)

LoadGoes(t, r) == loader' = [loader EXCEPT ![t] = r]

\* The path of an instance's module, as GetModulePath of the server gives it.
GetModulePath(t, id) ==
    /\ more = <<>> /\ loader[t].at = "idle" /\ loads < MaxLoads
    /\ HasModule("server", id)
    /\ loads' = loads + 1
    /\ LoadGoes(t, [NoLoading EXCEPT !.at = "open", !.id = id, !.path = paths_[id].client])
    /\ UNCHANGED <<repos, more, carried, paths_, pkg_pool_, refs, blank>>

\* UpdateModule: the library is opened outside the lock of the table.
UpdateModule(t) ==
    LET path == loader[t].path IN
    /\ loader[t].at = "open"
    /\ refs' = [refs EXCEPT !["client"] = DLOpen("client", path)]
    /\ blank' = (blank \/ path = NoLib)
    /\ \E h \in OpenModule("client", path) :
         LoadGoes(t, [loader[t] EXCEPT !.at = "set", !.lib = h.lib, !.code = h.code])
    /\ UNCHANGED <<repos, more, carried, paths_, pkg_pool_, loads>>

\* No library with a create_module: the error reaches the caller.
UpdateThrows(t) ==
    /\ loader[t].at = "open" /\ OpenModule("client", loader[t].path) = {}
    /\ blank' = TRUE
    /\ LoadGoes(t, NoLoading)
    /\ UNCHANGED <<repos, more, carried, paths_, pkg_pool_, refs, loads>>

Update(t) ==
    LET me == loader[t] IN
    /\ me.at = "set"
    /\ SetModuleConstructor("client", refs["client"], IdOf(me.code),
                            [lib |-> me.lib, code |-> me.code])
    /\ LoadGoes(t, [me EXCEPT !.at = "construct"])
    /\ UNCHANGED <<repos, more, carried, paths_, blank, loads>>

\* The constructor the table has for the id of the library is called; the
\* client dies if its library is no longer there.
GetModuleConstructor(t) ==
    LET code == pkg_pool_["client"][IdOf(loader[t].code)].code IN
    /\ loader[t].at = "construct"
    /\ loader' = IF refs["client"][code] > 0
                 THEN [loader EXCEPT ![t].at = "made", ![t].code = code]
                 ELSE [u \in LoadThreads |-> Dead]
    /\ UNCHANGED <<repos, more, carried, paths_, pkg_pool_, refs, blank, loads>>

LoadEnds(t) ==
    /\ loader[t].at = "made"
    /\ LoadGoes(t, NoLoading)
    /\ UNCHANGED <<repos, more, carried, paths_, pkg_pool_, refs, blank, loads>>

LoadStep(t) ==
    \/ UpdateModule(t) \/ UpdateThrows(t) \/ Update(t) \/ GetModuleConstructor(t) \/ LoadEnds(t)
ModulesNext ==
    \/ more # <<>> /\ \E e \in Head(more) : LoadEntry(e)
    \/ NextRepo \/ RepoMissing
    \/ \E t \in LoadThreads : LoadStep(t) \/ \E id \in Names : GetModulePath(t, id)

ModulesFairness ==
    /\ \A t \in LoadThreads : WF_modulevars(LoadStep(t))
    /\ WF_modulevars(NextRepo) /\ WF_modulevars(\E e \in AllDirectories : LoadEntry(e))

-----------------------------------------------------------------------------
(* Properties *)

ModulesTypeOK ==
    /\ refs \in [Sides -> [Libs -> Nat]]
    /\ \A s \in Sides, n \in Names : pkg_pool_[s][n].code \in Libs \union {NoLib}

\* Two directories with libraries of one module id.
Twice(id) == \E l, k \in Libs : l # k /\ IdOf(l) = id /\ IdOf(k) = id
    /\ {l, k} \subseteq {<<i, e>> \in (1..Len(repos)) \X AllDirectories : e \in repos[i]}
\* A directory of the module without a client library.
Clientless(id) == \E e \in Directories(repos) : e.id = id /\ ~e.client

\* The constructor kept for a module id lies in a library that is in memory,
\* however many threads load the module again: closing the handle kept so far
\* is right because the same library has just been opened.  It is wrong in the
\* server when two directories have the id, as the second library takes the
\* place of nothing and unloads the first; and in a client that opened an empty
\* path, which alone makes it call a constructor that is gone.
HandlesLoaded ==
    /\ \A s \in Sides, n \in Names :
        HasModule(s, n) => \/ refs[s][pkg_pool_[s][n].code] > 0
                           \/ s = "server" /\ Twice(n)
                           \/ s = "client" /\ blank
    /\ (\E t \in LoadThreads : loader[t] = Dead) => blank

\* A library is open in a client once for the table and once for each thread
\* that has opened it and not yet entered it: no load leaks a handle.
HandlesCounted ==
    ~blank => \A l \in Libs :
        refs["client"][l] =
            Cardinality({n \in Names : pkg_pool_["client"][n].lib = l}) +
            Cardinality({t \in LoadThreads : loader[t].at = "set" /\ loader[t].lib = l})

\* The module a client gets is the one it asked for, unless that one has a
\* directory without a client library: then it is the module of the directory
\* read before it.
OwnModule ==
    \A t \in LoadThreads :
        loader[t].at = "made" => IdOf(loader[t].code) = loader[t].id \/ Clientless(loader[t].id)

\* The types, and libraries that are there when they are needed.
ModulesInv == ModulesTypeOK /\ HandlesLoaded /\ HandlesCounted /\ OwnModule

\* No module is being loaded.
ModulesLoaded == \A t \in LoadThreads : loader[t] \in {NoLoading, Dead}
=============================================================================
