------------------------------ MODULE WorkQueue ------------------------------
(***************************************************************************)
(* The work queue of a worker of the server: the queue pairs it polls,     *)
(* each with the credentials of its owner.  The worker goes over the queue *)
(* pass after pass, while AssignQueuePair, called by the main thread and   *)
(* then by the accept thread, appends to it.  There is no lock: the order  *)
(* of the stores alone tells the worker which entries are there.  Entries  *)
(* are never removed.                                                      *)
(*                                                                         *)
(* Loads and stores of the queue are steps of their own.  Its memory comes *)
(* from malloc and holds anything at first (Junk).                         *)
(***************************************************************************)
EXTENDS Integers, Sequences

CONSTANTS
    WorkDepths,     \* work_queue_depth of the configuration
    Assigned,       \* the queue pairs to assign, as numbers
    MaxThrows,      \* bound on the exceptions that end a pass
    Junk

ASSUME WorkAssumption == WorkDepths \subseteq Nat /\ MaxThrows \in Nat /\ Junk \notin Assigned

VARIABLES
    depth_,         \* max_depth_, or 0 if the constructor of the worker threw
    used_,          \* enqueued_
    entries,        \* queue_
    giver,          \* the thread in AssignQP: location and queue pair
    doer,           \* the worker: location, work_queue_depth, i and qp_struct
    throws,         \* exceptions caught by DoWork so far
    given,          \* history: the queue pairs AssignQP took, in order
    refused,        \* history: those it threw for
    served          \* history: what the worker has polled, with which credentials

workvars == <<depth_, used_, entries, giver, doer, throws, given, refused, served>>

\* The credentials of the process that owns queue pair q.
Creds(q) == q % 2

NoGiver == [at |-> "idle", qp |-> Junk]
NoDoer == [at |-> "depth", depth |-> 0, i |-> 0, qp |-> Junk]

\* The constructor allocates what GetSize says; Init takes the depth asked for,
\* and throws when it is zero, as no entry then fits in what was allocated.
WorkInit(depths) ==
    /\ depth_ \in depths
    /\ used_ = 0
    /\ entries = [i \in 0 .. (depth_ - 1) |-> [qp |-> Junk, creds |-> Junk]]
    /\ giver = NoGiver /\ doer = NoDoer /\ throws = 0
    /\ given = <<>> /\ refused = {} /\ served = {}

-----------------------------------------------------------------------------
(* AssignQP *)

Untried(q) == q \notin refused /\ \A i \in DOMAIN given : given[i] # q

\* The test at the head of Enqueue; without room AssignQP throws.
AssignQP(q) ==
    /\ depth_ # 0 /\ giver.at = "idle" /\ Untried(q)
    /\ IF used_ >= depth_
       THEN refused' = refused \union {q} /\ UNCHANGED giver
       ELSE giver' = [at |-> "qp", qp |-> q] /\ UNCHANGED refused
    /\ UNCHANGED <<depth_, used_, entries, doer, throws, given, served>>

StoreQP ==
    /\ giver.at = "qp"
    /\ entries' = [entries EXCEPT ![used_].qp = giver.qp]
    /\ giver' = [giver EXCEPT !.at = "creds"]
    /\ UNCHANGED <<depth_, used_, doer, throws, given, refused, served>>

\* Slip: the entry is counted before its credentials are there.
StoreCreds_Late ==
    /\ giver.at = "creds"
    /\ used_' = used_ + 1
    /\ given' = Append(given, giver.qp)
    /\ giver' = [giver EXCEPT !.at = "late"]
    /\ UNCHANGED <<depth_, entries, doer, throws, refused, served>>

StoreCreds ==
    /\ giver.at = "creds"
    /\ entries' = [entries EXCEPT ![used_].creds = Creds(giver.qp)]
    /\ giver' = [giver EXCEPT !.at = "count"]
    /\ UNCHANGED <<depth_, used_, doer, throws, given, refused, served>>

CountEntry ==
    /\ giver.at = "count"
    /\ used_' = used_ + 1
    /\ given' = Append(given, giver.qp)
    /\ giver' = NoGiver
    /\ UNCHANGED <<depth_, entries, doer, throws, refused, served>>

-----------------------------------------------------------------------------
(* DoWork *)

\* work_queue_depth = GetDepth(); a pass over an empty queue changes nothing.
BeginPass ==
    /\ doer.at = "depth" /\ used_ # 0
    /\ doer' = [doer EXCEPT !.at = "peek", !.depth = used_, !.i = 0]
    /\ UNCHANGED <<depth_, used_, entries, giver, throws, given, refused, served>>

\* Slip: the loop stops one entry early.
PeekQP_Short ==
    /\ doer.at = "peek"
    /\ IF doer.i + 1 < doer.depth
       THEN doer' = [doer EXCEPT !.at = "owner", !.qp = entries[doer.i].qp]
       ELSE doer' = NoDoer
    /\ UNCHANGED <<depth_, used_, entries, giver, throws, given, refused, served>>

\* The head of the loop and the first load of Peek.  enqueued_ only grows, so
\* Peek itself never finds the entry missing.
PeekQP ==
    /\ doer.at = "peek"
    /\ IF doer.i < doer.depth /\ doer.i < used_
       THEN doer' = [doer EXCEPT !.at = "owner", !.qp = entries[doer.i].qp]
       ELSE doer' = NoDoer
    /\ UNCHANGED <<depth_, used_, entries, giver, throws, given, refused, served>>

\* The second load; the requests of the queue pair are then run with those
\* credentials.
PeekCreds ==
    /\ doer.at = "owner"
    /\ served' = served \union {<<doer.qp, entries[doer.i].creds>>}
    /\ doer' = [doer EXCEPT !.at = "peek", !.i = @ + 1, !.qp = Junk]
    /\ UNCHANGED <<depth_, used_, entries, giver, throws, given, refused>>

\* A request throws: DoWork catches it outside the loop, and the queue pairs
\* behind this one are left to a later pass.
PassThrows ==
    /\ doer.at = "owner" /\ throws < MaxThrows
    /\ served' = served \union {<<doer.qp, entries[doer.i].creds>>}
    /\ throws' = throws + 1
    /\ doer' = NoDoer
    /\ UNCHANGED <<depth_, used_, entries, giver, given, refused>>

Gives == StoreQP \/ StoreCreds \/ CountEntry
Does == BeginPass \/ PeekQP \/ PeekCreds \/ PassThrows
WorkNext == Gives \/ Does \/ \E q \in Assigned : AssignQP(q)

-----------------------------------------------------------------------------
\* The worker runs the requests of a queue pair with the credentials of the
\* process that owns it, and never those of an entry that is not finished; the
\* queue holds what was assigned, in order, and no more than fits.
WorkInv ==
    /\ used_ = Len(given) /\ used_ <= depth_
    /\ \A i \in DOMAIN given : entries[i - 1] = [qp |-> given[i], creds |-> Creds(given[i])]
    /\ \A s \in served : s[2] = Creds(s[1]) /\ \E i \in DOMAIN given : given[i] = s[1]
    /\ doer.i <= doer.depth /\ doer.depth <= used_

\* No assignment is under way, and the worker has polled all there is to poll.
WorkServed ==
    /\ giver.at = "idle"
    /\ \A i \in DOMAIN given : <<given[i], Creds(given[i])>> \in served
=============================================================================
