------------------------------ MODULE Connect -------------------------------
(***************************************************************************)
(* The descriptors of the nodes of a cluster: how a node's connection is   *)
(* opened on one of its addresses and closed again.  Translated from       *)
(* _arakoon_networking_connect of src/src/arakoon-networking.c and its     *)
(* callers in arakoon-cluster-node.c and arakoon-cluster.c.                *)
(*                                                                         *)
(* An action is one turn of the loop over the addresses, one turn of the   *)
(* poll loop, or the cleanup.  Between any two of them the network settles *)
(* a pending connection.  The descriptor table of the process is part of   *)
(* the state, for the code tells descriptors by their number alone.        *)
(*                                                                         *)
(* Simplifications.                                                        *)
(*  - Time is not counted: with Timed, a connect may time out wherever the *)
(*    code looks at the clock (module Transfer is about the reckoning).    *)
(*  - Interrupted polls are retried by the code and leave no trace.        *)
(*  - A descriptor carries no bytes here; module Client is about those.    *)
(***************************************************************************)
EXTENDS Integers, FiniteSets

CONSTANTS
    Nodes,      \* the ArakoonClusterNode objects of one cluster
    NULL,
    MaxAddrs,   \* bound: addresses of a node
    MaxFd,      \* the limit of the process on descriptors
    AppFds,     \* the descriptors which the application has open from the start
    MaxFiles,   \* bound: descriptors of the application
    Timed,      \* do calls have a finite timeout?
    AllocFails  \* can memory allocation fail?

ASSUME ConnectAssumption ==
    /\ NULL \notin Nodes
    /\ MaxAddrs \in Nat /\ MaxFd \in Nat /\ MaxFiles \in Nat
    /\ AppFds \subseteq 0 .. MaxFd
    /\ Timed \in BOOLEAN /\ AllocFails \in BOOLEAN

Fds   == 0 .. MaxFd
Addrs == 1 .. MaxAddrs
None  == -1

VARIABLES
    \* the descriptor table
    file,       \* what a descriptor refers to: "none", "other" (not a socket of
                \* the library), or a socket that is "pending", "ready", "broken"
                \* or "connected" (and blocking again)
    owner,      \* history: the node for which it was opened last
    \* struct ArakoonClusterNode
    addresses,  \* the number of its addresses
    held,       \* its fd
    \* _arakoon_networking_connect
    pc,         \* "idle", "open", "poll" or "cleanup"; "freed" once the cluster
                \* is, "crashed" after a null pointer was followed
    cur,        \* the node that connects
    i,          \* the address to be tried next
    fds,        \* its array fds; None past num_addresses
    won,        \* the_socket
    rc,         \* return code
    harmed      \* history: a connect succeeded at once, or had no memory

table  == <<file, owner>>
locals == <<cur, i, fds, won, harmed>>
vars   == <<table, addresses, held, pc, locals, rc>>

Sockets == {"pending", "ready", "broken", "connected"}

Init ==
    /\ file = [d \in Fds |-> IF d \in AppFds THEN "other" ELSE "none"]
    /\ owner = [d \in Fds |-> NULL]
    /\ addresses = [n \in Nodes |-> 0]
    /\ held = [n \in Nodes |-> None]
    /\ pc = "idle" /\ cur = NULL /\ i = 1 /\ won = None
    /\ fds = [a \in Addrs |-> None]
    /\ rc = "OK" /\ harmed = FALSE

\* The table after the descriptors of a set are closed.
Closed(f, ds) == [d \in Fds |-> IF d \in ds THEN "none" ELSE f[d]]

\* A new descriptor is the lowest free one.
Lowest(d) == file[d] = "none" /\ \A e \in Fds : file[e] = "none" => d <= e

\* Descriptor d becomes a socket of the connecting node.
Opens(d, state) ==
    /\ file' = [file EXCEPT ![d] = state]
    /\ owner' = [owner EXCEPT ![d] = cur]

-----------------------------------------------------------------------------
(***************************************************************************)
(* Nodes between connects.                                                 *)
(***************************************************************************)
\* A name is looked up and has one or more addresses, or none.
AddAddress(n) ==
    /\ pc = "idle"
    /\ \/ /\ \E k \in 1 .. MaxAddrs - addresses[n] :
              addresses' = [addresses EXCEPT ![n] = @ + k]
          /\ rc' = "OK"
       \/ rc' = "NETWORK_ERROR" /\ UNCHANGED addresses
    /\ UNCHANGED <<table, held, pc, locals>>

\* Mutant: the node goes on to hold the descriptor it closed.
MutDisconnect(n) ==
    /\ pc = "idle" /\ held[n] # None
    /\ file' = Closed(file, {held[n]})
    /\ UNCHANGED <<owner, addresses, held, pc, locals, rc>>

Disconnect(n) ==
    /\ pc = "idle" /\ held[n] # None
    /\ file' = Closed(file, {held[n]})
    /\ held' = [held EXCEPT ![n] = None]
    /\ UNCHANGED <<owner, addresses, pc, locals, rc>>

\* arakoon_cluster_free
FreeCluster ==
    /\ pc = "idle"
    /\ pc' = "freed"
    /\ file' = Closed(file, {held[n] : n \in Nodes})
    /\ held' = [n \in Nodes |-> None]
    /\ UNCHANGED <<owner, addresses, locals, rc>>

\* A node that holds a descriptor is connected already.
MayConnect(n) == pc = "idle" /\ held[n] = None

\* The arrays are allocated; memset leaves zero in every entry of fds.
Start(n) ==
    /\ MayConnect(n)
    /\ pc' = "open" /\ cur' = n /\ i' = 1 /\ won' = None
    /\ fds' = [a \in Addrs |-> IF a <= addresses[n] THEN 0 ELSE None]
    /\ rc' = "NETWORK_ERROR"
    /\ UNCHANGED <<table, addresses, held, harmed>>

\* No time is left on entry, or the clock cannot be read.
StartFails(n) ==
    /\ MayConnect(n)
    /\ rc' \in {"IO"} \union (IF Timed THEN {"TIMEOUT"} ELSE {})
    /\ UNCHANGED <<table, addresses, held, pc, locals>>

\* No memory for flags: cleanup finds the zeros of fds.
StartNoFlags(n) ==
    /\ AllocFails /\ MayConnect(n)
    /\ pc' = "cleanup" /\ cur' = n /\ i' = 1 /\ won' = None
    /\ fds' = [a \in Addrs |-> IF a <= addresses[n] THEN 0 ELSE None]
    /\ rc' = "ENOMEM" /\ harmed' = TRUE
    /\ UNCHANGED <<table, addresses, held>>

\* No memory for ev or fds: cleanup reads fds, which is null.
StartNoArrays(n) ==
    /\ AllocFails /\ MayConnect(n)
    /\ IF addresses[n] = 0
       THEN rc' = "ENOMEM" /\ UNCHANGED pc
       ELSE pc' = "crashed" /\ UNCHANGED rc
    /\ UNCHANGED <<table, addresses, held, locals>>

-----------------------------------------------------------------------------
(***************************************************************************)
(* The loop over the addresses: start a connection to each.                *)
(***************************************************************************)
Trying == pc = "open" /\ i <= addresses[cur]

\* Mutant: the index moves on once more.
MutSkip ==
    /\ fds' = [fds EXCEPT ![i] = None]
    /\ i' = i + 2
    /\ UNCHANGED <<addresses, held, pc, cur, won, rc, harmed>>

Skip ==
    /\ fds' = [fds EXCEPT ![i] = None]
    /\ i' = i + 1
    /\ UNCHANGED <<addresses, held, pc, cur, won, rc, harmed>>

\* socket fails; at the limit on descriptors it has to.
SocketFails == Trying /\ Skip /\ UNCHANGED table

\* Mutant: the socket of a failed fcntl or connect is not closed.
MutSetupFails ==
    /\ Trying
    /\ \E d \in Fds : Lowest(d) /\ Opens(d, "broken")
    /\ Skip

\* The socket is opened, then fcntl or connect fails, and it is closed.  The call
\* of connect is also taken to have failed when its log message changes errno.
SetupFails ==
    /\ Trying
    /\ \E d \in Fds : Lowest(d)
    /\ Skip
    /\ UNCHANGED table

\* Mutant: the descriptor is not noted.
MutInProgress ==
    /\ Trying
    /\ \E d \in Fds : Lowest(d) /\ Opens(d, "pending")
    /\ i' = i + 1
    /\ UNCHANGED <<addresses, held, pc, cur, fds, won, rc, harmed>>

InProgress ==
    /\ Trying
    /\ \E d \in Fds :
           /\ Lowest(d) /\ Opens(d, "pending")
           /\ fds' = [fds EXCEPT ![i] = d]
    /\ i' = i + 1
    /\ UNCHANGED <<addresses, held, pc, cur, won, rc, harmed>>

\* connect succeeds at once: the loop ends before fds[i] is set.
AtOnce ==
    /\ Trying
    /\ \E d \in Fds : Lowest(d) /\ Opens(d, "connected") /\ won' = d
    /\ pc' = "cleanup" /\ rc' = "OK" /\ harmed' = TRUE
    /\ UNCHANGED <<addresses, held, cur, i, fds>>

AllTried ==
    /\ pc = "open" /\ i > addresses[cur]
    /\ pc' = "poll"
    /\ UNCHANGED <<table, addresses, held, locals, rc>>

-----------------------------------------------------------------------------
(***************************************************************************)
(* The poll loop.                                                          *)
(***************************************************************************)
Watched == {a \in Addrs : fds[a] # None}

NothingLeft ==
    /\ pc = "poll" /\ Watched = {}
    /\ pc' = "cleanup" /\ rc' = "NETWORK_ERROR"
    /\ UNCHANGED <<table, addresses, held, locals>>

\* The clock or poll ends the wait.
GiveUp ==
    /\ pc = "poll"
    /\ pc' = "cleanup"
    /\ rc' \in {"IO"} \union (IF Timed THEN {"TIMEOUT"} ELSE {})
    /\ UNCHANGED <<table, addresses, held, locals>>

\* The addresses with an event; their number is what poll returns.
Settled == {a \in Watched : file[fds[a]] # "pending"}

\* Mutant: the last of the first ret entries is left out.
MutLooked == {a \in Watched : Cardinality({b \in Watched : b <= a}) < Cardinality(Settled)}

\* The first ret entries of the poll array are looked at, whatever their events.
Looked == {a \in Watched : Cardinality({b \in Watched : b <= a}) <= Cardinality(Settled)}

\* POLLOUT without an error.
Fit == {a \in Looked : file[fds[a]] = "ready"}

\* POLLERR, POLLHUP or POLLNVAL.
Unfit == (Looked \intersect Settled) \ Fit

\* Mutant: the entries of closed descriptors stay.
MutForget(as) == UNCHANGED fds

Forget(as) == fds' = [a \in Addrs |-> IF a \in as THEN None ELSE fds[a]]

\* Nothing looked at is ready: the loop goes round.
ScanNone ==
    /\ pc = "poll" /\ Settled # {} /\ Fit = {}
    /\ file' = Closed(file, {fds[a] : a \in Unfit})
    /\ Forget(Unfit)
    /\ UNCHANGED <<owner, addresses, held, pc, cur, i, won, rc, harmed>>

\* The last ready one of those looked at.
LastFit(a) == a \in Fit /\ \A b \in Fit : b <= a

ScanWins ==
    /\ pc = "poll"
    /\ \E a \in Addrs :
           /\ LastFit(a)
           /\ won' = fds[a]
           /\ file' = [Closed(file, {fds[b] : b \in Unfit}) EXCEPT ![fds[a]] = "connected"]
    /\ Forget(Unfit)
    /\ pc' = "cleanup" /\ rc' = "OK"
    /\ UNCHANGED <<owner, addresses, held, cur, i, harmed>>

\* fcntl cannot restore the flags: the socket is closed, the loop goes round.
ScanFlagsFail ==
    /\ pc = "poll"
    /\ \E a \in Addrs :
           /\ LastFit(a)
           /\ file' = Closed(file, {fds[b] : b \in Unfit \union {a}})
           /\ Forget(Unfit \union {a})
    /\ UNCHANGED <<owner, addresses, held, pc, cur, i, won, rc, harmed>>

-----------------------------------------------------------------------------
\* Mutant: cleanup closes the descriptor it is about to return.
MutLosers == {fds[a] : a \in Watched}

\* The descriptors that cleanup closes, the zeros of fds included.
Losers == {fds[a] : a \in Watched} \ {won}

Done ==
    /\ pc' = "idle" /\ cur' = NULL /\ i' = 1 /\ won' = None
    /\ fds' = [a \in Addrs |-> None]
    /\ UNCHANGED <<owner, addresses, harmed>>

Cleanup ==
    /\ pc = "cleanup"
    /\ file' = Closed(file, Losers)
    /\ held' = [held EXCEPT ![cur] = won]
    /\ Done /\ UNCHANGED rc

\* The clock cannot be read to charge the time: the new socket is closed too.
CleanupNoClock ==
    /\ pc = "cleanup" /\ Timed
    /\ file' = Closed(file, Losers \union {won})
    /\ rc' = "IO"
    /\ Done /\ UNCHANGED held

-----------------------------------------------------------------------------
(***************************************************************************)
(* The network (external): a pending connection succeeds or fails, in the  *)
(* end because the kernel stops trying.                                    *)
(***************************************************************************)
Settle(d) ==
    /\ file[d] = "pending"
    /\ \E s \in {"ready", "broken"} : file' = [file EXCEPT ![d] = s]
    /\ UNCHANGED <<owner, addresses, held, pc, locals, rc>>

\* Another thread of the application opens a file (external).
AppOpens ==
    /\ Cardinality({d \in Fds : file[d] = "other"}) < MaxFiles
    /\ \E d \in Fds :
           /\ Lowest(d)
           /\ file' = [file EXCEPT ![d] = "other"]
           /\ owner' = [owner EXCEPT ![d] = NULL]
    /\ UNCHANGED <<addresses, held, pc, locals, rc>>

-----------------------------------------------------------------------------
\* What connect does as long as neither the clock nor poll ends it.
Step ==
    \/ SocketFails \/ SetupFails \/ InProgress \/ AtOnce \/ AllTried
    \/ NothingLeft \/ ScanNone \/ ScanWins \/ ScanFlagsFail
    \/ Cleanup \/ CleanupNoClock

NodeStep(n) ==
    \/ AddAddress(n) \/ Disconnect(n)
    \/ Start(n) \/ StartFails(n) \/ StartNoFlags(n) \/ StartNoArrays(n)

Next ==
    \/ Step \/ GiveUp \/ FreeCluster \/ AppOpens
    \/ \E n \in Nodes : NodeStep(n)
    \/ \E d \in Fds : Settle(d)

Spec == Init /\ [][Next]_vars

FairSpec == Spec /\ WF_vars(Step) /\ \A d \in Fds : WF_vars(Settle(d))

-----------------------------------------------------------------------------
(***************************************************************************)
(* Properties.                                                             *)
(***************************************************************************)
TypeOK ==
    /\ file \in [Fds -> Sockets \union {"none", "other"}]
    /\ owner \in [Fds -> Nodes \union {NULL}]
    /\ addresses \in [Nodes -> 0 .. MaxAddrs]
    /\ held \in [Nodes -> Fds \union {None}]
    /\ pc \in {"idle", "open", "poll", "cleanup", "freed", "crashed"}
    /\ cur \in Nodes \union {NULL}
    /\ i \in 1 .. MaxAddrs + 1
    /\ fds \in [Addrs -> Fds \union {None}]
    /\ won \in Fds \union {None}
    /\ rc \in {"OK", "IO", "TIMEOUT", "NETWORK_ERROR", "ENOMEM"}
    /\ harmed \in BOOLEAN

\* A node's descriptor, other than zero, is an open socket which was connected
\* for this node: no connect or disconnect of another node has closed it or
\* taken it over (the close calls of connect, _arakoon_cluster_node_disconnect).
HeldAreOwn ==
    \A n \in Nodes :
        held[n] \notin {None, 0} =>
            file[held[n]] = "connected" /\ owner[held[n]] = n

\* Every socket that is open is held by a node or known to the connect in
\* progress, so that none is left open when a cluster is released ("This will
\* also close any open connections", arakoon_cluster_free).
NoneLeaked ==
    \A d \in Fds :
        file[d] \in Sockets =>
            \/ \E n \in Nodes : held[n] = d
            \/ pc \notin {"idle", "freed"} /\ (won = d \/ \E a \in Addrs : fds[a] = d)

\* The files of the application stay open, those too which another thread opens
\* during a connect: connect closes what it opened, and once.  The one exception
\* is descriptor zero, once a connect has succeeded at once or has run out of
\* memory (the zeros of fds in the cleanup of connect).
AppFilesKept ==
    [][\A d \in Fds : file[d] = "other" => file'[d] = "other" \/ (d = 0 /\ harmed)]_vars

\* A successful connect gives its node a connected, blocking socket of its own
\* (the order of close, fcntl and *fd in connect).
SuccessIsConnected ==
    [][pc = "cleanup" /\ pc' = "idle" /\ rc' = "OK" =>
           /\ held'[cur] # None
           /\ file'[held'[cur]] = "connected" /\ owner'[held'[cur]] = cur]_vars

\* Every connect returns, also without a timeout, once the network has settled
\* what is pending: an event which the scan of ev[0 .. ret - 1] misses only makes
\* the poll loop spin, and closing a broken socket never hides a ready one.
ConnectReturns == pc = "open" ~> pc = "idle"

=============================================================================
