--------------------------- MODULE ConnectProofs ----------------------------
(***************************************************************************)
(* What holds of Connect for any number of nodes, addresses, descriptors   *)
(* and files of the application.                                           *)
(***************************************************************************)
EXTENDS Connect, TLAPS

\* The parts of TypeOK: what outlives a connect, and the connect in progress.
StateOK ==
    /\ file \in [Fds -> Sockets \union {"none", "other"}]
    /\ owner \in [Fds -> Nodes \union {NULL}]
    /\ addresses \in [Nodes -> 0 .. MaxAddrs]
    /\ held \in [Nodes -> Fds \union {None}]
    /\ rc \in {"OK", "IO", "TIMEOUT", "NETWORK_ERROR", "ENOMEM"}
    /\ harmed \in BOOLEAN

LocalsOK ==
    /\ pc \in {"idle", "open", "poll", "cleanup", "freed", "crashed"}
    /\ cur \in Nodes \union {NULL}
    /\ i \in 1 .. MaxAddrs + 1
    /\ fds \in [Addrs -> Fds \union {None}]
    /\ won \in Fds \union {None}

Busy == pc \in {"open", "poll", "cleanup"}

\* Entry a of fds stands for a socket which this connect has opened.
Tracked(a) ==
    /\ file[fds[a]] \in {"pending", "ready", "broken"}
    /\ owner[fds[a]] = cur

\* Where a connect can be, and which node it is about.
BusyInv ==
    /\ Busy => cur \in Nodes /\ held[cur] = None
    /\ ~Busy => won = None /\ \A a \in Addrs : fds[a] = None
    /\ pc \in {"open", "poll"} => won = None

\* The entries of fds: those of the addresses tried are sockets of this connect,
\* and a zero beyond them is met by a cleanup only after harm.
Sound(a) ==
    \/ fds[a] = None
    \/ pc = "open" /\ a >= i /\ a <= addresses[cur] /\ fds[a] = 0
    \/ pc = "cleanup" /\ fds[a] = won
    \/ pc = "cleanup" /\ fds[a] = 0 /\ harmed
    \/ Tracked(a) /\ (pc = "open" => a < i)

FdsInv == \A a \in Addrs : Sound(a)

\* The addresses tried have sockets of their own.
Counted(a) == fds[a] # None /\ (pc = "poll" \/ (pc = "open" /\ a < i))

DistinctInv ==
    \A a, b \in Addrs : a # b /\ Counted(a) /\ Counted(b) => fds[a] # fds[b]

\* The socket about to be returned, and the code returned with it.
WonInv ==
    /\ won # None => pc = "cleanup" /\ file[won] = "connected" /\ owner[won] = cur
    /\ pc = "cleanup" /\ rc = "OK" => won # None

\* HeldAreOwn, of descriptor zero too as long as there was no harm.
HeldInv ==
    \A n \in Nodes :
        held[n] # None /\ (held[n] # 0 \/ ~harmed) =>
            file[held[n]] = "connected" /\ owner[held[n]] = n

\* NoneLeaked, not counting the zeros of addresses that are still to be tried.
Holder(n, d) == held[n] = d

Entry(a, d) == fds[a] = d /\ (pc = "open" => a < i)

Known(d) ==
    \/ file[d] \notin Sockets
    \/ \E n \in Nodes : Holder(n, d)
    \/ Busy /\ won = d
    \/ Busy /\ \E a \in Addrs : Entry(a, d)

KnownInv == \A d \in Fds : Known(d)

IInv ==
    /\ StateOK /\ LocalsOK /\ BusyInv /\ FdsInv /\ DistinctInv
    /\ WonInv /\ HeldInv /\ KnownInv

LEMMA TypeOKParts == TypeOK <=> StateOK /\ LocalsOK
BY DEF TypeOK, StateOK, LocalsOK

-----------------------------------------------------------------------------
LEMMA InitInv == Init => IInv
<1> SUFFICES ASSUME Init PROVE IInv
  OBVIOUS
<1> USE ConnectAssumption DEF Init, Fds, Addrs, None
<1>1. StateOK
  <2>1. file \in [Fds -> Sockets \union {"none", "other"}]
    BY DEF Sockets
  <2>2. addresses \in [Nodes -> 0 .. MaxAddrs]
    OBVIOUS
  <2>3. owner \in [Fds -> Nodes \union {NULL}] /\ held \in [Nodes -> Fds \union {None}]
    OBVIOUS
  <2>4. QED
    BY <2>1, <2>2, <2>3 DEF StateOK
<1>2. LocalsOK
  BY DEF LocalsOK
<1>3. BusyInv /\ FdsInv /\ DistinctInv /\ WonInv
  BY DEF BusyInv, Busy, FdsInv, Sound, DistinctInv, Counted, WonInv
<1>4. HeldInv /\ KnownInv
  BY DEF HeldInv, KnownInv, Known, Sockets
<1>5. QED
  BY <1>1, <1>2, <1>3, <1>4 DEF IInv

USE DEF Fds, Addrs, None, table, locals

\* The steps between connects that close nothing.
LEMMA NodeKeeps ==
    ASSUME IInv, NEW n \in Nodes,
           \/ Start(n) \/ StartFails(n)
           \/ StartNoFlags(n) \/ StartNoArrays(n)
    PROVE  IInv'
<1>1. StateOK'
  <2>1. UNCHANGED <<file, owner, addresses, held>>
    BY DEF Start, StartFails, StartNoFlags, StartNoArrays
  <2>2. rc' \in {"OK", "IO", "TIMEOUT", "NETWORK_ERROR", "ENOMEM"}
    BY Zenon DEF IInv, StateOK, Start, StartFails, StartNoFlags, StartNoArrays
  <2>3. harmed' \in BOOLEAN
    BY Zenon DEF IInv, StateOK, Start, StartFails, StartNoFlags, StartNoArrays
  <2>4. QED
    BY <2>1, <2>2, <2>3 DEF IInv, StateOK
<1>2. LocalsOK'
  BY ConnectAssumption, SMT
     DEF IInv, StateOK, LocalsOK, BusyInv, Busy, Start, MayConnect,
         StartFails, StartNoFlags, StartNoArrays
<1>3. BusyInv'
  BY ConnectAssumption, SMT
     DEF IInv, StateOK, LocalsOK, BusyInv, Busy, Start, MayConnect,
         StartFails, StartNoFlags, StartNoArrays
<1>4. ASSUME NEW a \in Addrs PROVE Sound(a)'
  BY ConnectAssumption, SMT
     DEF IInv, StateOK, LocalsOK, BusyInv, Busy, FdsInv, Sound, Tracked,
         DistinctInv, Counted, WonInv, Start, MayConnect, StartFails,
         StartNoFlags, StartNoArrays
<1>5. DistinctInv'
  BY ConnectAssumption, SMT
     DEF IInv, StateOK, LocalsOK, BusyInv, Busy, FdsInv, Sound, Tracked,
         DistinctInv, Counted, Start, MayConnect, StartFails, StartNoFlags,
         StartNoArrays
<1>6. WonInv'
  BY ConnectAssumption, SMT
     DEF IInv, StateOK, LocalsOK, BusyInv, Busy, WonInv, FdsInv, Sound,
         Tracked, Start, MayConnect, StartFails, StartNoFlags, StartNoArrays
<1>7. HeldInv'
  BY ConnectAssumption, SMT
     DEF IInv, StateOK, LocalsOK, BusyInv, Busy, FdsInv, Sound, Tracked,
         WonInv, HeldInv, Start, MayConnect, StartFails, StartNoFlags,
         StartNoArrays
<1>8. ASSUME NEW d \in Fds PROVE Known(d)'
  BY ConnectAssumption, SMT
     DEF IInv, StateOK, LocalsOK, BusyInv, Busy, KnownInv, Known, Holder,
         Entry, FdsInv, Sound, WonInv, Tracked, Sockets, Start, MayConnect,
         StartFails, StartNoFlags, StartNoArrays
<1>9. QED
  BY <1>1, <1>2, <1>3, <1>4, <1>5, <1>6, <1>7, <1>8
     DEF IInv, FdsInv, KnownInv

LEMMA AddAddressKeeps ==
    ASSUME IInv, NEW n \in Nodes, AddAddress(n)
    PROVE  IInv'
<1>1. StateOK'
  <2>1. addresses' \in [Nodes -> 0 .. MaxAddrs]
    BY ConnectAssumption, SMT DEF IInv, StateOK, AddAddress
  <2>2. rc' \in {"OK", "NETWORK_ERROR"} /\ UNCHANGED <<file, owner, held, harmed>>
    BY DEF AddAddress
  <2>3. QED
    BY <2>1, <2>2 DEF IInv, StateOK
<1>2. LocalsOK'
  BY ConnectAssumption, SMT
     DEF IInv, StateOK, LocalsOK, BusyInv, Busy, AddAddress
<1>3. BusyInv'
  BY ConnectAssumption, SMT
     DEF IInv, StateOK, LocalsOK, BusyInv, Busy, AddAddress
<1>4. ASSUME NEW a \in Addrs PROVE Sound(a)'
  BY ConnectAssumption, SMT
     DEF IInv, StateOK, LocalsOK, BusyInv, Busy, FdsInv, Sound, Tracked,
         DistinctInv, Counted, WonInv, AddAddress
<1>5. DistinctInv'
  BY ConnectAssumption, SMT
     DEF IInv, StateOK, LocalsOK, BusyInv, Busy, FdsInv, Sound, Tracked,
         DistinctInv, Counted, AddAddress
<1>6. WonInv'
  BY ConnectAssumption, SMT
     DEF IInv, StateOK, LocalsOK, BusyInv, Busy, WonInv, FdsInv, Sound,
         Tracked, AddAddress
<1>7. HeldInv'
  BY ConnectAssumption, SMT
     DEF IInv, StateOK, LocalsOK, BusyInv, Busy, FdsInv, Sound, Tracked,
         WonInv, HeldInv, AddAddress
<1>8. ASSUME NEW d \in Fds PROVE Known(d)'
  BY ConnectAssumption, SMT
     DEF IInv, StateOK, LocalsOK, BusyInv, Busy, KnownInv, Known, Holder,
         Entry, FdsInv, Sound, WonInv, Tracked, Sockets, AddAddress
<1>9. QED
  BY <1>1, <1>2, <1>3, <1>4, <1>5, <1>6, <1>7, <1>8
     DEF IInv, FdsInv, KnownInv

\* The steps of a connect that close nothing and open nothing.
LEMMA QuietKeeps ==
    ASSUME IInv, 
           \/ SocketFails \/ SetupFails
           \/ AllTried \/ NothingLeft \/ GiveUp
    PROVE  IInv'
<1>1. StateOK'
  BY ConnectAssumption, SMT
     DEF IInv, StateOK, LocalsOK, BusyInv, Busy, Sockets, SocketFails, Trying,
         Skip, SetupFails, AllTried, NothingLeft, Watched, GiveUp
<1>2. LocalsOK'
  BY ConnectAssumption, SMT
     DEF IInv, StateOK, LocalsOK, BusyInv, Busy, SocketFails, Trying, Skip,
         SetupFails, AllTried, NothingLeft, Watched, GiveUp
<1>3. BusyInv'
  BY ConnectAssumption, SMT
     DEF IInv, StateOK, LocalsOK, BusyInv, Busy, SocketFails, Trying, Skip,
         SetupFails, AllTried, NothingLeft, Watched, GiveUp
<1>4. ASSUME NEW a \in Addrs PROVE Sound(a)'
  <2>1. CASE SocketFails
    BY <2>1, ConnectAssumption, SMT
       DEF IInv, StateOK, LocalsOK, BusyInv, Busy, FdsInv, Sound, Tracked,
           DistinctInv, Counted, WonInv, SocketFails, Trying, Skip
  <2>2. CASE SetupFails
    BY <2>2, ConnectAssumption, SMT
       DEF IInv, StateOK, LocalsOK, BusyInv, Busy, FdsInv, Sound, Tracked,
           DistinctInv, Counted, WonInv, Trying, Skip, SetupFails
  <2>3. CASE AllTried \/ NothingLeft \/ GiveUp
    BY <2>3, ConnectAssumption, SMT
       DEF IInv, StateOK, LocalsOK, BusyInv, Busy, FdsInv, Sound, Tracked,
           DistinctInv, Counted, WonInv, AllTried, NothingLeft, Watched, GiveUp
  <2>4. QED
    BY <2>1, <2>2, <2>3
<1>5. DistinctInv'
  <2>1. \A a \in Addrs : Counted(a)' => Counted(a) /\ fds'[a] = fds[a]
    BY ConnectAssumption, SMT
       DEF IInv, LocalsOK, StateOK, BusyInv, Busy, FdsInv, Sound, Tracked, Counted,
           SocketFails, Trying, Skip, SetupFails, AllTried, NothingLeft, GiveUp
  <2>2. QED
    BY <2>1 DEF IInv, DistinctInv
<1>6. WonInv'
  BY ConnectAssumption, SMT
     DEF IInv, StateOK, LocalsOK, BusyInv, Busy, WonInv, FdsInv, Sound,
         Tracked, SocketFails, Trying, Skip, SetupFails, AllTried,
         NothingLeft, Watched, GiveUp
<1>7. HeldInv'
  BY ConnectAssumption, SMT
     DEF IInv, StateOK, LocalsOK, BusyInv, Busy, FdsInv, Sound, Tracked,
         WonInv, HeldInv, SocketFails, Trying, Skip, SetupFails, AllTried,
         NothingLeft, Watched, GiveUp
<1>8. ASSUME NEW d \in Fds PROVE Known(d)'
  <2>1. /\ UNCHANGED <<file, held, won>>
        /\ Busy /\ Busy'
    BY DEF Busy, SocketFails, Trying, Skip, SetupFails, AllTried, NothingLeft, GiveUp
  <2>2. \A a \in Addrs : Entry(a, d) => Entry(a, d)'
    BY ConnectAssumption, SMT
       DEF IInv, LocalsOK, StateOK, Entry, SocketFails, Trying, Skip, SetupFails,
           AllTried, NothingLeft, Watched, GiveUp
  <2>9. QED
    BY <2>1, <2>2 DEF IInv, KnownInv, Known, Holder
<1>9. QED
  BY <1>1, <1>2, <1>3, <1>4, <1>5, <1>6, <1>7, <1>8
     DEF IInv, FdsInv, KnownInv

LEMMA InProgressKeeps ==
    ASSUME IInv, InProgress
    PROVE  IInv'
<1>1. StateOK'
  BY ConnectAssumption, SMT
     DEF IInv, StateOK, LocalsOK, BusyInv, Busy, Sockets, InProgress, Trying,
         Opens, Lowest
<1>2. LocalsOK'
  BY ConnectAssumption, SMT
     DEF IInv, StateOK, LocalsOK, BusyInv, Busy, InProgress, Trying, Opens,
         Lowest
<1>3. BusyInv'
  BY ConnectAssumption, SMT
     DEF IInv, StateOK, LocalsOK, BusyInv, Busy, InProgress, Trying, Opens,
         Lowest
<1>4. ASSUME NEW a \in Addrs PROVE Sound(a)'
  BY ConnectAssumption, SMT
     DEF IInv, StateOK, LocalsOK, BusyInv, Busy, FdsInv, Sound, Tracked,
         DistinctInv, Counted, WonInv, InProgress, Trying, Opens, Lowest
<1>5. DistinctInv'
  <2>1. PICK d \in Fds : Lowest(d) /\ Opens(d, "pending") /\ fds' = [fds EXCEPT ![i] = d]
    BY DEF InProgress
  <2>2. \A a \in Addrs : Counted(a)' => a = i \/ (Counted(a) /\ fds'[a] = fds[a])
    BY <2>1, SMT DEF IInv, LocalsOK, Counted, InProgress, Trying
  <2>3. \A a \in Addrs : Counted(a) => fds[a] # d
    BY <2>1, SMT DEF IInv, LocalsOK, Counted, FdsInv, Sound, Tracked, InProgress,
                     Trying, Lowest
  <2>4. i \in Addrs => fds'[i] = d
    BY <2>1 DEF IInv, LocalsOK
  <2>5. QED
    BY <2>2, <2>3, <2>4, Zenon DEF IInv, DistinctInv
<1>6. WonInv'
  BY ConnectAssumption, SMT
     DEF IInv, StateOK, LocalsOK, BusyInv, Busy, WonInv, FdsInv, Sound,
         Tracked, InProgress, Trying, Opens, Lowest
<1>7. HeldInv'
  BY ConnectAssumption, SMT
     DEF IInv, StateOK, LocalsOK, BusyInv, Busy, FdsInv, Sound, Tracked,
         WonInv, HeldInv, InProgress, Trying, Opens, Lowest
<1>8. ASSUME NEW d \in Fds PROVE Known(d)'
  <2>1. PICK e \in Fds : Opens(e, "pending") /\ fds' = [fds EXCEPT ![i] = e]
    BY DEF InProgress
  <2>2. UNCHANGED <<held, won>> /\ Busy /\ Busy' /\ pc' = "open" /\ i' = i + 1
    BY DEF Busy, InProgress, Trying
  <2>3. i \in Addrs
    BY ConnectAssumption, SMT
       DEF IInv, LocalsOK, StateOK, BusyInv, Busy, InProgress, Trying
  <2>4. CASE d = e
    <3>1. fds'[i] = d
      BY <2>1, <2>3, <2>4 DEF IInv, LocalsOK
    <3>2. i < i'
      BY <2>2, <2>3, SMT
    <3>3. \E a \in Addrs : Entry(a, d)'
      BY <2>3, <3>1, <3>2 DEF Entry
    <3>4. QED
      BY <2>2, <3>3 DEF Known
  <2>5. CASE d # e
    <3>1. file'[d] = file[d]
      BY <2>1, <2>5 DEF IInv, StateOK, Opens
    <3>2. \A a \in Addrs : Entry(a, d) => Entry(a, d)'
      BY <2>1, <2>2, SMT DEF IInv, LocalsOK, Entry, InProgress, Trying
    <3>3. QED
      BY <2>2, <3>1, <3>2 DEF IInv, KnownInv, Known, Holder
  <2>9. QED
    BY <2>4, <2>5
<1>9. QED
  BY <1>1, <1>2, <1>3, <1>4, <1>5, <1>6, <1>7, <1>8
     DEF IInv, FdsInv, KnownInv

LEMMA AtOnceKeeps ==
    ASSUME IInv, AtOnce
    PROVE  IInv'
<1>1. StateOK'
  BY ConnectAssumption, SMT
     DEF IInv, StateOK, LocalsOK, BusyInv, Busy, Sockets, AtOnce, Trying,
         Opens, Lowest
<1>2. LocalsOK'
  BY ConnectAssumption, SMT
     DEF IInv, StateOK, LocalsOK, BusyInv, Busy, AtOnce, Trying, Opens, Lowest
<1>3. BusyInv'
  BY ConnectAssumption, SMT
     DEF IInv, StateOK, LocalsOK, BusyInv, Busy, AtOnce, Trying, Opens, Lowest
<1>4. ASSUME NEW a \in Addrs PROVE Sound(a)'
  BY ConnectAssumption, SMT
     DEF IInv, StateOK, LocalsOK, BusyInv, Busy, FdsInv, Sound, Tracked,
         DistinctInv, Counted, WonInv, AtOnce, Trying, Opens, Lowest
<1>5. DistinctInv'
  BY ConnectAssumption, SMT
     DEF IInv, StateOK, LocalsOK, BusyInv, Busy, FdsInv, Sound, Tracked,
         DistinctInv, Counted, AtOnce, Trying, Opens, Lowest
<1>6. WonInv'
  BY ConnectAssumption, SMT
     DEF IInv, StateOK, LocalsOK, BusyInv, Busy, WonInv, FdsInv, Sound,
         Tracked, AtOnce, Trying, Opens, Lowest
<1>7. HeldInv'
  BY ConnectAssumption, SMT
     DEF IInv, StateOK, LocalsOK, BusyInv, Busy, FdsInv, Sound, Tracked,
         WonInv, HeldInv, AtOnce, Trying, Opens, Lowest
<1>8. ASSUME NEW d \in Fds PROVE Known(d)'
  <2>1. UNCHANGED <<held, fds>> /\ Busy /\ Busy' /\ won = None /\ pc = "open" /\ pc' = "cleanup"
    BY DEF AtOnce, Trying, Busy, IInv, BusyInv
  <2>2. PICK e \in Fds : Opens(e, "connected") /\ won' = e
    BY DEF AtOnce
  <2>3. CASE d = e
    BY <2>1, <2>2, <2>3 DEF Known
  <2>4. CASE d # e
    <3>1. file'[d] = file[d]
      BY <2>2, <2>4 DEF IInv, StateOK, Opens
    <3>2. \A a \in Addrs : Entry(a, d) => Entry(a, d)'
      BY <2>1 DEF Entry
    <3>3. QED
      BY <2>1, <3>1, <3>2 DEF IInv, KnownInv, Known, Holder
  <2>9. QED
    BY <2>3, <2>4
<1>9. QED
  BY <1>1, <1>2, <1>3, <1>4, <1>5, <1>6, <1>7, <1>8
     DEF IInv, FdsInv, KnownInv

LEMMA ScanNoneKeeps ==
    ASSUME IInv, ScanNone
    PROVE  IInv'
<1>a. Unfit \subseteq Watched /\ Fit \subseteq Watched
  BY DEF Unfit, Fit, Looked, Settled, Watched
<1>b. /\ \A a \in Unfit : file[fds[a]] = "broken"
      /\ \A a \in Fit : file[fds[a]] = "ready"
  BY <1>a DEF ScanNone, Unfit, Fit, Settled, Watched, IInv, LocalsOK, FdsInv, Sound,
               BusyInv, Tracked
<1>1. StateOK'
  BY <1>a, <1>b, ConnectAssumption, SMT
     DEF IInv, StateOK, LocalsOK, BusyInv, Busy, Sockets, ScanNone, Closed,
         Forget, Watched
<1>2. LocalsOK'
  BY <1>a, <1>b, ConnectAssumption, SMT
     DEF IInv, StateOK, LocalsOK, BusyInv, Busy, ScanNone, Closed, Forget,
         Watched
<1>3. BusyInv'
  BY <1>a, <1>b, ConnectAssumption, SMT
     DEF IInv, StateOK, LocalsOK, BusyInv, Busy, ScanNone, Closed, Forget,
         Watched
<1>4. ASSUME NEW a \in Addrs PROVE Sound(a)'
  BY <1>a, <1>b, ConnectAssumption, SMT
     DEF IInv, StateOK, LocalsOK, BusyInv, Busy, FdsInv, Sound, Tracked,
         DistinctInv, Counted, WonInv, ScanNone, Closed, Forget, Watched
<1>5. DistinctInv'
  BY <1>a, <1>b, ConnectAssumption, SMT
     DEF IInv, StateOK, LocalsOK, BusyInv, Busy, FdsInv, Sound, Tracked,
         DistinctInv, Counted, ScanNone, Closed, Forget, Watched
<1>6. WonInv'
  BY <1>a, <1>b, ConnectAssumption, SMT
     DEF IInv, StateOK, LocalsOK, BusyInv, Busy, WonInv, FdsInv, Sound,
         Tracked, ScanNone, Closed, Forget, Watched
<1>7. HeldInv'
  BY <1>a, <1>b, ConnectAssumption, SMT
     DEF IInv, StateOK, LocalsOK, BusyInv, Busy, FdsInv, Sound, Tracked,
         WonInv, HeldInv, ScanNone, Closed, Forget, Watched
<1>8. ASSUME NEW d \in Fds PROVE Known(d)'
  <2>1. CASE \E a \in Unfit : fds[a] = d
    <3>1. file'[d] = "none"
      BY <2>1 DEF ScanNone, Closed
    <3>2. QED
      BY <3>1 DEF Known, Sockets
  <2>2. CASE ~ \E a \in Unfit : fds[a] = d
    <3>1. file'[d] = file[d] /\ UNCHANGED <<held, won>> /\ Busy /\ Busy'
      BY <2>2 DEF ScanNone, Closed, Busy
    <3>2. \A a \in Addrs : Entry(a, d) => Entry(a, d)'
      BY <2>2 DEF Entry, ScanNone, Forget
    <3>3. QED
      BY <3>1, <3>2 DEF IInv, KnownInv, Known, Holder
  <2>9. QED
    BY <2>1, <2>2
<1>9. QED
  BY <1>1, <1>2, <1>3, <1>4, <1>5, <1>6, <1>7, <1>8
     DEF IInv, FdsInv, KnownInv

LEMMA ScanWinsKeeps ==
    ASSUME IInv, ScanWins
    PROVE  IInv'
<1>a. Unfit \subseteq Watched /\ Fit \subseteq Watched
  BY DEF Unfit, Fit, Looked, Settled, Watched
<1>b. /\ \A a \in Unfit : file[fds[a]] = "broken"
      /\ \A a \in Fit : file[fds[a]] = "ready"
  BY <1>a DEF ScanWins, Unfit, Fit, Settled, Watched, IInv, LocalsOK, FdsInv, Sound,
               BusyInv, Tracked
<1>1. StateOK'
  <2>1. file' \in [Fds -> Sockets \union {"none", "other"}]
    BY <1>a, SMT DEF IInv, StateOK, LocalsOK, ScanWins, Closed, Sockets, Watched, LastFit
  <2>2. rc' = "OK" /\ UNCHANGED <<owner, addresses, held, harmed>>
    BY DEF ScanWins
  <2>3. QED
    BY <2>1, <2>2 DEF IInv, StateOK
<1>2. LocalsOK'
  BY <1>a, <1>b, ConnectAssumption, SMT
     DEF IInv, StateOK, LocalsOK, BusyInv, Busy, ScanWins, Closed, Forget,
         LastFit, Watched
<1>3. BusyInv'
  BY <1>a, <1>b, ConnectAssumption, SMT
     DEF IInv, StateOK, LocalsOK, BusyInv, Busy, ScanWins, Closed, Forget,
         LastFit, Watched
<1>4. ASSUME NEW a \in Addrs PROVE Sound(a)'
  <2>1. PICK w \in Fit :
             /\ won' = fds[w]
             /\ file' = [Closed(file, {fds[b] : b \in Unfit}) EXCEPT ![fds[w]] = "connected"]
    BY DEF ScanWins, LastFit
  <2>2. CASE fds'[a] = None \/ fds'[a] = won'
    BY <2>2 DEF Sound, ScanWins
  <2>3. CASE fds'[a] # None /\ fds'[a] # won'
    <3>1. a \notin Unfit /\ fds'[a] = fds[a] /\ fds[a] # fds[w]
      BY <2>1, <2>3 DEF ScanWins, Forget
    <3>2. Counted(a) /\ \A b \in Unfit : Counted(b) /\ a # b
      BY <1>a, <2>3, <3>1 DEF Counted, ScanWins, Watched
    <3>3. \A b \in Unfit : fds[a] # fds[b]
      BY <1>a, <3>2 DEF IInv, DistinctInv, Watched
    <3>4. fds[a] \in Fds /\ file'[fds[a]] = file[fds[a]]
      BY <2>1, <2>3, <3>1, <3>3 DEF IInv, LocalsOK, Closed
    <3>5. Tracked(a)
      BY <2>3, <3>1 DEF IInv, FdsInv, Sound, ScanWins
    <3>6. QED
      BY <3>1, <3>4, <3>5 DEF Sound, Tracked, ScanWins
  <2>4. QED
    BY <2>2, <2>3
<1>5. DistinctInv'
  BY <1>a, <1>b, ConnectAssumption, SMT
     DEF IInv, StateOK, LocalsOK, BusyInv, Busy, FdsInv, Sound, Tracked,
         DistinctInv, Counted, ScanWins, Closed, Forget, LastFit, Watched
<1>6. WonInv'
  BY <1>a, <1>b, ConnectAssumption, SMT
     DEF IInv, StateOK, LocalsOK, BusyInv, Busy, WonInv, FdsInv, Sound,
         Tracked, ScanWins, Closed, Forget, LastFit, Watched
<1>7. HeldInv'
  BY <1>a, <1>b, ConnectAssumption, SMT
     DEF IInv, StateOK, LocalsOK, BusyInv, Busy, FdsInv, Sound, Tracked,
         WonInv, HeldInv, ScanWins, Closed, Forget, LastFit, Watched
<1>8. ASSUME NEW d \in Fds PROVE Known(d)'
  <2>1. PICK w \in Fit :
             /\ won' = fds[w]
             /\ file' = [Closed(file, {fds[b] : b \in Unfit}) EXCEPT ![fds[w]] = "connected"]
    BY DEF ScanWins, LastFit
  <2>2. UNCHANGED held /\ Busy /\ Busy' /\ won = None
    BY DEF ScanWins, Busy, IInv, BusyInv
  <2>3. CASE d = fds[w]
    BY <2>1, <2>2, <2>3 DEF Known
  <2>4. CASE d # fds[w] /\ \E a \in Unfit : fds[a] = d
    <3>1. file'[d] = "none"
      BY <2>1, <2>4 DEF Closed
    <3>2. QED
      BY <3>1 DEF Known, Sockets
  <2>5. CASE d # fds[w] /\ ~ \E a \in Unfit : fds[a] = d
    <3>1. file'[d] = file[d]
      BY <2>1, <2>5 DEF Closed
    <3>2. \A a \in Addrs : Entry(a, d) => Entry(a, d)'
      BY <2>5 DEF Entry, ScanWins, Forget
    <3>3. QED
      BY <2>2, <3>1, <3>2 DEF IInv, KnownInv, Known, Holder
  <2>9. QED
    BY <2>3, <2>4, <2>5
<1>9. QED
  BY <1>1, <1>2, <1>3, <1>4, <1>5, <1>6, <1>7, <1>8
     DEF IInv, FdsInv, KnownInv

LEMMA ScanFlagsFailKeeps ==
    ASSUME IInv, ScanFlagsFail
    PROVE  IInv'
<1>a. Unfit \subseteq Watched /\ Fit \subseteq Watched
  BY DEF Unfit, Fit, Looked, Settled, Watched
<1>b. /\ \A a \in Unfit : file[fds[a]] = "broken"
      /\ \A a \in Fit : file[fds[a]] = "ready"
  BY <1>a DEF ScanFlagsFail, Unfit, Fit, Settled, Watched, IInv, LocalsOK, FdsInv, Sound,
               BusyInv, Tracked
<1>1. StateOK'
  BY <1>a, <1>b, ConnectAssumption, SMT
     DEF IInv, StateOK, LocalsOK, BusyInv, Busy, Sockets, ScanFlagsFail,
         Closed, Forget, LastFit, Watched
<1>2. LocalsOK'
  BY <1>a, <1>b, ConnectAssumption, SMT
     DEF IInv, StateOK, LocalsOK, BusyInv, Busy, ScanFlagsFail, Closed,
         Forget, LastFit, Watched
<1>3. BusyInv'
  BY <1>a, <1>b, ConnectAssumption, SMT
     DEF IInv, StateOK, LocalsOK, BusyInv, Busy, ScanFlagsFail, Closed,
         Forget, LastFit, Watched
<1>4. ASSUME NEW a \in Addrs PROVE Sound(a)'
  BY <1>a, <1>b, ConnectAssumption, SMT
     DEF IInv, StateOK, LocalsOK, BusyInv, Busy, FdsInv, Sound, Tracked,
         DistinctInv, Counted, WonInv, ScanFlagsFail, Closed, Forget, LastFit,
         Watched
<1>5. DistinctInv'
  BY <1>a, <1>b, ConnectAssumption, SMT
     DEF IInv, StateOK, LocalsOK, BusyInv, Busy, FdsInv, Sound, Tracked,
         DistinctInv, Counted, ScanFlagsFail, Closed, Forget, LastFit, Watched
<1>6. WonInv'
  BY <1>a, <1>b, ConnectAssumption, SMT
     DEF IInv, StateOK, LocalsOK, BusyInv, Busy, WonInv, FdsInv, Sound,
         Tracked, ScanFlagsFail, Closed, Forget, LastFit, Watched
<1>7. HeldInv'
  BY <1>a, <1>b, ConnectAssumption, SMT
     DEF IInv, StateOK, LocalsOK, BusyInv, Busy, FdsInv, Sound, Tracked,
         WonInv, HeldInv, ScanFlagsFail, Closed, Forget, LastFit, Watched
<1>8. ASSUME NEW d \in Fds PROVE Known(d)'
  BY <1>a, <1>b, ConnectAssumption, SMT
     DEF IInv, StateOK, LocalsOK, BusyInv, Busy, KnownInv, Known, Holder,
         Entry, FdsInv, Sound, WonInv, Tracked, Sockets, ScanFlagsFail,
         Closed, Forget, LastFit, Watched
<1>9. QED
  BY <1>1, <1>2, <1>3, <1>4, <1>5, <1>6, <1>7, <1>8
     DEF IInv, FdsInv, KnownInv

LEMMA CleanupKeeps ==
    ASSUME IInv, Cleanup
    PROVE  IInv'
<1>1. StateOK'
  BY ConnectAssumption, SMT
     DEF IInv, StateOK, LocalsOK, BusyInv, Busy, Sockets, Cleanup, Done,
         Closed, Losers, Watched
<1>2. LocalsOK'
  BY ConnectAssumption, SMT
     DEF IInv, StateOK, LocalsOK, BusyInv, Busy, Cleanup, Done, Closed,
         Losers, Watched
<1>3. BusyInv'
  BY ConnectAssumption, SMT
     DEF IInv, StateOK, LocalsOK, BusyInv, Busy, Cleanup, Done, Closed,
         Losers, Watched
<1>4. ASSUME NEW a \in Addrs PROVE Sound(a)'
  BY ConnectAssumption, SMT
     DEF IInv, StateOK, LocalsOK, BusyInv, Busy, FdsInv, Sound, Tracked,
         DistinctInv, Counted, WonInv, Cleanup, Done, Closed, Losers, Watched
<1>5. DistinctInv'
  BY ConnectAssumption, SMT
     DEF IInv, StateOK, LocalsOK, BusyInv, Busy, FdsInv, Sound, Tracked,
         DistinctInv, Counted, Cleanup, Done, Closed, Losers, Watched
<1>6. WonInv'
  BY ConnectAssumption, SMT
     DEF IInv, StateOK, LocalsOK, BusyInv, Busy, WonInv, FdsInv, Sound,
         Tracked, Cleanup, Done, Closed, Losers, Watched
<1>7. HeldInv'
  BY ConnectAssumption, SMT
     DEF IInv, StateOK, LocalsOK, BusyInv, Busy, FdsInv, Sound, Tracked,
         WonInv, HeldInv, Cleanup, Done, Closed, Losers, Watched
<1>8. ASSUME NEW d \in Fds PROVE Known(d)'
  <2> SUFFICES ASSUME file'[d] \in Sockets
               PROVE  \E n \in Nodes : Holder(n, d)'
    BY DEF Known
  <2>1. /\ cur \in Nodes /\ held[cur] = None
        /\ file'[d] = file[d] /\ d \notin Losers
    BY DEF IInv, BusyInv, Busy, Cleanup, Closed, Sockets
  <2>2. \A a \in Addrs : fds[a] = d => d = won
    BY <2>1 DEF Losers, Watched
  <2>3. CASE d = won
    BY <2>1, <2>3 DEF IInv, StateOK, Holder, Cleanup
  <2>4. CASE d # won
    <3>1. PICK n \in Nodes : held[n] = d
      BY <2>1, <2>2, <2>4 DEF IInv, KnownInv, Known, Holder, Entry
    <3>2. Holder(n, d)'
      BY <2>1, <3>1, SMT DEF IInv, StateOK, Holder, Cleanup
    <3>3. QED
      BY <3>2
  <2>9. QED
    BY <2>3, <2>4
<1>9. QED
  BY <1>1, <1>2, <1>3, <1>4, <1>5, <1>6, <1>7, <1>8
     DEF IInv, FdsInv, KnownInv

LEMMA CleanupNoClockKeeps ==
    ASSUME IInv, CleanupNoClock
    PROVE  IInv'
<1>1. StateOK'
  BY ConnectAssumption, SMT
     DEF IInv, StateOK, LocalsOK, BusyInv, Busy, Sockets, CleanupNoClock,
         Done, Closed, Losers, Watched
<1>2. LocalsOK'
  BY ConnectAssumption, SMT
     DEF IInv, StateOK, LocalsOK, BusyInv, Busy, CleanupNoClock, Done, Closed,
         Losers, Watched
<1>3. BusyInv'
  BY ConnectAssumption, SMT
     DEF IInv, StateOK, LocalsOK, BusyInv, Busy, CleanupNoClock, Done, Closed,
         Losers, Watched
<1>4. ASSUME NEW a \in Addrs PROVE Sound(a)'
  BY ConnectAssumption, SMT
     DEF IInv, StateOK, LocalsOK, BusyInv, Busy, FdsInv, Sound, Tracked,
         DistinctInv, Counted, WonInv, CleanupNoClock, Done, Closed, Losers,
         Watched
<1>5. DistinctInv'
  BY ConnectAssumption, SMT
     DEF IInv, StateOK, LocalsOK, BusyInv, Busy, FdsInv, Sound, Tracked,
         DistinctInv, Counted, CleanupNoClock, Done, Closed, Losers, Watched
<1>6. WonInv'
  BY ConnectAssumption, SMT
     DEF IInv, StateOK, LocalsOK, BusyInv, Busy, WonInv, FdsInv, Sound,
         Tracked, CleanupNoClock, Done, Closed, Losers, Watched
<1>7. HeldInv'
  BY ConnectAssumption, SMT
     DEF IInv, StateOK, LocalsOK, BusyInv, Busy, FdsInv, Sound, Tracked,
         WonInv, HeldInv, CleanupNoClock, Done, Closed, Losers, Watched
<1>8. ASSUME NEW d \in Fds PROVE Known(d)'
  <2> SUFFICES ASSUME file'[d] \in Sockets
               PROVE  \E n \in Nodes : Holder(n, d)'
    BY DEF Known
  <2>1. /\ cur \in Nodes /\ held[cur] = None
        /\ file'[d] = file[d] /\ d \notin Losers \union {won}
    BY DEF IInv, BusyInv, Busy, CleanupNoClock, Closed, Sockets
  <2>2. \A a \in Addrs : fds[a] = d => d = won
    BY <2>1 DEF Losers, Watched
  <2>3. d # won
    BY <2>1
  <2>4. CASE d # won
    <3>1. PICK n \in Nodes : held[n] = d
      BY <2>1, <2>2, <2>4 DEF IInv, KnownInv, Known, Holder, Entry
    <3>2. Holder(n, d)'
      BY <2>1, <3>1, SMT DEF IInv, StateOK, Holder, CleanupNoClock
    <3>3. QED
      BY <3>2
  <2>9. QED
    BY <2>3, <2>4
<1>9. QED
  BY <1>1, <1>2, <1>3, <1>4, <1>5, <1>6, <1>7, <1>8
     DEF IInv, FdsInv, KnownInv

LEMMA DisconnectKeeps ==
    ASSUME IInv, NEW n \in Nodes, Disconnect(n)
    PROVE  IInv'
<1>1. StateOK'
  BY ConnectAssumption, SMT
     DEF IInv, StateOK, LocalsOK, BusyInv, Busy, Sockets, Disconnect, Closed
<1>2. LocalsOK'
  BY ConnectAssumption, SMT
     DEF IInv, StateOK, LocalsOK, BusyInv, Busy, Disconnect, Closed
<1>3. BusyInv'
  BY ConnectAssumption, SMT
     DEF IInv, StateOK, LocalsOK, BusyInv, Busy, Disconnect, Closed
<1>4. ASSUME NEW a \in Addrs PROVE Sound(a)'
  BY ConnectAssumption, SMT
     DEF IInv, StateOK, LocalsOK, BusyInv, Busy, FdsInv, Sound, Tracked,
         DistinctInv, Counted, WonInv, Disconnect, Closed
<1>5. DistinctInv'
  BY ConnectAssumption, SMT
     DEF IInv, StateOK, LocalsOK, BusyInv, Busy, FdsInv, Sound, Tracked,
         DistinctInv, Counted, Disconnect, Closed
<1>6. WonInv'
  BY ConnectAssumption, SMT
     DEF IInv, StateOK, LocalsOK, BusyInv, Busy, WonInv, FdsInv, Sound,
         Tracked, Disconnect, Closed
<1>7. HeldInv'
  BY ConnectAssumption, SMT
     DEF IInv, StateOK, LocalsOK, BusyInv, Busy, FdsInv, Sound, Tracked,
         WonInv, HeldInv, Disconnect, Closed
<1>8. ASSUME NEW d \in Fds PROVE Known(d)'
  BY ConnectAssumption, SMT
     DEF IInv, StateOK, LocalsOK, BusyInv, Busy, KnownInv, Known, Holder,
         Entry, FdsInv, Sound, WonInv, Tracked, Sockets, Disconnect, Closed
<1>9. QED
  BY <1>1, <1>2, <1>3, <1>4, <1>5, <1>6, <1>7, <1>8
     DEF IInv, FdsInv, KnownInv

LEMMA FreeClusterKeeps ==
    ASSUME IInv, FreeCluster
    PROVE  IInv'
<1>1. StateOK'
  BY ConnectAssumption, SMT
     DEF IInv, StateOK, LocalsOK, BusyInv, Busy, Sockets, FreeCluster, Closed
<1>2. LocalsOK'
  BY ConnectAssumption, SMT
     DEF IInv, StateOK, LocalsOK, BusyInv, Busy, FreeCluster, Closed
<1>3. BusyInv'
  BY ConnectAssumption, SMT
     DEF IInv, StateOK, LocalsOK, BusyInv, Busy, FreeCluster, Closed
<1>4. ASSUME NEW a \in Addrs PROVE Sound(a)'
  BY ConnectAssumption, SMT
     DEF IInv, StateOK, LocalsOK, BusyInv, Busy, FdsInv, Sound, Tracked,
         DistinctInv, Counted, WonInv, FreeCluster, Closed
<1>5. DistinctInv'
  BY ConnectAssumption, SMT
     DEF IInv, StateOK, LocalsOK, BusyInv, Busy, FdsInv, Sound, Tracked,
         DistinctInv, Counted, FreeCluster, Closed
<1>6. WonInv'
  BY ConnectAssumption, SMT
     DEF IInv, StateOK, LocalsOK, BusyInv, Busy, WonInv, FdsInv, Sound,
         Tracked, FreeCluster, Closed
<1>7. HeldInv'
  BY ConnectAssumption, SMT
     DEF IInv, StateOK, LocalsOK, BusyInv, Busy, FdsInv, Sound, Tracked,
         WonInv, HeldInv, FreeCluster, Closed
<1>8. ASSUME NEW d \in Fds PROVE Known(d)'
  BY ConnectAssumption, SMT
     DEF IInv, StateOK, LocalsOK, BusyInv, Busy, KnownInv, Known, Holder,
         Entry, FdsInv, Sound, WonInv, Tracked, Sockets, FreeCluster, Closed
<1>9. QED
  BY <1>1, <1>2, <1>3, <1>4, <1>5, <1>6, <1>7, <1>8
     DEF IInv, FdsInv, KnownInv

LEMMA SettleKeeps ==
    ASSUME IInv, NEW e \in Fds, Settle(e)
    PROVE  IInv'
<1>1. StateOK'
  BY ConnectAssumption, SMT
     DEF IInv, StateOK, LocalsOK, BusyInv, Busy, Sockets, Settle
<1>2. LocalsOK'
  BY ConnectAssumption, SMT
     DEF IInv, StateOK, LocalsOK, BusyInv, Busy, Settle
<1>3. BusyInv'
  BY ConnectAssumption, SMT
     DEF IInv, StateOK, LocalsOK, BusyInv, Busy, Settle
<1>4. ASSUME NEW a \in Addrs PROVE Sound(a)'
  BY ConnectAssumption, SMT
     DEF IInv, StateOK, LocalsOK, BusyInv, Busy, FdsInv, Sound, Tracked,
         DistinctInv, Counted, WonInv, Settle
<1>5. DistinctInv'
  BY ConnectAssumption, SMT
     DEF IInv, StateOK, LocalsOK, BusyInv, Busy, FdsInv, Sound, Tracked,
         DistinctInv, Counted, Settle
<1>6. WonInv'
  BY ConnectAssumption, SMT
     DEF IInv, StateOK, LocalsOK, BusyInv, Busy, WonInv, FdsInv, Sound,
         Tracked, Settle
<1>7. HeldInv'
  BY ConnectAssumption, SMT
     DEF IInv, StateOK, LocalsOK, BusyInv, Busy, FdsInv, Sound, Tracked,
         WonInv, HeldInv, Settle
<1>8. ASSUME NEW d \in Fds PROVE Known(d)'
  BY ConnectAssumption, SMT
     DEF IInv, StateOK, LocalsOK, BusyInv, Busy, KnownInv, Known, Holder,
         Entry, FdsInv, Sound, WonInv, Tracked, Sockets, Settle
<1>9. QED
  BY <1>1, <1>2, <1>3, <1>4, <1>5, <1>6, <1>7, <1>8
     DEF IInv, FdsInv, KnownInv

LEMMA AppOpensKeeps ==
    ASSUME IInv, AppOpens
    PROVE  IInv'
<1>1. StateOK'
  BY ConnectAssumption, SMT
     DEF IInv, StateOK, LocalsOK, BusyInv, Busy, Sockets, AppOpens, Lowest
<1>2. LocalsOK'
  BY ConnectAssumption, SMT
     DEF IInv, StateOK, LocalsOK, BusyInv, Busy, AppOpens, Lowest
<1>3. BusyInv'
  BY ConnectAssumption, SMT
     DEF IInv, StateOK, LocalsOK, BusyInv, Busy, AppOpens, Lowest
<1>4. ASSUME NEW a \in Addrs PROVE Sound(a)'
  BY ConnectAssumption, SMT
     DEF IInv, StateOK, LocalsOK, BusyInv, Busy, FdsInv, Sound, Tracked,
         DistinctInv, Counted, WonInv, AppOpens, Lowest
<1>5. DistinctInv'
  BY ConnectAssumption, SMT
     DEF IInv, StateOK, LocalsOK, BusyInv, Busy, FdsInv, Sound, Tracked,
         DistinctInv, Counted, AppOpens, Lowest
<1>6. WonInv'
  BY ConnectAssumption, SMT
     DEF IInv, StateOK, LocalsOK, BusyInv, Busy, WonInv, FdsInv, Sound,
         Tracked, AppOpens, Lowest
<1>7. HeldInv'
  BY ConnectAssumption, SMT
     DEF IInv, StateOK, LocalsOK, BusyInv, Busy, FdsInv, Sound, Tracked,
         WonInv, HeldInv, AppOpens, Lowest
<1>8. ASSUME NEW d \in Fds PROVE Known(d)'
  BY ConnectAssumption, SMT
     DEF IInv, StateOK, LocalsOK, BusyInv, Busy, KnownInv, Known, Holder,
         Entry, FdsInv, Sound, WonInv, Tracked, Sockets, AppOpens, Lowest
<1>9. QED
  BY <1>1, <1>2, <1>3, <1>4, <1>5, <1>6, <1>7, <1>8
     DEF IInv, FdsInv, KnownInv

-----------------------------------------------------------------------------
(***************************************************************************)
(* The theorems.                                                           *)
(***************************************************************************)
LEMMA NextKeeps ==
    ASSUME IInv, [Next]_vars
    PROVE  IInv'
<1>1. CASE \E n \in Nodes : NodeStep(n)
  BY <1>1, NodeKeeps, AddAddressKeeps, DisconnectKeeps DEF NodeStep
<1>2. CASE Step
  BY <1>2, QuietKeeps, InProgressKeeps, AtOnceKeeps, ScanNoneKeeps, ScanWinsKeeps,
     ScanFlagsFailKeeps, CleanupKeeps, CleanupNoClockKeeps DEF Step
<1>3. CASE GiveUp \/ FreeCluster \/ AppOpens
  BY <1>3, QuietKeeps, FreeClusterKeeps, AppOpensKeeps
<1>4. CASE \E d \in Fds : Settle(d)
  BY <1>4, SettleKeeps
<1>5. CASE UNCHANGED vars
  BY <1>5 DEF vars, IInv, StateOK, LocalsOK, BusyInv, Busy, FdsInv, Sound, Tracked,
              DistinctInv, Counted, WonInv, HeldInv, KnownInv, Known, Holder, Entry
<1>6. QED
  BY <1>1, <1>2, <1>3, <1>4, <1>5 DEF Next

\* The inductive invariant: in a connect, the entries of fds are sockets of this
\* connect, each entry another (_arakoon_networking_connect).
THEOREM Invariant == Spec => []IInv
BY InitInv, NextKeeps, PTL DEF Spec

\* Every variable keeps its type.
THEOREM TypeCorrect == Spec => []TypeOK
<1>1. IInv => TypeOK
  BY TypeOKParts DEF IInv
<1>2. QED
  BY <1>1, Invariant, PTL

\* Whatever fails, a node's descriptor other than zero is a connected socket of
\* that node (connect, _arakoon_cluster_node_disconnect).
THEOREM Own == Spec => []HeldAreOwn
<1>1. IInv => HeldAreOwn
  BY DEF IInv, HeldInv, HeldAreOwn
<1>2. QED
  BY <1>1, Invariant, PTL

\* Whatever fails, connect leaves no socket open which no node holds.
THEOREM NothingLeaks == Spec => []NoneLeaked
<1>1. IInv => NoneLeaked
  BY DEF IInv, KnownInv, Known, Holder, Entry, Busy, NoneLeaked
<1>2. QED
  BY <1>1, Invariant, PTL

\* A step closes no file of the application but, after harm, descriptor zero.
LEMMA FilesKept ==
    ASSUME IInv, [Next]_vars, NEW f \in Fds, file[f] = "other", f # 0 \/ ~harmed
    PROVE  file'[f] = "other"
<1>1. ASSUME NEW n \in Nodes PROVE held[n] # f
  BY SMT DEF IInv, HeldInv
<1>2. ASSUME NEW a \in Addrs, pc \in {"poll", "cleanup"} PROVE fds[a] # f
  BY <1>2, SMT DEF IInv, FdsInv, Sound, Tracked, WonInv
<1>3. won # f
  BY DEF IInv, WonInv
<1>4. CASE \E n \in Nodes : NodeStep(n)
  BY <1>1, <1>4 DEF NodeStep, AddAddress, Disconnect, Closed, Start, StartFails,
                    StartNoFlags, StartNoArrays
<1>5. CASE SocketFails \/ SetupFails \/ AllTried \/ NothingLeft \/ GiveUp
  BY <1>5 DEF SocketFails, SetupFails, AllTried, NothingLeft, GiveUp
<1>6. CASE InProgress \/ AtOnce \/ AppOpens
  BY <1>6 DEF InProgress, AtOnce, AppOpens, Opens, Lowest, IInv, StateOK
<1>7. CASE ScanNone \/ ScanWins \/ ScanFlagsFail
  <2>1. Unfit \subseteq Watched /\ Fit \subseteq Watched /\ pc = "poll"
    BY <1>7 DEF Unfit, Fit, Looked, Settled, Watched, ScanNone, ScanWins, ScanFlagsFail
  <2>2. \A a \in Unfit \union Fit : fds[a] # f
    BY <1>2, <2>1 DEF Watched
  <2>3. CASE ScanNone
    BY <2>2, <2>3 DEF ScanNone, Closed
  <2>4. CASE ScanWins
    <3>1. PICK a \in Fit :
              file' = [Closed(file, {fds[b] : b \in Unfit}) EXCEPT ![fds[a]] = "connected"]
      BY <2>4 DEF ScanWins, LastFit
    <3>2. fds[a] # f /\ f \notin {fds[b] : b \in Unfit}
      BY <2>2
    <3>3. QED
      BY <3>1, <3>2 DEF Closed
  <2>5. CASE ScanFlagsFail
    <3>1. PICK a \in Fit : file' = Closed(file, {fds[b] : b \in Unfit \union {a}})
      BY <2>5 DEF ScanFlagsFail, LastFit
    <3>2. f \notin {fds[b] : b \in Unfit \union {a}}
      BY <2>2
    <3>3. QED
      BY <3>1, <3>2 DEF Closed
  <2>6. QED
    BY <1>7, <2>3, <2>4, <2>5
<1>8. CASE Cleanup \/ CleanupNoClock
  <2>1. pc = "cleanup" /\ f \notin Losers \union {won}
    BY <1>2, <1>3, <1>8 DEF Cleanup, CleanupNoClock, Losers, Watched
  <2>2. QED
    BY <1>8, <2>1 DEF Cleanup, CleanupNoClock, Closed
<1>9. CASE FreeCluster
  BY <1>1, <1>9 DEF FreeCluster, Closed
<1>10. CASE (\E d \in Fds : Settle(d)) \/ UNCHANGED vars
  BY <1>10 DEF Settle, vars, IInv, StateOK
<1>11. QED
  BY <1>4, <1>5, <1>6, <1>7, <1>8, <1>9, <1>10 DEF Next, Step

\* No connect and no disconnect closes a file of the application, descriptor zero
\* after harm excepted (the zeros of fds in the cleanup of connect).
THEOREM AppKept == Spec => AppFilesKept
<1>1. IInv /\ [Next]_vars
      => [\A d \in Fds : file[d] = "other" => file'[d] = "other" \/ (d = 0 /\ harmed)]_vars
  BY FilesKept
<1>2. QED
  BY <1>1, Invariant, PTL DEF Spec, AppFilesKept

\* A successful connect gives its node a connected socket of its own.
THEOREM Connected == Spec => SuccessIsConnected
<1> DEFINE A == pc = "cleanup" /\ pc' = "idle" /\ rc' = "OK" =>
                   /\ held'[cur] # None
                   /\ file'[held'[cur]] = "connected" /\ owner'[held'[cur]] = cur
<1>1. ASSUME IInv, Next, pc = "cleanup", pc' = "idle", rc' = "OK" PROVE A
  <2>1. Cleanup
    BY <1>1 DEF Next, Step, NodeStep, AddAddress, Disconnect, Start, StartFails,
       StartNoFlags, StartNoArrays, MayConnect, SocketFails, SetupFails, InProgress,
       AtOnce, AllTried, Trying, Skip, NothingLeft, ScanNone, ScanWins, ScanFlagsFail,
       GiveUp, FreeCluster, AppOpens, Settle, CleanupNoClock
  <2>2. won # None /\ won \in Fds /\ cur \in Nodes
    BY <1>1, <2>1 DEF Cleanup, IInv, WonInv, BusyInv, Busy, LocalsOK
  <2>3. held'[cur] = won
    BY <1>1, <2>1, <2>2 DEF Cleanup, IInv, StateOK
  <2>4. file'[won] = file[won] /\ owner' = owner
    BY <2>1, <2>2 DEF Cleanup, Closed, Losers, Done
  <2>5. file[won] = "connected" /\ owner[won] = cur
    BY <1>1, <2>2 DEF IInv, WonInv
  <2>6. QED
    BY <2>2, <2>3, <2>4, <2>5
<1>2. IInv /\ [Next]_vars => [A]_vars
  BY <1>1
<1>3. QED
  BY <1>2, Invariant, PTL DEF Spec, SuccessIsConnected

=============================================================================
