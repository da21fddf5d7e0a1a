------------------------------ MODULE Session -------------------------------
(***************************************************************************)
(* What a cluster object promises to the application, without its nodes,   *)
(* its connections and the wire: whether it can be used, and what a result *)
(* says about that.  Module Client implements it, module Nursery relies on *)
(* it for each of its clusters.                                            *)
(***************************************************************************)
CONSTANTS
    Calls,  \* the ordinary calls
    Loose,  \* those whose failing write leaves the connection open
    NULL

VARIABLES
    busy,   \* the call in progress, NULL between calls
    usable, \* is there a master with a connection?
    rc      \* the last result; "none" while a call is in progress

vars == <<busy, usable, rc>>

ConnectErrors ==
    {"IO", "ENOMEM", "SERVER", "NETWORK_ERROR", "UNKNOWN_NODE", "MASTER_NOT_FOUND"}

Outcome(r, u) == [rc |-> r, usable |-> u]

\* How an ordinary call that was begun can end.  An answer of the server, good or
\* bad, and a lack of memory keep the master; a network failure gives it up.
Outcomes(c) ==
    {Outcome("OK", TRUE), Outcome("ENOMEM", TRUE), Outcome("IO", FALSE)}
    \union {Outcome("SERVER", u) : u \in BOOLEAN}
    \union {Outcome("IO", u) : u \in (IF c \in Loose THEN {TRUE} ELSE {})}

\* connect_master may end with any error, and with or without a master it had
\* before; success means that there is one.
ConnectOutcomes ==
    {o \in [rc : ConnectErrors \union {"OK"}, usable : BOOLEAN] : o.rc = "OK" => o.usable}

-----------------------------------------------------------------------------
Init == busy = NULL /\ usable = FALSE /\ rc = "OK"

AddNode ==
    /\ busy = NULL
    /\ rc' \in {"OK", "EINVAL"}
    /\ UNCHANGED <<busy, usable>>

\* Without a master a call is refused and nothing is sent.
Refuse ==
    /\ busy = NULL /\ ~usable
    /\ rc' = "NOT_CONNECTED"
    /\ UNCHANGED <<busy, usable>>

Begin(c) ==
    /\ busy = NULL /\ usable
    /\ busy' = c /\ rc' = "none"
    /\ UNCHANGED usable

End(outcomes) ==
    /\ busy' = NULL
    /\ \E o \in outcomes : rc' = o.rc /\ usable' = o.usable

Finish(c) == busy = c /\ End(Outcomes(c))

\* connect_master of a cluster without nodes.
ConnectNowhere ==
    /\ busy = NULL
    /\ rc' = "NETWORK_ERROR"
    /\ UNCHANGED <<busy, usable>>

BeginConnect ==
    /\ busy = NULL
    /\ busy' = "connect_master" /\ rc' = "none"
    /\ UNCHANGED usable

\* The connection to the old master comes and goes while nodes are asked.
ConnectOn ==
    /\ busy = "connect_master"
    /\ usable' \in BOOLEAN
    /\ UNCHANGED <<busy, rc>>

FinishConnect == busy = "connect_master" /\ End(ConnectOutcomes)

Next ==
    \/ AddNode \/ Refuse \/ ConnectNowhere
    \/ BeginConnect \/ ConnectOn \/ FinishConnect
    \/ \E c \in Calls : Begin(c) \/ Finish(c)

Spec == Init /\ [][Next]_vars

=============================================================================
