------------------------------- MODULE Client -------------------------------
(***************************************************************************)
(* One ArakoonCluster object of the client library, the connections of its *)
(* nodes, and the servers at the other end.  Translated from               *)
(* src/src/arakoon-cluster.c, arakoon-cluster-node.c, arakoon.c and        *)
(* arakoon-protocol.h.                                                     *)
(*                                                                         *)
(* The library is synchronous and single threaded: a call of the API runs  *)
(* until it returns.  An action is one connect, one write or one read of   *)
(* the call; servers answer, crash, restart and change their mind about    *)
(* who is master between any two of them.                                  *)
(*                                                                         *)
(* Simplifications.                                                        *)
(*  - Time is not counted: with Timed, any wait may end in a timeout (or   *)
(*    be interrupted, which the code treats alike).                        *)
(*  - The error codes of the socket layer are one result, "IO".            *)
(*  - What a server answers is chosen when the client reads it; only the   *)
(*    name in a who_master answer is fixed when the server answers.        *)
(*  - cluster_free ends the object and is not modelled.                    *)
(***************************************************************************)
EXTENDS Protocol, FiniteSets

CONSTANTS
    Nodes,            \* the ArakoonClusterNode objects, named as their servers
    Strangers,        \* names of servers which the client was not told about
    NULL,             \* the null pointer; also the answer "no master is known"
    Calls,            \* the calls of the API which the application uses
    Timed,            \* do calls have a finite timeout?
    AllocFails,       \* can memory allocation fail?
    WhoMasterErrors,  \* can a server answer who_master with an error code?
    EmptyMessages,    \* can an error message have length zero?
    MaxWire,          \* bounds: the commands and fields that the buffers of a
    MaxUnread         \* connection hold before its writers wait; one of each is
                      \* all that a connection in sync needs

ASSUME NodesAssumption ==
    NULL \notin Nodes \union Strangers \union CallNames \union {"connect_master"}
ASSUME CallsAssumption == Calls \subseteq CallNames
ASSUME FlagsAssumption ==
    /\ Timed \in BOOLEAN
    /\ AllocFails \in BOOLEAN
    /\ WhoMasterErrors \in BOOLEAN
    /\ EmptyMessages \in BOOLEAN
ASSUME BoundsAssumption == MaxWire \in Nat \ {0} /\ MaxUnread \in Nat \ {0}

Names == Nodes \union Strangers

VARIABLES
    \* struct ArakoonCluster
    nodes,      \* head of the list of nodes
    master,     \* the node of the last successful connect_master
    lastError,  \* last_error.data: "none", "heap" or "zero" (the marker pointer
                \* ARAKOON_ZERO_LENGTH_DATA_PTR)
    \* struct ArakoonClusterNode
    next,       \* the node's successor in the list
    attached,   \* the nodes whose cluster pointer is set
    conn,       \* "closed": fd < 0; "live"; "gone": fd >= 0, the peer has left
    \* the connection of a node, as left by both ends
    greeted,    \* was the prologue written?
    wire,       \* commands written and not yet taken by the server
    unread,     \* fields sent by the server and not yet read
    \* the servers
    up,         \* is the server running?
    belief,     \* the name it would give for the master, NULL for none
    \* the call in progress
    pc,         \* "idle" (the application runs) or what is done next
    call,       \* the call, NULL when idle
    cur,        \* the node it talks to
    phase,      \* of connect_master: "probe" the list, "verify" the master
    left,       \* WRITE_BYTES left of the command
    expect,     \* the fields the code will read before it returns
    named,      \* the name in the latest who_master answer of cur
    claimed,    \* history: who said "I am master" since connect_master began
    told,       \* history: the field taken for the error message in this call
    quiet,      \* history: was nothing under way to or from the master when the
                \* call began?
    rc          \* return code: of the answer being read, or of the last call

list    == <<nodes, next, attached>>
links   == <<conn, greeted, wire, unread>>
servers == <<up, belief>>
control == <<pc, call, cur, phase, left, expect, named, claimed, told, quiet, rc>>
vars    == <<list, links, servers, master, lastError, control>>

-----------------------------------------------------------------------------
Results == {"OK", "SERVER", "IO", "ENOMEM", "EINVAL", "NOT_CONNECTED",
            "NETWORK_ERROR", "UNKNOWN_NODE", "MASTER_NOT_FOUND"}

Init ==
    /\ nodes = NULL /\ master = NULL /\ lastError = "none"
    /\ next = [n \in Nodes |-> NULL]
    /\ attached = {}
    /\ conn = [n \in Nodes |-> "closed"]
    /\ greeted = [n \in Nodes |-> FALSE]
    /\ wire = [n \in Nodes |-> <<>>]
    /\ unread = [n \in Nodes |-> <<>>]
    /\ up = [n \in Nodes |-> TRUE]
    /\ belief \in [Nodes -> Names \union {NULL}]
    /\ pc = "idle" /\ call = NULL /\ cur = NULL /\ phase = "none"
    /\ left = 0 /\ expect = <<>> /\ named = NULL /\ claimed = {}
    /\ told = NULL /\ quiet = TRUE /\ rc = "OK"

\* The command being exchanged: connect_master asks each node who_master.
Command == IF call = "connect_master" THEN "who_master" ELSE call

Return(r) ==
    /\ pc' = "idle" /\ rc' = r
    /\ call' = NULL /\ cur' = NULL /\ phase' = "none"
    /\ left' = 0 /\ expect' = <<>> /\ named' = NULL /\ claimed' = {}
    /\ told' = NULL /\ quiet' = TRUE

\* Mutant: the failing macro returns and leaves the descriptor open.
MutDisconnect(n) == UNCHANGED links

\* _arakoon_cluster_node_disconnect: what was in flight is lost.
Disconnect(n) ==
    /\ conn' = [conn EXCEPT ![n] = "closed"]
    /\ greeted' = [greeted EXCEPT ![n] = FALSE]
    /\ wire' = [wire EXCEPT ![n] = <<>>]
    /\ unread' = [unread EXCEPT ![n] = <<>>]

\* connect_master turns to node n.
Visit(n, p) ==
    /\ pc' = "connect" /\ call' = "connect_master" /\ cur' = n /\ phase' = p
    /\ left' = 0 /\ expect' = <<>> /\ named' = NULL /\ rc' = "OK"
    /\ told' = NULL /\ quiet' = TRUE
    /\ UNCHANGED claimed

\* Mutant: the loop starts over instead of following the list.
MutNextNode == Visit(nodes, "probe")

\* The while loop of connect_master: on to the next node of the list.
NextNode ==
    IF next[cur] # NULL THEN Visit(next[cur], "probe") ELSE Return("NETWORK_ERROR")

\* A step of the call failed with r.  While it probes the list connect_master
\* tries the next node, otherwise the call returns.
Fail(r) == IF phase = "probe" THEN NextNode ELSE Return(r)

\* The code of the server's answer stays the result when reading the message
\* that goes with it fails (HANDLE_ERROR).
ReadFailure(r) == IF rc = "SERVER" THEN rc ELSE r

\* Mutant: a master is taken for usable whatever its descriptor.
MutUsableMaster == master # NULL

\* _arakoon_cluster_get_master
UsableMaster == master # NULL /\ conn[master] # "closed"

-----------------------------------------------------------------------------
(***************************************************************************)
(* Calls of the application.                                               *)
(***************************************************************************)
\* Mutant: only the head of the list is looked at.
MutHasCluster(n) == n = nodes

\* _arakoon_cluster_node_set_cluster refuses a node that has a cluster.
HasCluster(n) == n \in attached

AddNode(n) ==
    /\ pc = "idle"
    /\ IF HasCluster(n)
       THEN rc' = "EINVAL" /\ UNCHANGED list
       ELSE /\ attached' = attached \union {n}
            /\ next' = [next EXCEPT ![n] = nodes]
            /\ nodes' = n
            /\ rc' = "OK"
    /\ UNCHANGED <<links, servers, master, lastError,
                   pc, call, cur, phase, left, expect, named, claimed, told, quiet>>

StartConnectMaster ==
    /\ pc = "idle"
    /\ IF nodes = NULL THEN Return("NETWORK_ERROR") ELSE Visit(nodes, "probe")
    /\ UNCHANGED <<list, links, servers, master, lastError>>

\* _arakoon_cluster_reset_last_error
ResetLastError == lastError' = "none"

\* The common start of the calls of arakoon.c: free the last error, look up the
\* master, and go on to build the command.
StartCall(c) ==
    /\ pc = "idle"
    /\ ResetLastError
    /\ IF UsableMaster
       THEN /\ pc' = "build" /\ call' = c /\ cur' = master /\ rc' = "OK"
            /\ quiet' = (wire[master] = <<>> /\ unread[master] = <<>>)
            /\ UNCHANGED <<phase, left, expect, named, claimed, told>>
       ELSE Return("NOT_CONNECTED")
    /\ UNCHANGED <<list, links, servers, master>>

-----------------------------------------------------------------------------
(***************************************************************************)
(* _arakoon_cluster_node_connect                                           *)
(***************************************************************************)
AlreadyConnected ==
    /\ pc = "connect" /\ conn[cur] # "closed"
    /\ pc' = "build"
    /\ UNCHANGED <<list, links, servers, master, lastError,
                   call, cur, phase, left, expect, named, claimed, told, quiet, rc>>

Connect ==
    /\ pc = "connect" /\ conn[cur] = "closed" /\ up[cur]
    /\ conn' = [conn EXCEPT ![cur] = "live"]
    /\ pc' = "prologue"
    /\ UNCHANGED <<list, greeted, wire, unread, servers, master, lastError,
                   call, cur, phase, left, expect, named, claimed, told, quiet, rc>>

ConnectFails ==
    /\ pc = "connect" /\ conn[cur] = "closed" /\ (~up[cur] \/ Timed)
    /\ Fail("IO")
    /\ UNCHANGED <<list, links, servers, master, lastError>>

\* RETURN_ENOMEM_IF_NULL(prologue): the connection stays open, ungreeted.
PrologueNoMemory ==
    /\ pc = "prologue" /\ AllocFails
    /\ Fail("ENOMEM")
    /\ UNCHANGED <<list, links, servers, master, lastError>>

WritePrologue ==
    /\ pc = "prologue"
    /\ greeted' = [greeted EXCEPT ![cur] = TRUE]
    /\ pc' = "build"
    /\ UNCHANGED <<list, conn, wire, unread, servers, master, lastError,
                   call, cur, phase, left, expect, named, claimed, told, quiet, rc>>

\* A wait on the current connection can fail.
CanBreak == conn[cur] = "gone" \/ Timed

PrologueFails ==
    /\ pc = "prologue" /\ CanBreak
    /\ Disconnect(cur)
    /\ Fail("IO")
    /\ UNCHANGED <<list, servers, master, lastError>>

-----------------------------------------------------------------------------
(***************************************************************************)
(* Build and write the command.                                            *)
(***************************************************************************)
Build ==
    /\ pc = "build"
    /\ pc' = "write"
    /\ left' \in Shape[Command].writes
    /\ expect' = <<Code(Command)>>
    /\ UNCHANGED <<list, links, servers, master, lastError,
                   call, cur, phase, named, claimed, told, quiet, rc>>

BuildNoMemory ==
    /\ pc = "build" /\ AllocFails
    /\ Fail("ENOMEM")
    /\ UNCHANGED <<list, links, servers, master, lastError>>

Room == Len(wire[cur]) < MaxWire

\* Bytes written after the peer left go nowhere.
Sent(c) == IF conn[cur] = "live" THEN [wire EXCEPT ![cur] = Append(@, c)] ELSE wire

Write ==
    /\ pc = "write" /\ Room
    /\ left' = left - 1
    /\ IF left = 1
       THEN wire' = Sent(Command) /\ pc' = "read"
       ELSE UNCHANGED <<wire, pc>>
    /\ UNCHANGED <<list, conn, greeted, unread, servers, master, lastError,
                   call, cur, phase, expect, named, claimed, told, quiet, rc>>

\* arakoon_multi_get has no memory for the iterator over its keys: the loop ends at
\* once, and the call waits for the answer to a header without keys.  (After the
\* header of a list of MaxKeys keys; that of a shorter list leaves the same.)
KeysNoMemory ==
    /\ pc = "write" /\ AllocFails /\ Command = "multi_get" /\ left = 2 * MaxKeys
    /\ wire' = Sent(Torn)
    /\ pc' = "read" /\ left' = 0
    /\ UNCHANGED <<list, conn, greeted, unread, servers, master, lastError,
                   call, cur, phase, expect, named, claimed, told, quiet, rc>>

\* WRITE_BYTES disconnects.  The plain write of hello and version returns with
\* none or a part of the command written.
WriteFails ==
    /\ pc = "write" /\ CanBreak
    /\ IF Shape[Command].closes
       THEN Disconnect(cur)
       ELSE /\ wire' \in {wire, IF Room THEN Sent(Torn) ELSE wire}
            /\ UNCHANGED <<conn, greeted, unread>>
    /\ Fail("IO")
    /\ UNCHANGED <<list, servers, master, lastError>>

-----------------------------------------------------------------------------
(***************************************************************************)
(* Read the answer.  The client takes the next field of the connection for *)
(* the field it expects; it is that field as long as both agree.           *)
(***************************************************************************)
Arrives == Head(unread[cur])
Expected == Head(expect)

\* The values the server's answer can have.
Sendable(v) ==
    /\ Arrives = Code("who_master") /\ v # 0 => WhoMasterErrors
    /\ Arrives.kind = "message" /\ v = 0 => EmptyMessages
    /\ Arrives = Field("option", "who_master") => (v = 0) = (named = NULL)
    /\ Arrives = Field("string", "who_master") => v # 0

\* A successful READ_BYTES of a field of one of the kinds, which holds v.
Take(kinds, v) ==
    /\ pc = "read" /\ expect # <<>> /\ Expected.kind \in kinds
    /\ conn[cur] # "closed" /\ unread[cur] # <<>>
    /\ v \in Values(Expected) /\ Sendable(v)
    /\ unread' = [unread EXCEPT ![cur] = Follows(Head(@), v) \o Tail(@)]
    /\ UNCHANGED <<list, conn, greeted, wire, servers, master>>

\* ... after which the call reads on.
ReadOn(v) ==
    /\ expect' = Reads(Expected, v) \o Tail(expect)
    /\ told' = IF Expected.kind = "message" THEN Arrives ELSE told
    /\ UNCHANGED <<pc, call, cur, phase, left, named, claimed, quiet>>

ReadRc ==
    \E v \in {0, 1} :
        /\ Take({"rc"}, v) /\ ReadOn(v)
        /\ rc' = IF v = 0 THEN "OK" ELSE "SERVER"
        /\ UNCHANGED lastError

ReadFixed ==
    Take({"bool", "uint32", "int32"}, 0) /\ ReadOn(0) /\ UNCHANGED <<rc, lastError>>

ReadOption ==
    \E v \in {0, 1} : Take({"option"}, v) /\ ReadOn(v) /\ UNCHANGED <<rc, lastError>>

\* The length of a string; the empty one has no bytes to read.
ReadLength ==
    \E v \in {0, 1} : Take({"string"}, v) /\ ReadOn(v) /\ UNCHANGED <<rc, lastError>>

\* HANDLE_ERROR: the length of the error message.  The empty message is stored
\* as the marker pointer.
ReadMessage ==
    \E v \in {0, 1} :
        /\ Take({"message"}, v) /\ ReadOn(v)
        /\ lastError' = IF v = 0 THEN "zero" ELSE lastError
        /\ UNCHANGED rc

\* Mutant: the bytes of the error message are read and dropped.
MutReadBytes == Take({"bytes"}, 0) /\ ReadOn(0) /\ UNCHANGED <<lastError, rc>>

\* The bytes of a string, or (after an error code) of the error message.
ReadBytes ==
    /\ Take({"bytes"}, 0) /\ ReadOn(0)
    /\ lastError' = IF rc = "SERVER" THEN "heap" ELSE lastError
    /\ UNCHANGED rc

ReadCount ==
    \E v \in 0 .. MaxItems :
        Take({"list", "pairs"}, v) /\ ReadOn(v) /\ UNCHANGED <<rc, lastError>>

\* READ_BYTES failed: the node is disconnected.
ReadFails ==
    /\ pc = "read" /\ expect # <<>> /\ CanBreak
    /\ Disconnect(cur)
    /\ Fail(ReadFailure("IO"))
    /\ UNCHANGED <<list, servers, master, lastError>>

\* No buffer for a string whose length was read: the bytes stay unread.
StringNoMemory ==
    /\ AllocFails
    /\ Take({"string", "message"}, 1)
    /\ Fail(ReadFailure("ENOMEM"))
    /\ UNCHANGED lastError

\* No result list: the whole list stays unread.
ListNoMemory ==
    /\ AllocFails
    /\ pc = "read" /\ expect # <<>> /\ Expected.kind \in {"list", "pairs"}
    /\ Fail("ENOMEM")
    /\ UNCHANGED <<list, links, servers, master, lastError>>

\* No list item for an entry that was read: the other entries stay unread.  An
\* entry of a list of pairs is complete after its second string.
PrependNoMemory ==
    /\ AllocFails
    /\ \/ Take({"bytes"}, 0)
       \/ Take({"string"}, 0)
    /\ LET kind == Shape[Command].reply[1]
       IN  rc = "OK" /\ (kind = "list" \/ (kind = "pairs" /\ Len(expect) % 2 = 1))
    /\ Fail("ENOMEM")
    /\ UNCHANGED lastError

-----------------------------------------------------------------------------
(***************************************************************************)
(* The answer is read.                                                     *)
(***************************************************************************)
Answered == pc = "read" /\ expect = <<>>

ReturnAnswer ==
    /\ Answered /\ call # "connect_master"
    /\ Return(rc)
    /\ UNCHANGED <<list, links, servers, master, lastError>>

\* arakoon_utils_make_string fails
OwnedNoMemory ==
    /\ Answered /\ AllocFails /\ rc = "OK" /\ Shape[Command].owned
    /\ Fail("ENOMEM")
    /\ UNCHANGED <<list, links, servers, master, lastError>>

WhoMasterRefused ==
    /\ Answered /\ call = "connect_master" /\ rc = "SERVER"
    /\ Fail("SERVER")
    /\ UNCHANGED <<list, links, servers, master, lastError>>

\* connect_master learns from the node it talks to who is master.
Learns(name) ==
    /\ Answered /\ call = "connect_master" /\ rc = "OK" /\ named = name
    /\ UNCHANGED <<list, links, servers, lastError>>

\* Mutant: the second answer is not compared with the name of the node.
MutIsMaster ==
    /\ \E name \in Names \union {NULL} :
           Learns(name) /\ (phase = "probe" => name = cur)
    /\ master' = cur
    /\ Return("OK")

IsMaster ==
    /\ Learns(cur)
    /\ master' = cur
    /\ Return("OK")

ProbeUnknown ==
    /\ phase = "probe" /\ Learns(NULL)
    /\ NextNode /\ UNCHANGED master

ProbeOther ==
    /\ phase = "probe"
    /\ \E m \in Names \ {cur} :
           /\ Learns(m)
           /\ IF m \in attached THEN Visit(m, "verify") ELSE Return("UNKNOWN_NODE")
    /\ UNCHANGED master

VerifyOther ==
    /\ phase = "verify"
    /\ \E m \in (Names \union {NULL}) \ {cur} : Learns(m)
    /\ Return("MASTER_NOT_FOUND")
    /\ UNCHANGED master

-----------------------------------------------------------------------------
(***************************************************************************)
(* The servers (external).  A server answers commands in order, and only   *)
(* on a connection that began with the prologue.                           *)
(***************************************************************************)
Answer(n) ==
    /\ conn[n] = "live" /\ greeted[n] /\ wire[n] # <<>> /\ Head(wire[n]) # Torn
    /\ Len(unread[n]) < MaxUnread
    /\ unread' = [unread EXCEPT ![n] = Append(@, Code(Head(wire[n])))]
    /\ wire' = [wire EXCEPT ![n] = Tail(@)]
    /\ IF Head(wire[n]) = "who_master" /\ n = cur
       THEN /\ named' = belief[n]
            /\ claimed' = IF belief[n] = n THEN claimed \union {n} ELSE claimed
       ELSE UNCHANGED <<named, claimed>>
    /\ UNCHANGED <<list, conn, greeted, servers, master, lastError,
                   pc, call, cur, phase, left, expect, told, quiet, rc>>

\* The bytes after a torn command are taken for its missing part.
AnswerTorn(n) ==
    /\ conn[n] = "live" /\ greeted[n] /\ Len(wire[n]) > 1 /\ Head(wire[n]) = Torn
    /\ Len(unread[n]) < MaxUnread
    /\ unread' = [unread EXCEPT ![n] = Append(@, Code(Torn))]
    /\ wire' = [wire EXCEPT ![n] = Tail(Tail(@))]
    /\ UNCHANGED <<list, conn, greeted, servers, master, lastError, control>>

ChangeBelief(n) ==
    /\ \E m \in (Names \union {NULL}) \ {belief[n]} :
           belief' = [belief EXCEPT ![n] = m]
    /\ UNCHANGED <<list, links, up, master, lastError, control>>

\* The server stops or drops its connections.  Fields it sent may still be read.
Crash(n) ==
    /\ up[n]
    /\ up' = [up EXCEPT ![n] = FALSE]
    /\ conn' = [conn EXCEPT ![n] = IF @ = "live" THEN "gone" ELSE @]
    /\ wire' = [wire EXCEPT ![n] = <<>>]
    /\ UNCHANGED <<list, greeted, unread, belief, master, lastError, control>>

Restart(n) ==
    /\ ~up[n]
    /\ up' = [up EXCEPT ![n] = TRUE]
    /\ UNCHANGED <<list, links, belief, master, lastError, control>>

-----------------------------------------------------------------------------
\* What a call in progress does next.
ClientStep ==
    \/ AlreadyConnected \/ Connect \/ ConnectFails
    \/ PrologueNoMemory \/ WritePrologue \/ PrologueFails
    \/ Build \/ BuildNoMemory \/ Write \/ KeysNoMemory \/ WriteFails
    \/ ReadRc \/ ReadFixed \/ ReadOption \/ ReadLength \/ ReadMessage
    \/ ReadBytes \/ ReadCount \/ ReadFails
    \/ StringNoMemory \/ ListNoMemory \/ PrependNoMemory
    \/ ReturnAnswer \/ OwnedNoMemory \/ WhoMasterRefused
    \/ IsMaster \/ ProbeUnknown \/ ProbeOther \/ VerifyOther

AppStep ==
    \/ \E n \in Nodes : AddNode(n)
    \/ StartConnectMaster
    \/ \E c \in Calls : StartCall(c)

ServerStep ==
    \E n \in Nodes :
        Answer(n) \/ AnswerTorn(n) \/ ChangeBelief(n) \/ Crash(n) \/ Restart(n)

Next == ClientStep \/ AppStep \/ ServerStep

Spec == Init /\ [][Next]_vars

\* The program runs on while a call is in progress, servers that are up answer,
\* and servers that stopped come back.
Fairness ==
    /\ WF_vars(ClientStep)
    /\ \A n \in Nodes : WF_vars(Answer(n)) /\ WF_vars(Restart(n))

FairSpec == Spec /\ Fairness

\* ... and the application keeps calling connect_master.
RetryingSpec == FairSpec /\ SF_vars(StartConnectMaster)

-----------------------------------------------------------------------------
(***************************************************************************)
(* Properties.                                                             *)
(***************************************************************************)
Open(n) == conn[n] # "closed"

OrdinaryCall == call \in Calls

TypeOK ==
    /\ nodes \in Nodes \union {NULL}
    /\ next \in [Nodes -> Nodes \union {NULL}]
    /\ attached \subseteq Nodes
    /\ conn \in [Nodes -> {"closed", "live", "gone"}]
    /\ greeted \in [Nodes -> BOOLEAN]
    /\ wire \in [Nodes -> Seq(Commands)]
    /\ unread \in [Nodes -> Seq(Fields)]
    /\ up \in [Nodes -> BOOLEAN]
    /\ belief \in [Nodes -> Names \union {NULL}]
    /\ master \in Nodes \union {NULL}
    /\ lastError \in {"none", "heap", "zero"}
    /\ pc \in {"idle", "connect", "prologue", "build", "write", "read"}
    /\ call \in Calls \union {"connect_master", NULL}
    /\ cur \in Nodes \union {NULL}
    /\ phase \in {"none", "probe", "verify"}
    /\ left \in Nat
    /\ expect \in Seq([kind : Kinds, of : CallNames])
    /\ named \in Names \union {NULL}
    /\ claimed \subseteq Nodes
    /\ told \in Fields \union {NULL}
    /\ quiet \in BOOLEAN
    /\ rc \in Results

\* The list of nodes visits every attached node exactly once and ends, so the
\* loops of connect_master and cluster_free terminate (arakoon_cluster_add_node).
NodeListSound ==
    LET walk[k \in Nat] ==
            IF k = 0 THEN nodes
            ELSE IF walk[k - 1] = NULL THEN NULL ELSE next[walk[k - 1]]
        size == Cardinality(attached)
    IN  {walk[k] : k \in 0 .. size} = attached \union {NULL}

\* What the client reads next is what the server sent next, in answer to the
\* command of this very call: no call consumes a part of the answer to another
\* one (READ_* of arakoon-protocol.h against HANDLE_ERROR and the early returns).
AnswersMatch ==
    pc = "read" /\ expect # <<>> /\ Open(cur) /\ unread[cur] # <<>> =>
        Arrives = Expected

\* While the application runs, every open connection can take a command: its
\* prologue was written, no command is in flight and nothing is left to read.
IdleLinksClean ==
    pc = "idle" =>
        \A n \in Nodes : Open(n) => greeted[n] /\ wire[n] = <<>> /\ unread[n] = <<>>

\* A successful connect_master ends with a master that said itself, during this
\* connect_master, that it is master, and to which there is a connection.
MasterClaimedIt ==
    [][call = "connect_master" /\ pc' = "idle" /\ rc' = "OK" =>
           master' \in claimed /\ UsableMaster']_vars

\* A call which the network failed leaves no usable master: the next call says
\* CLIENT_NOT_CONNECTED and does not talk on a connection of unknown state
\* (WRITE_BYTES and READ_BYTES; the plain write of hello and version excepted).
FailureDisconnects ==
    [][OrdinaryCall /\ pc' = "idle" /\ rc' = "IO" =>
           ~UsableMaster' \/ (pc = "write" /\ ~Shape[call].closes)]_vars

\* A message that last_error holds when a call returns came with the error code of
\* this call, was read in this call from the answer to this call's command, and on
\* a connection that carried nothing else when the call began: it is never that of
\* an earlier call, nor made of what an earlier call left unread
\* (reset_last_error, HANDLE_ERROR).
ErrorOfThisCall ==
    [][OrdinaryCall /\ pc' = "idle" /\ lastError' # "none" =>
           rc' = "SERVER" /\ quiet /\ told = Field("message", call)]_vars

\* A call that the server answered with an error, and that kept its connection,
\* has stored the message.
MessageKept ==
    [][OrdinaryCall /\ pc' = "idle" /\ rc' = "SERVER" /\ UsableMaster' =>
           lastError' # "none"]_vars

\* The marker pointer of an empty message is never handed to free: "some calls
\* can return a non-NULL pointer which should never be free'd".
MarkerNeverFreed == [][lastError = "zero" => lastError' = "zero"]_vars

\* Every call of the API returns (without a timeout: as long as servers answer
\* or restart).
CallsReturn == pc # "idle" ~> pc = "idle"

\* To the application the cluster is a session: a call is refused exactly when
\* there is no connected master, and the result of every call tells whether there
\* still is one (all of arakoon.c on top of arakoon-cluster.c).
Abstract ==
    INSTANCE Session
    WITH Loose  <- {c \in Calls : ~Shape[c].closes},
         busy   <- call,
         usable <- master # NULL /\ Open(master),
         rc     <- IF pc = "idle" THEN rc ELSE "none"

ImplementsSession == Abstract!Spec

\* Once all servers stay up and agree on an attached master, an application
\* that keeps calling connect_master ends up connected to it.
Agreed(m) == m \in attached /\ \A n \in attached : up[n] /\ belief[n] = m

Reconnects ==
    \A m \in Nodes : <>[]Agreed(m) => <>[](master = m /\ conn[m] = "live")

=============================================================================
