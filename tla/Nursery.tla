------------------------------- MODULE Nursery -------------------------------
(***************************************************************************)
(* The nursery client (arakoon-nursery.c, arakoon-nursery-routing.c).  A   *)
(* keeper cluster holds a routing: a tree of boundaries whose leaves name  *)
(* clusters, and the clusters with their nodes.  The client fetches it,    *)
(* and sends each call to the cluster that the routing has for its key.    *)
(*                                                                         *)
(* One thread uses the nursery, so that a nursery call is one step and     *)
(* update_routing one step per exchange with the keeper.  What the calls   *)
(* on a cluster can come to is what module Session promises.               *)
(*                                                                         *)
(* A node of a tree is known by the turns that lead to it from the root.   *)
(* Strings are sequences of positive numbers; a boundary ends in a zero    *)
(* byte.                                                                   *)
(***************************************************************************)
EXTENDS Integers, Sequences, FiniteSets

CONSTANTS
    Routings,       \* what the keeper may answer:
                    \*   tree      its nodes, a function from the turns to them
                    \*   clusters  the names of its clusters
                    \*   nodeless  those of them that have no nodes
                    \*   trailing  do bytes follow the clusters?
    Keys,           \* the keys of the application
    Clusters,       \* the names of clusters
    Refused,        \* its other answer, an error
    Rest,           \* what is left of an answer that was not read to its end
    Late,           \* bound: answers that may wait in the keeper's connection
    NULL

Answers == Routings \union {Refused}

\* What can wait in the keeper's connection.
Pending == Answers \union {Rest}

ASSUME NullAssumption == NULL \notin Pending /\ NULL \notin Clusters
ASSUME AnswersAssumption == Refused \notin Routings /\ Rest \notin Answers
ASSUME LateAssumption == Late \in Nat
ASSUME ClustersAssumption == \A r \in Routings : r.clusters \subseteq Clusters
ASSUME NodelessAssumption == \A r \in Routings : r.nodeless \subseteq r.clusters

\* A boundary ends in a zero byte, so that keys without one are told from it there
\* and not compared with the memory behind it.
ASSUME KeysAssumption == Keys \subseteq Seq(Nat \ {0})

Turns == {"left", "right"}

\* The parser gives every node that is no leaf a boundary and two nodes below it.
IsTree(tree) ==
    /\ DOMAIN tree \subseteq Seq(Turns) /\ IsFiniteSet(DOMAIN tree)
    /\ <<>> \in DOMAIN tree
    /\ \A n \in DOMAIN tree :
           \/ tree[n].leaf
           \/ /\ tree[n].boundary \in Seq(Nat)
              /\ \A t \in Turns : Append(n, t) \in DOMAIN tree

ASSUME TreesAssumption == \A r \in Routings : IsTree(r.tree)

\* The array of clusters ends at an entry that is NULL, and one for which there is
\* no memory is: that shows when it is given its first node, so that nothing shows
\* of one without nodes, and it goes with what came after it.
Shortened(r) ==
    {[tree |-> r.tree, clusters |-> s, nodeless |-> r.nodeless \cap s, trailing |-> FALSE] :
        s \in UNION {SUBSET (r.clusters \ {c}) : c \in r.nodeless}}

\* The routings that can come of what the keeper answers.
Installable == Routings \union UNION {Shortened(r) : r \in Routings}

VARIABLES
    phase,      \* "ready"; the steps of update_routing: "code", "string",
                \* "parse"; "freed" and "crashed"
    routing,    \* of the nursery, NULL for none
    links,      \* per cluster: the routing whose cluster object has a usable
                \* master, NULL for none
    keeper,     \* has the keeper's cluster object a usable master?
    stream,     \* what is to be read from it
    fetched,    \* the routing whose bytes update_routing is parsing
    rc,         \* the last result
    served,     \* the last nursery call that reached a cluster: its key and the
                \* cluster; NULL for none
    answer,     \* history: what the keeper answered last
    inStep      \* history: nothing was left unread since the keeper was connected
                \* and none of it when it was

vars == <<phase, routing, links, keeper, stream, fetched, rc, served, answer, inStep>>
table == <<routing, links>>
wire  == <<keeper, stream, inStep>>

\* The promise of a cluster object.
Cluster == INSTANCE Session WITH
    Calls <- {"get", "set", "delete"}, Loose <- {},
    busy <- NULL, usable <- keeper, rc <- rc

Results ==
    Cluster!ConnectErrors
    \union {"OK", "none", "EINVAL", "NOT_CONNECTED", "INVALID_ROUTING", "INVALID_CONFIG"}

NoLinks == [c \in Clusters |-> NULL]

-----------------------------------------------------------------------------
(* The routing tree *)

\* Byte i of a boundary, as far as it may be looked at.
Byte(b, i) == IF i <= Len(b) THEN b[i] ELSE 0

\* Mutant: equal bytes go to the left.
MutLess(key, boundary) ==
    \/ \A i \in 1 .. Len(key) : key[i] = Byte(boundary, i)
    \/ \E i \in 1 .. Len(key) :
           /\ key[i] < Byte(boundary, i)
           /\ \A j \in 1 .. i - 1 : key[j] = Byte(boundary, j)

\* memcmp over as many bytes as the key has is negative.
Less(key, boundary) ==
    \E i \in 1 .. Len(key) :
        /\ key[i] < Byte(boundary, i)
        /\ \A j \in 1 .. i - 1 : key[j] = Byte(boundary, j)

Turn(tree, n, key) == IF Less(key, tree[n].boundary) THEN "left" ELSE "right"

\* The cluster named by the leaf that a key comes to, one turn after the other.
NodeLookup(tree, key) ==
    LET last == Cardinality(DOMAIN tree)
        at[k \in 0 .. last] ==
            IF k = 0 THEN <<>>
            ELSE LET n == at[k - 1]
                 IN  IF tree[n].leaf THEN n ELSE Append(n, Turn(tree, n, key))
    IN  tree[at[last]].cluster

\* The name of the cluster that a call with the key is for, NULL if the routing
\* has no cluster of that name.
Lookup(r, key) ==
    LET name == NodeLookup(r.tree, key)
    IN  IF name \in r.clusters THEN name ELSE NULL

-----------------------------------------------------------------------------
Init ==
    /\ phase = "ready" /\ routing = NULL /\ links = NoLinks
    /\ keeper = FALSE /\ stream = <<>> /\ fetched = NULL
    /\ rc = "OK" /\ served = NULL /\ answer = NULL /\ inStep = TRUE

\* The application connects the keeper's master when there is none.  A node that
\* refused to say who is master has the message of that still in its connection,
\* and may be found the master all the same.
KeeperConnect ==
    /\ phase = "ready" /\ ~keeper
    /\ \E o \in Cluster!ConnectOutcomes : rc' = o.rc /\ keeper' = o.usable
    /\ \/ stream' = <<>> /\ inStep' = TRUE
       \/ keeper' /\ stream' = <<Rest>> /\ inStep' = FALSE
    /\ UNCHANGED <<phase, table, fetched, served, answer>>

\* update_routing comes to an end with the result r.
Return(r) ==
    /\ phase' = "ready" /\ rc' = r
    /\ fetched' = NULL /\ answer' = NULL

\* READ_BYTES and WRITE_BYTES disconnect the keeper's master when they fail.
\* Mutant: the connection is kept.
MutGiveUp == UNCHANGED <<keeper, stream, inStep>>

GiveUp ==
    /\ keeper' = FALSE /\ stream' = <<>>
    /\ UNCHANGED inStep

\* Mutant: the clusters of the old routing are not freed.
MutDropRouting == routing' = NULL /\ UNCHANGED links

\* _arakoon_nursery_routing_free, which closes the connections of its clusters.
DropRouting == routing' = NULL /\ links' = NoLinks

\* The old routing goes before there is a new one.  No memory for the command, a
\* failing write, or the keeper has its answer on the way.
UpdateRouting ==
    /\ phase = "ready"
    /\ DropRouting
    /\ served' = NULL
    /\ \/ /\ ~keeper
          /\ Return("NOT_CONNECTED")
          /\ UNCHANGED wire
       \/ /\ keeper
          /\ Return("ENOMEM")
          /\ UNCHANGED wire
       \/ /\ keeper
          /\ Return("IO") /\ GiveUp
       \/ /\ keeper /\ Len(stream) < Late
          /\ phase' = "code" /\ rc' = "none"
          /\ \E a \in Answers : answer' = a /\ stream' = Append(stream, a)
          /\ UNCHANGED <<keeper, fetched, inStep>>

ReadFails ==
    /\ phase \in {"code", "string"}
    /\ Return("IO") /\ GiveUp
    /\ UNCHANGED <<table, served>>

\* Mutant: the code is not looked at.
MutReadCode ==
    /\ phase = "code" /\ Head(stream) # Rest
    /\ phase' = "string"
    /\ UNCHANGED <<wire, rc, fetched, answer, table, served>>

\* The code of an answer.  An error code ends the call with the message unread.
ReadCode ==
    /\ phase = "code" /\ Head(stream) # Rest
    /\ IF Head(stream) = Refused
       THEN /\ Return("SERVER")
            /\ stream' = <<Rest>> \o Tail(stream) /\ inStep' = FALSE
       ELSE /\ phase' = "string"
            /\ UNCHANGED <<stream, inStep, rc, fetched, answer>>
    /\ UNCHANGED <<table, keeper, served>>

\* What was left unread is taken for a code.  It makes an error, and may be used
\* up by that; or a success with a string to follow, which is waited for in vain
\* or is empty, and an empty routing cannot be parsed.
ReadRest ==
    /\ phase = "code" /\ Head(stream) = Rest
    /\ \/ /\ Return("SERVER")
          /\ stream' \in {stream, Tail(stream)}
          /\ UNCHANGED <<keeper, inStep>>
       \/ /\ Return("IO") /\ GiveUp
       \/ /\ phase' = "crashed"
          /\ UNCHANGED <<wire, rc, fetched, answer>>
    /\ UNCHANGED <<table, served>>

\* The routing's bytes.  Without memory for them they stay unread.
ReadString ==
    /\ phase = "string"
    /\ \/ /\ phase' = "parse" /\ fetched' = Head(stream)
          /\ stream' = Tail(stream)
          /\ UNCHANGED <<inStep, rc, answer>>
       \/ /\ Return("ENOMEM")
          /\ stream' = <<Rest>> \o Tail(stream) /\ inStep' = FALSE
    /\ UNCHANGED <<table, keeper, served>>

\* The bytes must end where the clusters do.
Parse ==
    /\ phase = "parse"
    /\ IF fetched.trailing
       THEN Return("INVALID_ROUTING") /\ UNCHANGED routing
       ELSE Return("OK") /\ routing' \in {fetched} \union Shortened(fetched)
    /\ UNCHANGED <<links, wire, served>>

\* A cluster with nodes cannot be made, which shows at the first of them, a node
\* cannot be made, or its address not be resolved.  The clusters are freed up to
\* an entry of the array that is NULL, which the entries not filled yet need not
\* be, and the first entry is set after the array was freed: the program crashes,
\* or the call returns the error, or INVALID_ROUTING when a node was not made,
\* which sets no error.
ParseFails ==
    /\ phase = "parse" /\ fetched.clusters # fetched.nodeless
    /\ \/ \E r \in {"EINVAL", "NETWORK_ERROR", "INVALID_ROUTING"} : Return(r)
       \/ phase' = "crashed" /\ UNCHANGED <<rc, fetched, answer>>
    /\ UNCHANGED <<table, wire, served>>

\* Any other allocation of the parser is used without a look at it.
ParseNoMemory ==
    /\ phase = "parse"
    /\ phase' = "crashed"
    /\ UNCHANGED <<table, wire, fetched, rc, served, answer>>

-----------------------------------------------------------------------------
(* Calls on the cluster of a key *)

\* What a call on cluster c comes to.
On(c, key, outcomes) ==
    /\ \E o \in outcomes :
           /\ rc' = o.rc
           /\ links' = [links EXCEPT ![c] = IF o.usable THEN routing ELSE NULL]
    /\ served' = [key |-> key, by |-> c]
    /\ UNCHANGED phase

\* Without a routing its root is looked for at NULL.
Routed(key, outcomes(_)) ==
    /\ phase = "ready"
    /\ IF routing = NULL
       THEN /\ phase' = "crashed"
            /\ UNCHANGED <<rc, links, served>>
       ELSE IF Lookup(routing, key) = NULL
            THEN /\ rc' = "INVALID_CONFIG" /\ served' = NULL
                 /\ UNCHANGED <<phase, links>>
            ELSE LET c == Lookup(routing, key) IN On(c, key, outcomes(c))
    /\ UNCHANGED <<routing, wire, fetched, answer>>

\* get, set and delete.
Forward(call, key) ==
    Routed(key, LAMBDA c : IF links[c] = NULL
                           THEN {Cluster!Outcome("NOT_CONNECTED", FALSE)}
                           ELSE Cluster!Outcomes(call))

ReconnectMaster(key) ==
    Routed(key, LAMBDA c : IF c \in routing.nodeless
                           THEN {Cluster!Outcome("NETWORK_ERROR", FALSE)}
                           ELSE Cluster!ConnectOutcomes)

NurseryFree ==
    /\ phase = "ready"
    /\ phase' = "freed"
    /\ DropRouting
    /\ served' = NULL
    /\ UNCHANGED <<wire, fetched, rc, answer>>

\* A nursery over the same keeper.
NurseryNew ==
    /\ phase = "freed"
    /\ phase' = "ready"
    /\ UNCHANGED <<table, wire, fetched, rc, served, answer>>

Update ==
    \/ UpdateRouting \/ ReadFails \/ ReadCode \/ ReadRest \/ ReadString
    \/ Parse \/ ParseFails \/ ParseNoMemory

Next ==
    \/ KeeperConnect \/ Update \/ NurseryFree \/ NurseryNew
    \/ \E key \in Keys :
           \/ \E call \in {"get", "set", "delete"} : Forward(call, key)
           \/ ReconnectMaster(key)

Spec == Init /\ [][Next]_vars

-----------------------------------------------------------------------------
(* Properties *)

\* Type invariant.
TypeOK ==
    /\ phase \in {"ready", "code", "string", "parse", "freed", "crashed"}
    /\ routing \in Installable \union {NULL}
    /\ links \in [Clusters -> Installable \union {NULL}]
    /\ keeper \in BOOLEAN
    /\ stream \in Seq(Pending)
    /\ fetched \in Routings \union {NULL}
    /\ rc \in Results
    /\ served \in [key : Keys, by : Clusters] \union {NULL}
    /\ answer \in Answers \union {NULL}
    /\ inStep \in BOOLEAN

\* A call goes out only over a connection of the routing in use: none outlives
\* the routing it was made for, neither over an update, which may name other
\* nodes for the same cluster, nor over arakoon_nursery_free (which closes "any
\* open connections", arakoon-nursery.h:48).
LinksOfRouting == \A c \in Clusters : links[c] # NULL => links[c] = routing

\* The order of strings, a string being smaller than those it starts.
StartsIn(key, b) == Len(key) < Len(b) /\ \A i \in 1 .. Len(key) : key[i] = b[i]

Precedes(key, b) ==
    \/ StartsIn(key, b)
    \/ \E i \in 1 .. Len(key) :
           /\ i <= Len(b) /\ key[i] < b[i]
           /\ \A j \in 1 .. i - 1 : key[j] = b[j]

\* Is a key in the range of node n?  The keys that start a boundary are another
\* matter: lookup compares no more bytes than the key has, and takes them for
\* equal to it.
InRange(tree, n, key) ==
    \A k \in 1 .. Len(n) :
        LET b == tree[SubSeq(n, 1, k - 1)].boundary
        IN  ~StartsIn(key, b) => (n[k] = "left" <=> Precedes(key, b))

\* A call reaches the cluster whose range holds its key, whatever the tree and
\* whichever update it is from.
ServedByOwner ==
    served # NULL =>
        /\ routing # NULL /\ served.by \in routing.clusters
        /\ \E n \in DOMAIN routing.tree :
               /\ routing.tree[n].leaf /\ routing.tree[n].cluster = served.by
               /\ InRange(routing.tree, n, served.key)

\* An update which succeeds installs the routing that the keeper answered to it,
\* its tree as it is and, where every cluster has nodes, all its clusters, unless a
\* part of an earlier answer was left in the connection; then the answer may be one
\* that an earlier update did not come to read.
InstalledIsAnswer ==
    [][(phase = "parse" /\ routing' # NULL) =>
           /\ rc' = "OK" /\ ~routing'.trailing
           /\ inStep => /\ routing'.tree = answer.tree
                        /\ routing'.clusters \subseteq answer.clusters
                        /\ answer.nodeless = {} => routing' = answer]_vars

\* A nursery without a routing, as it is before the first update and after one
\* that failed, answers that it needs an update (arakoon.h:227).
LookupAnswers == [][phase = "ready" => phase' # "crashed"]_vars

=============================================================================
