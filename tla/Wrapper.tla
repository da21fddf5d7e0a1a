------------------------------- MODULE Wrapper -------------------------------
(***************************************************************************)
(* The objects of the C++ interface (arakoonmm.cpp) and the memory of the  *)
(* C library they own: a cluster_node owns its C node until add_node hands *)
(* it to a cluster, a buffer owns the value a call has read, and an        *)
(* exception owns a copy of the message that the C cluster keeps as its    *)
(* last error.                                                             *)
(*                                                                         *)
(* A C node, a value and a message are a chunk of memory each.  Data of    *)
(* length zero has none; its pointer is Marker.  Whatever is freed without *)
(* being a chunk in use ends the program, NULL excepted.  The lists of the *)
(* wrapper are in Lists.                                                   *)
(***************************************************************************)
CONSTANTS
    Chunks,     \* the memory: bounds what can be in use at a time
    Handles,    \* the objects of class cluster_node,
    Clusters,   \* of class cluster,
    Buffers,    \* and of class buffer: values, and messages of exceptions
    Null,
    Marker,     \* ARAKOON_ZERO_LENGTH_DATA_PTR
    Absent      \* the place of an object that does not exist

ASSUME PointersAssumption ==
    /\ Chunks \intersect {Null, Marker, Absent} = {}
    /\ Null # Marker /\ Null # Absent /\ Marker # Absent

VARIABLES
    ended,      \* freeing has ended the program
    memory,     \* the chunks in use
    node_,      \* of a handle: its C node, Null when a cluster has taken it
    clusters,   \* the cluster objects
    members,    \* the C nodes of the C cluster
    lastError,  \* and its last error
    buffer,     \* the data of a buffer that owns it
    lost        \* history: the chunks whose owner could not be made

wrapVars == <<ended, memory, node_, clusters, members, lastError, buffer, lost>>

WrapInit ==
    /\ ended = FALSE
    /\ memory = {} /\ lost = {} /\ clusters = {}
    /\ node_ = [h \in Handles |-> Absent]
    /\ members = [c \in Clusters |-> {}]
    /\ lastError = [c \in Clusters |-> Null]
    /\ buffer = [b \in Buffers |-> Absent]

Available == Chunks \ memory

\* The memory hook free for each of the pointers.
Free(pointers) ==
    /\ ended' = ~(pointers \subseteq memory \union {Null})
    /\ memory' = memory \ pointers

-----------------------------------------------------------------------------
(* Nodes *)

NewNode(h) ==
    /\ node_[h] = Absent
    /\ \E n \in Available :
           memory' = memory \union {n} /\ node_' = [node_ EXCEPT ![h] = n]
    /\ UNCHANGED <<ended, clusters, members, lastError, buffer, lost>>

\* The destructor frees the node that no cluster has taken.
DropNode(h) ==
    /\ node_[h] # Absent
    /\ Free({node_[h]})
    /\ node_' = [node_ EXCEPT ![h] = Absent]
    /\ UNCHANGED <<clusters, members, lastError, buffer, lost>>

NewCluster(c) ==
    /\ c \notin clusters
    /\ clusters' = clusters \union {c}
    /\ UNCHANGED <<ended, memory, node_, members, lastError, buffer, lost>>

\* Mutant: the handle is not told.
MutAddToCluster(c, h) ==
    /\ c \in clusters /\ node_[h] # Absent
    /\ node_[h] # Null
    /\ members' = [members EXCEPT ![c] = @ \union {node_[h]}]
    /\ UNCHANGED <<ended, memory, node_, clusters, lastError, buffer, lost>>

\* Mutant: a handle that has no node is not looked at.
MutTakeOver(c, h) ==
    /\ c \in clusters /\ node_[h] # Absent
    /\ members' = [members EXCEPT ![c] = @ \union {node_[h]}]
    /\ node_' = [node_ EXCEPT ![h] = Null]
    /\ UNCHANGED <<ended, memory, clusters, lastError, buffer, lost>>

\* The cluster takes the node over.  A handle whose node was taken before throws
\* and changes nothing; the C function only refuses a node of a cluster, which
\* no handle has.
AddToCluster(c, h) ==
    /\ c \in clusters /\ node_[h] # Absent
    /\ node_[h] # Null
    /\ members' = [members EXCEPT ![c] = @ \union {node_[h]}]
    /\ node_' = [node_ EXCEPT ![h] = Null]
    /\ UNCHANGED <<ended, memory, clusters, lastError, buffer, lost>>

\* The destructor: arakoon_cluster_free with the nodes and the last error.
DropCluster(c) ==
    /\ c \in clusters
    /\ clusters' = clusters \ {c}
    /\ Free(members[c] \union {lastError[c]})
    /\ members' = [members EXCEPT ![c] = {}]
    /\ lastError' = [lastError EXCEPT ![c] = Null]
    /\ UNCHANGED <<node_, buffer, lost>>

-----------------------------------------------------------------------------
(* Calls of a cluster.  Every one but connect_master first frees the last error *)

\* The memory in use once that is done.  (The marker ends the program.)
InUse(c) == memory \ {lastError[c]}

CallEnds(c) ==
    /\ c \in clusters
    /\ lastError[c] = Marker
    /\ Free({Marker})
    /\ UNCHANGED <<node_, clusters, members, lastError, buffer, lost>>

\* A call that returns no data, or fails without a message from the server.
CallDone(c) ==
    /\ c \in clusters /\ lastError[c] # Marker
    /\ Free({lastError[c]})
    /\ lastError' = [lastError EXCEPT ![c] = Null]
    /\ UNCHANGED <<node_, clusters, members, buffer, lost>>

\* get and test_and_set, which may also find None, give what they have read to a
\* buffer.  There may be no memory for that: nobody has the value.
Get(c, b) ==
    /\ c \in clusters /\ lastError[c] # Marker /\ buffer[b] = Absent
    /\ \E p \in (Chunks \ InUse(c)) \union {Marker, Null} :
           /\ memory' = InUse(c) \union ({p} \intersect Chunks)
           /\ \/ buffer' = [buffer EXCEPT ![b] = p] /\ UNCHANGED lost
              \/ lost' = lost \union ({p} \intersect Chunks) /\ UNCHANGED buffer
    /\ lastError' = [lastError EXCEPT ![c] = Null]
    /\ UNCHANGED <<ended, node_, clusters, members>>

\* Mutant: the buffer gets the message itself.
MutThrown(p, used, b) ==
    /\ UNCHANGED ended
    /\ memory' = used
    /\ buffer' = [buffer EXCEPT ![b] = IF p \in Chunks THEN p ELSE @]

\* What rc_to_error, or its variant that returns a pair, makes of the last error p
\* while the chunks used are in use: a buffer b with a copy, for the exception.
\* The copy may find no memory, or the buffer, and the handler frees the copy.
\* When it is the shared pointer that finds none it has deleted the buffer
\* already, and the handler frees the copy again.
Thrown(p, used, b) ==
    \/ /\ p \in Chunks
       /\ \E copy \in Chunks \ used :
              memory' = used \union {copy} /\ buffer' = [buffer EXCEPT ![b] = copy]
       /\ UNCHANGED ended
    \/ memory' = used /\ UNCHANGED <<ended, buffer>>
    \/ p \in Chunks /\ used # Chunks /\ ended' = TRUE /\ memory' = used /\ UNCHANGED buffer

\* The server refuses a call.  Its message, or the marker, is the last error.
Refused(c, b) ==
    /\ c \in clusters /\ lastError[c] # Marker /\ buffer[b] = Absent
    /\ \E p \in (Chunks \ InUse(c)) \union {Marker} :
           /\ Thrown(p, InUse(c) \union ({p} \intersect Chunks), b)
           /\ lastError' = [lastError EXCEPT ![c] = p]
    /\ UNCHANGED <<node_, clusters, members, lost>>

\* A connect_master that fails throws with the message of a call before it.
ConnectFails(c, b) ==
    /\ c \in clusters /\ buffer[b] = Absent
    /\ Thrown(lastError[c], memory, b)
    /\ UNCHANGED <<node_, clusters, members, lastError, lost>>

\* buffer::reset, by the destructor as well.
DropBuffer(b) ==
    /\ buffer[b] # Absent
    /\ Free({buffer[b]})
    /\ buffer' = [buffer EXCEPT ![b] = Absent]
    /\ UNCHANGED <<node_, clusters, members, lastError, lost>>

WrapNext ==
    /\ ~ended
    /\ \/ \E h \in Handles :
              NewNode(h) \/ DropNode(h) \/ \E c \in Clusters : AddToCluster(c, h)
       \/ \E c \in Clusters :
              NewCluster(c) \/ DropCluster(c) \/ CallEnds(c) \/ CallDone(c)
       \/ \E b \in Buffers :
              \/ DropBuffer(b)
              \/ \E c \in Clusters : Get(c, b) \/ Refused(c, b) \/ ConnectFails(c, b)

WrapSpec == WrapInit /\ [][WrapNext]_wrapVars

-----------------------------------------------------------------------------
(* Properties *)

\* Type invariant.
WrapTypeOK ==
    /\ ended \in BOOLEAN
    /\ {memory, lost} \subseteq SUBSET Chunks
    /\ node_ \in [Handles -> Chunks \union {Null, Absent}]
    /\ clusters \subseteq Clusters
    /\ members \in [Clusters -> SUBSET Chunks]
    /\ lastError \in [Clusters -> Chunks \union {Null, Marker}]
    /\ buffer \in [Buffers -> Chunks \union {Null, Marker, Absent}]

\* The places that own memory, and what each owns.
Owners ==
    ({"node"} \X Handles) \union ({"cluster", "error"} \X Clusters)
        \union ({"buffer"} \X Buffers)

Owned(o) ==
    CASE o[1] = "node" -> {node_[o[2]]} \intersect Chunks
      [] o[1] = "cluster" -> members[o[2]]
      [] o[1] = "error" -> {lastError[o[2]]} \intersect Chunks
      [] o[1] = "buffer" -> {buffer[o[2]]} \intersect Chunks

\* Every C node, value and message has one owner while it is in use and none
\* afterwards (cluster_node::disown, cluster::rc_to_error, buffer::reset): it is
\* freed once, an added node outlives its handle, and the message of a caught
\* exception outlives the next call and the cluster.  What was read without an
\* owner stays in use for good.
OneOwner ==
    ~ended =>
        /\ UNION {Owned(o) : o \in Owners} = memory \ lost
        /\ \A o1, o2 \in Owners : o1 # o2 => Owned(o1) \intersect Owned(o2) = {}

=============================================================================
