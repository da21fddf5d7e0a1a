# Crakoon, the C client of Arakoon: a TLA+ model

Crakoon is a C library with which a program talks to a cluster of Arakoon
servers (a consistent key-value store with an elected master). The library is
synchronous and keeps no thread of its own; what makes it hard is the other end:
servers crash, connections break in the middle of an answer, the master moves
between two questions, and every wait can end in a timeout. Around that core
there is memory to own: lists whose empty entries have no memory, sequences
that are measured and written in two passes, C++ objects over C ones, and a
routing that is replaced while it is in use. The modules in this directory model
the library's handling of all that, translated from the C code under `src/`.

## The system

| part | source | state | operations |
|---|---|---|---|
| networking | `arakoon-networking.c` | none but the caller's timeout variable and descriptors | connect to one of several addresses, read and write with a timeout, close |
| cluster node | `arakoon-cluster-node.c` | name, addresses, descriptor, cluster, next node | connect and prologue, disconnect, who_master, add_address |
| cluster | `arakoon-cluster.c` | list of nodes, master, last error | add_node, connect_master, get_master, get/set/reset last error, free |
| client calls | `arakoon.c` | none | hello, who_master, get, set, ... 20 calls, each one command and one answer on the master's connection |
| wire protocol | `arakoon-protocol.h` | none | the READ_ and WRITE_ macros, which disconnect on failure |
| sequences | `arakoon.c` | list of items | add_set, add_delete, add_assert, ..., sequence |
| value lists | `arakoon-value-list.c`, `arakoon-key-value-list.c` | linked list, size, iterators | append, prepend, iterate, free |
| nursery | `arakoon-nursery.c`, `arakoon-nursery-routing.c` | routing tree, clusters | update_routing, get/set/delete by key, reconnect_master |
| utilities | `arakoon-utils.c`, `arakoon-client-call-options.c`, ... | hooks, options | memory hooks, logging, error strings |
| C++ wrapper | `arakoonmm.*` | owned C objects, buffers, exceptions | owns nodes, values and messages; forwards the calls |

The application calls the API; a call looks up `cluster->master`, builds a
command, and calls `networking` through the macros of `arakoon-protocol.h`, which
close the node's connection when a read or a write fails. `connect_master` walks
the node list, connects to a node, asks it who is master and then asks the node
it named for confirmation. A nursery holds one cluster per key range and a
keeper cluster from which it fetches the routing. The wrapper's objects each own
a C object until a cluster takes it over.

What makes the parts correct:

- *client and protocol*: a call consumes exactly the answer to its own command,
  on success and on every failure path; an open connection between calls is
  ready for a command; a failed connection is never used again; the error
  message a program reads belongs to its call.
- *cluster*: the node list is a list; a successful connect_master ends at a
  node that says it is master; the client finds the master again after crashes.
- *networking*: a call with a timeout ends in time and not before it, as far as
  the timeout can end what it does.
- *connect*: no descriptor is leaked or closed twice, a ready address is used.
- *lists and sequences*: contents, order, size and iterators agree; the length
  computed for a command is the length written; memory is given back once.
- *nursery*: a key goes to the cluster responsible for it, a failed update
  leaves a usable nursery, every object is freed once.
- *wrapper*: every C object has one owner.

## Modules

| module | models |
|---|---|
| `Protocol` | for every call, how its command is written and which fields of the answer are read (`arakoon.c`, `arakoon-protocol.h`) |
| `Client` | a cluster object, its nodes and connections, the call in progress, and the servers |
| `Session` | what a cluster object promises, without nodes and wire; `Client` implements it, `Nursery` relies on it |
| `Clock` | `time_delta` |
| `Transfer` | `_arakoon_networking_poll_act` and the timeout that the transfers of a call share |
| `Connect` | `_arakoon_networking_connect` and the descriptors of the nodes of a cluster |
| `AbstractList` | what a list with iterators promises |
| `Lists` | the value list and the key/value list, their memory and the iterators of C and C++; implements `AbstractList` |
| `Sequence` | the operations of a sequence, and the two passes that measure and write its command |
| `Wrapper` | who owns and frees the C nodes, values and messages behind the C++ objects |
| `Nursery` | update_routing step by step, the routing tree, and the calls by key |
| `MCClient`, `MCTransfer`, `MCConnect`, `MCNursery` | instances for TLC |
| `MCData` | `Lists`, `Sequence` and `Wrapper` as three alternatives, for they share nothing |
| `DataLemmas` | lemmas that several proofs need: induction, recursion, chains of cells |
| `ClientProofs` | theorems about `Protocol` and `Client` |
| `SessionProofs` | theorems about both: the connections stay in step, `Client` implements `Session` |
| `TransferProofs`, `ConnectProofs` | theorems about `Clock` and `Transfer`, about `Connect` |
| `ListProofs` | theorems about `Lists`, which implements `AbstractList` |
| `ObjectProofs` | theorems about `Sequence` and `Wrapper` |
| `NurseryProofs` | theorems about `Nursery` |

### Protocol and Client

A *shape* in `Protocol` says how many writes a command takes, whether a failed
write disconnects (`WRITE_BYTES` does, the plain write of hello and version does
not), whether an error code makes the call read the message, and what follows a
success code. The bytes of an answer are *fields*: one per read of the code,
holding the one number on which the code branches.

`Client` is one action per connect, write or read of the call in progress.
`conn[n]` is the descriptor (`closed` is `fd < 0`) together with whether the peer
is still there, `wire[n]` and `unread[n]` are the two directions of the socket,
`pc`, `cur`, `phase`, `left`, `expect` and `rc` the local variables of the call
and of `connect_master` (`phase` tells its loop from the check of the master it was
told about). `named` is the name in the answer to who_master, fixed when the
server answers, so the servers can change their mind before it is read.
`claimed` is a history variable: who answered "I am master" to this
connect_master. Two more are about `last_error`: `told` is the field which the
call took for the message of an error, whatever it really was, and `quiet` whether the
master's connection was empty in both directions when the call began.

The reader takes the next field of `unread` *for* the field it expects; nothing
in the model forces the two to agree, that is the property `AnswersMatch`.

Actions and code: `AddNode` is `arakoon_cluster_add_node`, `StartCall` the common
head of the calls of `arakoon.c`, `StartConnectMaster` to `VerifyOther` with
`phase` are `arakoon_cluster_connect_master`, `AlreadyConnected` to
`PrologueFails` are `_arakoon_cluster_node_connect`, `Write` and `WriteFails` are
`WRITE_BYTES`, `Read...` the macros of `arakoon-protocol.h` and `HANDLE_ERROR`, the
`...NoMemory` actions the places where an allocation fails (`KeysNoMemory` is the
iterator of multi_get, `arakoon.c:629`, without which no key is sent and the call
waits for an answer all the same). `Answer`, `AnswerTorn`,
`ChangeBelief`, `Crash` and `Restart` are the servers, which are not in `src/` and
are modelled from what the client relies on: they answer commands in order.

### Session

To the application a cluster is usable or not, and every result says which:
`Outcomes(c)` and `ConnectOutcomes` list how a call and connect_master can end.
The refinement maps `busy` to the call in progress, `usable` to "there is a
master with a descriptor", and hides `rc` while a call runs. `Loose` are the calls
whose failing write leaves the connection open (hello, version).

### Clock and Transfer

`Transfer` follows the timeout variable of one call through `poll_act`, once per
read or write. Time is in nanoseconds with small units (a millisecond of 2 ns, a
second of 3 ms), so that a few transfers cross several second boundaries.
`Overshoot` is how late poll may return. The descriptor is a blocking one: connect
makes it so again when it is done (`arakoon-networking.c:363` and `470`). So a write
waits until the peer has taken *all* that is left (`SystemCall`), even after poll
has found room for a byte of it, and no timeout ends that; a read after poll takes
what is there (the kernel is trusted that there is something). `blocked` is the time
a call with a timeout has spent that way, `MaxStall` bounds one such wait.
`ClockFails` is `clock_gettime` failing where nothing is charged. `attempts` are the
nodes which connect_master may still ask: after a transfer that failed (`Fail`) it
goes on with the next one and with what the timeout variable says, although a failed
read or write has not charged its time.

### Connect

`file` is the descriptor table of the process: the code knows descriptors by
number only, so that closing one twice, or closing the zeros that `memset` left in
`fds`, hits whatever has that number now. A new descriptor is the lowest free
one. `held[n]` is `node->fd`; `pc`, `i`, `fds`, `won` and `rc` are the local
variables of `_arakoon_networking_connect`. `Start...` are its allocations;
`SocketFails`, `SetupFails`, `InProgress` and `AtOnce` one turn of the loop over
the addresses; `Scan...`, `NothingLeft` and `GiveUp` one turn of the poll loop,
which looks at the first `ret` entries only (`Looked`); `Cleanup` and
`CleanupNoClock` the end. `Settle` is the network, `AppOpens` another thread of
the application that opens a file in between. `harmed` is a history variable:
from then on descriptor zero may be closed for the application.

### Lists and AbstractList

A block `<<i, 0>>` of `heap` is cell `i`, `<<i, p>>` the copy of part `p` of its
entry: the value, or the key and the value of a pair. Empty data owns no block;
its pointer is the marker, and freeing that is freeing a block not in use, which
ends the program. `filling` is a call that reads an answer into the list
(`_prepend`, last entry first), `live` the list in the hands of the application
(`arakoon_value_list_append`). `AddFails` is an allocation that fails halfway
through an entry, after which the list is freed (filling) or kept (live).
Iterators are those of the C interface and of the wrapper, which advance when
they are made and show NULL for the end. `AbstractList` has the entries as a
sequence and for each iterator the number it has still to show.

### Sequence

`ops` is the list of items, last one first. `MeasureItem` and `WriteItem` are the
two loops of `_arakoon_sequence_impl`: the first adds up `len`, the second goes from
the end of the command to its start, so that `pos` must come out at the place of
the header (`WriteHeader` aborts the program otherwise). A command is a sequence
of tokens with their widths. `added` is a history variable, against which what is
sent is compared with a definition from front to back (`Wire`). Sizes are `size_t`;
what `WRITE_UINT32` stores of one is the `uint32_t` (`UInt32`, modulo `Word`), so that
`Wire`, whose numbers are whole, is what is sent as long as they fit (`Fits`).

### Wrapper

A C node, a value and a message are a chunk of memory each; a place that owns one
is `node_` of a handle, `members` and `lastError` of a C cluster, or `buffer` of a
buffer (a value, or the message of an exception). `AddToCluster` is
`cluster::add_node` with `cluster_node::disown`, `Get` the calls that give what they
read to a buffer, `Refused` and `ConnectFails` are `rc_to_error` (`Thrown`), the
`Drop...` actions the destructors. Freeing what is not in use ends the program:
`CallEnds` and `DropBuffer` on the marker, and the double free in the handler
when no shared pointer could be made. A value whose buffer could not be made has no
owner (`lost`).

### Nursery

`phase` is where `arakoon_nursery_update_routing` is: it drops the old routing,
sends, reads the code, reads the bytes and parses them; each of the steps can fail.
`stream` is what waits in the keeper's connection: `Rest` is what an answer leaves
that was not read to its end, `inStep` whether that never happened on this
connection. It may have when the keeper was connected, for a node that refused
who_master keeps the message (`KeeperConnect`, `arakoon-cluster-node.c:195`). A
cluster without nodes (`nodeless`) for which there was no memory is not noticed: the
array of clusters ends there and the update succeeds (`Shortened`,
`arakoon-nursery-routing.c:282-287`). `links[c]` is the routing for which cluster
object `c` was made and connected. `Less` is the `memcmp` of `lookup`, over as many
bytes as the key has. A node of a tree is known by the turns that lead to it from
the root, so that what a leaf is responsible for can be read from its name: at each
turn, the keys on that side of the boundary there (`InRange`). `NodeLookup` makes
one turn after the other until it is at a leaf. What a call on a cluster comes to is
taken from `Session`.

Taken for granted here: what a routing holds is well formed as far as it was
received whole (`IsTree`: `arakoon_nursery_routing_parse_node` gives every node that
is no leaf a boundary and two nodes, or does not end), error messages are not empty,
keys have no zero bytes (with them `lookup` could compare memory behind a boundary),
the keeper is used by the nursery alone and reconnected when it has no master.
Memory which the parser does not release is left out.

## Runs

| run | question | bounds |
|---|---|---|
| `client_sync` | Do the ends of every connection stay in step, whose message is in last_error, does connect_master end at a master? | 2 nodes, 1 unknown server, a call for each kind of answer (none, number, string, option, list, pairs), timeouts and crashes anywhere |
| `client_harsh` | What survives when memory runs out and commands are torn? Is a cluster what `Session` says? | 1 node, hello, multi_get and range_entries, every failure |
| `client_live` | Do calls return, is the master found again? | 2 nodes, one call, no timeouts |
| `transfer` | Is a call with a timeout in time? | timeouts none, -7, 0, 1 and 3 ms, 2 transfers of up to 2 bytes, 2 nodes, writes that block for up to 2 ms |
| `connect` | Does connect look after its descriptors, and return? | 2 nodes of up to 2 addresses, descriptors 0 to 4 of which 0 is the application's, 2 files of the application, every failure |
| `data` | Do lists, sequences and wrapper objects keep their contents and their memory? | 3 cells, 1 iterator, data empty or not; 3 operations with sizes 0 and 2, numbers up to 39; 4 chunks, 2 handles, 2 clusters, 1 buffer |
| `nursery` | Do calls go to the owner of their key, over connections of the routing in use? | 5 routings of up to 3 leaves, one with a cluster without nodes, 6 keys, 3 answers on the way |
| `client_who_master` | violated: see findings | as `client_sync`, who_master may be refused |
| `client_marker` | violated: see findings | as `client_sync`, empty messages |
| `transfer_early` | violated: see findings | as `transfer` |
| `transfer_lost` | violated: see findings | as `transfer`, 1 node, poll is not late and no write blocks |
| `nursery_lookup` | violated: see findings | as `nursery` |

Why the bounds are enough:

- *client*: a connection carries one command and one answer at a time, so that one
  place in each direction holds all there is while the ends agree (and a second
  one shows what happens when they do not); two nodes are enough for a node to
  name another one, a third name for an unknown one, and the state of a node does
  not depend on the other nodes. A list of two entries has a first, a middle and a
  last read.
- *connect*: with two addresses a ready one can be behind one that is not, and one
  can connect at once with the other pending or untried; a second node has a
  descriptor that a wrong close can hit; five descriptors are used up by two
  addresses, a held one and two files, so that the limit is met.
- *data*: a third cell is the first that is neither first nor last; with one
  iterator every position relative to an append is reached. Three operations show
  the order and the sums of both passes; some commands of three fit the numbers of
  a command and the longest do not. Two handles can try to add the same node, and
  a second cluster can be dropped while the other goes on.
- *nursery*: the routings are one leaf, two leaves, three leaves of which one
  names no cluster and one a cluster without nodes, one with bytes left over and
  one without clusters; the keys lie left of, on, right of, in front of and behind
  each boundary. The third answer is the first to be read in the place of one that
  is itself late.
- *transfer*: two transfers, and two nodes, are enough for the first to spoil the
  timeout of the second; 3 ms is a second, so that a transfer can cross one and be
  in time, and a write can block for longer than the shortest timeout. A negative
  timeout is over at once.

### Properties

`Client`: `NodeListSound` says that the list visits each node once and ends,
`MasterClaimedIt` that a successful connect_master ends at a node that claimed to
be master, `FailureDisconnects` that after a network failure the cluster has no
usable master, `ErrorOfThisCall` that a message in `last_error` came with an error
code of this very call and was read from the answer to its command, `MessageKept`
that a refused call has stored one, `AnswersMatch` and `IdleLinksClean` that both ends of a
connection agree, `ImplementsSession` that the cluster is a `Session`.

`Transfer`: `NeverLate` says that a call overruns its timeout by no more than the time
its writes were blocked, and a millisecond per transfer and the lateness of one
poll once for each node asked. It is about the reckoning of `poll_act`; the timeout itself
bounds no call, for nothing ends a write that blocks.
`NeverGrows` that no transfer gives time back.

`Connect`: `HeldAreOwn` and `NoneLeaked` say that nodes hold connected sockets of
their own and that no other socket stays open; `AppFilesKept` that files of
the application stay open, `SuccessIsConnected` that success leaves a connected
socket, `ConnectReturns` that the poll loop ends although an event may be missed.
Descriptor zero is excepted from the first and, once `harmed`, from the third: the
code does close it (`arakoon-networking.c:363` and `289`).

`Lists`: `NothingLostNorDangling` says that the memory in use is that of the cells
in reach, `SizeAndLast` that the stored count and last cell are those of the chain,
`FreeingIsSafe` that no marker is freed, `ImplementsList` that every iterator shows
what is in front of it, once and in order. A pair whose empty key is freed
because there is no memory for its value ends the program
(`arakoon-key-value-list.c:88`), and with that the first of them.

`Sequence`: `SentAsAdded` (of the commands that fit), `BuiltWithinBuffer` (the two
passes agree) and `SequenceFreed`. `Wrapper`: `OneOwner`, as long as the program goes on.

`Nursery`: `LinksOfRouting` says that no connection outlives its routing,
`ServedByOwner` that a call reaches the cluster of a leaf in whose range its key is,
every boundary on the way to it looked at (a boundary which the key starts
excepted: `lookup` takes the key for equal to it),
`InstalledIsAnswer` that an update installs what was answered to it, whole where
every cluster has nodes, unless an answer was left unread before.

### Fairness

`ClientStep` is weakly fair: the library runs on while a call is in progress.
Servers answer and come back (weak fairness of `Answer` and `Restart`); without
a timeout a read of the code waits for just that. `Reconnects` also needs an application
that calls connect_master again and again; it is strongly fair because other
calls of the application keep disabling it. Nothing is assumed about crashes,
beliefs or which call is made. `Transfer` needs none: its properties are about
time, which is bounded.

In `Connect` the steps of connect are weakly fair, for it runs on by itself, and so
is `Settle` of each descriptor, for the kernel gives up a connection in the end.
`GiveUp` is not fair: `ConnectReturns` holds without a timeout.

## Findings

- `who_master` returns on an error code without reading the message that
  follows (`arakoon-cluster-node.c:195`); the next call takes the length of the message
  for its return code (`client_who_master`). `nursery_update_routing` does the
  same (`arakoon-nursery.c:111`), which is why `InstalledIsAnswer` has its condition.
- The marker for data of length zero is freed when it is the last error
  (`arakoon-cluster.c:294`, `client_marker`).
- `time_delta` counts the first second twice when a second boundary lies
  between its arguments (`arakoon-networking.c:66`): calls time out up to a
  second early (`transfer_early`), and the time left can become -1, which means no
  timeout (`transfer_lost`). With the exact difference both runs pass; but a write
that blocks past the timeout can leave -1 without the surplus.
- A nursery without a routing follows a null pointer on the next call, before the
  first update and after one that failed (`arakoon-nursery-routing.c:364`,
  `nursery_lookup`).

`client_harsh` leaves out `AnswersMatch`, `IdleLinksClean` and `ErrorOfThisCall`:
they fail when memory runs out in the middle of an answer
(`arakoon-protocol.h:152`), when the prologue could not be allocated
(`arakoon-cluster-node.c:140`) and after a torn hello or version (`arakoon.c:331`),
the conditions which `Disciplined` in `SessionProofs` excludes.

Two more defects are conditions of a property. A write of a command larger than the
socket buffer, to a server that stops reading, waits for as long as that lasts,
whatever the timeout (`arakoon-networking.c:196`): `NeverLate` sets that time apart. And the
sizes in a command of 4 GiB or more are sent modulo 2^32 (`arakoon.c:1061`): `SentAsAdded`
is about the others.

Other defects are outcomes of the models which end the program, or exceptions
named in a property: the null and zero arrays of connect, the failure path of
`parse_clusters` (`arakoon-nursery-routing.c:322`), the freed marker of a pair's
key, the marker in a buffer (`arakoonmm.cpp:183`), the double free without memory for
a shared pointer (`arakoonmm.cpp:667`). `hazards` in `PROJECT.json` lists each at its line.

## Theorems

All for any constants that satisfy the named assumptions: any nodes, calls, keys,
timeouts and bounds. Every invariant and every action property which the passing
runs check is proved, and so are both refinements; four of them under conditions
that the theorems state (`Synchronised`, `IdleClean`, `ErrorIsOfThisCall`,
`MessageIsKept`).

`DataLemmas` makes the proofs about chains, sums and trees possible. `Inductive` is
induction over a *set* of numbers, from the theorem of the library that < is well-founded
(`NatLessThanWellFounded`, `WFMin`), so that no predicate has to be a parameter.
`Recursion` and `RecursionTo` show with it that a function with the values which a
recursive definition asks for exists, and so that the definition has these values.
A chain is a sequence of different cells that a function leads along (`IsChain`);
it stays one when a cell is put in front, at the end, or taken away.

`ClientProofs`: `Invariant` is inductive: types, and what a call in progress knows
(it has a node; connect and prologue belong to connect_master; an ordinary call
talks to `master`; past the connect the connection is open; if the named master
is the current node, that node claimed it). From it follow `TypeCorrect`,
`MasterClaimed` and `FailureDisconnected` without any condition. The type of `left` and the
node of a failing step need the facts about `pc`, and neither action property is
inductive by itself: what they say of the last step rests on where the call came
from. `ErrorHasCode` needs more: `ErrorInv` ties `rc` to `expect` (until the code is
read it is all that is awaited; then only results after a success, only the message
and its bytes after an error), so that what is stored in `last_error` came with an error
code of this call.
`MessageIsKept` adds that a refused call has stored the message or awaits a part
of it; it assumes that memory does not run out and that who_master is not called.
`NodeList` keeps the sequence of nodes: `next` leads along it from `nodes` to NULL, and
its cells are the nodes attached. `add_node` puts a node in front, which must be a new
one (`HasCluster`), or there would be a cycle. The walk of `NodeListSound` finds
this sequence by induction over its steps.

`SessionProofs`: under `Disciplined` (memory does not run out, who_master is not refused,
no call that keeps its connection after a failed write) every connection is
quiet or in the exchange that the call expects (`SyncInvariant`): the command is
in the pipe and nothing else, or what is unread equals what will be read, or the
peer is gone. `Synchronised` and `IdleClean` follow. The step that matters is
`TakeSync`: what the client goes on to read equals what the server sends, for
every field and every value (`ReadsFollows`), who_master's error excepted.
`ErrorIsOfThisCall` joins the two: connections in step are quiet when a call begins,
and what a call takes for a message is then the message of the answer to its own
command (`ToldInv`).
`Implements` shows that initial states and steps of `Client` are those of `Session` or
stutter, from the invariant of `ClientProofs`.

`TransferProofs`: the invariant `InTime` says how late a call can be at each
place. Before a transfer it has taken at most what was charged and a millisecond
per transfer made (`Charged`) or, when nothing is left, all that may be charged and
the lateness of one poll (`Spent`), and as much again for every node given up; the
time that its writes were blocked does not count (`Taken`). This
holds since `time_delta` falls short of the true difference by less than a
millisecond, whatever the units of the clock. `NotLate` follows; `TimeIsSpent` rests
on `time_delta` not being negative.

`ConnectProofs`: the invariant says which descriptors are whose: the entries of
`fds` for the addresses tried are sockets of the connecting node, all different, and
a zero beyond them is met by a cleanup only after harm; `won` is a connected
socket; what a node holds was connected for it; and every open socket is known to
one of them. `Own`, `NothingLeaks`, `AppKept`, `Connected` and `TypeCorrect` follow.

`ListProofs`: the invariant is that there is a chain of cells from `first` (from
`doomed` while a list is freed), that the blocks in use are those of its cells, that
`size` and `last` are its length and its end, and that iterators stand on it. None of
the properties is inductive without it: that a new cell is not in reach, and that
the one at `last` is the last of those in reach, is known only of the whole chain.
`ReachedChain` shows that `From`, of which the properties speak, finds the rest of the
chain from any of its places. `ListTypeCorrect`, `NothingLost`, `SizeAndLastCorrect`
and `FreeingSafe` follow. `ListImplements` goes through the actions: `append` and
`prepend` are those of a sequence (`EntriesAppended`, `EntriesPushed`), and leave every
iterator what it had in front of it, or one more; a step of an iterator takes it one
entry nearer to the end.

`ObjectProofs`, sequences: both loops go over a list in reverse, so that what they
have come to is a number of operations counted from the *first* one added
(`Reversed`). `SeqInv` says for the first loop that what was measured and what is left
add up to the whole (`Measured`), and for the second that what is left, put in front of what
is written, is the whole, and that `pos` is the width of what is left (`Building`).
`StoredWhole` says that what is stored of a command that fits is what was asked for.
`SentRight` and `WithinBuffer` follow, from the width of what is written one after the
other being the sum of the widths (`WidthConcat`), `Freed` from the same kind of sum
over the blocks of the items.

`ObjectProofs`, wrapper: all actions move chunks between owners; `Moves` says what a
move needs (an owner loses what leaves it, what arrives was free or is left by
another one, the owners not named keep theirs) to keep `Ownership`, with one lemma per
action.

`NurseryProofs`: the invariant says that the old routing is gone during an update,
that what is linked is linked for the routing in use, and that a connection in
step holds the answer to the update in progress and nothing else, and nothing
between updates. `Links`, `Installed` and `TypeCorrect` follow. `Comparison` is a lemma
about `Less`: `lookup`'s comparison is the order of strings for every key that does
not start the boundary. `Served` needs two more things: that a call is for the
cluster which the routing still in use has for its key (`ServedInv`), and that the
way of `NodeLookup` stays in the tree, ends at a leaf within as many turns as there
are nodes, and turned at each boundary as the key lies (`LookupOwner`).

The assumptions on constants are the least that the code gives: the cells of a list
are finitely many and none is NULL (`ItemsAssumption`), data may be empty
(`DataAssumption`), a sequence has at most some number of operations (`MaxOpsAssumption`),
the code of a sequence's operation fits its numbers (`WordAssumption`), no size is
the absent value (`NoValueAssumption`), the clusters without nodes are among those of
a routing (`NodelessAssumption`),
keys have no zero bytes (`KeysAssumption`), trees are what the parser builds
(`TreesAssumption`); the others say that model values differ.

Only model-checked: liveness under fairness (`CallsReturn`, `Reconnects`,
`ConnectReturns`), which the prover does not cover. The properties of the violated
runs do not hold of the code; of those, `AnswersMatch` is proved under `Disciplined`.

## Plan

1. `Protocol`, `Client` with proofs of synchronisation: done.
2. `Clock`, `Transfer` with their proofs: done.
3. `Connect` with its proofs: done.
4. `Lists` as an implementation of `AbstractList`, `Sequence`, with their proofs: done.
5. `Session` as an abstraction of `Client`, `Nursery` on top of it, with their proofs:
   done.
6. `Wrapper` with its proofs: done.

Left: the byte stream of a routing, with the bounds checks of its parser and the
memory it does not release; the layout of the commands other than sequences;
which exception of the wrapper a code becomes; `Transfer` and `Connect` under
`Client` in one model, in place of the choice `Timed`.

## Not modelled

- Logging, error strings and the library version: formatting and tables, no state
  that a call depends on. (That a log handler may change `errno` is an outcome of
  `SetupFails`.)
- The call options: a record of two settings, whose timeout is an input of
  `Transfer` and whose other one is a byte of a command.
- The memory hooks and string helpers of `arakoon-utils.c`: an allocation that
  fails is a choice of each model.
- Of the wrapper, the calls it only forwards and the mapping of codes to
  exceptions (with its comparison of a code with the value of `errno` constants,
  `arakoonmm.cpp:85`).
- The layout of commands, except for sequences (their sizes have the same 32
  bits); arguments that the API rejects before it does anything.
- What `write` does to the process when the peer is gone (SIGPIPE).
- The release of a cluster in `Client` (it ends the object; its descriptors are in
  `Connect`, its messages in `Wrapper`) and of the routing parser's memory.

Interrupted waits are in `Client` the same as timeouts, as the code drops the
connection on both. In `Client` a connect is one step: `Connect` is about the steps
it takes.
