---------------------------- MODULE AbstractList ----------------------------
(***************************************************************************)
(* What a list of the API promises, without its cells and cursors: its     *)
(* entries in order, and for each iterator how many of the last entries it *)
(* is still to show.  Module Lists implements it.                          *)
(***************************************************************************)
EXTENDS Integers, Sequences

CONSTANTS
    Payloads,   \* what an entry can hold
    Iters,
    NULL

VARIABLES
    entries,    \* the entries of the list, from its front
    open,       \* the iterators in use
    left,       \* how many entries an iterator is still to show
    shown       \* the entry it showed last, NULL at the end

vars == <<entries, open, left, shown>>

Init ==
    /\ entries = <<>> /\ open = {}
    /\ left = [it \in Iters |-> 0]
    /\ shown = [it \in Iters |-> NULL]

\* An entry put in front is not seen by the iterators on their way.
Prepend ==
    /\ \E p \in Payloads : entries' = <<p>> \o entries
    /\ UNCHANGED <<open, left, shown>>

\* An entry put at the end is seen by the iterators which are not there yet.
AppendOne ==
    /\ \E p \in Payloads : entries' = Append(entries, p)
    /\ left' = [it \in Iters |-> IF left[it] > 0 THEN left[it] + 1 ELSE 0]
    /\ UNCHANGED <<open, shown>>

\* The next entry to be shown when n are left.
Upcoming(n) == IF n > 0 THEN entries[Len(entries) - n + 1] ELSE NULL

Rest(n) == IF n > 0 THEN n - 1 ELSE 0

Create(it) ==
    /\ it \notin open
    /\ open' = open \union {it}
    /\ left' = [left EXCEPT ![it] = Len(entries)]
    /\ UNCHANGED <<entries, shown>>

\* The iterator of the C++ wrapper shows the first entry from the start.
Begin(it) ==
    /\ it \notin open
    /\ open' = open \union {it}
    /\ left' = [left EXCEPT ![it] = Rest(Len(entries))]
    /\ shown' = [shown EXCEPT ![it] = Upcoming(Len(entries))]
    /\ UNCHANGED entries

Advance(it) ==
    /\ it \in open
    /\ left' = [left EXCEPT ![it] = Rest(@)]
    /\ shown' = [shown EXCEPT ![it] = Upcoming(left[it])]
    /\ UNCHANGED <<entries, open>>

\* All entries are to be shown again; the wrapper's iterator shows none of them
\* before it is advanced.
Reset(it) ==
    /\ it \in open
    /\ left' = [left EXCEPT ![it] = Len(entries)]
    /\ shown' \in {shown, [shown EXCEPT ![it] = NULL]}
    /\ UNCHANGED <<entries, open>>

Drop(it) ==
    /\ it \in open
    /\ open' = open \ {it}
    /\ left' = [left EXCEPT ![it] = 0]
    /\ shown' = [shown EXCEPT ![it] = NULL]
    /\ UNCHANGED entries

\* The list is freed, which no iterator may outlive.
Free ==
    /\ open = {}
    /\ entries' = <<>>
    /\ UNCHANGED <<open, left, shown>>

Next ==
    \/ Prepend \/ AppendOne \/ Free
    \/ \E it \in Iters :
           Create(it) \/ Begin(it) \/ Advance(it) \/ Reset(it) \/ Drop(it)

Spec == Init /\ [][Next]_vars

=============================================================================
