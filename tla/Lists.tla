-------------------------------- MODULE Lists --------------------------------
(***************************************************************************)
(* The value list and the key/value list (arakoon-value-list.c and         *)
(* arakoon-key-value-list.c), with their iterators and those of the C++    *)
(* wrapper: linked cells, the memory they own, cursors into them.  An      *)
(* empty key or value owns no memory; its pointer is a marker, which must  *)
(* not be freed and must not be taken for the end of the list.             *)
(*                                                                         *)
(* The memory is a set of blocks: <<i, 0>> is cell i, <<i, p>> the copy of *)
(* part p of its entry, the value of a value list or the key (1) and the   *)
(* value (2) of a pair.  An allocation may fail; the creation of a list or *)
(* an iterator that fails changes nothing and is left out.                 *)
(***************************************************************************)
EXTENDS Integers, FiniteSets, SequencesExt, Functions

CONSTANTS
    Items,      \* the addresses a cell may have: bounds the length of the list
    Iters,      \* the iterators that may be in use at a time
    Data,       \* the contents of keys and values
    EmptyData,  \* the one of no bytes
    NULL

ASSUME ItemsAssumption == IsFiniteSet(Items) /\ NULL \notin Items
ASSUME DataAssumption == EmptyData \in Data

VARIABLES
    kind,       \* "values" or "pairs"
    phase,      \* "absent", "filling" (an answer is read into it), "live" (in
                \* the hands of the application), "freeing" or "crashed"
    heap,       \* the blocks in use
    next,       \* the fields of the cells
    data,
    first,      \* the fields of the list
    last,       \* kept by value lists only
    size,
    doomed,     \* the cell that free is about to release
    iter        \* the iterators

listVars == <<kind, phase, heap, next, data, first, last, size, doomed, iter>>

Parts == IF kind = "values" THEN 1..1 ELSE 1..2
Entries == [1..1 -> Data] \union [1..2 -> Data]

Unused == [style |-> "none", cur |-> NULL, shown |-> NULL]

\* The parts of an entry that are copied to memory of their own, and the blocks
\* of the cell that holds the entry.
Copied(d) == {p \in DOMAIN d : d[p] # EmptyData}
Blocks(i) == {<<i, p>> : p \in {0} \union Copied(data[i])}

\* The cells from c on, at most as many as there are.
From(c) ==
    LET walk[n \in 0 .. Cardinality(Items)] ==
            [j \in Items \union {NULL} |->
                IF n = 0 \/ j = NULL THEN <<>> ELSE <<j>> \o walk[n - 1][next[j]]]
    IN  walk[Cardinality(Items)][c]

ListInit ==
    /\ kind = "values" /\ phase = "absent" /\ heap = {}
    /\ next = [i \in Items |-> NULL]
    /\ data = [i \in Items |-> <<EmptyData>>]
    /\ first = NULL /\ last = NULL /\ size = 0 /\ doomed = NULL
    /\ iter = [it \in Iters |-> Unused]

\* Lists of pairs are made by the calls that read one only.
ListNew ==
    /\ phase = "absent"
    /\ \/ phase' = "filling" /\ kind' \in {"values", "pairs"}
       \/ phase' = "live" /\ kind' = "values"
    /\ first' = NULL /\ last' = NULL /\ size' = 0
    /\ UNCHANGED <<heap, next, data, doomed, iter>>

-----------------------------------------------------------------------------
(* Adding an entry *)

Fresh(i) == phase \in {"filling", "live"} /\ <<i, 0>> \notin heap

\* Mutant: the blocks of an entry are counted.
MutFilled(i, d) ==
    /\ heap' = heap \union {<<i, p>> : p \in {0} \union Copied(d)}
    /\ data' = [data EXCEPT ![i] = d]
    /\ size' = size + Cardinality({0} \union Copied(d))
    /\ UNCHANGED <<kind, phase, doomed, iter>>

\* Cell i is filled with the entry d.
Filled(i, d) ==
    /\ heap' = heap \union {<<i, p>> : p \in {0} \union Copied(d)}
    /\ data' = [data EXCEPT ![i] = d]
    /\ size' = size + 1
    /\ UNCHANGED <<kind, phase, doomed, iter>>

\* Mutant: the first entry does not become the last one too.
MutPrepend(i, d) ==
    /\ Fresh(i) /\ phase = "filling"
    /\ Filled(i, d)
    /\ next' = [next EXCEPT ![i] = first]
    /\ first' = i
    /\ UNCHANGED last

\* Answers list their entries from the last one.
Prepend(i, d) ==
    /\ Fresh(i) /\ phase = "filling"
    /\ Filled(i, d)
    /\ next' = [next EXCEPT ![i] = first]
    /\ first' = i
    /\ last' = IF kind = "values" /\ last = NULL THEN i ELSE last

Add(i, d) ==
    /\ Fresh(i) /\ phase = "live" /\ kind = "values"
    /\ Filled(i, d)
    /\ next' = [j \in Items |->
                    IF j = i THEN NULL ELSE IF j = last THEN i ELSE next[j]]
    /\ last' = i
    /\ first' = IF first = NULL THEN i ELSE first

\* The list is about to be freed.
Doom ==
    /\ phase' = "freeing"
    /\ size' = 0 /\ doomed' = first /\ first' = NULL

Kept == UNCHANGED <<phase, first, size, doomed>>

\* Mutant: only the cell is freed.
MutAddFails(i, d) ==
    /\ Fresh(i)
    /\ phase = "live" => kind = "values"
    /\ \E p \in {0} \union Copied(d) :
           heap' = heap \union {<<i, q>> : q \in {r \in Copied(d) : r < p}}
    /\ IF phase = "filling" THEN Doom ELSE Kept
    /\ UNCHANGED <<kind, next, data, last, iter>>

\* The allocation of part p of an entry fails (the cell is part 0), and what was
\* set up before it is freed.  A call that reads an answer goes on to free the
\* list; an application keeps it as it was.  The key of a pair is freed when it is the marker
\* too, which ends the program.
AddFails(i, d) ==
    /\ Fresh(i)
    /\ phase = "live" => kind = "values"
    /\ \E p \in {0} \union Copied(d) :
           LET taken == {q \in {0} \union Copied(d) : q < p}
               given == 0 .. p - 1
           IN  /\ heap' = (heap \union {<<i, q>> : q \in taken})
                              \ {<<i, q>> : q \in given}
               /\ IF given \subseteq taken
                  THEN IF phase = "filling" THEN Doom ELSE Kept
                  ELSE /\ phase' = "crashed"
                       /\ UNCHANGED <<first, size, doomed>>
    /\ UNCHANGED <<kind, next, data, last, iter>>

\* The whole answer is read.
HandOver ==
    /\ phase = "filling"
    /\ phase' = "live"
    /\ UNCHANGED <<kind, heap, next, data, first, last, size, doomed, iter>>

-----------------------------------------------------------------------------
(* Iterators: "plain" ones of the C interface, "wrapped" ones of C++ *)

\* Mutant: an empty value is given as NULL.
MutStepped(style, c) ==
    [style |-> style, cur |-> IF c = NULL THEN NULL ELSE next[c],
     shown |-> IF c = NULL \/ data[c][1] = EmptyData THEN NULL ELSE data[c]]

\* What an iterator is after it was advanced from the cell c.
Stepped(style, c) ==
    [style |-> style, cur |-> IF c = NULL THEN NULL ELSE next[c],
     shown |-> IF c = NULL THEN NULL ELSE data[c]]

IterChange(it, new) ==
    /\ phase = "live"
    /\ iter' = [iter EXCEPT ![it] = new]
    /\ UNCHANGED <<kind, phase, heap, next, data, first, last, size, doomed>>

CreateIter(it) ==
    /\ iter[it].style = "none"
    /\ IterChange(it, [style |-> "plain", cur |-> first, shown |-> NULL])

\* begin of the wrapper's lists: its iterator advances when it is made.
Begin(it) ==
    /\ iter[it].style = "none"
    /\ IterChange(it, Stepped("wrapped", first))

IterNext(it) ==
    /\ iter[it].style # "none"
    /\ IterChange(it, Stepped(iter[it].style, iter[it].cur))

\* The wrapper forgets what it shows, and does not advance.
IterReset(it) ==
    /\ iter[it].style # "none"
    /\ IterChange(it, [iter[it] EXCEPT !.cur = first,
                           !.shown = IF iter[it].style = "wrapped" THEN NULL ELSE @])

\* The wrapper's destructor resets the iterator before it frees it.
IterFree(it) ==
    /\ iter[it].style # "none"
    /\ IterChange(it, Unused)

-----------------------------------------------------------------------------
(* Freeing the list, which makes iterators over it invalid (arakoon.h:580), so *)
(* that applications free those first, or because its answer breaks off        *)

ListFree ==
    /\ phase \in {"filling", "live"}
    /\ \A it \in Iters : iter[it].style = "none"
    /\ Doom
    /\ UNCHANGED <<kind, heap, next, data, last, iter>>

\* The blocks are freed, which ends the program when one is not in use.
Release(blocks) ==
    /\ IF blocks \subseteq heap
       THEN /\ heap' = heap \ blocks
            /\ doomed' = next[doomed]
            /\ UNCHANGED phase
       ELSE /\ phase' = "crashed"
            /\ UNCHANGED <<heap, doomed>>
    /\ UNCHANGED <<kind, next, data, first, last, size, iter>>

\* Mutant: the parts are freed whatever their size.
MutFreeItem ==
    /\ phase = "freeing" /\ doomed # NULL
    /\ Release({<<doomed, p>> : p \in {0} \union DOMAIN data[doomed]})

\* One turn of the loop: the cell, and the parts that are no marker.
FreeItem ==
    /\ phase = "freeing" /\ doomed # NULL
    /\ Release(Blocks(doomed))

ListFreed ==
    /\ phase = "freeing" /\ doomed = NULL
    /\ phase' = "absent"
    /\ UNCHANGED <<kind, heap, next, data, first, last, size, doomed, iter>>

ListNext ==
    \/ ListNew \/ HandOver \/ ListFree \/ FreeItem \/ ListFreed
    \/ \E i \in Items, d \in [Parts -> Data] :
           Prepend(i, d) \/ Add(i, d) \/ AddFails(i, d)
    \/ \E it \in Iters :
           \/ CreateIter(it) \/ Begin(it)
           \/ IterNext(it) \/ IterReset(it) \/ IterFree(it)

ListSpec == ListInit /\ [][ListNext]_listVars

-----------------------------------------------------------------------------
(* Properties *)

Chain == From(first)

\* Type invariant.
ListTypeOK ==
    /\ kind \in {"values", "pairs"}
    /\ phase \in {"absent", "filling", "live", "freeing", "crashed"}
    /\ heap \subseteq Items \X (0..2)
    /\ next \in [Items -> Items \union {NULL}]
    /\ data \in [Items -> Entries]
    /\ {first, last, doomed} \subseteq Items \union {NULL}
    /\ size \in 0 .. Cardinality(Items)
    /\ iter \in [Iters -> [style : {"none", "plain", "wrapped"},
                             cur : Items \union {NULL},
                             shown : Entries \union {NULL}]]

\* The memory in use is that of the cells which can be reached, each once: no
\* failed addition leaves a block behind, no list is freed in part, and no cell
\* in reach is freed (_prepend, arakoon_value_list_append, _item_free).
NothingLostNorDangling ==
    phase # "crashed" =>
        LET chain == From(IF phase = "freeing" THEN doomed ELSE first)
        IN  /\ IsInjective(chain)
            /\ heap = UNION {Blocks(i) : i \in ToSet(chain)}

\* The count the list keeps, which goes out as the number of keys of a multi-get
\* before an iterator writes as many keys, and its last cell, which the next
\* entry is linked to, are those of its chain.
SizeAndLast ==
    phase \in {"filling", "live"} =>
        /\ size = Len(Chain)
        /\ kind = "values" => last = IF Chain = <<>> THEN NULL ELSE Last(Chain)

\* Freeing a list ends well whatever entries it has: every block is freed once,
\* and the marker of an empty key or value never.
FreeingIsSafe == [][phase = "freeing" => phase' # "crashed"]_listVars

\* The lists do what a list of the API promises: every iterator shows all that
\* is in front of it, once and in order, an empty entry too, and NULL only at
\* the end.
Abstract == INSTANCE AbstractList WITH
    Payloads <- Entries,
    entries <- [n \in 1 .. Len(Chain) |-> data[Chain[n]]],
    open <- {it \in Iters : iter[it].style # "none"},
    left <- [it \in Iters |-> Len(From(iter[it].cur))],
    shown <- [it \in Iters |-> iter[it].shown]

ImplementsList == Abstract!Spec

=============================================================================
