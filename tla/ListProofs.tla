----------------------------- MODULE ListProofs -----------------------------
(***************************************************************************)
(* The value lists, for any number of cells and iterators and any data.    *)
(*                                                                         *)
(* The invariant is that there is a sequence of cells, all different,      *)
(* which next leads through from first (or doomed, while the list is       *)
(* freed) to NULL; its cells are the ones in use, and iterators stand on   *)
(* them.  From and Chain find that sequence, which is a proof by induction *)
(* over its places (ReachedChain); with it, the properties and the steps   *)
(* of AbstractList speak of an ordinary sequence.                          *)
(***************************************************************************)
EXTENDS Lists, DataLemmas

-----------------------------------------------------------------------------
(* The invariant *)

Start == IF phase = "freeing" THEN doomed ELSE first

\* The memory in use is that of the cells s.
InUse(s) ==
    \A i \in Items, p \in 0 .. 2 :
        <<i, p>> \in heap <=> i \in Cells(s) /\ p \in {0} \union Copied(data[i])

\* size and last are those of the cells s.
Counted(s) ==
    phase \in {"filling", "live"} =>
        size = Len(s) /\ (kind = "values" => last = At(s, Len(s), NULL))

\* Iterators are on the cells s, or at the end.
Cursors(s) ==
    /\ phase \notin {"live", "crashed"} => \A it \in Iters : iter[it] = Unused
    /\ \A it \in Iters : iter[it].style = "none" => iter[it] = Unused
    /\ phase = "live" => \A it \in Iters : iter[it].cur \in Cells(s) \union {NULL}

\* The list is made of the cells s.
ChainHolds(s) ==
    /\ Distinct(s)
    /\ phase # "crashed" => IsChain(next, Start, s, NULL) /\ InUse(s)
    /\ Counted(s)
    /\ Cursors(s)

ListInv ==
    /\ phase \in {"absent", "freeing"} => first = NULL
    /\ \E s \in Seq(Items) : ChainHolds(s)

Iterators == [style : {"none", "plain", "wrapped"},
              cur : Items \union {NULL}, shown : Entries \union {NULL}]

\* ListTypeOK but for the bound of size.
Types ==
    /\ kind \in {"values", "pairs"}
    /\ phase \in {"absent", "filling", "live", "freeing", "crashed"}
    /\ heap \subseteq Items \X (0..2)
    /\ next \in [Items -> Items \union {NULL}]
    /\ data \in [Items -> Entries]
    /\ first \in Items \union {NULL}
    /\ last \in Items \union {NULL}
    /\ doomed \in Items \union {NULL}
    /\ iter \in [Iters -> Iterators]

-----------------------------------------------------------------------------
(* Types *)

LEMMA EntryType ==
    /\ \A d \in [Parts -> Data] : d \in Entries
    /\ \A d \in Entries : Copied(d) \subseteq 1 .. 2
    /\ <<EmptyData>> \in Entries /\ Copied(<<EmptyData>>) = {}
  <1>1. \A d \in [Parts -> Data] : d \in Entries
    BY DEF Parts, Entries
  <1>2. \A d \in Entries : Copied(d) \subseteq 1 .. 2
    BY DEF Entries, Copied
  <1>3. <<EmptyData>> \in [1 .. 1 -> Data]
    BY DataAssumption
  <1>4. Copied(<<EmptyData>>) = {}
    BY DEF Copied
  <1> QED BY <1>1, <1>2, <1>3, <1>4 DEF Entries

LEMMA SteppedType ==
    ASSUME Types, NEW style \in {"none", "plain", "wrapped"}, NEW c \in Items \union {NULL}
    PROVE  Stepped(style, c) \in Iterators
  BY DEF Stepped, Types, Iterators

LEMMA InitTypes == ListInit => Types
  BY EntryType DEF ListInit, Types, Unused, Iterators

LEMMA TypesStep == Types /\ [ListNext]_listVars => Types'
  <1> SUFFICES ASSUME Types, [ListNext]_listVars
               PROVE  Types'
    OBVIOUS
  <1>1. CASE ListNew
    BY <1>1 DEF ListNew, Types, Entries, Iterators
  <1>2. CASE HandOver \/ ListFree \/ ListFreed
    BY <1>2 DEF HandOver, ListFree, ListFreed, Doom, Types, Entries, Iterators
  <1>3. CASE FreeItem
    BY <1>3 DEF FreeItem, Release, Types, Entries, Iterators
  <1>4. ASSUME NEW i \in Items, NEW d \in [Parts -> Data],
               Prepend(i, d) \/ Add(i, d)
        PROVE  Types'
    <2>1. d \in Entries /\ Copied(d) \subseteq 1 .. 2
      BY EntryType
    <2>2. Filled(i, d) /\ next' \in [Items -> Items \union {NULL}]
          /\ first' \in Items \union {NULL} /\ last' \in Items \union {NULL}
      BY <1>4 DEF Prepend, Add, Types
    <2>3. heap' \subseteq Items \X (0 .. 2)
      BY <2>1, <2>2 DEF Filled, Types
    <2>4. data' \in [Items -> Entries']
      BY <2>1, <2>2 DEF Filled, Types, Entries, Iterators
    <2> QED BY <2>2, <2>3, <2>4 DEF Filled, Types, Entries, Iterators
  <1>5. ASSUME NEW i \in Items, NEW d \in [Parts -> Data], AddFails(i, d)
        PROVE  Types'
    <2>1. Copied(d) \subseteq 1 .. 2
      BY EntryType
    <2>2. heap' \subseteq Items \X (0 .. 2)
      BY <1>5, <2>1 DEF AddFails, Types
    <2>3. Doom \/ Kept \/ (phase' = "crashed" /\ UNCHANGED <<first, size, doomed>>)
      BY <1>5 DEF AddFails
    <2>4. UNCHANGED <<kind, next, data, last, iter>>
      BY <1>5 DEF AddFails
    <2> QED BY <2>2, <2>3, <2>4 DEF Doom, Kept, Types, Entries, Iterators
  <1>6. ASSUME NEW it \in Iters,
               CreateIter(it) \/ Begin(it) \/ IterNext(it) \/ IterReset(it) \/ IterFree(it)
        PROVE  Types'
    <2>1. UNCHANGED <<kind, phase, heap, next, data, first, last, size, doomed>>
      BY <1>6 DEF CreateIter, Begin, IterNext, IterReset, IterFree, IterChange
    <2>2. PICK new \in Iterators : IterChange(it, new)
      <3>1. CASE CreateIter(it)
        BY <3>1 DEF CreateIter, Types, Iterators
      <3>2. CASE Begin(it)
        BY <3>2, SteppedType DEF Begin, Types
      <3>3. CASE IterNext(it)
        BY <3>3, SteppedType DEF IterNext, Types, Iterators
      <3>4. CASE IterReset(it)
        BY <3>4 DEF IterReset, Types, Iterators
      <3>5. CASE IterFree(it)
        BY <3>5 DEF IterFree, Iterators, Unused
      <3> QED BY <1>6, <3>1, <3>2, <3>3, <3>4, <3>5
    <2>3. iter' \in [Iters -> Iterators]
      BY <2>2 DEF IterChange, Types
    <2> QED BY <2>1, <2>3 DEF Types, Entries, Iterators
  <1>7. CASE UNCHANGED listVars
    BY <1>7 DEF listVars, Types, Entries, Iterators
  <1> QED BY <1>1, <1>2, <1>3, <1>4, <1>5, <1>6, <1>7 DEF ListNext

-----------------------------------------------------------------------------
(* Every step keeps the invariant *)

LEMMA NullIsNoItem == NULL \notin Items
  BY ItemsAssumption

LEMMA NothingInReach ==
    ASSUME NEW s \in Seq(Items), ChainHolds(s), phase # "crashed", Start = NULL
    PROVE  s = <<>>
  <1>1. NULL = At(s, 1, NULL)
    BY DEF ChainHolds, IsChain
  <1>2. 1 \notin 1 .. Len(s)
    BY <1>1, NullIsNoItem DEF At
  <1> QED BY <1>2

LEMMA SomethingInReach ==
    ASSUME NEW s \in Seq(Items), ChainHolds(s), phase # "crashed", Start # NULL
    PROVE  s # <<>>
  <1>1. Start = At(s, 1, NULL)
    BY DEF ChainHolds, IsChain
  <1> QED BY <1>1 DEF At

LEMMA NextInReach ==
    ASSUME NEW s \in Seq(Items), ChainHolds(s), phase # "crashed", NEW c \in Cells(s)
    PROVE  next[c] \in Cells(s) \union {NULL}
  <1>1. PICK k \in 1 .. Len(s) : c = s[k]
    BY DEF Cells
  <1>2. next[c] = At(s, k + 1, NULL)
    BY <1>1 DEF ChainHolds, IsChain
  <1> QED BY <1>2 DEF At, Cells

LEMMA HeadInReach ==
    ASSUME NEW s \in Seq(Items), ChainHolds(s), phase # "crashed"
    PROVE  Start \in Cells(s) \union {NULL}
  BY DEF ChainHolds, IsChain, At, Cells

\* The blocks of a cell that is not in use.
LEMMA FreshCell ==
    ASSUME NEW s, InUse(s), NEW i \in Items, <<i, 0>> \notin heap
    PROVE  i \notin Cells(s)
  <1>1. 0 \in 0 .. 2
    OBVIOUS
  <1>2. <<i, 0>> \in heap <=> i \in Cells(s) /\ 0 \in {0} \union Copied(data[i])
    BY <1>1, Zenon DEF InUse
  <1> QED BY <1>2

LEMMA InitListInv == ListInit => ListInv
  <1> SUFFICES ASSUME ListInit
               PROVE  ListInv
    OBVIOUS
  <1>1. ChainHolds(<<>>)
    BY NoCells DEF ListInit, ChainHolds, Start, InUse, Counted, Cursors, At
  <1> QED BY <1>1, NoCells DEF ListInit, ListInv

LEMMA ListNewKeeps ==
    ASSUME Types, ListInv, ListNew
    PROVE  ListInv'
  <1>1. PICK s \in Seq(Items) : ChainHolds(s)
    BY DEF ListInv
  <1>2. s = <<>>
    BY <1>1, NothingInReach DEF ListNew, ListInv, Start
  <1>3. IsChain(next', Start', <<>>, NULL)
    BY NoCells DEF ListNew, Start
  <1>4. InUse(s)'
    BY <1>1 DEF ListNew, ChainHolds, InUse
  <1>5. Counted(s)'
    BY <1>2 DEF ListNew, Counted, At
  <1>6. Cursors(s)'
    BY <1>1 DEF ListNew, ChainHolds, Cursors, Unused
  <1>7. ChainHolds(s)'
    BY <1>1, <1>2, <1>3, <1>4, <1>5, <1>6 DEF ChainHolds
  <1> QED BY <1>7 DEF ListInv, ListNew

LEMMA HandOverKeeps ==
    ASSUME Types, ListInv, HandOver
    PROVE  ListInv'
  <1>1. PICK s \in Seq(Items) : ChainHolds(s)
    BY DEF ListInv
  <1>2. IsChain(next', Start', s, NULL) /\ InUse(s)' /\ Counted(s)'
    BY <1>1 DEF HandOver, Start, ChainHolds, InUse, Counted
  <1>3. Cursors(s)'
    BY <1>1 DEF HandOver, ChainHolds, Cursors, Unused
  <1>4. ChainHolds(s)'
    BY <1>1, <1>2, <1>3 DEF ChainHolds
  <1> QED BY <1>4 DEF ListInv, HandOver

\* The list is doomed: what was its chain is to be freed.
LEMMA DoomKeeps ==
    ASSUME Types, ListInv, phase \in {"filling", "live"}, Doom,
           UNCHANGED <<heap, next, data, iter>>,
           \A it \in Iters : iter[it].style = "none"
    PROVE  ListInv'
  <1>1. PICK s \in Seq(Items) : ChainHolds(s)
    BY DEF ListInv
  <1>2. IsChain(next', Start', s, NULL) /\ InUse(s)' /\ Counted(s)' /\ Cursors(s)'
    BY <1>1 DEF Doom, Start, ChainHolds, InUse, Counted, Cursors
  <1>3. ChainHolds(s)'
    BY <1>1, <1>2 DEF ChainHolds
  <1> QED BY <1>3 DEF ListInv, Doom

\* The blocks of the doomed cell are in use.
LEMMA DoomedInUse ==
    ASSUME Types, ListInv, FreeItem
    PROVE  Blocks(doomed) \subseteq heap
  <1>1. PICK s \in Seq(Items) : ChainHolds(s)
    BY DEF ListInv
  <1>2. s # <<>>
    BY <1>1, SomethingInReach DEF FreeItem, Start
  <1>3. doomed = s[1] /\ s[1] \in Items /\ s[1] \in Cells(s)
    BY <1>1, <1>2, RestChain DEF FreeItem, ChainHolds, Start
  <1>4. Copied(data[doomed]) \subseteq 1 .. 2
    BY <1>3, EntryType DEF Types
  <1>5. ASSUME NEW p \in {0} \union Copied(data[doomed])
        PROVE  <<doomed, p>> \in heap
    <2>1. p \in 0 .. 2 /\ doomed \in Items /\ doomed \in Cells(s)
      BY <1>3, <1>4
    <2>2. InUse(s)
      BY <1>1 DEF FreeItem, ChainHolds
    <2> QED BY <2>1, <2>2, Zenon DEF InUse
  <1> QED BY <1>5 DEF Blocks

LEMMA FreeItemKeeps ==
    ASSUME Types, ListInv, FreeItem
    PROVE  ListInv'
  <1>1. PICK s \in Seq(Items) : ChainHolds(s)
    BY DEF ListInv
  <1>2. s # <<>>
    BY <1>1, SomethingInReach DEF FreeItem, Start
  <1>3. /\ doomed = s[1] /\ s[1] \in Items /\ s[1] \in Cells(s)
        /\ Tail(s) \in Seq(Items) /\ Distinct(Tail(s))
        /\ IsChain(next, next[doomed], Tail(s), NULL)
        /\ \A x : x \in Cells(Tail(s)) <=> x \in Cells(s) /\ x # s[1]
    BY <1>1, <1>2, RestChain DEF FreeItem, ChainHolds, Start
  <1>4. /\ heap' = heap \ Blocks(doomed) /\ doomed' = next[doomed]
        /\ UNCHANGED <<phase, kind, next, data, first, last, size, iter>>
    BY DoomedInUse DEF FreeItem, Release
  <1>5. phase = "freeing"
    BY DEF FreeItem
  <1>6. InUse(Tail(s))'
    <2>1. SUFFICES ASSUME NEW i \in Items, NEW p \in 0 .. 2
                   PROVE  <<i, p>> \in heap' <=>
                              i \in Cells(Tail(s)) /\ p \in {0} \union Copied(data[i])
      BY <1>4 DEF InUse
    <2>2. <<i, p>> \in heap <=> i \in Cells(s) /\ p \in {0} \union Copied(data[i])
      BY <1>1, <1>5 DEF ChainHolds, InUse
    <2>3. <<i, p>> \in Blocks(doomed) <=> i = doomed /\ p \in {0} \union Copied(data[i])
      BY DEF Blocks
    <2> QED BY <1>3, <1>4, <2>2, <2>3
  <1>7. IsChain(next', Start', Tail(s), NULL)
    BY <1>3, <1>4, <1>5 DEF Start
  <1>8. Counted(Tail(s))' /\ Cursors(Tail(s))'
    BY <1>1, <1>4, <1>5 DEF ChainHolds, Counted, Cursors
  <1>9. ChainHolds(Tail(s))'
    BY <1>3, <1>6, <1>7, <1>8 DEF ChainHolds
  <1> QED BY <1>3, <1>4, <1>5, <1>9 DEF ListInv

LEMMA ListFreedKeeps ==
    ASSUME Types, ListInv, ListFreed
    PROVE  ListInv'
  <1>1. PICK s \in Seq(Items) : ChainHolds(s)
    BY DEF ListInv
  <1>2. first = NULL
    BY DEF ListFreed, ListInv
  <1>3. IsChain(next', Start', s, NULL) /\ InUse(s)' /\ Counted(s)' /\ Cursors(s)'
    BY <1>1, <1>2 DEF ListFreed, Start, ChainHolds, InUse, Counted, Cursors
  <1>4. ChainHolds(s)'
    BY <1>1, <1>3 DEF ChainHolds
  <1> QED BY <1>2, <1>4 DEF ListInv, ListFreed

\* What filling a cell does to the memory in use.
LEMMA FilledInUse ==
    ASSUME Types, NEW s \in Seq(Items), InUse(s),
           NEW i \in Items, <<i, 0>> \notin heap, NEW d, Filled(i, d),
           NEW t \in Seq(Items), \A x : x \in Cells(t) <=> x \in Cells(s) \/ x = i
    PROVE  i \notin Cells(s) /\ InUse(t)'
  <1>1. i \notin Cells(s)
    BY FreshCell
  <1>2. SUFFICES ASSUME NEW j \in Items, NEW p \in 0 .. 2
                 PROVE  <<j, p>> \in heap' <=>
                            j \in Cells(t) /\ p \in {0} \union Copied(data'[j])
    BY <1>1 DEF InUse
  <1>3. <<j, p>> \in heap <=> j \in Cells(s) /\ p \in {0} \union Copied(data[j])
    BY DEF InUse
  <1>4. <<j, p>> \in heap' <=>
            <<j, p>> \in heap \/ (j = i /\ p \in {0} \union Copied(d))
    BY DEF Filled
  <1>5. data'[j] = IF j = i THEN d ELSE data[j]
    BY DEF Filled, Types
  <1> QED BY <1>1, <1>3, <1>4, <1>5

LEMMA PrependChain ==
    ASSUME Types, NEW s \in Seq(Items), ChainHolds(s),
           NEW i \in Items, NEW d, Prepend(i, d)
    PROVE  Pushed(i, s) \in Seq(Items) /\ ChainHolds(Pushed(i, s))'
  <1>1. ChainHolds(s)
    OBVIOUS
  <1>2. /\ phase = "filling" /\ <<i, 0>> \notin heap /\ Filled(i, d)
        /\ UNCHANGED <<kind, phase, doomed, iter>> /\ size' = size + 1
        /\ next' = [next EXCEPT ![i] = first] /\ first' = i
        /\ last' = IF kind = "values" /\ last = NULL THEN i ELSE last
    BY DEF Prepend, Fresh, Filled
  <1>3. IsChain(next, first, s, NULL) /\ InUse(s) /\ Distinct(s)
    BY <1>1, <1>2 DEF ChainHolds, Start
  <1> DEFINE t == Pushed(i, s)
  <1>4. t \in Seq(Items) /\ IsPushed(t, i, s)
    BY PushedIs
  <1>5. Cells(t) = Cells(s) \union {i}
    BY PushedCells
  <1>6. i \notin Cells(s)
    BY <1>2, <1>3, FreshCell
  <1>7. IsChain(Redirected(next, i, first), i, t, NULL) /\ Distinct(t)
    BY <1>3, <1>6, PushedChain DEF Types
  <1>8. next' = Redirected(next, i, first)
    BY <1>2 DEF Redirected
  <1> HIDE DEF t
  <1>9. InUse(t)'
    BY <1>2, <1>3, <1>4, <1>5, FilledInUse
  <1>10. Counted(t)'
    <2>1. size = Len(s) /\ (kind = "values" => last = At(s, Len(s), NULL))
      BY <1>1, <1>2 DEF ChainHolds, Counted
    <2>2. size' = Len(t)
      BY <1>2, <1>4, <2>1 DEF IsPushed
    <2>3. ASSUME kind = "values"
          PROVE  last' = At(t, Len(t), NULL)
      <3>1. Len(t) = Len(s) + 1 /\ t[1] = i /\ \A k \in 1 .. Len(s) : t[k + 1] = s[k]
        BY <1>4 DEF IsPushed
      <3>2. CASE Len(s) = 0
        BY <1>2, <2>1, <2>3, <3>1, <3>2 DEF At
      <3>3. CASE Len(s) # 0
        <4>1. Len(s) \in 1 .. Len(s) /\ last = s[Len(s)] /\ s[Len(s)] \in Items
          BY <2>1, <2>3, <3>3 DEF At
        <4>2. last' = s[Len(s)]
          BY <1>2, <4>1, NullIsNoItem
        <4>3. t[Len(t)] = s[Len(s)] /\ Len(t) \in 1 .. Len(t)
          BY <3>1, <4>1
        <4> QED BY <4>2, <4>3 DEF At
      <3> QED BY <3>2, <3>3
    <2> QED BY <1>2, <2>2, <2>3 DEF Counted
  <1>11. Cursors(t)'
    BY <1>1, <1>2 DEF ChainHolds, Cursors
  <1>12. ChainHolds(t)'
    BY <1>2, <1>7, <1>8, <1>9, <1>10, <1>11 DEF ChainHolds, Start
  <1> QED BY <1>4, <1>12 DEF t

LEMMA PrependKeeps ==
    ASSUME Types, ListInv, NEW i \in Items, NEW d, Prepend(i, d)
    PROVE  ListInv'
  <1>1. PICK s \in Seq(Items) : ChainHolds(s)
    BY DEF ListInv
  <1>2. Pushed(i, s) \in Seq(Items) /\ ChainHolds(Pushed(i, s))'
    BY <1>1, PrependChain
  <1>3. phase' = "filling"
    BY DEF Prepend, Filled
  <1> QED BY <1>2, <1>3 DEF ListInv

LEMMA AddChain ==
    ASSUME Types, NEW s \in Seq(Items), ChainHolds(s),
           NEW i \in Items, NEW d, Add(i, d)
    PROVE  Append(s, i) \in Seq(Items) /\ ChainHolds(Append(s, i))'
  <1>1. ChainHolds(s)
    OBVIOUS
  <1>2. /\ phase = "live" /\ kind = "values" /\ <<i, 0>> \notin heap /\ Filled(i, d)
        /\ UNCHANGED <<kind, phase, doomed, iter>> /\ size' = size + 1
        /\ next' = [j \in Items |->
                       IF j = i THEN NULL ELSE IF j = last THEN i ELSE next[j]]
        /\ first' = IF first = NULL THEN i ELSE first
        /\ last' = i
    BY DEF Add, Fresh, Filled
  <1>3. IsChain(next, first, s, NULL) /\ InUse(s) /\ Distinct(s)
    BY <1>1, <1>2 DEF ChainHolds, Start
  <1>4. size = Len(s) /\ last = At(s, Len(s), NULL)
    BY <1>1, <1>2 DEF ChainHolds, Counted
  <1>5. i \notin Cells(s)
    BY <1>2, <1>3, FreshCell
  <1>6. \A j \in Items : next'[j] = IF j = i THEN NULL
                             ELSE IF j = At(s, Len(s), NULL) THEN i ELSE next[j]
    BY <1>2, <1>4
  <1> DEFINE t == Append(s, i)
  <1>7. IsChain(next', first', t, NULL) /\ Distinct(t)
    BY <1>2, <1>3, <1>5, <1>6, NullIsNoItem, AppendedChain
  <1>8. Cells(t) = Cells(s) \union {i}
    BY AppendedCells
  <1>9. t \in Seq(Items) /\ Len(t) = Len(s) + 1 /\ t[Len(s) + 1] = i
    OBVIOUS
  <1> HIDE DEF t
  <1>10. InUse(t)'
    BY <1>2, <1>3, <1>8, <1>9, FilledInUse
  <1>11. Counted(t)'
    BY <1>2, <1>4, <1>9 DEF Counted, At
  <1>12. Cursors(t)'
    BY <1>1, <1>2, <1>8 DEF ChainHolds, Cursors
  <1>13. ChainHolds(t)'
    BY <1>2, <1>7, <1>10, <1>11, <1>12 DEF ChainHolds, Start
  <1> QED BY <1>9, <1>13 DEF t

LEMMA AddKeeps ==
    ASSUME Types, ListInv, NEW i \in Items, NEW d, Add(i, d)
    PROVE  ListInv'
  <1>1. PICK s \in Seq(Items) : ChainHolds(s)
    BY DEF ListInv
  <1>2. Append(s, i) \in Seq(Items) /\ ChainHolds(Append(s, i))'
    BY <1>1, AddChain
  <1>3. phase' = "live"
    BY DEF Add, Filled
  <1> QED BY <1>2, <1>3 DEF ListInv

LEMMA AddFailsKeeps ==
    ASSUME Types, ListInv, NEW i \in Items, NEW d \in [Parts -> Data], AddFails(i, d)
    PROVE  ListInv'
  <1>1. PICK s \in Seq(Items) : ChainHolds(s)
    BY DEF ListInv
  <1>2. /\ phase \in {"filling", "live"} /\ <<i, 0>> \notin heap
        /\ UNCHANGED <<kind, next, data, last, iter>>
    BY DEF AddFails, Fresh
  <1>3. i \notin Cells(s) /\ InUse(s)
    BY <1>1, <1>2, FreshCell DEF ChainHolds
  <1>4. PICK p \in {0} \union Copied(d) :
            LET taken == {q \in {0} \union Copied(d) : q < p}
                given == 0 .. p - 1
            IN  /\ heap' = (heap \union {<<i, q>> : q \in taken})
                              \ {<<i, q>> : q \in given}
                /\ IF given \subseteq taken
                   THEN IF phase = "filling" THEN Doom ELSE Kept
                   ELSE /\ phase' = "crashed"
                        /\ UNCHANGED <<first, size, doomed>>
    BY DEF AddFails
  <1>5. \A q : <<i, q>> \notin heap
    <2>1. ASSUME NEW q, <<i, q>> \in heap
          PROVE  FALSE
      <3>1. q \in 0 .. 2
        BY <2>1 DEF Types
      <3> QED BY <1>3, <2>1, <3>1 DEF InUse
    <2> QED BY <2>1
  <1>6. Copied(d) \subseteq 1 .. 2
    BY EntryType
  <1>7. heap' = heap
    BY <1>4, <1>5, <1>6
  <1>8. CASE phase = "filling" /\ Doom
    <2>1. \A it \in Iters : iter[it].style = "none"
      BY <1>1, <1>8 DEF ChainHolds, Cursors, Unused
    <2> QED BY <1>2, <1>7, <1>8, <2>1, DoomKeeps
  <1>9. CASE Kept
    <2>1. IsChain(next', Start', s, NULL) /\ InUse(s)' /\ Counted(s)' /\ Cursors(s)'
      BY <1>1, <1>2, <1>7, <1>9 DEF Kept, Start, ChainHolds, InUse, Counted, Cursors
    <2>2. ChainHolds(s)'
      BY <1>1, <2>1 DEF ChainHolds
    <2> QED BY <1>2, <1>9, <2>2 DEF ListInv, Kept
  <1>10. CASE phase' = "crashed"
    <2>1. ChainHolds(s)'
      BY <1>1, <1>2, <1>10 DEF ChainHolds, Counted, Cursors
    <2> QED BY <1>10, <2>1 DEF ListInv
  <1> QED BY <1>4, <1>8, <1>9, <1>10

LEMMA IteratorsKeep ==
    ASSUME Types, ListInv, NEW it \in Iters,
           CreateIter(it) \/ Begin(it) \/ IterNext(it) \/ IterReset(it) \/ IterFree(it)
    PROVE  ListInv'
  <1>1. PICK s \in Seq(Items) : ChainHolds(s)
    BY DEF ListInv
  <1>2. /\ phase = "live"
        /\ UNCHANGED <<kind, phase, heap, next, data, first, last, size, doomed>>
    BY DEF CreateIter, Begin, IterNext, IterReset, IterFree, IterChange
  <1>3. /\ first \in Cells(s) \union {NULL}
        /\ \A c \in Cells(s) : next[c] \in Cells(s) \union {NULL}
    BY <1>1, <1>2, HeadInReach, NextInReach DEF Start
  <1>4. PICK new : /\ IterChange(it, new)
                   /\ new.cur \in Cells(s) \union {NULL}
                   /\ new.style = "none" => new = Unused
    <2>1. \A c \in Cells(s) \union {NULL} : \A style :
              Stepped(style, c).cur \in Cells(s) \union {NULL}
              /\ Stepped(style, c).style = style
      BY <1>3 DEF Stepped
    <2>2. iter[it].cur \in Cells(s) \union {NULL}
      BY <1>1, <1>2 DEF ChainHolds, Cursors
    <2>3. CASE CreateIter(it)
      BY <1>3, <2>3 DEF CreateIter
    <2>4. CASE Begin(it)
      <3>1. IterChange(it, Stepped("wrapped", first))
        BY <2>4 DEF Begin
      <3>2. Stepped("wrapped", first).cur \in Cells(s) \union {NULL}
            /\ Stepped("wrapped", first).style = "wrapped"
        BY <1>3, <2>1
      <3> QED BY <3>1, <3>2
    <2>5. CASE IterNext(it)
      BY <2>1, <2>2, <2>5 DEF IterNext
    <2>6. CASE IterReset(it)
      <3> DEFINE new == [iter[it] EXCEPT !.cur = first,
                             !.shown = IF iter[it].style = "wrapped" THEN NULL ELSE @]
      <3>1. IterChange(it, new) /\ iter[it].style # "none"
        BY <2>6 DEF IterReset
      <3>2. new.cur = first /\ new.style = iter[it].style
        BY DEF Types, Iterators
      <3> QED BY <1>3, <3>1, <3>2
    <2>7. CASE IterFree(it)
      BY <2>7 DEF IterFree, Unused
    <2> QED BY <2>3, <2>4, <2>5, <2>6, <2>7
  <1>5. \A o \in Iters : iter'[o] = IF o = it THEN new ELSE iter[o]
    BY <1>4 DEF IterChange, Types
  <1>6. Cursors(s)'
    BY <1>1, <1>2, <1>4, <1>5 DEF ChainHolds, Cursors
  <1>7. IsChain(next', Start', s, NULL) /\ InUse(s)' /\ Counted(s)'
    BY <1>1, <1>2 DEF Start, ChainHolds, InUse, Counted
  <1>8. ChainHolds(s)'
    BY <1>1, <1>6, <1>7 DEF ChainHolds
  <1> QED BY <1>2, <1>8 DEF ListInv

LEMMA ListInvStep == Types /\ ListInv /\ [ListNext]_listVars => ListInv'
  <1>1. ASSUME Types, ListInv, ListFree
        PROVE  ListInv'
    BY <1>1, DoomKeeps DEF ListFree
  <1>2. ASSUME ListInv, UNCHANGED listVars
        PROVE  ListInv'
    BY <1>2 DEF listVars, ListInv, ChainHolds, Start, InUse, Counted, Cursors
  <1> QED BY <1>1, <1>2, ListNewKeeps, HandOverKeeps, FreeItemKeeps, ListFreedKeeps,
             PrependKeeps, AddKeeps, AddFailsKeeps, IteratorsKeep DEF ListNext

-----------------------------------------------------------------------------
(* From follows the chain *)

\* From, with the links as a parameter.
Reached(nx, c) ==
    LET walk[n \in 0 .. Cardinality(Items)] ==
            [j \in Items \union {NULL} |->
                IF n = 0 \/ j = NULL THEN <<>> ELSE <<j>> \o walk[n - 1][nx[j]]]
    IN  walk[Cardinality(Items)][c]

LEMMA FromReached ==
    /\ \A c : From(c) = Reached(next, c)
    /\ \A c : From(c)' = Reached(next', c)
  BY DEF From, Reached

\* What the cells of a chain from the k-th on are.
Suffix(s, k) == SubSeq(s, k, Len(s))

LEMMA SuffixIs ==
    ASSUME NEW S, NEW s \in Seq(S)
    PROVE  /\ Suffix(s, 1) = s /\ Suffix(s, Len(s) + 1) = <<>>
           /\ \A k \in 1 .. Len(s) :
                  Suffix(s, k) = <<s[k]>> \o Suffix(s, k + 1)
           /\ \A k \in 1 .. Len(s) + 1 : Len(Suffix(s, k)) = Len(s) + 1 - k
  <1>1. Suffix(s, 1) = s
    BY DEF Suffix
  <1>2. Suffix(s, Len(s) + 1) = <<>>
    BY DEF Suffix
  <1>3. \A k \in 1 .. Len(s) + 1 : Len(Suffix(s, k)) = Len(s) + 1 - k
    BY DEF Suffix
  <1>4. ASSUME NEW k \in 1 .. Len(s)
        PROVE  Suffix(s, k) = <<s[k]>> \o Suffix(s, k + 1)
    BY DEF Suffix
  <1> QED BY <1>1, <1>2, <1>3, <1>4

\* From finds the rest of a chain from any of its places, by induction from the
\* end: with n turns left, it finds what is at most n cells long.
LEMMA ReachedChain ==
    ASSUME NEW nx \in [Items -> Items \union {NULL}],
           NEW s \in Seq(Items), Distinct(s),
           \A k \in 1 .. Len(s) : nx[s[k]] = At(s, k + 1, NULL)
    PROVE  \A k \in 1 .. Len(s) + 1 : Reached(nx, At(s, k, NULL)) = Suffix(s, k)
  <1> DEFINE N == Cardinality(Items)
             Ends == Items \union {NULL}
             S == [Ends -> Seq(Items)]
             step == [n \in Nat |-> [w \in S |->
                         [j \in Ends |-> IF j = NULL THEN <<>> ELSE <<j>> \o w[nx[j]]]]]
             none == [j \in Ends |-> <<>>]
             Obeys(w) ==
                 w = [n \in 0 .. N |->
                         [j \in Ends |->
                             IF n = 0 \/ j = NULL THEN <<>> ELSE <<j>> \o w[n - 1][nx[j]]]]
             walk == CHOOSE w : Obeys(w)
  <1>1. N \in Nat
    BY ItemsAssumption, FS_CardinalityType
  <1>2. Len(s) <= N
    <2>1. Cells(s) \in SUBSET Items
      BY DEF Cells
    <2> QED BY <2>1, CountedCells, ItemsAssumption, FS_Subset
  <1>3. none \in S /\ step \in [Nat -> [S -> S]]
    <2>1. none \in S
      OBVIOUS
    <2>2. ASSUME NEW w \in S
          PROVE  [j \in Ends |-> IF j = NULL THEN <<>> ELSE <<j>> \o w[nx[j]]] \in S
      <3>1. ASSUME NEW j \in Ends, j # NULL
            PROVE  <<j>> \o w[nx[j]] \in Seq(Items)
        <4>1. nx[j] \in Ends /\ j \in Items
          BY <3>1
        <4>2. w[nx[j]] \in Seq(Items)
          BY <4>1
        <4> QED BY <4>1, <4>2
      <3> QED BY <3>1
    <2> QED BY <2>1, <2>2
  <1>4. PICK f \in [Nat -> S] : f[0] = none /\ \A n \in Nat : f[n + 1] = step[n][f[n]]
    <2> HIDE DEF none, S, step
    <2>1. \E f : IsRecursive(f, S, none, step)
      BY <1>3, Recursion
    <2> QED BY <2>1 DEF IsRecursive
  <1>5. \E w : Obeys(w)
    <2> DEFINE v == [n \in 0 .. N |-> f[n]]
    <2>1. ASSUME NEW n \in 0 .. N
          PROVE  v[n] = [j \in Ends |->
                     IF n = 0 \/ j = NULL THEN <<>> ELSE <<j>> \o v[n - 1][nx[j]]]
      <3>1. CASE n = 0
        BY <1>4, <3>1
      <3>2. CASE n # 0
        <4>1. n - 1 \in Nat /\ n - 1 \in 0 .. N /\ n = (n - 1) + 1
          BY <1>1, <3>2
        <4>2. f[n] = step[n - 1][f[n - 1]]
          BY <1>4, <4>1
        <4>3. f[n - 1] \in S
          BY <1>4, <4>1
        <4>4. step[n - 1][f[n - 1]] =
                  [j \in Ends |-> IF j = NULL THEN <<>> ELSE <<j>> \o f[n - 1][nx[j]]]
          BY <4>1, <4>3
        <4>5. v[n] = f[n] /\ v[n - 1] = f[n - 1]
          BY <4>1
        <4> HIDE DEF v, step, S, Ends
        <4> QED BY <3>2, <4>2, <4>4, <4>5
      <3> QED BY <3>1, <3>2
    <2>2. v = [n \in 0 .. N |-> v[n]]
      OBVIOUS
    <2> HIDE DEF v
    <2>3. Obeys(v)
      BY <2>1, <2>2
    <2> QED BY <2>3
  <1>6. Obeys(walk)
    <2> HIDE DEF Obeys
    <2> QED BY <1>5
  <1>7. /\ \A j \in Ends : walk[0][j] = <<>>
        /\ \A n \in 1 .. N : \A j \in Ends :
               walk[n][j] = IF j = NULL THEN <<>> ELSE <<j>> \o walk[n - 1][nx[j]]
    <2>1. walk = [n \in 0 .. N |->
                     [j \in Ends |-> IF n = 0 \/ j = NULL THEN <<>>
                                     ELSE <<j>> \o walk[n - 1][nx[j]]]]
      BY <1>6
    <2> HIDE DEF walk, Ends
    <2>2. \A n \in 0 .. N : walk[n] =
              [j \in Ends |-> IF n = 0 \/ j = NULL THEN <<>>
                              ELSE <<j>> \o walk[n - 1][nx[j]]]
      BY <2>1
    <2>3. 0 \in 0 .. N /\ \A n \in 1 .. N : n \in 0 .. N /\ n # 0
      BY <1>1
    <2>4. ASSUME NEW j \in Ends
          PROVE  walk[0][j] = <<>>
      <3>1. walk[0] = [i \in Ends |-> IF 0 = 0 \/ i = NULL THEN <<>>
                                      ELSE <<i>> \o walk[0 - 1][nx[i]]]
        BY <2>2, <2>3
      <3> QED BY <3>1
    <2>5. ASSUME NEW n \in 1 .. N, NEW j \in Ends
          PROVE  walk[n][j] = IF j = NULL THEN <<>> ELSE <<j>> \o walk[n - 1][nx[j]]
      <3>1. walk[n] = [i \in Ends |-> IF n = 0 \/ i = NULL THEN <<>>
                                      ELSE <<i>> \o walk[n - 1][nx[i]]]
        BY <2>2, <2>3
      <3> QED BY <2>3, <3>1
    <2> QED BY <2>4, <2>5
  <1> HIDE DEF walk
  <1> DEFINE T == {n \in Nat : n <= N =>
                      \A k \in 1 .. Len(s) + 1 :
                          Len(s) + 1 - k <= n => walk[n][At(s, k, NULL)] = Suffix(s, k)}
  <1>8. \A k \in 1 .. Len(s) + 1 : At(s, k, NULL) \in Ends
    BY DEF At
  <1>9. 0 \in T
    <2>1. SUFFICES ASSUME NEW k \in 1 .. Len(s) + 1, Len(s) + 1 - k <= 0
                   PROVE  walk[0][At(s, k, NULL)] = Suffix(s, k)
      OBVIOUS
    <2>2. k = Len(s) + 1
      BY <2>1
    <2> QED BY <1>7, <1>8, <2>2, SuffixIs
  <1>10. ASSUME NEW n \in Nat, n \in T
         PROVE  n + 1 \in T
    <2>1. SUFFICES ASSUME n + 1 <= N, NEW k \in 1 .. Len(s) + 1, Len(s) + 1 - k <= n + 1
                   PROVE  walk[n + 1][At(s, k, NULL)] = Suffix(s, k)
      OBVIOUS
    <2>2. n + 1 \in 1 .. N /\ n <= N /\ n + 1 - 1 = n
      BY <1>1, <2>1
    <2>3. walk[n + 1][At(s, k, NULL)] =
              IF At(s, k, NULL) = NULL THEN <<>>
              ELSE <<At(s, k, NULL)>> \o walk[n][nx[At(s, k, NULL)]]
      BY <1>7, <1>8, <2>2
    <2>4. CASE k = Len(s) + 1
      <3>1. At(s, k, NULL) = NULL
        BY <2>4 DEF At
      <3> QED BY <2>3, <2>4, <3>1, SuffixIs
    <2>5. CASE k \in 1 .. Len(s)
      <3>1. At(s, k, NULL) = s[k] /\ s[k] # NULL
        <4>1. s[k] \in Items
          BY <2>5
        <4> QED BY <4>1, <2>5, NullIsNoItem DEF At
      <3>2. nx[s[k]] = At(s, k + 1, NULL)
        BY <2>5
      <3>3. k + 1 \in 1 .. Len(s) + 1 /\ Len(s) + 1 - (k + 1) <= n
        BY <2>1, <2>5
      <3>4. walk[n][At(s, k + 1, NULL)] = Suffix(s, k + 1)
        BY <1>10, <2>2, <3>3
      <3>5. Suffix(s, k) = <<s[k]>> \o Suffix(s, k + 1)
        BY <2>5, SuffixIs
      <3> QED BY <2>3, <3>1, <3>2, <3>4, <3>5
    <2> QED BY <2>4, <2>5
  <1>11. Nat \subseteq T
    <2> HIDE DEF T
    <2> QED BY <1>9, <1>10, Inductive
  <1>12. \A k \in 1 .. Len(s) + 1 : walk[N][At(s, k, NULL)] = Suffix(s, k)
    <2>1. \A k \in 1 .. Len(s) + 1 : Len(s) + 1 - k <= N
      <3> HIDE DEF N
      <3> QED BY <1>1, <1>2
    <2>2. N \in T /\ N <= N
      BY <1>1, <1>11
    <2> HIDE DEF N
    <2> QED BY <2>1, <2>2
  <1>13. \A c : Reached(nx, c) = walk[N][c]
    BY DEF Reached, walk
  <1> QED BY <1>12, <1>13

LEMMA ReachedIs ==
    ASSUME NEW nx \in [Items -> Items \union {NULL}], NEW c,
           NEW s \in Seq(Items), Distinct(s), IsChain(nx, c, s, NULL)
    PROVE  /\ Reached(nx, c) = s /\ Reached(nx, NULL) = <<>>
           /\ \A k \in 1 .. Len(s) : /\ Len(Reached(nx, s[k])) = Len(s) + 1 - k
                                     /\ Len(Reached(nx, nx[s[k]])) = Len(s) - k
  <1>1. \A k \in 1 .. Len(s) + 1 : Reached(nx, At(s, k, NULL)) = Suffix(s, k)
    BY ReachedChain DEF IsChain
  <1>2. Reached(nx, c) = s
    <2>1. 1 \in 1 .. Len(s) + 1
      OBVIOUS
    <2>2. c = At(s, 1, NULL)
      BY DEF IsChain
    <2> QED BY <1>1, <2>1, <2>2, SuffixIs
  <1>3. Reached(nx, NULL) = <<>>
    <2>1. Len(s) + 1 \in 1 .. Len(s) + 1 /\ At(s, Len(s) + 1, NULL) = NULL
      BY DEF At
    <2> QED BY <1>1, <2>1, SuffixIs
  <1>4. ASSUME NEW k \in 1 .. Len(s)
        PROVE  /\ Len(Reached(nx, s[k])) = Len(s) + 1 - k
               /\ Len(Reached(nx, nx[s[k]])) = Len(s) - k
    <2>1. k \in 1 .. Len(s) + 1 /\ k + 1 \in 1 .. Len(s) + 1
      OBVIOUS
    <2>2. At(s, k, NULL) = s[k] /\ nx[s[k]] = At(s, k + 1, NULL)
      BY DEF At, IsChain
    <2>3. Reached(nx, s[k]) = Suffix(s, k) /\ Reached(nx, nx[s[k]]) = Suffix(s, k + 1)
      BY <1>1, <2>1, <2>2
    <2>4. Len(Suffix(s, k)) = Len(s) + 1 - k /\ Len(Suffix(s, k + 1)) = Len(s) + 1 - (k + 1)
      BY <2>1, SuffixIs
    <2> QED BY <2>3, <2>4
  <1> QED BY <1>2, <1>3, <1>4

LEMMA ChainBound ==
    ASSUME NEW s \in Seq(Items), Distinct(s)
    PROVE  Len(s) \in 0 .. Cardinality(Items)
  <1>1. Cells(s) \in SUBSET Items
    BY DEF Cells
  <1>2. Cardinality(Items) \in Nat
    BY ItemsAssumption, FS_CardinalityType
  <1>3. Len(s) <= Cardinality(Items)
    BY <1>1, CountedCells, ItemsAssumption, FS_Subset
  <1> QED BY <1>2, <1>3

-----------------------------------------------------------------------------
(* Theorems *)

\* While the program goes on, a list is a chain of different cells from first to
\* NULL, which are the cells in use; arakoon_value_list_append, _prepend and the
\* release of a list keep it so, whatever allocation fails.
THEOREM ListInvariant == ListSpec => [](Types /\ ListInv)
  <1>1. ListInit => Types /\ ListInv
    BY InitTypes, InitListInv
  <1>2. Types /\ ListInv /\ [ListNext]_listVars => Types' /\ ListInv'
    BY TypesStep, ListInvStep
  <1> QED BY <1>1, <1>2, PTL DEF ListSpec

\* A list has no more entries than there are cells.  What says so is not an
\* invariant by itself: size is left as it is by the release of a list.
SizeOK == size \in 0 .. Cardinality(Items)

FilledSizeOK == phase \in {"filling", "live"} => SizeOK

\* Every variable of a list keeps its type.
THEOREM ListTypeCorrect == ListSpec => []ListTypeOK
  <1>1. ListInit => SizeOK
    BY ItemsAssumption, FS_CardinalityType DEF ListInit, SizeOK
  <1>2. Types /\ ListInv => FilledSizeOK
    BY ChainBound DEF ListInv, ChainHolds, Counted, FilledSizeOK, SizeOK
  <1>3. SizeOK /\ FilledSizeOK' /\ [ListNext]_listVars => SizeOK'
    <2> SUFFICES ASSUME SizeOK, FilledSizeOK', [ListNext]_listVars
                 PROVE  SizeOK'
      OBVIOUS
    <2>1. Cardinality(Items) \in Nat
      BY ItemsAssumption, FS_CardinalityType
    <2>2. \/ UNCHANGED size \/ size' = 0 \/ phase' \in {"filling", "live"}
      BY DEF ListNext, ListNew, Prepend, Add, Filled, Fresh, AddFails, Doom, Kept,
             HandOver, CreateIter, Begin, IterNext, IterReset, IterFree, IterChange,
             ListFree, FreeItem, Release, ListFreed, listVars
    <2> QED BY <2>1, <2>2 DEF SizeOK, FilledSizeOK
  <1>4. Types /\ SizeOK => ListTypeOK
    BY DEF Types, SizeOK, ListTypeOK, Iterators
  <1> QED BY <1>1, <1>2, <1>3, <1>4, ListInvariant, PTL DEF ListSpec

\* No memory of a list is lost, and none in reach is freed, when entries are added
\* (_prepend, arakoon_value_list_append), when adding one fails halfway, and when
\* the list is freed entry by entry (_item_free).
THEOREM NothingLost == ListSpec => []NothingLostNorDangling
  <1>1. ASSUME Types, ListInv, phase # "crashed"
        PROVE  /\ IsInjective(From(Start))
               /\ heap = UNION {Blocks(i) : i \in ToSet(From(Start))}
    <2>1. PICK s \in Seq(Items) : ChainHolds(s)
      BY <1>1 DEF ListInv
    <2>2. From(Start) = s
      BY <1>1, <2>1, FromReached, ReachedIs DEF Types, ChainHolds
    <2>3. IsInjective(s)
      BY <2>1 DEF ChainHolds, Distinct, IsInjective
    <2>4. ToSet(s) = Cells(s) /\ Cells(s) \subseteq Items
      BY DEF ToSet, Cells
    <2>5. ASSUME NEW b \in heap
          PROVE  b \in UNION {Blocks(i) : i \in Cells(s)}
      <3>1. PICK i \in Items, p \in 0 .. 2 : b = <<i, p>>
        BY <1>1, <2>5 DEF Types
      <3>2. i \in Cells(s) /\ p \in {0} \union Copied(data[i])
        BY <1>1, <2>1, <2>5, <3>1 DEF ChainHolds, InUse
      <3> QED BY <3>1, <3>2 DEF Blocks
    <2>6. ASSUME NEW i \in Cells(s), NEW p \in {0} \union Copied(data[i])
          PROVE  <<i, p>> \in heap
      <3>1. i \in Items /\ p \in 0 .. 2
        BY <1>1, <2>4, EntryType DEF Types
      <3>2. InUse(s)
        BY <1>1, <2>1 DEF ChainHolds
      <3> QED BY <3>1, <3>2, <2>6, Zenon DEF InUse
    <2>7. heap = UNION {Blocks(i) : i \in Cells(s)}
      BY <2>5, <2>6 DEF Blocks
    <2> QED BY <2>2, <2>3, <2>4, <2>7
  <1>2. Types /\ ListInv => NothingLostNorDangling
    BY <1>1 DEF NothingLostNorDangling, Start
  <1> QED BY <1>2, ListInvariant, PTL

\* size and last, which append and prepend set on several paths, are those of the
\* chain from first.
THEOREM SizeAndLastCorrect == ListSpec => []SizeAndLast
  <1>1. ASSUME Types, ListInv, phase \in {"filling", "live"}
        PROVE  /\ size = Len(Chain)
               /\ kind = "values" => last = IF Chain = <<>> THEN NULL ELSE Last(Chain)
    <2>1. PICK s \in Seq(Items) : ChainHolds(s)
      BY <1>1 DEF ListInv
    <2>2. Chain = s
      BY <1>1, <2>1, FromReached, ReachedIs DEF Types, ChainHolds, Chain, Start
    <2>3. size = Len(s) /\ (kind = "values" => last = At(s, Len(s), NULL))
      BY <1>1, <2>1 DEF ChainHolds, Counted
    <2>4. At(s, Len(s), NULL) = IF s = <<>> THEN NULL ELSE s[Len(s)]
      BY DEF At
    <2> QED BY <2>2, <2>3, <2>4 DEF Last
  <1>2. Types /\ ListInv => SizeAndLast
    BY <1>1 DEF SizeAndLast
  <1> QED BY <1>2, ListInvariant, PTL

\* Freeing a list never frees what is not in use: not the marker of an empty entry,
\* not a cell twice (arakoon_value_list_free).
THEOREM FreeingSafe == ListSpec => FreeingIsSafe
  <1>1. ASSUME Types, ListInv, [ListNext]_listVars, phase = "freeing"
        PROVE  phase' # "crashed"
    <2>1. CASE FreeItem
      BY <1>1, <2>1, DoomedInUse DEF FreeItem, Release
    <2>2. CASE ~FreeItem
      BY <1>1, <2>2 DEF ListNext, ListNew, Prepend, Add, Fresh, AddFails, HandOver,
             CreateIter, Begin, IterNext, IterReset, IterFree, IterChange,
             ListFree, ListFreed, listVars
    <2> QED BY <2>1, <2>2
  <1>2. Types /\ ListInv /\ [ListNext]_listVars =>
            [phase = "freeing" => phase' # "crashed"]_listVars
    BY <1>1
  <1> QED BY <1>2, ListInvariant, PTL DEF ListSpec, FreeingIsSafe

-----------------------------------------------------------------------------
(* The abstract list *)

\* The entries of the cells s, and how many of them an iterator has left.
EntriesOf(d, s) == [n \in 1 .. Len(s) |-> d[s[n]]]

LEMMA EntriesType ==
    ASSUME NEW s \in Seq(Items), NEW d \in [Items -> Entries]
    PROVE  /\ EntriesOf(d, s) \in Seq(Entries) /\ Len(EntriesOf(d, s)) = Len(s)
           /\ \A k \in 1 .. Len(s) : EntriesOf(d, s)[k] = d[s[k]]
  <1>1. \A k \in 1 .. Len(s) : d[s[k]] \in Entries
    OBVIOUS
  <1> QED BY <1>1 DEF EntriesOf

LEMMA EntriesPushed ==
    ASSUME NEW s \in Seq(Items), NEW i \in Items, i \notin Cells(s),
           NEW d \in [Items -> Entries], NEW e \in Entries
    PROVE  EntriesOf([d EXCEPT ![i] = e], Pushed(i, s)) = <<e>> \o EntriesOf(d, s)
  <1> DEFINE t == Pushed(i, s)
             d2 == [d EXCEPT ![i] = e]
             u == <<e>> \o EntriesOf(d, s)
  <1>1. t \in Seq(Items) /\ IsPushed(t, i, s)
    BY PushedIs
  <1>2. d2 \in [Items -> Entries] /\ d2[i] = e /\ \A j \in Cells(s) : d2[j] = d[j]
    BY DEF Cells
  <1> HIDE DEF t, d2
  <1>3. /\ EntriesOf(d2, t) \in Seq(Entries) /\ Len(EntriesOf(d2, t)) = Len(t)
        /\ \A k \in 1 .. Len(t) : EntriesOf(d2, t)[k] = d2[t[k]]
    BY <1>1, <1>2, EntriesType
  <1>4. /\ u \in Seq(Entries) /\ Len(u) = Len(s) + 1 /\ u[1] = e
        /\ \A k \in 2 .. Len(s) + 1 : u[k] = d[s[k - 1]]
    <2> DEFINE w == EntriesOf(d, s)
    <2>1. /\ w \in Seq(Entries) /\ Len(w) = Len(s)
          /\ \A k \in 1 .. Len(s) : w[k] = d[s[k]]
      BY EntriesType
    <2> HIDE DEF w
    <2>2. /\ <<e>> \o w \in Seq(Entries) /\ Len(<<e>> \o w) = Len(s) + 1
          /\ (<<e>> \o w)[1] = e
          /\ \A k \in 2 .. Len(s) + 1 : (<<e>> \o w)[k] = w[k - 1]
      BY <2>1
    <2>3. \A k \in 2 .. Len(s) + 1 : k - 1 \in 1 .. Len(s)
      OBVIOUS
    <2> QED BY <2>1, <2>2, <2>3 DEF w
  <1>5. /\ Len(t) = Len(s) + 1 /\ t[1] = i
        /\ \A k \in 2 .. Len(s) + 1 : t[k] = s[k - 1] /\ s[k - 1] \in Cells(s)
    <2>1. /\ Len(t) = Len(s) + 1 /\ t[1] = i
          /\ \A j \in 1 .. Len(t) : j = 1 \/ (j - 1 \in 1 .. Len(s) /\ t[j] = s[j - 1])
      BY <1>1 DEF IsPushed
    <2> QED BY <2>1 DEF Cells
  <1> HIDE DEF u
  <1>6. \A k \in 1 .. Len(s) + 1 : EntriesOf(d2, t)[k] = u[k]
    <2> TAKE k \in 1 .. Len(s) + 1
    <2>1. CASE k = 1
      BY <1>2, <1>3, <1>4, <1>5, <2>1
    <2>2. CASE k # 1
      BY <1>2, <1>3, <1>4, <1>5, <2>2
    <2> QED BY <2>1, <2>2
  <1>7. EntriesOf(d2, t) = u
    BY <1>3, <1>4, <1>5, <1>6
  <1> QED BY <1>7 DEF t, d2, u

LEMMA EntriesAppended ==
    ASSUME NEW s \in Seq(Items), NEW i \in Items, i \notin Cells(s),
           NEW d \in [Items -> Entries], NEW e \in Entries
    PROVE  EntriesOf([d EXCEPT ![i] = e], Append(s, i)) = Append(EntriesOf(d, s), e)
  <1> DEFINE t == Append(s, i)
             d2 == [d EXCEPT ![i] = e]
             u == Append(EntriesOf(d, s), e)
  <1>1. /\ t \in Seq(Items) /\ Len(t) = Len(s) + 1 /\ t[Len(s) + 1] = i
        /\ \A k \in 1 .. Len(s) : t[k] = s[k]
    OBVIOUS
  <1>2. d2 \in [Items -> Entries] /\ d2[i] = e /\ \A j \in Cells(s) : d2[j] = d[j]
    BY DEF Cells
  <1> HIDE DEF t, d2
  <1>3. /\ EntriesOf(d2, t) \in Seq(Entries) /\ Len(EntriesOf(d2, t)) = Len(t)
        /\ \A k \in 1 .. Len(t) : EntriesOf(d2, t)[k] = d2[t[k]]
    BY <1>1, <1>2, EntriesType
  <1>4. /\ u \in Seq(Entries) /\ Len(u) = Len(s) + 1 /\ u[Len(s) + 1] = e
        /\ \A k \in 1 .. Len(s) : u[k] = d[s[k]]
    BY EntriesType
  <1>5. \A k \in 1 .. Len(s) : s[k] \in Cells(s)
    BY DEF Cells
  <1> HIDE DEF u
  <1>6. \A k \in 1 .. Len(s) + 1 : EntriesOf(d2, t)[k] = u[k]
    <2> TAKE k \in 1 .. Len(s) + 1
    <2>1. CASE k = Len(s) + 1
      BY <1>1, <1>2, <1>3, <1>4, <2>1
    <2>2. CASE k # Len(s) + 1
      <3>1. k \in 1 .. Len(s) /\ k \in 1 .. Len(t)
        BY <1>1, <2>2
      <3> QED BY <1>1, <1>2, <1>3, <1>4, <1>5, <3>1
    <2> QED BY <2>1, <2>2
  <1>7. EntriesOf(d2, t) = u
    BY <1>1, <1>3, <1>4, <1>6
  <1> QED BY <1>7 DEF t, d2, u

LEMMA ChainReached == Chain = Reached(next, first) /\ Chain' = Reached(next', first')
  BY FromReached DEF Chain

\* A step that changes nothing of what the abstract list is made of.
LEMMA Unread ==
    ASSUME UNCHANGED <<next, data, first, iter>>
    PROVE  UNCHANGED Abstract!vars
  <1>1. Reached(next', first') = Reached(next, first)
    OBVIOUS
  <1>2. UNCHANGED <<Chain, [n \in 1 .. Len(Chain) |-> data[Chain[n]]],
                    {it \in Iters : iter[it].style # "none"},
                    [it \in Iters |-> Len(From(iter[it].cur))],
                    [it \in Iters |-> iter[it].shown]>>
    BY <1>1, ChainReached, FromReached
  <1> QED BY <1>2 DEF Abstract!vars

LEMMA NothingReached ==
    ASSUME NEW nx \in [Items -> Items \union {NULL}]
    PROVE  Reached(nx, NULL) = <<>>
  BY NoCells, ReachedIs

LEMMA InitMaps == ListInit => Abstract!Init
  <1> SUFFICES ASSUME ListInit
               PROVE  Abstract!Init
    OBVIOUS
  <1>1. next \in [Items -> Items \union {NULL}]
    BY DEF ListInit
  <1>2. From(NULL) = <<>> /\ Chain = <<>>
    BY <1>1, FromReached, NothingReached DEF ListInit, Chain
  <1>3. [n \in 1 .. Len(Chain) |-> data[Chain[n]]] = <<>>
    BY <1>2
  <1>4. \A it \in Iters : iter[it] = Unused
    BY DEF ListInit
  <1> QED BY <1>2, <1>3, <1>4 DEF Abstract!Init, Unused

\* The chain of the list is given up: nothing is left of it, while no iterator
\* is in use.
LEMMA DoomMaps ==
    ASSUME Types, Doom, UNCHANGED <<next, data, iter>>,
           \A it \in Iters : iter[it].style = "none"
    PROVE  Abstract!Free
  <1>1. Chain' = <<>>
    BY ChainReached, NothingReached DEF Doom, Types
  <1>2. [n \in 1 .. Len(Chain) |-> data[Chain[n]]]' = <<>>
    BY <1>1
  <1>3. {it \in Iters : iter[it].style # "none"} = {}
    OBVIOUS
  <1>4. UNCHANGED <<{it \in Iters : iter[it].style # "none"},
                    [it \in Iters |-> Len(From(iter[it].cur))],
                    [it \in Iters |-> iter[it].shown]>>
    BY FromReached
  <1> QED BY <1>2, <1>3, <1>4 DEF Abstract!Free

LEMMA UnusedLeft ==
    ASSUME Types, \A it \in Iters : iter[it] = Unused
    PROVE  \A it \in Iters : /\ iter[it].style = "none" /\ iter[it].shown = NULL
                             /\ From(iter[it].cur) = <<>>
  <1>1. Reached(next, NULL) = <<>>
    BY NothingReached DEF Types
  <1> QED BY <1>1, FromReached DEF Unused

LEMMA PrependMaps ==
    ASSUME Types, ListInv, Types', NEW i \in Items, NEW e \in Entries, Prepend(i, e)
    PROVE  Abstract!Prepend
  <1>1. PICK s \in Seq(Items) : ChainHolds(s)
    BY DEF ListInv
  <1>2. /\ phase = "filling" /\ <<i, 0>> \notin heap /\ UNCHANGED <<iter, phase>>
        /\ data' = [data EXCEPT ![i] = e]
    BY DEF Prepend, Fresh, Filled
  <1>3. Pushed(i, s) \in Seq(Items) /\ ChainHolds(Pushed(i, s))'
    BY <1>1, PrependChain
  <1>4. Chain = s
    BY <1>1, <1>2, ChainReached, ReachedIs DEF Types, ChainHolds, Start
  <1>5. Chain' = Pushed(i, s)
    BY <1>2, <1>3, ChainReached, ReachedIs DEF Types, ChainHolds, Start
  <1>6. i \notin Cells(s)
    BY <1>1, <1>2, FreshCell DEF ChainHolds
  <1>7. EntriesOf(data', Chain') = <<e>> \o EntriesOf(data, Chain)
    BY <1>2, <1>4, <1>5, <1>6, EntriesPushed DEF Types
  <1>8. \A it \in Iters : iter[it] = Unused
    BY <1>1, <1>2 DEF ChainHolds, Cursors
  <1>9. \A it \in Iters : From(iter[it].cur)' = From(iter[it].cur)
    BY <1>2, <1>8, FromReached, NothingReached DEF Types, Unused
  <1>10. UNCHANGED <<{it \in Iters : iter[it].style # "none"},
                     [it \in Iters |-> Len(From(iter[it].cur))],
                     [it \in Iters |-> iter[it].shown]>>
    BY <1>2, <1>9
  <1>11. [n \in 1 .. Len(Chain) |-> data[Chain[n]]]'
             = <<e>> \o [n \in 1 .. Len(Chain) |-> data[Chain[n]]]
    BY <1>7 DEF EntriesOf
  <1> QED BY <1>10, <1>11 DEF Abstract!Prepend

\* How many cells an iterator has left, and what it shows next.
LEMMA AtCursor ==
    ASSUME Types, NEW s \in Seq(Items), ChainHolds(s), phase = "live",
           NEW c \in Cells(s) \union {NULL}
    PROVE  /\ c = NULL => Len(From(c)) = 0
           /\ c # NULL =>
                  /\ Len(From(c)) \in 1 .. Len(s)
                  /\ c = s[Len(s) - Len(From(c)) + 1]
                  /\ Len(From(next[c])) = Len(From(c)) - 1
  <1>1. IsChain(next, first, s, NULL) /\ Distinct(s)
        /\ next \in [Items -> Items \union {NULL}]
    BY DEF ChainHolds, Start, Types
  <1>2. CASE c = NULL
    BY <1>1, <1>2, NothingReached, FromReached
  <1>3. CASE c # NULL
    <2>1. PICK k \in 1 .. Len(s) : c = s[k]
      BY <1>3 DEF Cells
    <2>2. Len(From(c)) = Len(s) + 1 - k /\ Len(From(next[c])) = Len(s) - k
      BY <1>1, <2>1, ReachedIs, FromReached
    <2>3. Len(s) - Len(From(c)) + 1 = k
      BY <2>2
    <2> QED BY <1>3, <2>1, <2>2, <2>3
  <1> QED BY <1>2, <1>3

LEMMA AddMaps ==
    ASSUME Types, ListInv, Types', NEW i \in Items, NEW e \in Entries, Add(i, e)
    PROVE  Abstract!AppendOne
  <1>1. PICK s \in Seq(Items) : ChainHolds(s)
    BY DEF ListInv
  <1>2. /\ phase = "live" /\ <<i, 0>> \notin heap /\ UNCHANGED <<iter, phase>>
        /\ data' = [data EXCEPT ![i] = e]
    BY DEF Add, Fresh, Filled
  <1>3. Append(s, i) \in Seq(Items) /\ ChainHolds(Append(s, i))'
    BY <1>1, AddChain
  <1>4. Chain = s
    BY <1>1, <1>2, ChainReached, ReachedIs DEF Types, ChainHolds, Start
  <1>5. Chain' = Append(s, i)
    BY <1>2, <1>3, ChainReached, ReachedIs DEF Types, ChainHolds, Start
  <1>6. i \notin Cells(s)
    BY <1>1, <1>2, FreshCell DEF ChainHolds
  <1>7. EntriesOf(data', Chain') = Append(EntriesOf(data, Chain), e)
    <2>1. data \in [Items -> Entries]
      BY DEF Types
    <2>2. EntriesOf([data EXCEPT ![i] = e], Append(s, i)) = Append(EntriesOf(data, s), e)
      BY <1>6, <2>1, EntriesAppended, Zenon
    <2> QED BY <1>2, <1>4, <1>5, <2>2, Zenon
  <1>8. ASSUME NEW it \in Iters
        PROVE  Len(From(iter[it].cur))' =
                   IF Len(From(iter[it].cur)) > 0 THEN Len(From(iter[it].cur)) + 1 ELSE 0
    <2>1. iter[it].cur \in Cells(s) \union {NULL} /\ iter'[it] = iter[it]
      BY <1>1, <1>2 DEF ChainHolds, Cursors
    <2>2. CASE iter[it].cur = NULL
      BY <2>1, <2>2, FromReached, NothingReached DEF Types
    <2>3. CASE iter[it].cur # NULL
      <3>1. PICK k \in 1 .. Len(s) : iter[it].cur = s[k]
        BY <2>1, <2>3 DEF Cells
      <3>2. k \in 1 .. Len(Append(s, i)) /\ Append(s, i)[k] = s[k]
            /\ Len(Append(s, i)) = Len(s) + 1
        OBVIOUS
      <3>3. IsChain(next, first, s, NULL) /\ Distinct(s)
            /\ IsChain(next', first', Append(s, i), NULL) /\ Distinct(Append(s, i))
        BY <1>1, <1>2, <1>3 DEF ChainHolds, Start
      <3>4. Len(Reached(next, s[k])) = Len(s) + 1 - k
        BY <3>3, ReachedIs DEF Types
      <3>5. Len(Reached(next', Append(s, i)[k])) = Len(Append(s, i)) + 1 - k
        BY <1>3, <3>2, <3>3, ReachedIs DEF Types
      <3>6. Len(From(iter[it].cur)) = Len(s) + 1 - k
            /\ Len(From(iter[it].cur))' = Len(s) + 1 + 1 - k
        BY <2>1, <3>1, <3>2, <3>4, <3>5, FromReached
      <3> QED BY <3>6
    <2> QED BY <2>2, <2>3
  <1>9. [it \in Iters |-> Len(From(iter[it].cur))]' =
            [it \in Iters |-> IF [o \in Iters |-> Len(From(iter[o].cur))][it] > 0
                              THEN [o \in Iters |-> Len(From(iter[o].cur))][it] + 1 ELSE 0]
    BY <1>8
  <1>10. UNCHANGED <<{it \in Iters : iter[it].style # "none"},
                     [it \in Iters |-> iter[it].shown]>>
    BY <1>2
  <1>11. [n \in 1 .. Len(Chain) |-> data[Chain[n]]]'
             = Append([n \in 1 .. Len(Chain) |-> data[Chain[n]]], e)
    BY <1>7 DEF EntriesOf
  <1> QED BY <1>9, <1>10, <1>11 DEF Abstract!AppendOne

LEMMA IteratorsMap ==
    ASSUME Types, ListInv, NEW it \in Iters
    PROVE  /\ CreateIter(it) => Abstract!Create(it)
           /\ Begin(it) => Abstract!Begin(it)
           /\ IterNext(it) => Abstract!Advance(it)
           /\ IterReset(it) => Abstract!Reset(it)
           /\ IterFree(it) => Abstract!Drop(it)
  <1> DEFINE entries == [n \in 1 .. Len(Chain) |-> data[Chain[n]]]
             open == {o \in Iters : iter[o].style # "none"}
             left == [o \in Iters |-> Len(From(iter[o].cur))]
             shown == [o \in Iters |-> iter[o].shown]
  <1>1. SUFFICES ASSUME CreateIter(it) \/ Begin(it) \/ IterNext(it) \/ IterReset(it)
                            \/ IterFree(it)
                 PROVE  /\ CreateIter(it) => Abstract!Create(it)
                        /\ Begin(it) => Abstract!Begin(it)
                        /\ IterNext(it) => Abstract!Advance(it)
                        /\ IterReset(it) => Abstract!Reset(it)
                        /\ IterFree(it) => Abstract!Drop(it)
    OBVIOUS
  <1>2. /\ phase = "live"
        /\ UNCHANGED <<kind, phase, heap, next, data, first, last, size, doomed>>
    BY <1>1 DEF CreateIter, Begin, IterNext, IterReset, IterFree, IterChange
  <1>3. PICK s \in Seq(Items) : ChainHolds(s)
    BY DEF ListInv
  <1>4. Chain = s /\ From(first) = s /\ From(NULL) = <<>>
    BY <1>2, <1>3, ChainReached, FromReached, ReachedIs DEF Types, ChainHolds, Start
  <1>5. entries' = entries
    <2>1. Chain' = Chain
      BY <1>2, ChainReached
    <2> QED BY <1>2, <2>1
  <1>6. entries \in Seq(Entries) /\ Len(entries) = Len(s)
        /\ \A k \in 1 .. Len(s) : entries[k] = data[s[k]]
    BY <1>4, EntriesType DEF EntriesOf, Types
  <1>7. \A c : From(c)' = From(c)
    BY <1>2, FromReached
  <1>8. iter[it].style = "none" => iter[it] = Unused
    BY <1>3 DEF ChainHolds, Cursors
  <1>9. first \in Cells(s) \union {NULL} /\ iter[it].cur \in Cells(s) \union {NULL}
    BY <1>2, <1>3, HeadInReach DEF Start, ChainHolds, Cursors
  <1>10. ASSUME NEW new, IterChange(it, new)
         PROVE  /\ left' = [left EXCEPT ![it] = Len(From(new.cur))]
                /\ shown' = [shown EXCEPT ![it] = new.shown]
                /\ open' = IF new.style # "none" THEN open \union {it} ELSE open \ {it}
    <2>1. \A o \in Iters : iter'[o] = IF o = it THEN new ELSE iter[o]
      BY <1>10 DEF IterChange, Types
    <2>2. left' = [left EXCEPT ![it] = Len(From(new.cur))]
      BY <1>7, <2>1
    <2>3. shown' = [shown EXCEPT ![it] = new.shown]
      BY <2>1
    <2>4. open' = IF new.style # "none" THEN open \union {it} ELSE open \ {it}
      BY <2>1
    <2> QED BY <2>2, <2>3, <2>4
  <1>11. ASSUME NEW c \in Cells(s) \union {NULL}, NEW style
         PROVE  /\ Len(From(Stepped(style, c).cur)) = Abstract!Rest(Len(From(c)))
                /\ Stepped(style, c).shown = Abstract!Upcoming(Len(From(c)))
    <2>1. CASE c = NULL
      BY <1>4, <2>1 DEF Stepped, Abstract!Rest, Abstract!Upcoming
    <2>2. CASE c # NULL
      <3>1. /\ Len(From(c)) \in 1 .. Len(s)
            /\ c = s[Len(s) - Len(From(c)) + 1]
            /\ Len(From(next[c])) = Len(From(c)) - 1
        BY <1>2, <1>3, <2>2, AtCursor
      <3>2. Abstract!Rest(Len(From(c))) = Len(From(c)) - 1
        BY <3>1 DEF Abstract!Rest
      <3>3. Abstract!Upcoming(Len(From(c))) = entries[Len(entries) - Len(From(c)) + 1]
        BY <3>1 DEF Abstract!Upcoming
      <3>4. Len(s) - Len(From(c)) + 1 \in 1 .. Len(s)
        BY <3>1
      <3>5. Abstract!Upcoming(Len(From(c))) = data[c]
        BY <1>6, <3>1, <3>3, <3>4
      <3> QED BY <2>2, <3>1, <3>2, <3>5 DEF Stepped
    <2> QED BY <2>1, <2>2
  <1>12. Len(From(first)) = Len(entries)
    BY <1>4, <1>6
  <1>13. left[it] = Len(From(iter[it].cur)) /\ shown[it] = iter[it].shown
         /\ (it \in open <=> iter[it].style # "none")
    OBVIOUS
  <1>14. shown = [shown EXCEPT ![it] = iter[it].shown]
    OBVIOUS
  <1> HIDE DEF entries, open, left, shown
  <1>15. ASSUME CreateIter(it)
         PROVE  Abstract!Create(it)
    <2> DEFINE new == [style |-> "plain", cur |-> first, shown |-> NULL]
    <2>1. iter[it].style = "none" /\ IterChange(it, new)
      BY <1>15 DEF CreateIter
    <2>2. new.cur = first /\ new.style = "plain" /\ new.shown = iter[it].shown
      BY <1>8, <2>1 DEF Unused
    <2> HIDE DEF new
    <2>3. it \notin open /\ open' = open \union {it}
          /\ left' = [left EXCEPT ![it] = Len(entries)] /\ shown' = shown
      BY <1>10, <1>12, <1>13, <1>14, <2>1, <2>2
    <2> QED BY <1>5, <2>3 DEF Abstract!Create, entries, open, left, shown
  <1>16. ASSUME Begin(it)
         PROVE  Abstract!Begin(it)
    <2> DEFINE new == Stepped("wrapped", first)
    <2>1. iter[it].style = "none" /\ IterChange(it, new)
      BY <1>16 DEF Begin
    <2>2. /\ Len(From(new.cur)) = Abstract!Rest(Len(entries))
          /\ new.shown = Abstract!Upcoming(Len(entries)) /\ new.style = "wrapped"
      BY <1>9, <1>11, <1>12 DEF Stepped
    <2> HIDE DEF new
    <2>3. /\ it \notin open /\ open' = open \union {it}
          /\ left' = [left EXCEPT ![it] = Abstract!Rest(Len(entries))]
          /\ shown' = [shown EXCEPT ![it] = Abstract!Upcoming(Len(entries))]
      BY <1>10, <1>13, <2>1, <2>2
    <2> QED BY <1>5, <2>3 DEF Abstract!Begin, entries, open, left, shown
  <1>17. ASSUME IterNext(it)
         PROVE  Abstract!Advance(it)
    <2> DEFINE new == Stepped(iter[it].style, iter[it].cur)
    <2>1. iter[it].style # "none" /\ IterChange(it, new)
      BY <1>17 DEF IterNext
    <2>2. /\ Len(From(new.cur)) = Abstract!Rest(left[it])
          /\ new.shown = Abstract!Upcoming(left[it]) /\ new.style = iter[it].style
      BY <1>9, <1>11, <1>13 DEF Stepped
    <2> HIDE DEF new
    <2>3. /\ it \in open /\ open' = open
          /\ left' = [left EXCEPT ![it] = Abstract!Rest(left[it])]
          /\ shown' = [shown EXCEPT ![it] = Abstract!Upcoming(left[it])]
      BY <1>10, <1>13, <2>1, <2>2
    <2> QED BY <1>5, <2>3 DEF Abstract!Advance, entries, open, left, shown
  <1>18. ASSUME IterReset(it)
         PROVE  Abstract!Reset(it)
    <2> DEFINE new == [iter[it] EXCEPT !.cur = first,
                           !.shown = IF iter[it].style = "wrapped" THEN NULL ELSE @]
    <2>1. iter[it].style # "none" /\ IterChange(it, new)
      BY <1>18 DEF IterReset
    <2>2. new.cur = first /\ new.style = iter[it].style
          /\ new.shown \in {NULL, iter[it].shown}
      BY DEF Types, Iterators
    <2> HIDE DEF new
    <2>3. /\ it \in open /\ open' = open
          /\ left' = [left EXCEPT ![it] = Len(entries)]
          /\ shown' \in {shown, [shown EXCEPT ![it] = NULL]}
      BY <1>10, <1>12, <1>13, <1>14, <2>1, <2>2
    <2> QED BY <1>5, <2>3 DEF Abstract!Reset, entries, open, left, shown
  <1>19. ASSUME IterFree(it)
         PROVE  Abstract!Drop(it)
    <2>1. iter[it].style # "none" /\ IterChange(it, Unused)
      BY <1>19 DEF IterFree
    <2>2. Len(From(Unused.cur)) = 0 /\ Unused.style = "none" /\ Unused.shown = NULL
      BY <1>4 DEF Unused
    <2>3. /\ it \in open /\ open' = open \ {it}
          /\ left' = [left EXCEPT ![it] = 0]
          /\ shown' = [shown EXCEPT ![it] = NULL]
      BY <1>10, <1>13, <2>1, <2>2
    <2> QED BY <1>5, <2>3 DEF Abstract!Drop, entries, open, left, shown
  <1> QED BY <1>15, <1>16, <1>17, <1>18, <1>19

LEMMA ListStepMaps ==
    Types /\ ListInv /\ Types' /\ [ListNext]_listVars
        => [Abstract!Next]_(Abstract!vars)
  <1> SUFFICES ASSUME Types, ListInv, Types', [ListNext]_listVars
               PROVE  Abstract!Next \/ UNCHANGED Abstract!vars
    OBVIOUS
  <1>1. CASE ListNew
    <2>1. UNCHANGED <<next, data, first, iter>>
      BY <1>1 DEF ListNew, ListInv
    <2> QED BY <2>1, Unread
  <1>2. CASE HandOver \/ FreeItem \/ ListFreed
    BY <1>2, Unread DEF HandOver, FreeItem, Release, ListFreed
  <1>3. CASE ListFree
    BY <1>3, DoomMaps DEF ListFree, Abstract!Next
  <1>4. ASSUME NEW i \in Items, NEW d \in [Parts -> Data], Prepend(i, d) \/ Add(i, d)
        PROVE  Abstract!Next
    BY <1>4, EntryType, PrependMaps, AddMaps DEF Abstract!Next
  <1>5. ASSUME NEW i \in Items, NEW d \in [Parts -> Data], AddFails(i, d)
        PROVE  Abstract!Next \/ UNCHANGED Abstract!vars
    <2>1. UNCHANGED <<next, data, iter>>
          /\ ((phase = "filling" /\ Doom) \/ UNCHANGED first)
      BY <1>5 DEF AddFails, Kept
    <2>2. phase = "filling" => \A it \in Iters : iter[it].style = "none"
      BY DEF ListInv, ChainHolds, Cursors, Unused
    <2> QED BY <2>1, <2>2, Unread, DoomMaps DEF Abstract!Next
  <1>6. ASSUME NEW it \in Iters,
               CreateIter(it) \/ Begin(it) \/ IterNext(it) \/ IterReset(it) \/ IterFree(it)
        PROVE  Abstract!Next
    BY <1>6, IteratorsMap DEF Abstract!Next
  <1>7. CASE UNCHANGED listVars
    BY <1>7, Unread DEF listVars
  <1> QED BY <1>1, <1>2, <1>3, <1>4, <1>5, <1>6, <1>7 DEF ListNext

\* Every step of a list and its iterators is a step of AbstractList or none: an
\* iterator shows the entries in front of it, once and in order, also the empty
\* ones and those that are appended while it goes.
THEOREM ListImplements == ListSpec => ImplementsList
  <1>1. ListInit => Abstract!Init
    BY InitMaps
  <1>2. Types /\ ListInv /\ Types' /\ [ListNext]_listVars
            => [Abstract!Next]_(Abstract!vars)
    BY ListStepMaps
  <1> QED BY <1>1, <1>2, ListInvariant, PTL DEF ListSpec, ImplementsList, Abstract!Spec

=============================================================================
