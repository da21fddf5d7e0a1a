---------------------------- MODULE NurseryProofs ----------------------------
(***************************************************************************)
(* Proofs about the nursery client, for every set of routings, keys and    *)
(* clusters and every bound of the keeper's connection.                    *)
(*                                                                         *)
(* InstalledIsAnswer is an action property of the last step of an update;  *)
(* it holds because of what is in the connection before it, as InStepInv   *)
(* says: while nothing was left unread, the connection holds the answer to *)
(* the update in progress and nothing else, and nothing between updates.   *)
(***************************************************************************)
EXTENDS Nursery, DataLemmas

\* What each step of an update has to go on with.
StepInv ==
    /\ ~keeper => stream = <<>>
    /\ phase \notin {"ready", "crashed"} => routing = NULL
    /\ phase = "code" => stream # <<>>
    /\ phase = "string" => stream # <<>> /\ Head(stream) \in Routings
    /\ phase = "parse" => fetched \in Routings

InStepInv ==
    inStep =>
        /\ phase \in {"ready", "freed"} => stream = <<>>
        /\ phase \in {"code", "string"} => stream = <<answer>>
        /\ phase = "parse" => stream = <<>> /\ fetched = answer

IInv == TypeOK /\ LinksOfRouting /\ StepInv /\ InStepInv

-----------------------------------------------------------------------------
(* The comparison of lookup *)

\* lookup orders a key before a boundary exactly when it precedes it, except for
\* the keys that start the boundary: these precede it, and lookup never says so
\* (_arakoon_nursery_routing_node_lookup).
THEOREM Comparison ==
    ASSUME NEW key \in Seq(Nat \ {0}), NEW b \in Seq(Nat)
    PROVE  IF StartsIn(key, b) THEN Precedes(key, b) /\ ~Less(key, b)
                               ELSE Less(key, b) <=> Precedes(key, b)
<1>0. /\ \A i \in 1 .. Len(key) : key[i] \in Nat /\ key[i] > 0
      /\ Len(b) \in Nat /\ Len(key) \in Nat
      /\ \A i \in 1 .. Len(b) : b[i] \in Nat
  OBVIOUS
<1>1. ASSUME StartsIn(key, b)
      PROVE  Precedes(key, b) /\ ~Less(key, b)
  BY <1>0, <1>1 DEF StartsIn, Precedes, Less, Byte
<1>2. ASSUME ~StartsIn(key, b), Less(key, b)
      PROVE  Precedes(key, b)
  <2>1. PICK i \in 1 .. Len(key) :
            /\ key[i] < Byte(b, i)
            /\ \A j \in 1 .. i - 1 : key[j] = Byte(b, j)
    BY <1>2 DEF Less
  <2>2. i <= Len(b) /\ key[i] < b[i]
    BY <1>0, <2>1 DEF Byte
  <2>3. \A j \in 1 .. i - 1 : key[j] = b[j]
    BY <1>0, <2>1, <2>2 DEF Byte
  <2> QED
    BY <2>2, <2>3 DEF Precedes
<1>3. ASSUME ~StartsIn(key, b), Precedes(key, b)
      PROVE  Less(key, b)
  <2>1. PICK i \in 1 .. Len(key) :
            /\ i <= Len(b) /\ key[i] < b[i]
            /\ \A j \in 1 .. i - 1 : key[j] = b[j]
    BY <1>3 DEF Precedes
  <2>2. \A j \in 1 .. i : Byte(b, j) = b[j]
    BY <1>0, <2>1 DEF Byte
  <2>3. key[i] < Byte(b, i)
    BY <1>0, <2>1, <2>2
  <2>4. \A j \in 1 .. i - 1 : key[j] = Byte(b, j)
    BY <1>0, <2>1, <2>2
  <2> QED
    BY <2>3, <2>4 DEF Less
<1> QED
  BY <1>1, <1>2, <1>3

-----------------------------------------------------------------------------
(* The way of lookup through a tree *)

\* Where lookup goes on from node n.
Onward(tree, n, key) == IF tree[n].leaf THEN n ELSE Append(n, Turn(tree, n, key))

\* The nodes it comes to, one after the other.
Way(tree, key) ==
    LET last == Cardinality(DOMAIN tree)
        at[k \in 0 .. last] ==
            IF k = 0 THEN <<>>
            ELSE LET n == at[k - 1]
                 IN  IF tree[n].leaf THEN n ELSE Append(n, Turn(tree, n, key))
    IN  at

\* Every turn that leads to n is the one that the key takes there.
TurnsTaken(tree, n, key) ==
    \A k \in 1 .. Len(n) :
        LET a == SubSeq(n, 1, k - 1)
        IN  /\ a \in DOMAIN tree /\ ~tree[a].leaf
            /\ n[k] = Turn(tree, a, key)

LEMMA OnwardInTree ==
    ASSUME NEW tree, IsTree(tree), NEW key, NEW n \in DOMAIN tree
    PROVE  Onward(tree, n, key) \in DOMAIN tree
BY DEF IsTree, Onward, Turn, Turns

LEMMA WayIs ==
    ASSUME NEW tree, IsTree(tree), NEW key, NEW N \in Nat, N = Cardinality(DOMAIN tree)
    PROVE  /\ Way(tree, key) \in [0 .. N -> DOMAIN tree] /\ Way(tree, key)[0] = <<>>
           /\ \A k \in 1 .. N :
                  Way(tree, key)[k] = Onward(tree, Way(tree, key)[k - 1], key)
<1> DEFINE go == [k \in 1 .. N |-> [n \in DOMAIN tree |-> Onward(tree, n, key)]]
           Obeys(w) == w = [k \in 0 .. N |->
                               IF k = 0 THEN <<>> ELSE Onward(tree, w[k - 1], key)]
<1>1. go \in [1 .. N -> [DOMAIN tree -> DOMAIN tree]]
  BY OnwardInTree
<1>2. PICK f : IsRecursiveTo(f, N, DOMAIN tree, <<>>, go)
  <2>1. <<>> \in DOMAIN tree
    BY DEF IsTree
  <2> HIDE DEF go
  <2> QED
    BY <1>1, <2>1, RecursionTo
<1>3. /\ f \in [0 .. N -> DOMAIN tree] /\ f[0] = <<>>
      /\ \A k \in 1 .. N : f[k] = Onward(tree, f[k - 1], key)
  <2>1. /\ f \in [0 .. N -> DOMAIN tree] /\ f[0] = <<>>
        /\ \A k \in 1 .. N : f[k] = go[k][f[k - 1]]
    BY <1>2 DEF IsRecursiveTo
  <2>2. ASSUME NEW k \in 1 .. N
        PROVE  f[k] = Onward(tree, f[k - 1], key)
    <3>1. k - 1 \in 0 .. N
      OBVIOUS
    <3>2. f[k - 1] \in DOMAIN tree
      BY <2>1, <3>1
    <3> QED
      BY <2>1, <3>2
  <2> QED
    BY <2>1, <2>2
<1>4. Obeys(f)
  BY <1>3
<1>5. Obeys(Way(tree, key))
  <2>1. Way(tree, key) = CHOOSE w : Obeys(w)
    BY DEF Way, Onward
  <2> HIDE DEF Obeys
  <2> QED
    BY <1>4, <2>1
<1> DEFINE at == Way(tree, key)
<1> HIDE DEF at
<1>6. at = [k \in 0 .. N |-> IF k = 0 THEN <<>> ELSE Onward(tree, at[k - 1], key)]
  BY <1>5 DEF at
<1>7. at[0] = <<>> /\ \A k \in 1 .. N : at[k] = Onward(tree, at[k - 1], key)
  BY <1>6
<1> DEFINE T == {k \in Nat : k <= N => at[k] \in DOMAIN tree}
<1>8. Nat \subseteq T
  <2>1. 0 \in T
    BY <1>7 DEF IsTree
  <2>2. ASSUME NEW k \in Nat, k \in T
        PROVE  k + 1 \in T
    <3>1. SUFFICES ASSUME k + 1 <= N
                   PROVE  at[k + 1] \in DOMAIN tree
      OBVIOUS
    <3> DEFINE j == k + 1
    <3>2. j \in 1 .. N /\ j - 1 = k /\ k <= N
      BY <3>1
    <3> HIDE DEF j
    <3>3. at[j] = Onward(tree, at[k], key) /\ at[k] \in DOMAIN tree
      BY <1>7, <2>2, <3>2
    <3> QED
      BY <3>3, OnwardInTree DEF j
  <2> HIDE DEF T
  <2> QED
    BY <2>1, <2>2, Inductive
<1>9. at \in [0 .. N -> DOMAIN tree]
  <2>1. \A k \in 0 .. N : at[k] \in DOMAIN tree
    BY <1>8
  <2> QED
    BY <1>6, <2>1
<1> QED
  BY <1>7, <1>9 DEF at

LEMMA OnwardTurns ==
    ASSUME NEW tree, IsTree(tree), NEW key, NEW n \in DOMAIN tree, TurnsTaken(tree, n, key)
    PROVE  TurnsTaken(tree, Onward(tree, n, key), key)
<1>1. CASE tree[n].leaf
  BY <1>1 DEF Onward
<1>2. CASE ~tree[n].leaf
  <2> DEFINE t == Turn(tree, n, key)
             m == Append(n, t)
  <2>1. n \in Seq(Turns) /\ t \in Turns
    BY DEF IsTree, Turn, Turns
  <2>2. Onward(tree, n, key) = m
    BY <1>2 DEF Onward
  <2>3. /\ Len(m) = Len(n) + 1 /\ m[Len(n) + 1] = t
        /\ \A k \in 1 .. Len(n) : m[k] = n[k]
    BY <2>1
  <2>4. \A k \in 0 .. Len(n) : SubSeq(m, 1, k) = SubSeq(n, 1, k)
    BY <2>1
  <2>5. SubSeq(n, 1, Len(n)) = n
    BY <2>1
  <2> HIDE DEF t, m
  <2>6. ASSUME NEW k \in 1 .. Len(m)
        PROVE  LET a == SubSeq(m, 1, k - 1)
               IN  /\ a \in DOMAIN tree /\ ~tree[a].leaf
                   /\ m[k] = Turn(tree, a, key)
    <3>1. CASE k = Len(n) + 1
      <4>1. SubSeq(m, 1, k - 1) = n
        <5>1. k - 1 = Len(n) /\ Len(n) \in 0 .. Len(n)
          BY <2>1, <3>1
        <5> QED
          BY <2>4, <2>5, <5>1
      <4> QED
        BY <1>2, <2>3, <3>1, <4>1 DEF t
    <3>2. CASE k # Len(n) + 1
      <4>1. k \in 1 .. Len(n) /\ k - 1 \in 0 .. Len(n)
        BY <2>1, <2>3, <3>2
      <4>2. SubSeq(m, 1, k - 1) = SubSeq(n, 1, k - 1) /\ m[k] = n[k]
        BY <2>3, <2>4, <4>1
      <4> QED
        BY <4>1, <4>2 DEF TurnsTaken
    <3> QED
      BY <3>1, <3>2
  <2> QED
    BY <2>2, <2>6 DEF TurnsTaken
<1> QED
  BY <1>1, <1>2

\* A tree is too small for a way that takes as many turns as it has nodes.
LEMMA LeafReached ==
    ASSUME NEW tree, IsTree(tree), NEW key, NEW N \in Nat, N = Cardinality(DOMAIN tree)
    PROVE  tree[Way(tree, key)[N]].leaf
<1> DEFINE at == Way(tree, key)
<1>1. /\ at \in [0 .. N -> DOMAIN tree] /\ at[0] = <<>>
      /\ \A k \in 1 .. N : at[k] = Onward(tree, at[k - 1], key)
  BY WayIs
<1> HIDE DEF at
<1>2. SUFFICES ASSUME ~tree[at[N]].leaf
               PROVE  FALSE
  BY DEF at
<1> DEFINE T == {k \in Nat : k <= N => ~tree[at[N - k]].leaf}
<1>3. 0 \in T
  BY <1>2
<1>4. ASSUME NEW k \in Nat, k \in T
      PROVE  k + 1 \in T
  <2>1. SUFFICES ASSUME k + 1 <= N
                 PROVE  ~tree[at[N - (k + 1)]].leaf
    OBVIOUS
  <2> DEFINE j == N - k
  <2>2. j \in 1 .. N /\ N - (k + 1) = j - 1 /\ k <= N
    BY <2>1
  <2>3. ~tree[at[j]].leaf
    BY <1>4, <2>2
  <2> HIDE DEF j
  <2>4. at[j] = Onward(tree, at[j - 1], key)
    BY <1>1, <2>2
  <2> QED
    BY <2>2, <2>3, <2>4 DEF Onward
<1>5. Nat \subseteq T
  <2> HIDE DEF T
  <2> QED
    BY <1>3, <1>4, Inductive
<1>6. \A k \in 0 .. N : ~tree[at[k]].leaf
  <2> SUFFICES ASSUME NEW k \in 0 .. N
               PROVE  ~tree[at[k]].leaf
    OBVIOUS
  <2>1. N - k \in T /\ N - k <= N /\ N - (N - k) = k
    BY <1>5
  <2> QED
    BY <2>1
<1> HIDE DEF T
<1> DEFINE U == {k \in Nat : k <= N => Len(at[k]) = k}
<1>7. 0 \in U
  BY <1>1
<1>8. ASSUME NEW k \in Nat, k \in U
      PROVE  k + 1 \in U
  <2>1. SUFFICES ASSUME k + 1 <= N
                 PROVE  Len(at[k + 1]) = k + 1
    OBVIOUS
  <2> DEFINE j == k + 1
  <2>2. j \in 1 .. N /\ j - 1 = k /\ k <= N /\ k \in 0 .. N
    BY <2>1
  <2> HIDE DEF j
  <2>3. at[j] = Onward(tree, at[k], key) /\ ~tree[at[k]].leaf
    BY <1>1, <1>6, <2>2
  <2>4. at[j] = Append(at[k], Turn(tree, at[k], key))
    BY <2>3 DEF Onward
  <2>5. at[k] \in Seq(Turns) /\ Turn(tree, at[k], key) \in Turns
    BY <1>1, <2>2 DEF IsTree, Turn, Turns
  <2>6. Len(at[k]) = k
    BY <1>8, <2>2
  <2> QED
    BY <2>4, <2>5, <2>6 DEF j
<1>9. Nat \subseteq U
  <2> HIDE DEF U
  <2> QED
    BY <1>7, <1>8, Inductive
<1>10. \A k \in 0 .. N : Len(at[k]) = k
  BY <1>9
<1> DEFINE s == [k \in 1 .. N + 1 |-> at[k - 1]]
<1>11. s \in Seq(DOMAIN tree) /\ Len(s) = N + 1
  <2>1. \A k \in 1 .. N + 1 : at[k - 1] \in DOMAIN tree
    BY <1>1
  <2> QED
    BY <2>1
<1>12. Distinct(s)
  <2>1. SUFFICES ASSUME NEW j \in 1 .. N + 1, NEW k \in 1 .. N + 1, s[j] = s[k]
                 PROVE  j = k
    BY <1>11 DEF Distinct
  <2>2. j - 1 \in 0 .. N /\ k - 1 \in 0 .. N /\ at[j - 1] = at[k - 1]
    BY <2>1
  <2>3. Len(at[j - 1]) = j - 1 /\ Len(at[k - 1]) = k - 1
    BY <1>10, <2>2
  <2> QED
    BY <2>2, <2>3
<1> HIDE DEF s
<1>13. IsFiniteSet(Cells(s)) /\ Cardinality(Cells(s)) = N + 1
  BY <1>11, <1>12, CountedCells
<1>14. Cells(s) \subseteq DOMAIN tree
  BY <1>11 DEF Cells
<1>15. Cardinality(Cells(s)) <= N
  BY <1>14, FS_Subset DEF IsTree
<1> QED
  BY <1>13, <1>15

\* lookup comes to the leaf in whose range the key is.
LEMMA LookupOwner ==
    ASSUME NEW tree, IsTree(tree), NEW key \in Seq(Nat \ {0})
    PROVE  \E n \in DOMAIN tree : /\ tree[n].leaf /\ tree[n].cluster = NodeLookup(tree, key)
                                  /\ InRange(tree, n, key)
<1>1. PICK N \in Nat : N = Cardinality(DOMAIN tree)
  BY FS_CardinalityType DEF IsTree
<1> DEFINE at == Way(tree, key)
<1>2. NodeLookup(tree, key) = tree[at[N]].cluster
  BY <1>1 DEF NodeLookup, Way
<1>3. tree[at[N]].leaf
  BY <1>1, LeafReached
<1>4. /\ at \in [0 .. N -> DOMAIN tree] /\ at[0] = <<>>
      /\ \A k \in 1 .. N : at[k] = Onward(tree, at[k - 1], key)
  BY <1>1, WayIs
<1> HIDE DEF at
<1> DEFINE T == {k \in Nat : k <= N => TurnsTaken(tree, at[k], key)}
<1>5. 0 \in T
  BY <1>4 DEF TurnsTaken
<1>6. ASSUME NEW k \in Nat, k \in T
      PROVE  k + 1 \in T
  <2>1. SUFFICES ASSUME k + 1 <= N
                 PROVE  TurnsTaken(tree, at[k + 1], key)
    OBVIOUS
  <2> DEFINE j == k + 1
  <2>2. j \in 1 .. N /\ j - 1 = k /\ k <= N /\ k \in 0 .. N
    BY <2>1
  <2> HIDE DEF j
  <2>3. /\ at[j] = Onward(tree, at[k], key) /\ at[k] \in DOMAIN tree
        /\ TurnsTaken(tree, at[k], key)
    BY <1>4, <1>6, <2>2
  <2>4. TurnsTaken(tree, at[j], key)
    BY <2>3, OnwardTurns
  <2> QED
    BY <2>4 DEF j
<1>7. Nat \subseteq T
  <2> HIDE DEF T
  <2> QED
    BY <1>5, <1>6, Inductive
<1> DEFINE n == at[N]
<1>8. n \in DOMAIN tree /\ TurnsTaken(tree, n, key)
  BY <1>4, <1>7
<1> HIDE DEF n
<1>9. ASSUME NEW k \in 1 .. Len(n), ~StartsIn(key, tree[SubSeq(n, 1, k - 1)].boundary)
      PROVE  n[k] = "left" <=> Precedes(key, tree[SubSeq(n, 1, k - 1)].boundary)
  <2> DEFINE a == SubSeq(n, 1, k - 1)
  <2>1. a \in DOMAIN tree /\ ~tree[a].leaf /\ n[k] = Turn(tree, a, key)
    BY <1>8 DEF TurnsTaken
  <2> HIDE DEF a
  <2>2. tree[a].boundary \in Seq(Nat)
    BY <2>1 DEF IsTree
  <2>3. ~StartsIn(key, tree[a].boundary)
    BY <1>9 DEF a
  <2>4. Less(key, tree[a].boundary) <=> Precedes(key, tree[a].boundary)
    BY <2>2, <2>3, Comparison
  <2>5. n[k] = "left" <=> Less(key, tree[a].boundary)
    BY <2>1 DEF Turn
  <2> QED
    BY <2>4, <2>5 DEF a
<1>10. InRange(tree, n, key)
  BY <1>9 DEF InRange
<1> QED
  BY <1>2, <1>3, <1>8, <1>10 DEF n

-----------------------------------------------------------------------------
(* The results of calls on clusters *)

LEMMA OutcomesTyped ==
    ASSUME NEW call, NEW o \in Cluster!Outcomes(call)
    PROVE  o.rc \in Results /\ o.usable \in BOOLEAN
<1>1. /\ o.rc \in {"OK", "ENOMEM", "IO", "SERVER"}
      /\ o.usable \in BOOLEAN
  <2>1. CASE o = Cluster!Outcome("OK", TRUE)
    BY <2>1 DEF Cluster!Outcome
  <2>2. CASE o = Cluster!Outcome("ENOMEM", TRUE)
    BY <2>2 DEF Cluster!Outcome
  <2>3. CASE o = Cluster!Outcome("IO", FALSE)
    BY <2>3 DEF Cluster!Outcome
  <2>4. CASE \E u \in BOOLEAN : o = Cluster!Outcome("SERVER", u)
    BY <2>4 DEF Cluster!Outcome
  <2>5. CASE o = Cluster!Outcome("IO", TRUE)
    BY <2>5 DEF Cluster!Outcome
  <2> QED
    BY <2>1, <2>2, <2>3, <2>4, <2>5 DEF Cluster!Outcomes
<1> QED
  BY <1>1 DEF Cluster!ConnectErrors, Results

LEMMA ConnectTyped ==
    ASSUME NEW o \in Cluster!ConnectOutcomes
    PROVE  o.rc \in Results /\ o.usable \in BOOLEAN
BY DEF Cluster!ConnectOutcomes, Cluster!ConnectErrors, Results

LEMMA RefusalTyped ==
    ASSUME NEW r \in {"NOT_CONNECTED", "NETWORK_ERROR"}
    PROVE  LET o == Cluster!Outcome(r, FALSE)
           IN  o.rc \in Results /\ o.usable \in BOOLEAN
BY DEF Cluster!Outcome, Cluster!ConnectErrors, Results

\* What is installed has a tree of the parser and no clusters but those it was
\* answered with.
LEMMA InstallableIs ==
    ASSUME NEW r \in Installable
    PROVE  IsTree(r.tree) /\ r.clusters \subseteq Clusters
<1>1. CASE r \in Routings
  BY <1>1, TreesAssumption, ClustersAssumption
<1>2. CASE \E q \in Routings : r \in Shortened(q)
  <2>1. PICK q \in Routings : r \in Shortened(q)
    BY <1>2
  <2>2. PICK s \in UNION {SUBSET (q.clusters \ {c}) : c \in q.nodeless} :
            r = [tree |-> q.tree, clusters |-> s, nodeless |-> q.nodeless \cap s,
                 trailing |-> FALSE]
    BY <2>1 DEF Shortened
  <2>3. r.tree = q.tree /\ r.clusters = s
    BY <2>2
  <2>4. s \subseteq q.clusters
    BY <2>2
  <2> QED
    BY <2>3, <2>4, TreesAssumption, ClustersAssumption
<1> QED
  BY <1>1, <1>2 DEF Installable

LEMMA LookupInRouting ==
    ASSUME NEW r \in Installable, NEW key, Lookup(r, key) # NULL
    PROVE  Lookup(r, key) \in Clusters
BY InstallableIs DEF Lookup

\* A call on a cluster changes no more than its link, which is one of the routing
\* in use afterwards or none.
LEMMA OnCluster ==
    ASSUME IInv, phase = "ready", routing # NULL, NEW c \in Clusters, NEW key \in Keys,
           NEW outcomes, On(c, key, outcomes),
           \A o \in outcomes : o.rc \in Results /\ o.usable \in BOOLEAN
    PROVE  /\ phase' = "ready" /\ rc' \in Results
           /\ links' \in [Clusters -> Installable \union {NULL}]
           /\ \A d \in Clusters : links'[d] \in {NULL, routing}
           /\ served' \in [key : Keys, by : Clusters] \union {NULL}
<1>1. PICK o \in outcomes :
          /\ rc' = o.rc
          /\ links' = [links EXCEPT ![c] = IF o.usable THEN routing ELSE NULL]
  BY DEF On
<1>2. routing \in Installable /\ links \in [Clusters -> Installable \union {NULL}]
  BY DEF IInv, TypeOK
<1>3. \A d \in Clusters : links[d] \in {NULL, routing}
  BY DEF IInv, LinksOfRouting
<1>4. /\ links' \in [Clusters -> Installable \union {NULL}]
      /\ \A d \in Clusters : links'[d] \in {NULL, routing}
  BY <1>1, <1>2, <1>3
<1>5. phase' = "ready" /\ rc' \in Results
  BY <1>1 DEF On
<1>6. served' = [key |-> key, by |-> c]
  BY DEF On
<1> QED
  BY <1>4, <1>5, <1>6

\* What every nursery call leaves behind.
LEMMA NurseryCall ==
    ASSUME IInv, NEW key \in Keys,
           (\E call \in {"get", "set", "delete"} : Forward(call, key)) \/ ReconnectMaster(key)
    PROVE  /\ phase = "ready" /\ phase' \in {"ready", "crashed"}
           /\ UNCHANGED <<routing, keeper, stream, inStep, fetched, answer>>
           /\ rc' \in Results
           /\ links' \in [Clusters -> Installable \union {NULL}]
           /\ \A d \in Clusters : links'[d] \in {NULL, routing}
           /\ served' \in [key : Keys, by : Clusters] \union {NULL}
<1>1. /\ phase = "ready"
      /\ UNCHANGED <<routing, keeper, stream, inStep, fetched, answer>>
  BY DEF Forward, ReconnectMaster, Routed, wire
<1>2. TypeOK /\ \A d \in Clusters : links[d] \in {NULL, routing}
  BY DEF IInv, LinksOfRouting
<1>3. CASE routing = NULL
  <2>1. phase' = "crashed" /\ UNCHANGED <<rc, links, served>>
    BY <1>3 DEF Forward, ReconnectMaster, Routed
  <2> QED
    BY <1>1, <1>2, <2>1 DEF TypeOK
<1>4. CASE routing # NULL /\ Lookup(routing, key) = NULL
  <2>1. rc' = "INVALID_CONFIG" /\ served' = NULL /\ UNCHANGED <<phase, links>>
    BY <1>4 DEF Forward, ReconnectMaster, Routed
  <2> QED
    BY <1>1, <1>2, <2>1 DEF TypeOK, Results
<1>5. CASE routing # NULL /\ Lookup(routing, key) # NULL
  <2> DEFINE c == Lookup(routing, key)
  <2>1. c \in Clusters
    BY <1>2, <1>5, LookupInRouting DEF TypeOK
  <2>2. \/ \E r \in {"NOT_CONNECTED", "NETWORK_ERROR"} :
               On(c, key, {Cluster!Outcome(r, FALSE)})
        \/ \E call \in {"get", "set", "delete"} : On(c, key, Cluster!Outcomes(call))
        \/ On(c, key, Cluster!ConnectOutcomes)
    BY <1>5 DEF Forward, ReconnectMaster, Routed
  <2> HIDE DEF c
  <2>3. /\ phase' = "ready" /\ rc' \in Results
        /\ links' \in [Clusters -> Installable \union {NULL}]
        /\ \A d \in Clusters : links'[d] \in {NULL, routing}
        /\ served' \in [key : Keys, by : Clusters] \union {NULL}
    <3>1. CASE \E r \in {"NOT_CONNECTED", "NETWORK_ERROR"} :
                   On(c, key, {Cluster!Outcome(r, FALSE)})
      <4>1. PICK r \in {"NOT_CONNECTED", "NETWORK_ERROR"} :
                On(c, key, {Cluster!Outcome(r, FALSE)})
        BY <3>1
      <4>2. \A o \in {Cluster!Outcome(r, FALSE)} : o.rc \in Results /\ o.usable \in BOOLEAN
        BY RefusalTyped
      <4> QED
        BY <1>1, <1>5, <2>1, <4>1, <4>2, OnCluster
    <3>2. CASE \E call \in {"get", "set", "delete"} : On(c, key, Cluster!Outcomes(call))
      <4>1. PICK call \in {"get", "set", "delete"} : On(c, key, Cluster!Outcomes(call))
        BY <3>2
      <4>2. \A o \in Cluster!Outcomes(call) : o.rc \in Results /\ o.usable \in BOOLEAN
        BY OutcomesTyped
      <4> QED
        BY <1>1, <1>5, <2>1, <4>1, <4>2, OnCluster
    <3>3. CASE On(c, key, Cluster!ConnectOutcomes)
      <4>1. \A o \in Cluster!ConnectOutcomes : o.rc \in Results /\ o.usable \in BOOLEAN
        BY ConnectTyped
      <4> QED
        BY <1>1, <1>5, <2>1, <3>3, <4>1, OnCluster
    <3> QED
      BY <2>2, <3>1, <3>2, <3>3
  <2> QED
    BY <1>1, <2>3
<1> QED
  BY <1>3, <1>4, <1>5

-----------------------------------------------------------------------------
(* The invariant *)

LEMMA InitInv == Init => IInv
<1> SUFFICES ASSUME Init PROVE IInv
  OBVIOUS
<1>1. NoLinks \in [Clusters -> Installable \union {NULL}]
  BY DEF NoLinks
<1>2. TypeOK
  <2>1. <<>> \in Seq(Pending) /\ "OK" \in Results
    BY DEF Results
  <2> QED
    BY <1>1, <2>1 DEF Init, TypeOK
<1>3. LinksOfRouting
  BY DEF Init, NoLinks, LinksOfRouting
<1>4. StepInv /\ InStepInv
  BY DEF Init, StepInv, InStepInv
<1> QED
  BY <1>2, <1>3, <1>4 DEF IInv

\* The routing goes and with it all links.
LEMMA Dropped ==
    ASSUME DropRouting
    PROVE  /\ routing' = NULL
           /\ links' \in [Clusters -> Installable \union {NULL}]
           /\ LinksOfRouting'
BY DEF DropRouting, NoLinks, LinksOfRouting

LEMMA KeeperConnectInv == IInv /\ KeeperConnect => IInv'
<1> SUFFICES ASSUME IInv, KeeperConnect PROVE IInv'
  OBVIOUS
<1>1. rc' \in Results /\ keeper' \in BOOLEAN
  BY ConnectTyped DEF KeeperConnect
<1>2. TypeOK'
  <2>1. <<Rest>> \in Seq(Pending) /\ <<>> \in Seq(Pending)
    BY DEF Pending
  <2>2. stream' \in {<<>>, <<Rest>>} /\ inStep' \in BOOLEAN
    BY DEF KeeperConnect
  <2> QED
    BY <1>1, <2>1, <2>2 DEF IInv, TypeOK, KeeperConnect, table
<1>3. LinksOfRouting'
  BY DEF IInv, LinksOfRouting, KeeperConnect, table
<1>4. StepInv' /\ InStepInv'
  BY DEF IInv, StepInv, InStepInv, KeeperConnect
<1> QED
  BY <1>2, <1>3, <1>4 DEF IInv

LEMMA UpdateRoutingInv == IInv /\ UpdateRouting => IInv'
<1> SUFFICES ASSUME IInv, UpdateRouting PROVE IInv'
  OBVIOUS
<1>1. /\ phase = "ready" /\ served' = NULL
      /\ routing' = NULL /\ links' \in [Clusters -> Installable \union {NULL}]
      /\ LinksOfRouting'
  BY Dropped DEF UpdateRouting
<1>2. CASE \E r \in {"NOT_CONNECTED", "ENOMEM"} : Return(r) /\ UNCHANGED wire
  <2>1. TypeOK'
    BY <1>1, <1>2 DEF IInv, TypeOK, Return, wire, Results, Cluster!ConnectErrors
  <2>2. StepInv' /\ InStepInv'
    BY <1>1, <1>2 DEF IInv, StepInv, InStepInv, Return, wire
  <2> QED
    BY <1>1, <2>1, <2>2 DEF IInv
<1>3. CASE Return("IO") /\ GiveUp
  <2>1. TypeOK'
    <3>1. <<>> \in Seq(Pending) /\ "IO" \in Results
      BY DEF Results, Cluster!ConnectErrors
    <3> QED
      BY <1>1, <1>3, <3>1 DEF IInv, TypeOK, Return, GiveUp
  <2>2. StepInv' /\ InStepInv'
    BY <1>1, <1>3 DEF StepInv, InStepInv, Return, GiveUp
  <2> QED
    BY <1>1, <2>1, <2>2 DEF IInv
<1>4. CASE /\ keeper /\ phase' = "code" /\ rc' = "none"
           /\ \E a \in Answers : answer' = a /\ stream' = Append(stream, a)
           /\ UNCHANGED <<keeper, fetched, inStep>>
  <2>1. PICK a \in Answers : answer' = a /\ stream' = Append(stream, a)
    BY <1>4
  <2>2. stream \in Seq(Pending) /\ a \in Pending
    BY DEF IInv, TypeOK, Pending
  <2>3. stream' \in Seq(Pending) /\ stream' # <<>>
    BY <2>1, <2>2
  <2>4. TypeOK'
    BY <1>1, <1>4, <2>1, <2>3 DEF IInv, TypeOK, Results
  <2>5. StepInv'
    BY <1>1, <1>4, <2>3 DEF StepInv
  <2>6. InStepInv'
    <3> SUFFICES ASSUME inStep' PROVE stream' = <<answer'>>
      BY <1>4 DEF InStepInv
    <3>1. stream = <<>>
      BY <1>1, <1>4 DEF IInv, InStepInv
    <3> QED
      BY <2>1, <3>1
  <2> QED
    BY <1>1, <2>4, <2>5, <2>6 DEF IInv
<1> QED
  BY <1>2, <1>3, <1>4 DEF UpdateRouting

\* A step that returns from an update or ends the program without touching the
\* routing, its links and the last call.
LEMMA TableKept ==
    ASSUME IInv, UNCHANGED <<table, served>>
    PROVE  /\ routing' \in Installable \union {NULL}
           /\ links' \in [Clusters -> Installable \union {NULL}]
           /\ served' \in [key : Keys, by : Clusters] \union {NULL}
           /\ LinksOfRouting'
BY DEF IInv, TypeOK, LinksOfRouting, table

LEMMA GiveUpInv == IInv /\ Return("IO") /\ GiveUp /\ UNCHANGED <<table, served>> => IInv'
<1> SUFFICES ASSUME IInv, Return("IO"), GiveUp, UNCHANGED <<table, served>>
             PROVE  IInv'
  OBVIOUS
<1>1. TypeOK'
  <2>1. <<>> \in Seq(Pending) /\ "IO" \in Results
    BY DEF Results, Cluster!ConnectErrors
  <2> QED
    BY TableKept, <2>1 DEF IInv, TypeOK, Return, GiveUp
<1>2. StepInv' /\ InStepInv'
  BY DEF StepInv, InStepInv, Return, GiveUp
<1> QED
  BY <1>1, <1>2, TableKept DEF IInv

LEMMA CrashInv ==
    IInv /\ phase' = "crashed" /\ UNCHANGED <<wire, rc, fetched, answer, table, served>>
        => IInv'
<1> SUFFICES ASSUME IInv, phase' = "crashed",
                    UNCHANGED <<wire, rc, fetched, answer, table, served>>
             PROVE  IInv'
  OBVIOUS
<1>1. TypeOK'
  BY DEF IInv, TypeOK, wire, table
<1>2. StepInv' /\ InStepInv'
  BY DEF IInv, StepInv, InStepInv, wire
<1> QED
  BY <1>1, <1>2, TableKept DEF IInv

LEMMA ReadCodeInv == IInv /\ ReadCode => IInv'
<1> SUFFICES ASSUME IInv, ReadCode PROVE IInv'
  OBVIOUS
<1>1. /\ stream \in Seq(Pending) /\ stream # <<>> /\ Head(stream) # Rest
      /\ phase = "code" /\ keeper' = keeper /\ keeper /\ routing' = NULL
  BY DEF IInv, TypeOK, StepInv, ReadCode, table
<1>2. CASE Head(stream) = Refused
  <2>1. /\ Return("SERVER") /\ stream' = <<Rest>> \o Tail(stream) /\ ~inStep'
    BY <1>2 DEF ReadCode
  <2>2. stream' \in Seq(Pending)
    BY <1>1, <2>1 DEF Pending
  <2>3. TypeOK'
    BY <1>1, <2>1, <2>2, TableKept
    DEF IInv, TypeOK, ReadCode, Return, Results, Cluster!ConnectErrors
  <2>4. StepInv' /\ InStepInv'
    BY <1>1, <2>1 DEF StepInv, InStepInv, Return
  <2> QED
    BY <2>3, <2>4, TableKept DEF IInv, ReadCode
<1>3. CASE Head(stream) # Refused
  <2>1. phase' = "string" /\ UNCHANGED <<stream, inStep, rc, fetched, answer>>
    BY <1>3 DEF ReadCode
  <2>2. Head(stream) \in Routings
    BY <1>1, <1>3 DEF Pending, Answers
  <2>3. TypeOK'
    BY <1>1, <2>1, TableKept DEF IInv, TypeOK, ReadCode
  <2>4. StepInv' /\ InStepInv'
    BY <1>1, <2>1, <2>2 DEF IInv, StepInv, InStepInv
  <2> QED
    BY <2>3, <2>4, TableKept DEF IInv, ReadCode
<1> QED
  BY <1>2, <1>3

LEMMA ReadRestInv == IInv /\ ReadRest => IInv'
<1> SUFFICES ASSUME IInv, ReadRest PROVE IInv'
  OBVIOUS
<1>1. /\ stream \in Seq(Pending) /\ stream # <<>> /\ Head(stream) = Rest
      /\ phase = "code" /\ UNCHANGED <<table, served>> /\ keeper
  BY DEF IInv, TypeOK, StepInv, ReadRest
<1>2. CASE /\ Return("SERVER") /\ stream' \in {stream, Tail(stream)}
           /\ UNCHANGED <<keeper, inStep>>
  <2>1. ~inStep
    <3> SUFFICES ASSUME inStep PROVE FALSE
      OBVIOUS
    <3>1. stream = <<answer>>
      BY <1>1 DEF IInv, InStepInv
    <3>2. answer = Rest
      BY <1>1, <3>1
    <3> QED
      BY <3>2, AnswersAssumption, NullAssumption DEF IInv, TypeOK, Pending
  <2>2. stream' \in Seq(Pending)
    BY <1>1, <1>2
  <2>3. TypeOK'
    BY <1>1, <1>2, <2>2, TableKept DEF IInv, TypeOK, Return, Results, Cluster!ConnectErrors
  <2>4. StepInv' /\ InStepInv'
    BY <1>1, <1>2, <2>1 DEF StepInv, InStepInv, Return
  <2> QED
    BY <1>1, <2>3, <2>4, TableKept DEF IInv
<1>3. CASE Return("IO") /\ GiveUp
  BY <1>1, <1>3, GiveUpInv
<1>4. CASE phase' = "crashed" /\ UNCHANGED <<wire, rc, fetched, answer>>
  BY <1>1, <1>4, CrashInv
<1> QED
  BY <1>2, <1>3, <1>4 DEF ReadRest

LEMMA ReadStringInv == IInv /\ ReadString => IInv'
<1> SUFFICES ASSUME IInv, ReadString PROVE IInv'
  OBVIOUS
<1>1. /\ stream \in Seq(Pending) /\ stream # <<>> /\ Head(stream) \in Routings
      /\ phase = "string" /\ UNCHANGED <<table, served, keeper>> /\ keeper
      /\ routing' = NULL
  BY DEF IInv, TypeOK, StepInv, ReadString, table
<1>2. Tail(stream) \in Seq(Pending) /\ <<Rest>> \o Tail(stream) \in Seq(Pending)
  BY <1>1 DEF Pending
<1>3. CASE /\ phase' = "parse" /\ fetched' = Head(stream) /\ stream' = Tail(stream)
           /\ UNCHANGED <<inStep, rc, answer>>
  <2>1. TypeOK'
    BY <1>1, <1>2, <1>3, TableKept DEF IInv, TypeOK
  <2>2. StepInv'
    BY <1>1, <1>3 DEF StepInv
  <2>3. InStepInv'
    <3> SUFFICES ASSUME inStep' PROVE stream' = <<>> /\ fetched' = answer'
      BY <1>3 DEF InStepInv
    <3>1. stream = <<answer>>
      BY <1>1, <1>3 DEF IInv, InStepInv
    <3> QED
      BY <1>3, <3>1
  <2> QED
    BY <1>1, <2>1, <2>2, <2>3, TableKept DEF IInv
<1>4. CASE Return("ENOMEM") /\ stream' = <<Rest>> \o Tail(stream) /\ inStep' = FALSE
  <2>1. TypeOK'
    BY <1>1, <1>2, <1>4, TableKept DEF IInv, TypeOK, Return, Results, Cluster!ConnectErrors
  <2>2. StepInv' /\ InStepInv'
    BY <1>1, <1>4 DEF StepInv, InStepInv, Return
  <2> QED
    BY <1>1, <2>1, <2>2, TableKept DEF IInv
<1> QED
  BY <1>3, <1>4 DEF ReadString

\* The end of an update, with what was fetched as the routing or none; there was
\* none before.
LEMMA ParseInv == IInv /\ Parse => IInv'
<1> SUFFICES ASSUME IInv, Parse PROVE IInv'
  OBVIOUS
<1>1. /\ phase = "parse" /\ fetched \in Routings
      /\ UNCHANGED <<links, wire, served>>
      /\ phase' = "ready" /\ fetched' = NULL /\ answer' = NULL
      /\ rc' \in {"OK", "INVALID_ROUTING"}
      /\ routing' \in {routing, fetched} \union Shortened(fetched)
  BY DEF IInv, StepInv, Parse, Return
<1>2. routing' \in Installable \union {NULL}
  BY <1>1 DEF Installable, IInv, TypeOK
<1>3. TypeOK'
  BY <1>1, <1>2 DEF IInv, TypeOK, wire, Results
<1>4. StepInv' /\ InStepInv'
  BY <1>1 DEF IInv, StepInv, InStepInv, wire
<1>5. \A c \in Clusters : links[c] = NULL
  BY <1>1 DEF IInv, StepInv, LinksOfRouting
<1>6. LinksOfRouting'
  BY <1>1, <1>5 DEF LinksOfRouting
<1> QED
  BY <1>3, <1>4, <1>6 DEF IInv

LEMMA ParseFailsInv == IInv /\ ParseFails => IInv'
<1> SUFFICES ASSUME IInv, ParseFails PROVE IInv'
  OBVIOUS
<1>1. CASE \E r \in {"EINVAL", "NETWORK_ERROR", "INVALID_ROUTING"} : Return(r)
  <2>1. TypeOK'
    BY <1>1, TableKept
    DEF IInv, TypeOK, ParseFails, Return, wire, Results, Cluster!ConnectErrors
  <2>2. StepInv' /\ InStepInv'
    BY <1>1 DEF IInv, StepInv, InStepInv, ParseFails, Return, wire
  <2> QED
    BY <2>1, <2>2, TableKept DEF IInv, ParseFails
<1>2. CASE phase' = "crashed" /\ UNCHANGED <<rc, fetched, answer>>
  BY <1>2, CrashInv DEF ParseFails
<1> QED
  BY <1>1, <1>2 DEF ParseFails

LEMMA NurseryCallInv ==
    ASSUME IInv, NEW key \in Keys,
           (\E call \in {"get", "set", "delete"} : Forward(call, key)) \/ ReconnectMaster(key)
    PROVE  IInv'
<1>1. /\ phase = "ready" /\ phase' \in {"ready", "crashed"}
      /\ UNCHANGED <<routing, keeper, stream, inStep, fetched, answer>>
      /\ rc' \in Results
      /\ links' \in [Clusters -> Installable \union {NULL}]
      /\ \A d \in Clusters : links'[d] \in {NULL, routing}
      /\ served' \in [key : Keys, by : Clusters] \union {NULL}
  BY NurseryCall
<1>2. TypeOK'
  BY <1>1 DEF IInv, TypeOK
<1>3. LinksOfRouting'
  BY <1>1 DEF LinksOfRouting
<1>4. StepInv' /\ InStepInv'
  BY <1>1 DEF IInv, StepInv, InStepInv
<1> QED
  BY <1>2, <1>3, <1>4 DEF IInv

LEMMA NurseryFreeInv == IInv /\ NurseryFree => IInv'
<1> SUFFICES ASSUME IInv, NurseryFree PROVE IInv'
  OBVIOUS
<1>1. /\ phase = "ready" /\ phase' = "freed" /\ served' = NULL
      /\ UNCHANGED <<wire, fetched, rc, answer>>
      /\ routing' = NULL /\ links' \in [Clusters -> Installable \union {NULL}]
      /\ LinksOfRouting'
  BY Dropped DEF NurseryFree
<1>2. TypeOK'
  BY <1>1 DEF IInv, TypeOK, wire
<1>3. StepInv' /\ InStepInv'
  BY <1>1 DEF IInv, StepInv, InStepInv, wire
<1> QED
  BY <1>1, <1>2, <1>3 DEF IInv

LEMMA NurseryNewInv == IInv /\ NurseryNew => IInv'
<1> SUFFICES ASSUME IInv, NurseryNew PROVE IInv'
  OBVIOUS
<1>1. TypeOK' /\ LinksOfRouting'
  BY DEF IInv, TypeOK, LinksOfRouting, NurseryNew, table, wire
<1>2. StepInv' /\ InStepInv'
  BY DEF IInv, StepInv, InStepInv, NurseryNew, table, wire
<1> QED
  BY <1>1, <1>2 DEF IInv

LEMMA StepKeepsInv == IInv /\ [Next]_vars => IInv'
<1> SUFFICES ASSUME IInv, [Next]_vars PROVE IInv'
  OBVIOUS
<1>1. CASE KeeperConnect \/ NurseryFree \/ NurseryNew
  BY <1>1, KeeperConnectInv, NurseryFreeInv, NurseryNewInv
<1>2. CASE UpdateRouting \/ ReadCode \/ ReadRest \/ ReadString \/ Parse \/ ParseFails
  BY <1>2, UpdateRoutingInv, ReadCodeInv, ReadRestInv, ReadStringInv, ParseInv,
     ParseFailsInv
<1>3. CASE ReadFails
  BY <1>3, GiveUpInv DEF ReadFails
<1>4. CASE ParseNoMemory
  BY <1>4, CrashInv DEF ParseNoMemory
<1>5. CASE \E key \in Keys :
               \/ \E call \in {"get", "set", "delete"} : Forward(call, key)
               \/ ReconnectMaster(key)
  BY <1>5, NurseryCallInv
<1>6. CASE UNCHANGED vars
  BY <1>6 DEF vars, IInv, TypeOK, LinksOfRouting, StepInv, InStepInv
<1> QED
  BY <1>1, <1>2, <1>3, <1>4, <1>5, <1>6 DEF Next, Update

-----------------------------------------------------------------------------
(* Theorems *)

\* The invariant holds in every state.
THEOREM Invariant == Spec => []IInv
<1> QED
  BY InitInv, StepKeepsInv, PTL DEF Spec

\* The variables have their types in every state: a failed update leaves no half
\* of a routing behind, and no call is sent to a cluster that a routing does not
\* have.
THEOREM TypeCorrect == Spec => []TypeOK
<1>1. IInv => TypeOK
  BY DEF IInv
<1> QED
  BY <1>1, Invariant, PTL

\* No connection outlives the routing it was made for (_arakoon_nursery_routing_free).
THEOREM Links == Spec => []LinksOfRouting
<1>1. IInv => LinksOfRouting
  BY DEF IInv
<1> QED
  BY <1>1, Invariant, PTL

\* A successful update installs the keeper's answer to it, whole where every cluster
\* has nodes, unless something was
\* left unread in the keeper's connection (arakoon_nursery_update_routing).
THEOREM Installed == Spec => InstalledIsAnswer
<1>1. IInv /\ [Next]_vars =>
          [(phase = "parse" /\ routing' # NULL) =>
               /\ rc' = "OK" /\ ~routing'.trailing
               /\ inStep => /\ routing'.tree = answer.tree
                            /\ routing'.clusters \subseteq answer.clusters
                            /\ answer.nodeless = {} => routing' = answer]_vars
  <2> SUFFICES ASSUME IInv, Next, phase = "parse", routing' # NULL
               PROVE  /\ rc' = "OK" /\ ~routing'.trailing
                      /\ inStep => /\ routing'.tree = answer.tree
                                   /\ routing'.clusters \subseteq answer.clusters
                                   /\ answer.nodeless = {} => routing' = answer
    BY DEF vars
  <2>1. routing = NULL
    BY DEF IInv, StepInv
  <2>2. Parse
    <3>1. ~KeeperConnect /\ ~NurseryFree /\ ~NurseryNew /\ ~UpdateRouting
      BY DEF KeeperConnect, NurseryFree, NurseryNew, UpdateRouting
    <3>2. ~ReadFails /\ ~ReadCode /\ ~ReadRest /\ ~ReadString
      BY DEF ReadFails, ReadCode, ReadRest, ReadString
    <3>3. ~ParseFails /\ ~ParseNoMemory
      BY <2>1 DEF ParseFails, ParseNoMemory, table
    <3>4. \A key \in Keys : ~ReconnectMaster(key) /\ \A call : ~Forward(call, key)
      BY DEF ReconnectMaster, Forward, Routed
    <3> QED
      BY <3>1, <3>2, <3>3, <3>4 DEF Next, Update
  <2>3. /\ ~fetched.trailing /\ Return("OK")
        /\ routing' \in {fetched} \union Shortened(fetched)
    BY <2>1, <2>2 DEF Parse
  <2>4. inStep => fetched = answer
    BY DEF IInv, InStepInv
  <2>5. CASE routing' = fetched
    BY <2>3, <2>4, <2>5 DEF Return
  <2>6. CASE routing' \in Shortened(fetched)
    <3>1. PICK s \in UNION {SUBSET (fetched.clusters \ {c}) : c \in fetched.nodeless} :
              routing' = [tree |-> fetched.tree, clusters |-> s,
                          nodeless |-> fetched.nodeless \cap s, trailing |-> FALSE]
      BY <2>6 DEF Shortened
    <3>2. routing'.tree = fetched.tree /\ routing'.clusters = s /\ ~routing'.trailing
      BY <3>1
    <3>3. s \subseteq fetched.clusters /\ fetched.nodeless # {}
      BY <3>1
    <3> QED
      BY <2>3, <2>4, <3>2, <3>3 DEF Return
  <2> QED
    BY <2>3, <2>5, <2>6
<1> QED
  BY <1>1, Invariant, PTL DEF Spec, InstalledIsAnswer

-----------------------------------------------------------------------------
(* The owner of a key *)

\* The last call on a cluster was for the one that the routing in use has for the
\* key, and there is none to speak of while the routing is replaced.
ServedInv ==
    /\ served # NULL => /\ routing # NULL /\ served.by # NULL
                        /\ served.by = Lookup(routing, served.key)
    /\ phase \notin {"ready", "crashed"} => served = NULL

LEMMA CallServes ==
    ASSUME ServedInv, NEW key \in Keys,
           (\E call \in {"get", "set", "delete"} : Forward(call, key)) \/ ReconnectMaster(key)
    PROVE  ServedInv'
<1>1. phase = "ready" /\ routing' = routing
  BY DEF Forward, ReconnectMaster, Routed
<1>2. CASE routing = NULL
  <2>1. phase' = "crashed" /\ served' = served
    BY <1>2 DEF Forward, ReconnectMaster, Routed
  <2> QED
    BY <1>1, <2>1 DEF ServedInv
<1>3. CASE routing # NULL /\ Lookup(routing, key) = NULL
  <2>1. served' = NULL /\ phase' = phase
    BY <1>3 DEF Forward, ReconnectMaster, Routed
  <2> QED
    BY <1>1, <2>1 DEF ServedInv
<1>4. CASE routing # NULL /\ Lookup(routing, key) # NULL
  <2>1. served' = [key |-> key, by |-> Lookup(routing, key)] /\ phase' = phase
    BY <1>4 DEF Forward, ReconnectMaster, Routed, On
  <2>2. served'.key = key /\ served'.by = Lookup(routing, key)
    BY <2>1
  <2> QED
    BY <1>1, <1>4, <2>1, <2>2 DEF ServedInv
<1> QED
  BY <1>2, <1>3, <1>4

LEMMA ServedStep == ServedInv /\ [Next]_vars => ServedInv'
<1> SUFFICES ASSUME ServedInv, [Next]_vars PROVE ServedInv'
  OBVIOUS
<1>1. CASE UpdateRouting \/ NurseryFree
  BY <1>1 DEF UpdateRouting, NurseryFree, ServedInv
<1>2. CASE ReadFails \/ ReadCode \/ ReadRest \/ ReadString \/ ParseFails \/ ParseNoMemory
  <2>1. phase \in {"code", "string", "parse"} /\ served' = served
    BY <1>2 DEF ReadFails, ReadCode, ReadRest, ReadString, ParseFails, ParseNoMemory
  <2> QED
    BY <2>1 DEF ServedInv
<1>3. CASE Parse \/ NurseryNew
  <2>1. phase \in {"parse", "freed"} /\ served' = served
    BY <1>3 DEF Parse, NurseryNew
  <2> QED
    BY <2>1 DEF ServedInv
<1>4. CASE KeeperConnect \/ UNCHANGED vars
  BY <1>4 DEF KeeperConnect, table, vars, ServedInv
<1>5. CASE \E key \in Keys :
               \/ \E call \in {"get", "set", "delete"} : Forward(call, key)
               \/ ReconnectMaster(key)
  BY <1>5, CallServes
<1> QED
  BY <1>1, <1>2, <1>3, <1>4, <1>5 DEF Next, Update

\* A call by key goes to the cluster named by the leaf in whose range the key is,
\* in every finite tree that the parser can build, and also after updates
\* (_arakoon_nursery_routing_lookup).
THEOREM Served == Spec => []ServedByOwner
<1>1. Init => ServedInv
  BY DEF Init, ServedInv
<1>2. IInv /\ ServedInv => ServedByOwner
  <2> SUFFICES ASSUME IInv, ServedInv, served # NULL
               PROVE  /\ routing # NULL /\ served.by \in routing.clusters
                      /\ \E n \in DOMAIN routing.tree :
                             /\ routing.tree[n].leaf /\ routing.tree[n].cluster = served.by
                             /\ InRange(routing.tree, n, served.key)
    BY DEF ServedByOwner
  <2>1. /\ routing \in Installable /\ served.key \in Seq(Nat \ {0})
    BY KeysAssumption DEF IInv, TypeOK, ServedInv
  <2>2. served.by = Lookup(routing, served.key) /\ served.by # NULL /\ routing # NULL
    BY DEF ServedInv
  <2>3. /\ served.by = NodeLookup(routing.tree, served.key)
        /\ served.by \in routing.clusters
    BY <2>2 DEF Lookup
  <2>4. IsTree(routing.tree)
    BY <2>1, InstallableIs
  <2> QED
    BY <2>1, <2>2, <2>3, <2>4, LookupOwner
<1> QED
  BY <1>1, <1>2, ServedStep, Invariant, PTL DEF Spec

=============================================================================
