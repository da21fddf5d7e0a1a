----------------------------- MODULE DataLemmas -----------------------------
(***************************************************************************)
(* What the proofs about lists, sequences and trees share: induction on    *)
(* the natural numbers, over a set in the place of a predicate; the        *)
(* functions that recursion defines; and chains of linked cells.           *)
(***************************************************************************)
EXTENDS Integers, Sequences, FiniteSets, FiniteSetTheorems,
        WellFoundedInduction, TLAPS

\* A set of natural numbers that is not empty has a least one: < is well-founded.
LEMMA Minimum ==
    ASSUME NEW T \in SUBSET Nat, T # {}
    PROVE  \E x \in T : \A y \in T : x <= y
<1>1. PICK x \in T : \A y \in T : <<y, x>> \notin OpToRel(<, Nat)
  BY NatLessThanWellFounded, WFMin
<1>2. \A y \in T : ~(y < x)
  BY <1>1 DEF OpToRel
<1>3. QED BY <1>2

\* Induction: a set that holds zero, and with every number its successor, holds
\* them all.
LEMMA Inductive ==
    ASSUME NEW T, 0 \in T, \A n \in Nat : n \in T => n + 1 \in T
    PROVE  Nat \subseteq T
  <1>1. SUFFICES ASSUME NEW m \in Nat \ T
                 PROVE  FALSE
    OBVIOUS
  <1>2. PICK x \in Nat \ T : \A y \in Nat \ T : x <= y
    BY Minimum
  <1>3. x # 0 /\ x - 1 \in Nat
    OBVIOUS
  <1>4. x - 1 \in T
    BY <1>2, <1>3
  <1>5. x - 1 + 1 \in T
    BY <1>3, <1>4
  <1> QED BY <1>2, <1>5

-----------------------------------------------------------------------------
\* What f begins with on 0 .. n, when f[0] = a and f[k + 1] = step[k][f[k]].
Beginnings(S, a, step, n) ==
    {g \in [0 .. n -> S] :
        g[0] = a /\ \A k \in 0 .. n - 1 : g[k + 1] = step[k][g[k]]}

\* The longer one goes on where the shorter one ends.
LEMMA BeginningsAgree ==
    ASSUME NEW S, NEW a \in S, NEW step \in [Nat -> [S -> S]], 
           NEW m \in Nat, NEW n \in Nat, m <= n,
           NEW g \in Beginnings(S, a, step, m), NEW h \in Beginnings(S, a, step, n)
    PROVE  g[m] = h[m]
  <1> DEFINE T == {k \in Nat : k <= m => g[k] = h[k]}
  <1>1. 0 \in T
    BY DEF Beginnings
  <1>2. ASSUME NEW k \in Nat, k \in T
        PROVE  k + 1 \in T
    <2>1. SUFFICES ASSUME k + 1 <= m
                   PROVE  g[k + 1] = h[k + 1]
      OBVIOUS
    <2>2. k \in 0 .. m - 1 /\ k \in 0 .. n - 1
      BY <2>1
    <2> QED BY <1>2, <2>1, <2>2 DEF Beginnings
  <1>3. Nat \subseteq T
    <2> HIDE DEF T
    <2> QED BY <1>1, <1>2, Inductive
  <1> QED BY <1>3

\* There are some of every length.
LEMMA BeginningsExist ==
    ASSUME NEW S, NEW a \in S, NEW step \in [Nat -> [S -> S]]
    PROVE  \A n \in Nat : \E g : g \in Beginnings(S, a, step, n)
  <1> DEFINE T == {n \in Nat : \E g : g \in Beginnings(S, a, step, n)}
  <1>1. 0 \in T
    <2>1. [k \in 0 .. 0 |-> a] \in Beginnings(S, a, step, 0)
      BY DEF Beginnings
    <2> QED BY <2>1
  <1>2. ASSUME NEW n \in Nat, n \in T
        PROVE  n + 1 \in T
    <2>1. PICK g : g \in Beginnings(S, a, step, n)
      BY <1>2
    <2> DEFINE h == [k \in 0 .. n + 1 |-> IF k = n + 1 THEN step[n][g[n]] ELSE g[k]]
    <2>2. g \in [0 .. n -> S] /\ g[0] = a
          /\ \A k \in 0 .. n - 1 : g[k + 1] = step[k][g[k]]
      BY <2>1 DEF Beginnings
    <2>3. g[n] \in S
      BY <2>2
    <2>4. step[n][g[n]] \in S
      BY <2>3
    <2>5. h \in [0 .. n + 1 -> S]
      BY <2>2, <2>4
    <2>6. h[0] = a
      BY <2>2
    <2>7. ASSUME NEW k \in 0 .. n + 1 - 1
          PROVE  h[k + 1] = step[k][h[k]]
      <3>1. CASE k = n
        BY <3>1
      <3>2. CASE k # n
        BY <3>2, <2>2
      <3> QED BY <3>1, <3>2
    <2> HIDE DEF h
    <2>8. h \in Beginnings(S, a, step, n + 1)
      BY <2>5, <2>6, <2>7 DEF Beginnings
    <2> QED BY <2>8
  <1>3. Nat \subseteq T
    <2> HIDE DEF T
    <2> QED BY <1>1, <1>2, Inductive
  <1> QED BY <1>3

IsRecursive(f, S, a, step) ==
    f \in [Nat -> S] /\ f[0] = a /\ \A n \in Nat : f[n + 1] = step[n][f[n]]

\* Recursion on the natural numbers defines a function.
LEMMA Recursion ==
    ASSUME NEW S, NEW a \in S, NEW step \in [Nat -> [S -> S]]
    PROVE  \E f : IsRecursive(f, S, a, step)
  <1> DEFINE B(n) == CHOOSE g : g \in Beginnings(S, a, step, n)
             f == [n \in Nat |-> B(n)[n]]
  <1>1. \A n \in Nat : B(n) \in Beginnings(S, a, step, n)
    BY BeginningsExist
  <1> HIDE DEF B
  <1>2. f \in [Nat -> S]
    BY <1>1 DEF Beginnings
  <1>3. f[0] = a
    BY <1>1 DEF Beginnings
  <1>4. ASSUME NEW n \in Nat
        PROVE  f[n + 1] = step[n][f[n]]
    <2>1. n + 1 \in Nat /\ n <= n + 1
      OBVIOUS
    <2>2. B(n)[n] = B(n + 1)[n]
      BY <1>1, <2>1, BeginningsAgree
    <2>3. n \in 0 .. n + 1 - 1
      OBVIOUS
    <2>4. B(n + 1)[n + 1] = step[n][B(n + 1)[n]]
      BY <1>1, <2>1, <2>3 DEF Beginnings
    <2> QED BY <2>1, <2>2, <2>4
  <1> HIDE DEF f
  <1> QED BY <1>2, <1>3, <1>4 DEF IsRecursive

\* The same for a function on 0 .. N.
IsRecursiveTo(f, N, S, a, step) ==
    f \in [0 .. N -> S] /\ f[0] = a /\ \A n \in 1 .. N : f[n] = step[n][f[n - 1]]

LEMMA RecursionTo ==
    ASSUME NEW N \in Nat, NEW S, NEW a \in S, NEW step \in [1 .. N -> [S -> S]]
    PROVE  \E f : IsRecursiveTo(f, N, S, a, step)
  <1> DEFINE longer == [n \in Nat |-> [x \in S |->
                           IF n + 1 \in 1 .. N THEN step[n + 1][x] ELSE x]]
  <1>1. longer \in [Nat -> [S -> S]]
    OBVIOUS
  <1>2. \A n \in 1 .. N : \A x \in S : longer[n - 1][x] = step[n][x]
    OBVIOUS
  <1> HIDE DEF longer
  <1>3. PICK g : IsRecursive(g, S, a, longer)
    BY <1>1, Recursion
  <1> DEFINE f == [n \in 0 .. N |-> g[n]]
  <1>4. f \in [0 .. N -> S] /\ f[0] = a
    BY <1>3 DEF IsRecursive
  <1>5. ASSUME NEW n \in 1 .. N
        PROVE  f[n] = step[n][f[n - 1]]
    <2>1. n - 1 \in Nat /\ n - 1 \in 0 .. N /\ n = n - 1 + 1 /\ n \in 0 .. N
      OBVIOUS
    <2>2. g[n] = longer[n - 1][g[n - 1]] /\ g[n - 1] \in S
      BY <1>3, <2>1 DEF IsRecursive
    <2>3. f[n] = g[n] /\ f[n - 1] = g[n - 1]
      BY <2>1
    <2> HIDE DEF f
    <2> QED BY <1>2, <2>2, <2>3
  <1> HIDE DEF f
  <1> QED BY <1>4, <1>5 DEF IsRecursiveTo

-----------------------------------------------------------------------------
(* Linked cells *)

\* What follows the first k - 1 cells of s.
At(s, k, end) == IF k \in 1 .. Len(s) THEN s[k] ELSE end

Cells(s) == {s[k] : k \in 1 .. Len(s)}

Distinct(s) == \A j, k \in 1 .. Len(s) : s[j] = s[k] => j = k

\* s are the cells from c on, each of which nx leads to the next and the last to
\* the end.
IsChain(nx, c, s, end) ==
    /\ c = At(s, 1, end)
    /\ \A k \in 1 .. Len(s) : nx[s[k]] = At(s, k + 1, end)

Pushed(i, s) == <<i>> \o s

Redirected(nx, i, c) == [nx EXCEPT ![i] = c]

\* The empty list.
LEMMA NoCells ==
    ASSUME NEW S, NEW nx, NEW end
    PROVE  /\ <<>> \in Seq(S) /\ IsChain(nx, end, <<>>, end) /\ Distinct(<<>>)
           /\ Cells(<<>>) = {} /\ Len(<<>>) = 0
  BY DEF IsChain, At, Distinct, Cells

\* As many cells as there are places.
LEMMA CountedCells ==
    ASSUME NEW S, NEW s \in Seq(S), Distinct(s)
    PROVE  IsFiniteSet(Cells(s)) /\ Cardinality(Cells(s)) = Len(s)
  <1> DEFINE f == [k \in 1 .. Len(s) |-> s[k]]
  <1>1. f \in Bijection(1 .. Len(s), Cells(s))
    BY DEF Bijection, Injection, Surjection, IsInjective, Distinct, Cells
  <1>2. ExistsBijection(1 .. Len(s), Cells(s))
    BY <1>1 DEF ExistsBijection
  <1>3. Len(s) \in Nat /\ Len(s) \in Int /\ 1 \in Int
    OBVIOUS
  <1>4. IsFiniteSet(1 .. Len(s))
        /\ Cardinality(1 .. Len(s)) = IF 1 > Len(s) THEN 0 ELSE Len(s) - 1 + 1
    BY <1>3, FS_Interval
  <1>5. Cardinality(1 .. Len(s)) = Len(s)
    BY <1>3, <1>4
  <1> QED BY <1>2, <1>4, <1>5, FS_Bijection

IsPushed(t, i, s) ==
    /\ Len(t) = Len(s) + 1
    /\ t[1] = i /\ \A k \in 1 .. Len(s) : t[k + 1] = s[k]
    /\ \A j \in 1 .. Len(t) : j = 1 \/ (j - 1 \in 1 .. Len(s) /\ t[j] = s[j - 1])

\* A cell in front.
LEMMA PushedIs ==
    ASSUME NEW S, NEW s \in Seq(S), NEW i \in S
    PROVE  Pushed(i, s) \in Seq(S) /\ IsPushed(Pushed(i, s), i, s)
  <1> DEFINE t == Pushed(i, s)
  <1>1. t \in Seq(S) /\ Len(t) = Len(s) + 1
    BY DEF Pushed
  <1>2. t[1] = i /\ \A k \in 1 .. Len(s) : t[k + 1] = s[k]
    BY DEF Pushed
  <1> HIDE DEF t
  <1>3. \A j \in 1 .. Len(t) : j = 1 \/ (j - 1 \in 1 .. Len(s) /\ t[j] = s[j - 1])
    BY <1>1, <1>2
  <1> QED BY <1>1, <1>2, <1>3 DEF t, IsPushed

\* It is one cell more.
LEMMA PushedCells ==
    ASSUME NEW S, NEW s \in Seq(S), NEW i \in S
    PROVE  Cells(Pushed(i, s)) = Cells(s) \union {i}
  <1> DEFINE t == Pushed(i, s)
  <1>0. t \in Seq(S) /\ IsPushed(t, i, s)
    BY PushedIs
  <1>1. /\ t \in Seq(S) /\ Len(t) = Len(s) + 1
        /\ t[1] = i /\ \A k \in 1 .. Len(s) : t[k + 1] = s[k]
        /\ \A j \in 1 .. Len(t) : j = 1 \/ (j - 1 \in 1 .. Len(s) /\ t[j] = s[j - 1])
    BY <1>0 DEF IsPushed
  <1> HIDE DEF t
  <1>2. ASSUME NEW x \in Cells(t)
        PROVE  x \in Cells(s) \union {i}
    <2>1. PICK j \in 1 .. Len(t) : x = t[j]
      BY DEF Cells
    <2> QED BY <1>1, <2>1 DEF Cells
  <1>3. ASSUME NEW x \in Cells(s)
        PROVE  x \in Cells(t)
    <2>1. PICK k \in 1 .. Len(s) : x = s[k]
      BY DEF Cells
    <2>2. k + 1 \in 1 .. Len(t)
      BY <1>1
    <2> QED BY <1>1, <2>1, <2>2 DEF Cells
  <1>4. i \in Cells(t)
    BY <1>1 DEF Cells
  <1>5. Cells(t) = Cells(s) \union {i}
    BY <1>2, <1>3, <1>4
  <1> QED BY <1>5 DEF t

\* A chain goes on from a new cell in front that leads to where it began.
LEMMA PushedChain ==
    ASSUME NEW S, NEW end, NEW nx \in [S -> S \union {end}], NEW c \in S \union {end},
           NEW s \in Seq(S), IsChain(nx, c, s, end), Distinct(s),
           NEW i \in S, i \notin Cells(s)
    PROVE  /\ IsChain(Redirected(nx, i, c), i, Pushed(i, s), end)
           /\ Distinct(Pushed(i, s))
  <1> DEFINE t == Pushed(i, s)
             nx2 == Redirected(nx, i, c)
  <1>0. t \in Seq(S) /\ IsPushed(t, i, s)
    BY PushedIs
  <1>1. /\ t \in Seq(S) /\ Len(t) = Len(s) + 1
        /\ t[1] = i /\ \A k \in 1 .. Len(s) : t[k + 1] = s[k]
        /\ \A j \in 1 .. Len(t) : j = 1 \/ (j - 1 \in 1 .. Len(s) /\ t[j] = s[j - 1])
    BY <1>0 DEF IsPushed
  <1>2. nx2[i] = c /\ \A j \in S : j # i => nx2[j] = nx[j]
    BY DEF Redirected
  <1> HIDE DEF t, nx2
  <1>3. ASSUME NEW j \in 1 .. Len(t), NEW k \in 1 .. Len(t), t[j] = t[k]
        PROVE  j = k
    <2>1. \A l \in 1 .. Len(t) : l # 1 => t[l] \in Cells(s)
      BY <1>1 DEF Cells
    <2>2. CASE j = 1 \/ k = 1
      BY <1>1, <1>3, <2>1, <2>2
    <2>3. CASE j # 1 /\ k # 1
      <3>1. j - 1 \in 1 .. Len(s) /\ k - 1 \in 1 .. Len(s) /\ s[j - 1] = s[k - 1]
        BY <1>1, <1>3, <2>3
      <3>2. j - 1 = k - 1
        BY <3>1 DEF Distinct
      <3> QED BY <3>2
    <2> QED BY <2>2, <2>3
  <1>4. i = At(t, 1, end)
    BY <1>1 DEF At
  <1>5. ASSUME NEW k \in 1 .. Len(t)
        PROVE  nx2[t[k]] = At(t, k + 1, end)
    <2>1. CASE k = 1
      <3>1. nx2[t[1]] = c
        BY <1>1, <1>2
      <3>2. CASE Len(s) = 0
        BY <1>1, <2>1, <3>1, <3>2 DEF IsChain, At
      <3>3. CASE Len(s) # 0
        BY <1>1, <2>1, <3>1, <3>3 DEF IsChain, At
      <3> QED BY <3>2, <3>3
    <2>2. CASE k # 1
      <3>1. k - 1 \in 1 .. Len(s) /\ t[k] = s[k - 1]
        BY <1>1, <2>2
      <3>2. t[k] \in Cells(s)
        BY <3>1 DEF Cells
      <3>3. t[k] \in S
        BY <3>1
      <3>4. nx2[t[k]] = At(s, k, end)
        BY <1>2, <3>1, <3>2, <3>3 DEF IsChain
      <3>5. At(s, k, end) = At(t, k + 1, end)
        BY <1>1 DEF At
      <3> QED BY <3>4, <3>5
    <2> QED BY <2>1, <2>2
  <1> QED BY <1>3, <1>4, <1>5 DEF t, nx2, Distinct, IsChain

\* A cell at the end.
LEMMA AppendedCells ==
    ASSUME NEW S, NEW s \in Seq(S), NEW i \in S
    PROVE  Cells(Append(s, i)) = Cells(s) \union {i}
  <1>1. /\ Len(Append(s, i)) = Len(s) + 1 /\ Append(s, i)[Len(s) + 1] = i
        /\ \A k \in 1 .. Len(s) : Append(s, i)[k] = s[k]
    OBVIOUS
  <1>2. ASSUME NEW x \in Cells(Append(s, i))
        PROVE  x \in Cells(s) \union {i}
    <2>1. PICK j \in 1 .. Len(s) + 1 : x = Append(s, i)[j]
      BY <1>1 DEF Cells
    <2> QED BY <1>1, <2>1 DEF Cells
  <1>3. ASSUME NEW x \in Cells(s)
        PROVE  x \in Cells(Append(s, i))
    <2>1. PICK k \in 1 .. Len(s) : x = s[k]
      BY DEF Cells
    <2>2. k \in 1 .. Len(Append(s, i)) /\ x = Append(s, i)[k]
      BY <1>1, <2>1
    <2> QED BY <2>2 DEF Cells
  <1>4. i \in Cells(Append(s, i))
    <2>1. Len(s) + 1 \in 1 .. Len(Append(s, i))
      BY <1>1
    <2> QED BY <1>1, <2>1 DEF Cells
  <1> QED BY <1>2, <1>3, <1>4

\* A chain goes on to a new cell at the end that its last one leads to.
LEMMA AppendedChain ==
    ASSUME NEW S, NEW end, end \notin S, NEW nx, NEW c,
           NEW s \in Seq(S), IsChain(nx, c, s, end), Distinct(s),
           NEW i \in S, i \notin Cells(s),
           NEW nx2, \A j \in S : nx2[j] = IF j = i THEN end
                                          ELSE IF j = At(s, Len(s), end) THEN i ELSE nx[j],
           NEW c2, c2 = IF c = end THEN i ELSE c
    PROVE  IsChain(nx2, c2, Append(s, i), end) /\ Distinct(Append(s, i))
  <1> DEFINE t == Append(s, i)
  <1>1. /\ t \in Seq(S) /\ Len(t) = Len(s) + 1 /\ t[Len(s) + 1] = i
        /\ \A k \in 1 .. Len(s) : t[k] = s[k]
    OBVIOUS
  <1> HIDE DEF t
  <1>2. \A k \in 1 .. Len(s) : s[k] # i /\ s[k] \in S
    BY DEF Cells
  <1>3. Distinct(t)
    <2>1. SUFFICES ASSUME NEW j \in 1 .. Len(t), NEW k \in 1 .. Len(t), t[j] = t[k]
                   PROVE  j = k
      BY DEF Distinct
    <2>2. CASE j = Len(s) + 1 \/ k = Len(s) + 1
      BY <1>1, <1>2, <2>1, <2>2
    <2>3. CASE j # Len(s) + 1 /\ k # Len(s) + 1
      <3>1. j \in 1 .. Len(s) /\ k \in 1 .. Len(s) /\ s[j] = s[k]
        BY <1>1, <2>1, <2>3
      <3> QED BY <3>1 DEF Distinct
    <2> QED BY <2>2, <2>3
  <1>4. c2 = At(t, 1, end)
    <2>1. CASE Len(s) = 0
      BY <1>1, <2>1 DEF IsChain, At
    <2>2. CASE Len(s) # 0
      <3>1. 1 \in 1 .. Len(s)
        BY <2>2
      <3>2. c = s[1] /\ s[1] \in S /\ t[1] = s[1] /\ 1 \in 1 .. Len(t)
        BY <1>1, <3>1 DEF IsChain, At
      <3> QED BY <3>2 DEF At
    <2> QED BY <2>1, <2>2
  <1>5. ASSUME NEW k \in 1 .. Len(t)
        PROVE  nx2[t[k]] = At(t, k + 1, end)
    <2>1. CASE k = Len(s) + 1
      BY <1>1, <2>1 DEF At
    <2>2. CASE k = Len(s)
      <3>1. t[k] = s[k] /\ t[k] = At(s, Len(s), end) /\ t[k] # i /\ t[k] \in S
        BY <1>1, <1>2, <2>2 DEF At
      <3>2. nx2[t[k]] = i
        BY <3>1
      <3>3. k + 1 \in 1 .. Len(t) /\ t[k + 1] = i
        BY <1>1, <2>2
      <3> QED BY <3>2, <3>3 DEF At
    <2>3. CASE k < Len(s)
      <3>1. k \in 1 .. Len(s) /\ k + 1 \in 1 .. Len(s) /\ Len(s) \in 1 .. Len(s)
        BY <2>3
      <3>2. t[k] = s[k] /\ t[k] \in S /\ t[k] # i /\ t[k + 1] = s[k + 1]
        BY <1>1, <1>2, <3>1
      <3>3. s[k] # s[Len(s)]
        BY <2>3, <3>1 DEF Distinct
      <3>4. nx2[t[k]] = nx[s[k]]
        BY <3>1, <3>2, <3>3 DEF At
      <3>5. nx[s[k]] = s[k + 1]
        BY <3>1 DEF IsChain, At
      <3> QED BY <1>1, <3>1, <3>2, <3>4, <3>5 DEF At
    <2> QED BY <1>1, <2>1, <2>2, <2>3
  <1> QED BY <1>3, <1>4, <1>5 DEF t, IsChain

\* Without the first cell.
LEMMA RestChain ==
    ASSUME NEW S, NEW end, NEW nx, NEW c,
           NEW s \in Seq(S), s # <<>>, IsChain(nx, c, s, end), Distinct(s)
    PROVE  /\ c = s[1] /\ s[1] \in S /\ s[1] \in Cells(s)
           /\ Tail(s) \in Seq(S) /\ Distinct(Tail(s))
           /\ IsChain(nx, nx[c], Tail(s), end)
           /\ \A x : x \in Cells(Tail(s)) <=> x \in Cells(s) /\ x # s[1]
  <1> DEFINE t == Tail(s)
  <1>1. /\ t \in Seq(S) /\ Len(t) = Len(s) - 1 /\ Len(s) >= 1
        /\ \A k \in 1 .. Len(t) : t[k] = s[k + 1]
    OBVIOUS
  <1>2. c = s[1] /\ s[1] \in S /\ 1 \in 1 .. Len(s)
    BY <1>1 DEF IsChain, At
  <1>3. s[1] \in Cells(s)
    BY <1>2 DEF Cells
  <1> HIDE DEF t
  <1>4. Distinct(t)
    <2>1. SUFFICES ASSUME NEW j \in 1 .. Len(t), NEW k \in 1 .. Len(t), t[j] = t[k]
                   PROVE  j = k
      BY DEF Distinct
    <2>2. j + 1 \in 1 .. Len(s) /\ k + 1 \in 1 .. Len(s) /\ s[j + 1] = s[k + 1]
      BY <1>1, <2>1
    <2>3. j + 1 = k + 1
      BY <2>2 DEF Distinct
    <2> QED BY <2>3
  <1>5. nx[c] = At(t, 1, end)
    <2>1. nx[s[1]] = At(s, 2, end)
      BY <1>2 DEF IsChain
    <2> QED BY <1>1, <1>2, <2>1 DEF At
  <1>6. ASSUME NEW k \in 1 .. Len(t)
        PROVE  nx[t[k]] = At(t, k + 1, end)
    <2>1. k + 1 \in 1 .. Len(s) /\ t[k] = s[k + 1]
      BY <1>1
    <2>2. nx[s[k + 1]] = At(s, k + 1 + 1, end)
      BY <2>1 DEF IsChain
    <2> QED BY <1>1, <2>1, <2>2 DEF At
  <1>7. ASSUME NEW x \in Cells(t)
        PROVE  x \in Cells(s) /\ x # s[1]
    <2>1. PICK k \in 1 .. Len(t) : x = t[k]
      BY DEF Cells
    <2>2. k + 1 \in 1 .. Len(s) /\ x = s[k + 1]
      BY <1>1, <2>1
    <2>3. s[k + 1] # s[1]
      BY <1>2, <2>2 DEF Distinct
    <2> QED BY <2>2, <2>3 DEF Cells
  <1>8. ASSUME NEW x \in Cells(s), x # s[1]
        PROVE  x \in Cells(t)
    <2>1. PICK k \in 1 .. Len(s) : x = s[k]
      BY DEF Cells
    <2>2. k - 1 \in 1 .. Len(t) /\ t[k - 1] = s[k]
      BY <1>1, <1>8, <2>1
    <2> QED BY <2>1, <2>2 DEF Cells
  <1> QED BY <1>1, <1>2, <1>3, <1>4, <1>5, <1>6, <1>7, <1>8 DEF t, IsChain

=============================================================================
