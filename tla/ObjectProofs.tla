---------------------------- MODULE ObjectProofs ----------------------------
(***************************************************************************)
(* What the API keeps for the application besides lists: the sequences,    *)
(* and the memory behind the objects of the C++ interface; for any number  *)
(* of operations and objects.                                              *)
(*                                                                         *)
(* The two loops of _arakoon_sequence_impl go over a list that is in the   *)
(* reverse order.  The invariant says of each of them what it has come to: *)
(* a number of operations counted from the first one added.                *)
(***************************************************************************)
EXTENDS Sequence, Wrapper, SequenceTheorems, DataLemmas

-----------------------------------------------------------------------------
(* Sums *)

LEMMA SumsAre ==
    ASSUME NEW s \in Seq(Nat)
    PROVE  /\ Sums(s) \in [0 .. Len(s) -> Nat] /\ Sums(s)[0] = 0
           /\ \A n \in 1 .. Len(s) : Sums(s)[n] = Sums(s)[n - 1] + s[n]
  <1> DEFINE adds == [n \in 1 .. Len(s) |-> [x \in Nat |-> x + s[n]]]
             Obeys(w) == w = [n \in 0 .. Len(s) |-> IF n = 0 THEN 0 ELSE w[n - 1] + s[n]]
  <1>1. adds \in [1 .. Len(s) -> [Nat -> Nat]] /\ Len(s) \in Nat
    OBVIOUS
  <1>2. PICK f : IsRecursiveTo(f, Len(s), Nat, 0, adds)
    <2> HIDE DEF adds
    <2> QED BY <1>1, RecursionTo
  <1>3. /\ f \in [0 .. Len(s) -> Nat] /\ f[0] = 0
        /\ \A n \in 1 .. Len(s) : f[n] = f[n - 1] + s[n]
    <2>1. /\ f \in [0 .. Len(s) -> Nat] /\ f[0] = 0
          /\ \A n \in 1 .. Len(s) : f[n] = adds[n][f[n - 1]]
      BY <1>2 DEF IsRecursiveTo
    <2>2. ASSUME NEW n \in 1 .. Len(s)
          PROVE  f[n] = f[n - 1] + s[n]
      <3>1. n - 1 \in 0 .. Len(s)
        OBVIOUS
      <3>2. f[n - 1] \in Nat
        BY <2>1, <3>1
      <3> QED BY <2>1, <3>2
    <2> QED BY <2>1, <2>2
  <1>4. Obeys(f)
    BY <1>3
  <1>5. Obeys(Sums(s))
    <2>1. Sums(s) = CHOOSE w : Obeys(w)
      BY DEF Sums
    <2> HIDE DEF Obeys
    <2> QED BY <1>4, <2>1
  <1> DEFINE g == Sums(s)
  <1> HIDE DEF g
  <1>6. g = [n \in 0 .. Len(s) |-> IF n = 0 THEN 0 ELSE g[n - 1] + s[n]]
    BY <1>5 DEF g
  <1>7. g[0] = 0 /\ \A n \in 1 .. Len(s) : g[n] = g[n - 1] + s[n]
    <2>1. \A n \in 0 .. Len(s) : g[n] = IF n = 0 THEN 0 ELSE g[n - 1] + s[n]
      BY <1>6
    <2>2. 0 \in 0 .. Len(s) /\ \A n \in 1 .. Len(s) : n \in 0 .. Len(s) /\ n # 0
      OBVIOUS
    <2> QED BY <2>1, <2>2
  <1> DEFINE T == {n \in Nat : n <= Len(s) => g[n] \in Nat}
  <1>8. Nat \subseteq T
    <2>1. 0 \in T
      BY <1>7
    <2>2. ASSUME NEW n \in Nat, n \in T
          PROVE  n + 1 \in T
      <3>1. SUFFICES ASSUME n + 1 <= Len(s)
                     PROVE  g[n + 1] \in Nat
        OBVIOUS
      <3>2. n + 1 \in 1 .. Len(s) /\ n + 1 - 1 = n
        BY <3>1
      <3>3. g[n + 1] = g[n] + s[n + 1] /\ s[n + 1] \in Nat
        BY <1>7, <3>2
      <3> QED BY <2>2, <3>1, <3>3
    <2> HIDE DEF T
    <2> QED BY <2>1, <2>2, Inductive
  <1>9. g \in [0 .. Len(s) -> Nat]
    <2>1. \A n \in 0 .. Len(s) : g[n] \in Nat
      BY <1>8
    <2> QED BY <1>6, <2>1
  <1> QED BY <1>7, <1>9 DEF g

LEMMA SumsConcat ==
    ASSUME NEW s \in Seq(Nat), NEW t \in Seq(Nat)
    PROVE  /\ \A n \in 0 .. Len(s) : Sums(s \o t)[n] = Sums(s)[n]
           /\ \A n \in 0 .. Len(t) :
                  Sums(s \o t)[Len(s) + n] = Sums(s)[Len(s)] + Sums(t)[n]
  <1> DEFINE u == s \o t
             f == Sums(s)
             g == Sums(t)
             h == Sums(u)
  <1>1. /\ u \in Seq(Nat) /\ Len(u) = Len(s) + Len(t)
        /\ \A n \in 1 .. Len(s) : u[n] = s[n]
        /\ \A n \in 1 .. Len(t) : u[Len(s) + n] = t[n]
    OBVIOUS
  <1> HIDE DEF u
  <1>2. /\ f \in [0 .. Len(s) -> Nat] /\ f[0] = 0
        /\ \A n \in 1 .. Len(s) : f[n] = f[n - 1] + s[n]
    BY SumsAre
  <1>3. /\ g \in [0 .. Len(t) -> Nat] /\ g[0] = 0
        /\ \A n \in 1 .. Len(t) : g[n] = g[n - 1] + t[n]
    BY SumsAre
  <1>4. /\ h \in [0 .. Len(u) -> Nat] /\ h[0] = 0
        /\ \A n \in 1 .. Len(u) : h[n] = h[n - 1] + u[n]
    BY <1>1, SumsAre
  <1> HIDE DEF f, g, h
  <1> DEFINE T == {n \in Nat : n <= Len(s) => h[n] = f[n]}
             U == {n \in Nat : n <= Len(t) => h[Len(s) + n] = f[Len(s)] + g[n]}
  <1>5. Nat \subseteq T
    <2>1. 0 \in T
      BY <1>2, <1>4
    <2>2. ASSUME NEW n \in Nat, n \in T
          PROVE  n + 1 \in T
      <3>1. SUFFICES ASSUME n + 1 <= Len(s)
                     PROVE  h[n + 1] = f[n + 1]
        OBVIOUS
      <3>2. n + 1 \in 1 .. Len(s) /\ n + 1 \in 1 .. Len(u) /\ n + 1 - 1 = n
        BY <1>1, <3>1
      <3>3. h[n + 1] = h[n] + u[n + 1] /\ f[n + 1] = f[n] + s[n + 1]
        BY <1>2, <1>4, <3>2
      <3> QED BY <1>1, <2>2, <3>1, <3>2, <3>3
    <2> HIDE DEF T
    <2> QED BY <2>1, <2>2, Inductive
  <1>6. Nat \subseteq U
    <2>1. 0 \in U
      <3>1. h[Len(s)] = f[Len(s)] /\ f[Len(s)] \in Nat
        BY <1>2, <1>5
      <3> QED BY <1>3, <3>1
    <2>2. ASSUME NEW n \in Nat, n \in U
          PROVE  n + 1 \in U
      <3>1. SUFFICES ASSUME n + 1 <= Len(t)
                     PROVE  h[Len(s) + (n + 1)] = f[Len(s)] + g[n + 1]
        OBVIOUS
      <3>2. /\ n + 1 \in 1 .. Len(t) /\ Len(s) + (n + 1) \in 1 .. Len(u)
            /\ n + 1 - 1 = n /\ Len(s) + (n + 1) - 1 = Len(s) + n
        BY <1>1, <3>1
      <3>3. h[Len(s) + (n + 1)] = h[Len(s) + n] + u[Len(s) + (n + 1)]
            /\ g[n + 1] = g[n] + t[n + 1]
        BY <1>3, <1>4, <3>2
      <3>4. u[Len(s) + (n + 1)] = t[n + 1] /\ t[n + 1] \in Nat
        <4> DEFINE k == n + 1
        <4>1. k \in 1 .. Len(t)
          BY <3>2
        <4> HIDE DEF k
        <4>2. \A m \in 1 .. Len(t) : u[Len(s) + m] = t[m]
          BY <1>1
        <4>3. u[Len(s) + k] = t[k]
          BY <4>1, <4>2, Zenon
        <4>4. t[k] \in Nat
          BY <4>1
        <4> QED BY <4>3, <4>4 DEF k
      <3>5. h[Len(s) + n] = f[Len(s)] + g[n]
        BY <2>2, <3>1
      <3>6. f[Len(s)] \in Nat /\ g[n] \in Nat
        <4>1. Len(s) \in 0 .. Len(s) /\ n \in 0 .. Len(t)
          BY <3>1
        <4> QED BY <1>2, <1>3, <4>1
      <3> QED BY <3>3, <3>4, <3>5, <3>6
    <2> HIDE DEF U
    <2> QED BY <2>1, <2>2, Inductive
  <1>7. \A n \in 0 .. Len(s) : h[n] = f[n]
    BY <1>5
  <1>8. \A n \in 0 .. Len(t) : h[Len(s) + n] = f[Len(s)] + g[n]
    BY <1>6
  <1> QED BY <1>7, <1>8 DEF f, g, h, u

LEMMA SumsBounded ==
    ASSUME NEW s \in Seq(Nat), NEW b \in Nat, \A n \in 1 .. Len(s) : s[n] <= b
    PROVE  \A n \in 0 .. Len(s) : Sums(s)[n] <= b * n
  <1> DEFINE g == Sums(s)
  <1>1. /\ g \in [0 .. Len(s) -> Nat] /\ g[0] = 0
        /\ \A n \in 1 .. Len(s) : g[n] = g[n - 1] + s[n]
    BY SumsAre
  <1> HIDE DEF g
  <1> DEFINE T == {n \in Nat : n <= Len(s) => g[n] <= b * n}
  <1>2. 0 \in T
    BY <1>1
  <1>3. ASSUME NEW n \in Nat, n \in T
        PROVE  n + 1 \in T
    <2>1. SUFFICES ASSUME n + 1 <= Len(s)
                   PROVE  g[n + 1] <= b * (n + 1)
      OBVIOUS
    <2>2. n + 1 \in 1 .. Len(s) /\ n + 1 - 1 = n /\ n \in 0 .. Len(s)
      BY <2>1
    <2>3. g[n + 1] = g[n] + s[n + 1] /\ s[n + 1] \in Nat /\ s[n + 1] <= b
      BY <1>1, <2>2
    <2>4. g[n] <= b * n
      <3>1. n <= Len(s)
        BY <2>1
      <3> QED BY <1>3, <3>1
    <2>6. g[n] \in Nat
      BY <1>1, <2>2
    <2>5. b * (n + 1) = b * n + b /\ b * n \in Nat
      OBVIOUS
    <2> QED BY <2>3, <2>4, <2>5, <2>6
  <1>4. Nat \subseteq T
    <2> HIDE DEF T
    <2> QED BY <1>2, <1>3, Inductive
  <1> QED BY <1>4 DEF g

-----------------------------------------------------------------------------
(* Tokens *)

Token == [is : {"uint32", "bytes", "bool", "command"}, of : Int, width : Nat]

Widths(tokens) == [n \in 1 .. Len(tokens) |-> tokens[n].width]

LEMMA WidthsAre ==
    ASSUME NEW s \in Seq(Token)
    PROVE  /\ Widths(s) \in Seq(Nat) /\ Len(Widths(s)) = Len(s)
           /\ Width(s) = Sums(Widths(s))[Len(Widths(s))] /\ Width(s) \in Nat
  <1>1. Widths(s) \in Seq(Nat) /\ Len(Widths(s)) = Len(s)
    <2>1. \A n \in 1 .. Len(s) : s[n].width \in Nat
      <3>1. \A n \in 1 .. Len(s) : s[n] \in Token
        OBVIOUS
      <3> QED BY <3>1 DEF Token
    <2> QED BY <2>1 DEF Widths
  <1>2. Width(s) = Sums(Widths(s))[Len(Widths(s))]
    BY <1>1 DEF Width, Widths
  <1>3. Width(s) \in Nat
    <2>1. Len(Widths(s)) \in 0 .. Len(Widths(s))
      BY <1>1
    <2> QED BY <1>1, <1>2, <2>1, SumsAre
  <1> QED BY <1>1, <1>2, <1>3

LEMMA WidthOfNone == Width(<<>>) = 0
  <1>1. <<>> \in Seq(Token)
    OBVIOUS
  <1>2. Len(Widths(<<>>)) = 0
    BY <1>1, WidthsAre
  <1> QED BY <1>1, <1>2, WidthsAre, SumsAre

LEMMA WidthOfOne ==
    ASSUME NEW t \in Token
    PROVE  Width(<<t>>) = t.width
  <1>1. <<t>> \in Seq(Token) /\ Len(<<t>>) = 1
    OBVIOUS
  <1> DEFINE w == Widths(<<t>>)
  <1>2. w \in Seq(Nat) /\ Len(w) = 1 /\ Width(<<t>>) = Sums(w)[1]
    BY <1>1, WidthsAre
  <1>3. w[1] = t.width
    BY DEF Widths
  <1>4. t.width \in Nat
    BY DEF Token
  <1> HIDE DEF w
  <1>5. Sums(w)[1] = Sums(w)[0] + w[1] /\ Sums(w)[0] = 0
    <2>1. 1 \in 1 .. Len(w) /\ 1 - 1 = 0
      BY <1>2
    <2> QED BY <1>2, <2>1, SumsAre
  <1> QED BY <1>2, <1>3, <1>4, <1>5

LEMMA WidthConcat ==
    ASSUME NEW s \in Seq(Token), NEW t \in Seq(Token)
    PROVE  Width(s \o t) = Width(s) + Width(t)
  <1> DEFINE u == s \o t
  <1>1. u \in Seq(Token) /\ Len(u) = Len(s) + Len(t)
    OBVIOUS
  <1>2. Widths(u) = Widths(s) \o Widths(t)
    BY DEF Widths
  <1>3. Len(t) \in 0 .. Len(t)
    OBVIOUS
  <1> HIDE DEF u
  <1>4. Width(u) = Sums(Widths(s) \o Widths(t))[Len(Widths(s)) + Len(Widths(t))]
    BY <1>1, <1>2, WidthsAre
  <1>5. Len(Widths(t)) \in 0 .. Len(Widths(t))
    BY <1>3, WidthsAre
  <1>6. Width(u) = Sums(Widths(s))[Len(Widths(s))] + Sums(Widths(t))[Len(Widths(t))]
    BY <1>4, <1>5, WidthsAre, SumsConcat
  <1> QED BY <1>6, WidthsAre DEF u

LEMMA TokensAre ==
    /\ \A n \in Int : UInt32(n) \in Token /\ UInt32(n).width = 4
    /\ \A n \in Nat : Bytes(n) \in Token /\ Bytes(n).width = n
    /\ \A b : Bool(b) \in Token /\ Bool(b).width = 1
    /\ \A c \in Int : Command(c) \in Token /\ Command(c).width = 4
  <1>1. \A n \in Int : UInt32(n) \in Token /\ UInt32(n).width = 4
    BY WordAssumption DEF Token, UInt32, Number, UInt32Len
  <1>2. \A n \in Nat : Bytes(n) \in Token /\ Bytes(n).width = n
    BY DEF Token, Bytes
  <1>3. \A b : Bool(b) \in Token /\ Bool(b).width = 1
    BY DEF Token, Bool, BoolLen
  <1>4. \A c \in Int : Command(c) \in Token /\ Command(c).width = 4
    BY DEF Token, Command, CommandLen
  <1> QED BY <1>1, <1>2, <1>3, <1>4

LEMMA TwoTokens ==
    ASSUME NEW t \in Token, NEW u \in Token
    PROVE  <<t, u>> \in Seq(Token) /\ Width(<<t, u>>) = t.width + u.width
  <1>1. <<t, u>> \in Seq(Token) /\ Len(<<t, u>>) = 2
    OBVIOUS
  <1> DEFINE w == Widths(<<t, u>>)
  <1>2. w \in Seq(Nat) /\ Len(w) = 2 /\ Width(<<t, u>>) = Sums(w)[2]
    BY <1>1, WidthsAre
  <1>3. w[1] = t.width /\ w[2] = u.width
    BY DEF Widths
  <1>4. t.width \in Nat /\ u.width \in Nat
    BY DEF Token
  <1> HIDE DEF w
  <1>5. /\ Sums(w)[0] = 0
        /\ Sums(w)[1] = Sums(w)[0] + w[1] /\ Sums(w)[2] = Sums(w)[1] + w[2]
    <2>1. 1 \in 1 .. Len(w) /\ 1 - 1 = 0 /\ 2 \in 1 .. Len(w) /\ 2 - 1 = 1
      BY <1>2
    <2> QED BY <1>2, <2>1, SumsAre
  <1> QED BY <1>1, <1>2, <1>3, <1>4, <1>5

AtOnce(a, b, c, d, s) == <<a, b, c, d>> \o s

InTwoSteps(a, b, c, d, s) == <<a, b>> \o (<<c, d>> \o s)

LEMMA FourTokens ==
    ASSUME NEW a \in Token, NEW b \in Token, NEW c \in Token, NEW d \in Token,
           NEW s \in Seq(Token)
    PROVE  AtOnce(a, b, c, d, s) = InTwoSteps(a, b, c, d, s)
  <1> DEFINE x == <<a, b, c, d>> \o s
             z == <<c, d>> \o s
             y == <<a, b>> \o z
  <1>1. /\ x \in Seq(Token) /\ Len(x) = Len(s) + 4
        /\ x[1] = a /\ x[2] = b /\ x[3] = c /\ x[4] = d
        /\ \A k \in 1 .. Len(s) : x[k + 4] = s[k]
    OBVIOUS
  <1>2. /\ z \in Seq(Token) /\ Len(z) = Len(s) + 2
        /\ z[1] = c /\ z[2] = d
        /\ \A k \in 1 .. Len(s) : z[k + 2] = s[k]
    OBVIOUS
  <1> HIDE DEF x, z
  <1>3. /\ y \in Seq(Token) /\ Len(y) = Len(z) + 2
        /\ y[1] = a /\ y[2] = b
        /\ \A k \in 1 .. Len(z) : y[k + 2] = z[k]
    BY <1>2
  <1> HIDE DEF y
  <1>4. ASSUME NEW k \in 1 .. Len(x)
        PROVE  x[k] = y[k]
    <2>1. CASE k \in {1, 2}
      BY <1>1, <1>3, <2>1
    <2>2. CASE k \in {3, 4}
      <3>1. y[1 + 2] = z[1] /\ y[2 + 2] = z[2]
        BY <1>2, <1>3
      <3> QED BY <1>1, <1>2, <2>2, <3>1
    <2>3. CASE k > 4
      <3> DEFINE j == k - 4
      <3>1. j \in 1 .. Len(s) /\ j + 2 \in 1 .. Len(z) /\ j + 4 = k /\ j + 2 + 2 = k
        BY <1>1, <1>2, <2>3
      <3> HIDE DEF j
      <3>2. x[j + 4] = s[j] /\ z[j + 2] = s[j] /\ y[j + 2 + 2] = z[j + 2]
        BY <1>1, <1>2, <1>3, <3>1
      <3> QED BY <3>1, <3>2
    <2> QED BY <1>1, <2>1, <2>2, <2>3
  <1>5. Len(x) = Len(y)
    BY <1>1, <1>2, <1>3
  <1>6. x = y
    BY <1>1, <1>3, <1>4, <1>5, SeqEqual
  <1> QED BY <1>6 DEF x, y, z, AtOnce, InTwoSteps

LEMMA StringWidth ==
    ASSUME NEW n \in Nat
    PROVE  String(n) \in Seq(Token) /\ Width(String(n)) = StringLen(n)
  <1>1. UInt32(n) \in Token /\ Bytes(n) \in Token
    BY TokensAre
  <1> QED BY <1>1, TwoTokens, TokensAre DEF String, StringLen, UInt32Len

LEMMA StringOptionWidth ==
    ASSUME NEW v \in Sizes \union {NoValue}
    PROVE  /\ StringOption(v) \in Seq(Token)
           /\ Width(StringOption(v)) = StringOptionLen(v)
  <1> DEFINE no == Bool(FALSE)
             yes == Bool(TRUE)
  <1>1. /\ no \in Token /\ no.width = 1
        /\ yes \in Token /\ yes.width = 1
    BY TokensAre
  <1>2. StringOption(v) = IF v = NoValue THEN <<no>> ELSE <<yes>> \o String(v)
    BY DEF StringOption
  <1> HIDE DEF no, yes
  <1>5. /\ <<no>> \in Seq(Token) /\ Width(<<no>>) = 1
        /\ <<yes>> \in Seq(Token) /\ Width(<<yes>>) = 1
    BY <1>1, WidthOfOne
  <1>3. CASE v = NoValue
    BY <1>2, <1>3, <1>5 DEF StringOptionLen, BoolLen
  <1>4. CASE v # NoValue
    <2>1. v \in Nat
      BY <1>4, SizesAssumption
    <2>2. String(v) \in Seq(Token) /\ Width(String(v)) = StringLen(v)
      BY <2>1, StringWidth
    <2>3. Width(<<yes>> \o String(v)) = 1 + StringLen(v)
      BY <1>5, <2>2, WidthConcat
    <2>4. <<yes>> \o String(v) \in Seq(Token)
      BY <1>5, <2>2
    <2> QED BY <1>2, <1>4, <2>3, <2>4 DEF StringOptionLen, BoolLen
  <1> QED BY <1>3, <1>4

\* What follows the key of an item.
ValuePart(o) ==
    CASE o.type = "set" -> String(o.value)
      [] o.type = "assert" -> StringOption(o.value)
      [] OTHER -> <<>>

ValueLen(o) ==
    CASE o.type = "set" -> StringLen(o.value)
      [] o.type = "assert" -> StringOptionLen(o.value)
      [] OTHER -> 0

LEMMA ValueWidth ==
    ASSUME NEW o \in Operations
    PROVE  ValuePart(o) \in Seq(Token) /\ Width(ValuePart(o)) = ValueLen(o)
  <1>1. CASE o.type = "set"
    <2>1. o.value \in Nat
      BY <1>1, SizesAssumption DEF Operations
    <2> QED BY <1>1, <2>1, StringWidth DEF ValuePart, ValueLen
  <1>2. CASE o.type = "assert"
    <2>1. o.value \in Sizes \union {NoValue}
      BY <1>2 DEF Operations
    <2>2. ValuePart(o) = StringOption(o.value) /\ ValueLen(o) = StringOptionLen(o.value)
      BY <1>2 DEF ValuePart, ValueLen
    <2> QED BY <2>1, <2>2, StringOptionWidth
  <1>3. CASE o.type \notin {"set", "assert"}
    <2>1. ValuePart(o) = <<>> /\ ValueLen(o) = 0
      BY <1>3 DEF ValuePart, ValueLen
    <2> QED BY <2>1, WidthOfNone
  <1> QED BY <1>1, <1>2, <1>3

\* The two loops agree on an item: the second writes as many bytes as the first
\* counts.
LEMMA WrittenWidth ==
    ASSUME NEW o \in Operations
    PROVE  /\ Written(o) \in Seq(Token)
           /\ Width(Written(o)) = ItemLen(o) /\ ItemLen(o) \in Nat
  <1> DEFINE t == UInt32(TypeCode[o.type])
  <1>1. t \in Token /\ t.width = 4
    <2>1. TypeCode[o.type] \in Int
      BY DEF TypeCode, Operations
    <2> QED BY <2>1, TokensAre
  <1>2. o.key \in Nat
    BY SizesAssumption DEF Operations
  <1>3. Written(o) = (<<t>> \o String(o.key)) \o ValuePart(o)
    BY DEF Written, ValuePart
  <1> HIDE DEF t
  <1>4. String(o.key) \in Seq(Token) /\ Width(String(o.key)) = StringLen(o.key)
    BY <1>2, StringWidth
  <1>5. <<t>> \in Seq(Token) /\ Width(<<t>>) = 4
    BY <1>1, WidthOfOne
  <1>6. /\ <<t>> \o String(o.key) \in Seq(Token)
        /\ Width(<<t>> \o String(o.key)) = 4 + StringLen(o.key)
    <2>1. <<t>> \o String(o.key) \in Seq(Token)
      BY <1>4, <1>5
    <2>2. Width(<<t>> \o String(o.key)) = Width(<<t>>) + Width(String(o.key))
      BY <1>4, <1>5, WidthConcat
    <2> QED BY <1>4, <1>5, <2>1, <2>2
  <1>7. ValuePart(o) \in Seq(Token) /\ Width(ValuePart(o)) = ValueLen(o)
    BY ValueWidth
  <1>8. /\ Written(o) \in Seq(Token)
        /\ Width(Written(o)) = 4 + StringLen(o.key) + ValueLen(o)
    <2> DEFINE front == <<t>> \o String(o.key)
    <2>1. front \in Seq(Token) /\ Width(front) = 4 + StringLen(o.key)
      BY <1>6
    <2>2. Written(o) = front \o ValuePart(o)
      BY <1>3
    <2> HIDE DEF front
    <2>3. Width(front \o ValuePart(o)) = Width(front) + Width(ValuePart(o))
      BY <1>7, <2>1, WidthConcat
    <2>4. front \o ValuePart(o) \in Seq(Token)
      BY <1>7, <2>1
    <2> QED BY <1>7, <2>1, <2>2, <2>3, <2>4
  <1>9. ItemLen(o) = 4 + StringLen(o.key) + ValueLen(o)
    BY DEF ItemLen, ValueLen, UInt32Len
  <1> QED BY <1>8, <1>9, WidthsAre

-----------------------------------------------------------------------------
(* What is written for several operations, one after the other *)

Flat(s) ==
    LET flat[n \in 0 .. Len(s)] ==
            IF n = 0 THEN <<>> ELSE flat[n - 1] \o Written(s[n])
    IN  flat

LEMMA FlatAre ==
    ASSUME NEW s \in Seq(Operations)
    PROVE  /\ Flat(s) \in [0 .. Len(s) -> Seq(Token)] /\ Flat(s)[0] = <<>>
           /\ \A n \in 1 .. Len(s) : Flat(s)[n] = Flat(s)[n - 1] \o Written(s[n])
  <1> DEFINE adds == [n \in 1 .. Len(s) |-> [x \in Seq(Token) |-> x \o Written(s[n])]]
             Obeys(w) == w = [n \in 0 .. Len(s) |->
                                 IF n = 0 THEN <<>> ELSE w[n - 1] \o Written(s[n])]
  <1>1. \A n \in 1 .. Len(s) : Written(s[n]) \in Seq(Token)
    <2>1. \A n \in 1 .. Len(s) : s[n] \in Operations
      OBVIOUS
    <2> QED BY <2>1, WrittenWidth
  <1>2. adds \in [1 .. Len(s) -> [Seq(Token) -> Seq(Token)]] /\ Len(s) \in Nat
    BY <1>1
  <1>3. PICK f : IsRecursiveTo(f, Len(s), Seq(Token), <<>>, adds)
    <2>1. <<>> \in Seq(Token)
      OBVIOUS
    <2> HIDE DEF adds
    <2> QED BY <1>2, <2>1, RecursionTo
  <1>4. /\ f \in [0 .. Len(s) -> Seq(Token)] /\ f[0] = <<>>
        /\ \A n \in 1 .. Len(s) : f[n] = f[n - 1] \o Written(s[n])
    <2>1. /\ f \in [0 .. Len(s) -> Seq(Token)] /\ f[0] = <<>>
          /\ \A n \in 1 .. Len(s) : f[n] = adds[n][f[n - 1]]
      BY <1>3 DEF IsRecursiveTo
    <2>2. ASSUME NEW n \in 1 .. Len(s)
          PROVE  f[n] = f[n - 1] \o Written(s[n])
      <3>1. n - 1 \in 0 .. Len(s)
        OBVIOUS
      <3>2. f[n - 1] \in Seq(Token)
        BY <2>1, <3>1
      <3> QED BY <2>1, <3>2
    <2> QED BY <2>1, <2>2
  <1>5. Obeys(f)
    <2>1. f = [n \in 0 .. Len(s) |-> f[n]]
      BY <1>4
    <2>2. ASSUME NEW n \in 0 .. Len(s)
          PROVE  f[n] = IF n = 0 THEN <<>> ELSE f[n - 1] \o Written(s[n])
      <3>1. n # 0 => n \in 1 .. Len(s)
        OBVIOUS
      <3> QED BY <1>4, <3>1
    <2> QED BY <2>1, <2>2
  <1>6. Obeys(Flat(s))
    <2>1. Flat(s) = CHOOSE w : Obeys(w)
      BY DEF Flat
    <2> HIDE DEF Obeys
    <2> QED BY <1>5, <2>1
  <1> DEFINE g == Flat(s)
  <1> HIDE DEF g
  <1>7. g = [n \in 0 .. Len(s) |-> IF n = 0 THEN <<>> ELSE g[n - 1] \o Written(s[n])]
    BY <1>6 DEF g
  <1>8. g[0] = <<>> /\ \A n \in 1 .. Len(s) : g[n] = g[n - 1] \o Written(s[n])
    BY <1>7
  <1> DEFINE T == {n \in Nat : n <= Len(s) => g[n] \in Seq(Token)}
  <1>9. Nat \subseteq T
    <2>1. 0 \in T
      <3>1. g[0] = <<>>
        BY <1>8
      <3>2. g[0] \in Seq(Token)
        BY <3>1
      <3> QED BY <3>2
    <2>2. ASSUME NEW n \in Nat, n \in T
          PROVE  n + 1 \in T
      <3>1. SUFFICES ASSUME n + 1 <= Len(s)
                     PROVE  g[n + 1] \in Seq(Token)
        OBVIOUS
      <3>2. n + 1 \in 1 .. Len(s) /\ n + 1 - 1 = n
        BY <3>1
      <3>3. g[n + 1] = g[n] \o Written(s[n + 1])
        <4> DEFINE k == n + 1
        <4>1. k \in 1 .. Len(s) /\ k - 1 = n
          BY <3>2
        <4> HIDE DEF k
        <4>2. g[k] = g[k - 1] \o Written(s[k])
          BY <1>8, <4>1
        <4> QED BY <4>1, <4>2 DEF k
      <3>4. g[n] \in Seq(Token) /\ Written(s[n + 1]) \in Seq(Token)
        BY <1>1, <2>2, <3>1, <3>2
      <3> QED BY <3>3, <3>4
    <2> HIDE DEF T
    <2> QED BY <2>1, <2>2, Inductive
  <1>10. g \in [0 .. Len(s) -> Seq(Token)]
    <2>1. \A n \in 0 .. Len(s) : g[n] \in Seq(Token)
      BY <1>9
    <2> QED BY <1>7, <2>1
  <1> QED BY <1>8, <1>10 DEF g

-----------------------------------------------------------------------------
(* The invariant *)

\* s are the last operations of all in reverse: the first Len(s) of them.
Reversed(s, all) ==
    /\ s \in Seq(Operations) /\ Len(s) <= Len(all)
    /\ \A k \in 1 .. Len(s) : s[k] = all[Len(s) + 1 - k]

BlocksOf(s) == [n \in 1 .. Len(s) |-> ItemBlocks(s[n])]

\* What is written for the first n operations.
Part(n) == Flat(added)[n]

ListKept ==
    /\ added \in Seq(Operations) /\ Len(added) <= MaxOps
    /\ Reversed(ops, added) /\ Len(ops) = Len(added)
    /\ Reversed(rest, added)
    /\ step = "absent" => added = <<>>

MemoryKept ==
    blocks = Sums(BlocksOf(added))[IF step = "freeing" THEN Len(rest) ELSE Len(added)]

Measured ==
    step = "measure" =>
        /\ command = <<>> /\ count = 0
        /\ len + Width(Part(Len(rest))) = HeaderLen + Width(Part(Len(added)))

Building ==
    step = "write" =>
        /\ len = HeaderLen + Width(Part(Len(added)))
        /\ pos = HeaderLen + Width(Part(Len(rest)))
        /\ count = Len(added) - Len(rest)
        /\ command \in Seq(Token)
        /\ Part(Len(rest)) \o command = Part(Len(added))

Locals ==
    /\ step \in {"absent", "open", "measure", "write", "sent", "freeing", "aborted"}
    /\ len \in Nat /\ pos \in Nat /\ count \in 0 .. MaxOps
    /\ code \in {0, 16, 36}

\* What is written of a sequence, which is less than was asked for where a number
\* does not fit.
Stored(s) ==
    LET body == <<UInt32(5), UInt32(Len(s))>>
                \o FlattenSeq([n \in 1 .. Len(s) |-> Written(s[n])])
    IN  <<Command(code), UInt32(Width(body))>> \o body

AsStored == step = "sent" => command = Stored(added)

SeqInv == Locals /\ ListKept /\ MemoryKept /\ Measured /\ Building /\ AsStored

LEMMA PartsAre ==
    ASSUME added \in Seq(Operations)
    PROVE  /\ Part(0) = <<>>
           /\ \A n \in 0 .. Len(added) : Part(n) \in Seq(Token) /\ Width(Part(n)) \in Nat
           /\ \A n \in 1 .. Len(added) :
                  /\ Part(n) = Part(n - 1) \o Written(added[n])
                  /\ Width(Part(n)) = Width(Part(n - 1)) + ItemLen(added[n])
                  /\ ItemLen(added[n]) \in Nat
  <1>1. /\ Flat(added) \in [0 .. Len(added) -> Seq(Token)] /\ Part(0) = <<>>
        /\ \A n \in 1 .. Len(added) : Part(n) = Part(n - 1) \o Written(added[n])
    BY FlatAre DEF Part
  <1>2. \A n \in 0 .. Len(added) : Part(n) \in Seq(Token)
    BY <1>1 DEF Part
  <1>3. \A n \in 0 .. Len(added) : Width(Part(n)) \in Nat
    BY <1>2, WidthsAre
  <1>4. ASSUME NEW n \in 1 .. Len(added)
        PROVE  /\ Width(Part(n)) = Width(Part(n - 1)) + ItemLen(added[n])
               /\ ItemLen(added[n]) \in Nat
    <2>1. added[n] \in Operations /\ n - 1 \in 0 .. Len(added)
      OBVIOUS
    <2>2. Part(n - 1) \in Seq(Token)
      BY <1>2, <2>1
    <2>3. /\ Written(added[n]) \in Seq(Token)
          /\ Width(Written(added[n])) = ItemLen(added[n]) /\ ItemLen(added[n]) \in Nat
      BY <2>1, WrittenWidth
    <2>4. Width(Part(n - 1) \o Written(added[n]))
          = Width(Part(n - 1)) + Width(Written(added[n]))
      BY <2>2, <2>3, WidthConcat
    <2> QED BY <1>1, <2>3, <2>4
  <1> QED BY <1>1, <1>2, <1>3, <1>4

\* The operations at the head of what is left of the list.
LEMMA ReversedRest ==
    ASSUME NEW all \in Seq(Operations), NEW s, Reversed(s, all), s # <<>>
    PROVE  /\ Reversed(Tail(s), all)
           /\ Len(s) \in 1 .. Len(all) /\ Len(Tail(s)) = Len(s) - 1
           /\ Head(s) = all[Len(s)]
  <1> DEFINE t == Tail(s)
  <1>1. /\ s \in Seq(Operations) /\ Len(s) <= Len(all)
        /\ \A k \in 1 .. Len(s) : s[k] = all[Len(s) + 1 - k]
    BY DEF Reversed
  <1>2. /\ Len(s) \in 1 .. Len(all) /\ Len(t) = Len(s) - 1
        /\ t \in Seq(Operations) /\ Head(s) = s[1]
        /\ \A k \in 1 .. Len(s) - 1 : t[k] = s[k + 1]
    BY <1>1
  <1> HIDE DEF t
  <1>3. Head(s) = all[Len(s)]
    <2>1. s[1] = all[Len(s) + 1 - 1] /\ Len(s) + 1 - 1 = Len(s)
      BY <1>1, <1>2
    <2> QED BY <1>2, <2>1
  <1>4. ASSUME NEW k \in 1 .. Len(t)
        PROVE  t[k] = all[Len(t) + 1 - k]
    <2> DEFINE j == k + 1
    <2>1. j \in 1 .. Len(s) /\ t[k] = s[j] /\ Len(s) + 1 - j = Len(t) + 1 - k
      <3>1. Len(t) = Len(s) - 1 /\ Len(s) \in Nat
        BY <1>2
      <3>2. k \in 1 .. Len(s) - 1
        BY <3>1
      <3>3. t[k] = s[j]
        BY <1>2, <3>2
      <3> QED BY <3>1, <3>2, <3>3
    <2> HIDE DEF j
    <2>2. s[j] = all[Len(s) + 1 - j]
      BY <1>1, <2>1
    <2> QED BY <2>1, <2>2
  <1>5. Reversed(t, all)
    <2>1. Len(t) <= Len(all)
      BY <1>2
    <2> QED BY <1>2, <1>4, <2>1 DEF Reversed
  <1> QED BY <1>2, <1>3, <1>5 DEF t

LEMMA ReversedNone ==
    ASSUME NEW all \in Seq(Operations)
    PROVE  Reversed(<<>>, all)
  BY DEF Reversed

\* A longer list, and one item more at the head of all.
LEMMA ReversedMore ==
    ASSUME NEW all \in Seq(Operations), NEW s, Reversed(s, all), NEW o \in Operations
    PROVE  /\ Append(all, o) \in Seq(Operations)
           /\ Len(Append(all, o)) = Len(all) + 1
           /\ Reversed(s, Append(all, o))
           /\ Len(s) = Len(all) => /\ Reversed(<<o>> \o s, Append(all, o))
                                   /\ Len(<<o>> \o s) = Len(all) + 1
  <1> DEFINE more == Append(all, o)
             t == <<o>> \o s
  <1>1. /\ more \in Seq(Operations) /\ Len(more) = Len(all) + 1
        /\ \A k \in 1 .. Len(all) : more[k] = all[k]
        /\ more[Len(all) + 1] = o
    OBVIOUS
  <1>2. /\ s \in Seq(Operations) /\ Len(s) <= Len(all)
        /\ \A k \in 1 .. Len(s) : s[k] = all[Len(s) + 1 - k]
    BY DEF Reversed
  <1>3. /\ t \in Seq(Operations) /\ Len(t) = Len(s) + 1
        /\ t[1] = o /\ \A k \in 1 .. Len(s) : t[k + 1] = s[k]
    BY <1>2
  <1> HIDE DEF more, t
  <1>4. Reversed(s, more)
    <2>1. ASSUME NEW k \in 1 .. Len(s)
          PROVE  s[k] = more[Len(s) + 1 - k]
      <3>1. Len(s) + 1 - k \in 1 .. Len(all)
        BY <1>2
      <3> QED BY <1>1, <1>2, <3>1
    <2> QED BY <1>1, <1>2, <2>1 DEF Reversed
  <1>5. ASSUME Len(s) = Len(all)
        PROVE  Reversed(t, more) /\ Len(t) = Len(all) + 1
    <2>1. ASSUME NEW k \in 1 .. Len(t)
          PROVE  t[k] = more[Len(t) + 1 - k]
      <3>1. CASE k = 1
        BY <1>1, <1>2, <1>3, <1>5, <3>1
      <3>2. CASE k # 1
        <4>1. k - 1 \in 1 .. Len(s) /\ k - 1 + 1 = k
          BY <1>2, <1>3, <3>2
        <4>2. t[k] = s[k - 1]
          BY <1>3, <4>1
        <4>3. s[k - 1] = all[Len(s) + 1 - (k - 1)]
          BY <1>2, <4>1
        <4>4. /\ Len(s) + 1 - (k - 1) = Len(t) + 1 - k
              /\ Len(t) + 1 - k \in 1 .. Len(all)
          BY <1>2, <1>3, <1>5, <4>1
        <4>5. more[Len(t) + 1 - k] = all[Len(t) + 1 - k]
          BY <1>1, <4>4
        <4> QED BY <4>2, <4>3, <4>4, <4>5
      <3> QED BY <3>1, <3>2
    <2>2. Len(t) <= Len(more)
      BY <1>1, <1>3, <1>5
    <2> QED BY <1>3, <1>5, <2>1, <2>2 DEF Reversed
  <1> QED BY <1>1, <1>4, <1>5 DEF more, t

LEMMA BlocksAre ==
    ASSUME NEW s \in Seq(Operations)
    PROVE  /\ BlocksOf(s) \in Seq(Nat) /\ Len(BlocksOf(s)) = Len(s)
           /\ Sums(BlocksOf(s)) \in [0 .. Len(s) -> Nat] /\ Sums(BlocksOf(s))[0] = 0
           /\ \A n \in 1 .. Len(s) :
                  Sums(BlocksOf(s))[n] = Sums(BlocksOf(s))[n - 1] + ItemBlocks(s[n])
           /\ \A n \in 0 .. Len(s) : Sums(BlocksOf(s))[n] <= 3 * n
  <1> DEFINE b == BlocksOf(s)
  <1>1. \A n \in 1 .. Len(s) : ItemBlocks(s[n]) \in Nat /\ ItemBlocks(s[n]) <= 3
    BY DEF ItemBlocks
  <1>2. b \in Seq(Nat) /\ Len(b) = Len(s)
    BY <1>1 DEF BlocksOf
  <1>3. \A n \in 1 .. Len(s) : b[n] = ItemBlocks(s[n]) /\ b[n] <= 3
    BY <1>1 DEF BlocksOf
  <1> HIDE DEF b
  <1>4. /\ Sums(b) \in [0 .. Len(s) -> Nat] /\ Sums(b)[0] = 0
        /\ \A n \in 1 .. Len(s) : Sums(b)[n] = Sums(b)[n - 1] + b[n]
    BY <1>2, SumsAre
  <1>5. \A n \in 0 .. Len(s) : Sums(b)[n] <= 3 * n
    BY <1>2, <1>3, SumsBounded
  <1> QED BY <1>2, <1>3, <1>4, <1>5 DEF b

\* The blocks of an item are those that AddOperation takes for it.
LEMMA BlocksOfMore ==
    ASSUME NEW s \in Seq(Operations), NEW o \in Operations
    PROVE  Sums(BlocksOf(Append(s, o)))[Len(s) + 1]
           = Sums(BlocksOf(s))[Len(s)] + IF o.value = NoValue THEN 2 ELSE 3
  <1> DEFINE more == Append(s, o)
  <1>1. /\ more \in Seq(Operations) /\ Len(more) = Len(s) + 1
        /\ \A k \in 1 .. Len(s) : more[k] = s[k]
        /\ more[Len(s) + 1] = o
    OBVIOUS
  <1> HIDE DEF more
  <1>2. ItemBlocks(o) = IF o.value = NoValue THEN 2 ELSE 3
    <2>1. CASE o.type \in {"set", "assert"}
      BY <2>1 DEF ItemBlocks
    <2>2. CASE o.type \notin {"set", "assert"}
      <3>1. o.value = NoValue
        BY <2>2 DEF Operations
      <3> QED BY <2>2, <3>1 DEF ItemBlocks
    <2> QED BY <2>1, <2>2
  <1> DEFINE f == Sums(BlocksOf(s))
             g == Sums(BlocksOf(more))
  <1>3. /\ f \in [0 .. Len(s) -> Nat] /\ f[0] = 0
        /\ \A n \in 1 .. Len(s) : f[n] = f[n - 1] + ItemBlocks(s[n])
    BY BlocksAre
  <1>4. /\ g \in [0 .. Len(s) + 1 -> Nat] /\ g[0] = 0
        /\ \A n \in 1 .. Len(s) + 1 : g[n] = g[n - 1] + ItemBlocks(more[n])
    BY <1>1, BlocksAre
  <1> HIDE DEF f, g
  <1> DEFINE T == {n \in Nat : n <= Len(s) => g[n] = f[n]}
  <1>5. 0 \in T
    BY <1>3, <1>4
  <1>6. ASSUME NEW n \in Nat, n \in T
        PROVE  n + 1 \in T
    <2>1. SUFFICES ASSUME n + 1 <= Len(s)
                   PROVE  g[n + 1] = f[n + 1]
      OBVIOUS
    <2> DEFINE k == n + 1
    <2>2. k \in 1 .. Len(s) /\ k \in 1 .. Len(s) + 1 /\ k - 1 = n /\ n <= Len(s)
      BY <2>1
    <2> HIDE DEF k
    <2>3. f[k] = f[k - 1] + ItemBlocks(s[k])
      BY <1>3, <2>2
    <2>4. g[k] = g[k - 1] + ItemBlocks(more[k])
      BY <1>4, <2>2
    <2>5. more[k] = s[k]
      BY <1>1, <2>2
    <2>6. g[n] = f[n]
      BY <1>6, <2>2
    <2> QED BY <2>2, <2>3, <2>4, <2>5, <2>6 DEF k
  <1>7. Nat \subseteq T
    <2> HIDE DEF T
    <2> QED BY <1>5, <1>6, Inductive
  <1>8. g[Len(s)] = f[Len(s)]
    BY <1>7
  <1>9. g[Len(s) + 1] = g[Len(s)] + ItemBlocks(o)
    <2> DEFINE k == Len(s) + 1
    <2>1. k \in 1 .. Len(s) + 1 /\ k - 1 = Len(s)
      OBVIOUS
    <2>2. more[k] = o
      BY <1>1
    <2> HIDE DEF k
    <2>3. g[k] = g[k - 1] + ItemBlocks(more[k])
      BY <1>4, <2>1
    <2> QED BY <2>1, <2>2, <2>3 DEF k
  <1> QED BY <1>2, <1>8, <1>9 DEF f, g, more

\* What all the items come to.
LEMMA AllIs ==
    ASSUME added \in Seq(Operations)
    PROVE  FlattenSeq([n \in 1 .. Len(added) |-> Written(added[n])]) = Part(Len(added))
  <1> DEFINE all == [n \in 1 .. Len(added) |-> Written(added[n])]
  <1>1. CASE Len(added) = 0
    <2>1. all = <<>> /\ Len(all) = 0
      BY <1>1
    <2>2. FlattenSeq(all) = <<>>
      BY <2>1 DEF FlattenSeq
    <2> QED BY <1>1, <2>2, PartsAre
  <1>2. CASE Len(added) # 0
    <2> DEFINE Obeys(w) ==
            w = [n \in 1 .. Len(all) |-> IF n = 1 THEN all[n] ELSE w[n - 1] \o all[n]]
        f == [n \in 1 .. Len(added) |-> Part(n)]
    <2>1. Len(all) = Len(added) /\ Len(added) \in Nat \ {0}
      BY <1>2
    <2>2. \A n \in 1 .. Len(added) : all[n] = Written(added[n])
      OBVIOUS
    <2>3. FlattenSeq(all) = (CHOOSE w : Obeys(w))[Len(added)]
      BY <2>1 DEF FlattenSeq
    <2> HIDE DEF all
    <2>4. Obeys(f)
      <3>1. ASSUME NEW n \in 1 .. Len(added)
            PROVE  Part(n) = IF n = 1 THEN all[n] ELSE f[n - 1] \o all[n]
        <4>1. Part(n) = Part(n - 1) \o all[n]
          BY <2>2, PartsAre
        <4>2. CASE n = 1
          <5>1. Part(n - 1) = <<>>
            BY <4>2, PartsAre
          <5>2. all[n] \in Seq(Token)
            <6>1. added[n] \in Operations
              OBVIOUS
            <6> QED BY <2>2, <6>1, WrittenWidth
          <5>3. <<>> \o all[n] = all[n]
            BY <5>2
          <5> QED BY <4>1, <4>2, <5>1, <5>3
        <4>3. CASE n # 1
          <5>1. n - 1 \in 1 .. Len(added)
            BY <4>3
          <5> QED BY <4>1, <4>3, <5>1
        <4> QED BY <4>2, <4>3
      <3> QED BY <2>1, <3>1
    <2> DEFINE w == CHOOSE w : Obeys(w)
    <2>5. Obeys(w)
      <3> HIDE DEF Obeys
      <3> QED BY <2>4
    <2> HIDE DEF w
    <2>6. w = [n \in 1 .. Len(added) |-> IF n = 1 THEN all[n] ELSE w[n - 1] \o all[n]]
      BY <2>1, <2>5
    <2> DEFINE T == {n \in Nat : n + 1 <= Len(added) => w[n + 1] = Part(n + 1)}
    <2>7. 0 \in T
      <3>1. 1 \in 1 .. Len(added) /\ 0 + 1 = 1
        BY <2>1
      <3>2. w[1] = all[1]
        BY <2>6, <3>1
      <3>3. Part(1) = all[1]
        BY <2>1, <2>4, <3>1
      <3> QED BY <3>1, <3>2, <3>3
    <2>8. ASSUME NEW n \in Nat, n \in T
          PROVE  n + 1 \in T
      <3>1. SUFFICES ASSUME n + 1 + 1 <= Len(added)
                     PROVE  w[n + 1 + 1] = Part(n + 1 + 1)
        OBVIOUS
      <3> DEFINE k == n + 1 + 1
      <3>2. k \in 1 .. Len(added) /\ k # 1 /\ k - 1 = n + 1 /\ n + 1 <= Len(added)
        BY <3>1
      <3> HIDE DEF k
      <3>3. w[k] = w[k - 1] \o all[k]
        BY <2>6, <3>2
      <3>4. Part(k) = Part(k - 1) \o all[k]
        BY <2>2, <3>2, PartsAre
      <3>5. w[n + 1] = Part(n + 1)
        BY <2>8, <3>2
      <3> QED BY <3>2, <3>3, <3>4, <3>5 DEF k
    <2>9. Nat \subseteq T
      <3> HIDE DEF T
      <3> QED BY <2>7, <2>8, Inductive
    <2>10. w[Len(added)] = Part(Len(added))
      <3> DEFINE n == Len(added) - 1
      <3>1. n \in Nat /\ n + 1 = Len(added)
        BY <2>1
      <3> HIDE DEF n
      <3>2. n \in T /\ n + 1 <= Len(added)
        BY <2>9, <3>1
      <3>3. w[n + 1] = Part(n + 1)
        BY <3>2
      <3> QED BY <3>1, <3>3, Zenon
    <2>11. FlattenSeq(all) = w[Len(added)]
      BY <2>3 DEF w
    <2>12. FlattenSeq(all) = Part(Len(added))
      BY <2>10, <2>11
    <2> QED BY <2>12 DEF all
  <1> QED BY <1>1, <1>2

\* What is sent, in terms of what was written.
LEMMA WireIs ==
    ASSUME added \in Seq(Operations)
    PROVE  LET body == <<UInt32(5), UInt32(Len(added))>> \o Part(Len(added))
           IN  /\ Stored(added) = <<Command(code), UInt32(Width(body))>> \o body
               /\ Width(body) = 8 + Width(Part(Len(added)))
  <1> DEFINE front == <<UInt32(5), UInt32(Len(added))>>
  <1>2. Stored(added) = <<Command(code), UInt32(Width(front \o Part(Len(added))))>>
                      \o (front \o Part(Len(added)))
    BY AllIs DEF Stored
  <1>3. front \in Seq(Token) /\ Width(front) = 8
    <2> DEFINE t == UInt32(5)
               u == UInt32(Len(added))
    <2>1. t \in Token /\ t.width = 4 /\ u \in Token /\ u.width = 4
      BY TokensAre
    <2> HIDE DEF t, u
    <2> QED BY <2>1, TwoTokens DEF t, u
  <1> HIDE DEF front
  <1>4. Width(front \o Part(Len(added))) = 8 + Width(Part(Len(added)))
    <2>1. Part(Len(added)) \in Seq(Token)
      <3>1. Len(added) \in 0 .. Len(added)
        OBVIOUS
      <3> QED BY <3>1, PartsAre
    <2> QED BY <1>3, <2>1, WidthConcat
  <1> QED BY <1>2, <1>4 DEF front

LEMMA Fitting ==
    ASSUME NEW n \in Nat, n < Word
    PROVE  UInt32(n) = Number(n)
  <1>1. n % Word = n
    BY WordAssumption
  <1> QED BY <1>1 DEF UInt32

LEMMA FittingString ==
    ASSUME NEW n \in Nat, n < Word
    PROVE  String(n) = Whole(n)
  BY Fitting DEF String, Whole

LEMMA FittingItem ==
    ASSUME NEW o \in Operations, o.key < Word, o.value # NoValue => o.value < Word
    PROVE  Written(o) = Asked(o)
  <1>1. UInt32(TypeCode[o.type]) = Number(TypeCode[o.type])
    <2>1. TypeCode[o.type] \in Nat /\ TypeCode[o.type] < Word
      BY WordAssumption DEF TypeCode, Operations
    <2> QED BY <2>1, Fitting
  <1>2. String(o.key) = Whole(o.key)
    <2>1. o.key \in Nat
      BY SizesAssumption DEF Operations
    <2> QED BY <2>1, FittingString
  <1>3. o.value # NoValue => String(o.value) = Whole(o.value)
    <2>1. o.value \in Sizes \union {NoValue}
      BY DEF Operations
    <2>2. o.value # NoValue => o.value \in Nat
      BY <2>1, SizesAssumption
    <2> QED BY <2>2, FittingString
  <1>4. o.type = "set" => String(o.value) = Whole(o.value)
    <2>1. o.type = "set" => o.value \in Nat
      BY SizesAssumption DEF Operations
    <2>2. o.type = "set" => o.value # NoValue
      BY NoValueAssumption DEF Operations
    <2> QED BY <1>3, <2>1, <2>2, FittingString
  <1>5. o.type = "assert" =>
            StringOption(o.value) = IF o.value = NoValue THEN <<Bool(FALSE)>>
                                    ELSE <<Bool(TRUE)>> \o Whole(o.value)
    BY <1>3, Zenon DEF StringOption
  <1> QED BY <1>1, <1>2, <1>4, <1>5, Zenon DEF Written, Asked

\* Where every number fits, what is written is what was asked for.
LEMMA StoredWhole ==
    ASSUME added \in Seq(Operations), Fits(added)
    PROVE  Stored(added) = Wire(added)
  <1>1. \A n \in 1 .. Len(added) : Written(added[n]) = Asked(added[n])
    <2> SUFFICES ASSUME NEW n \in 1 .. Len(added)
                 PROVE  Written(added[n]) = Asked(added[n])
      OBVIOUS
    <2> DEFINE o == added[n]
    <2>1. o \in Operations /\ o.key < Word /\ (o.value # NoValue => o.value < Word)
      BY DEF Fits
    <2> HIDE DEF o
    <2>2. Written(o) = Asked(o)
      BY <2>1, FittingItem
    <2> QED BY <2>2 DEF o
  <1>2. [n \in 1 .. Len(added) |-> Written(added[n])]
        = [n \in 1 .. Len(added) |-> Asked(added[n])]
    BY <1>1, Zenon
  <1>3. UInt32(5) = Number(5) /\ UInt32(Len(added)) = Number(Len(added))
    <2>1. 5 \in Nat /\ 5 < Word /\ Len(added) \in Nat /\ Len(added) < Word
      BY WordAssumption DEF Fits
    <2> QED BY <2>1, Fitting
  <1> DEFINE body == <<UInt32(5), UInt32(Len(added))>>
                     \o FlattenSeq([n \in 1 .. Len(added) |-> Written(added[n])])
  <1>4. body = Body(added)
    BY <1>2, <1>3, Zenon DEF Body
  <1>5. Stored(added) = <<Command(code), UInt32(Width(body))>> \o body
    BY Zenon DEF Stored
  <1>6. Width(body) \in Nat
    <2>1. body = <<UInt32(5), UInt32(Len(added))>> \o Part(Len(added))
      <3>1. LET b == <<UInt32(5), UInt32(Len(added))>> \o Part(Len(added))
            IN  Width(b) = 8 + Width(Part(Len(added)))
        BY WireIs
      <3> QED BY AllIs
    <2>2. Width(Part(Len(added))) \in Nat
      <3>1. Len(added) \in 0 .. Len(added)
        OBVIOUS
      <3> QED BY <3>1, PartsAre
    <2>3. Width(body) = 8 + Width(Part(Len(added)))
      BY <2>1, WireIs
    <2> QED BY <2>2, <2>3
  <1> HIDE DEF body
  <1>7. UInt32(Width(body)) = Number(Width(body))
    <2>1. Width(body) < Word
      BY <1>4 DEF Fits
    <2> QED BY <1>6, <2>1, Fitting
  <1>8. Stored(added) = <<Command(code), Number(Width(body))>> \o body
    BY <1>5, <1>7
  <1> QED BY <1>4, <1>8, Zenon DEF Wire

LEMMA InvInit == SeqInit => SeqInv
  <1> SUFFICES ASSUME SeqInit
               PROVE  SeqInv
    OBVIOUS
  <1>1. /\ added \in Seq(Operations) /\ added = <<>> /\ Len(added) = 0
        /\ ops = <<>> /\ Len(ops) = 0 /\ rest = <<>> /\ blocks = 0 /\ step = "absent"
    BY DEF SeqInit
  <1>2. Reversed(<<>>, added)
    BY <1>1, ReversedNone
  <1>3. ListKept
    BY <1>1, <1>2, MaxOpsAssumption DEF ListKept
  <1>4. MemoryKept
    BY <1>1, BlocksAre DEF MemoryKept
  <1> QED BY <1>3, <1>4, MaxOpsAssumption
          DEF SeqInit, SeqInv, Locals, Measured, Building, AsStored

LEMMA ListStep ==
    ASSUME Locals, ListKept, [SeqNext]_seqVars
    PROVE  ListKept'
  <1> USE DEF ListKept
  <1>1. CASE SeqNew
    BY <1>1, ReversedNone DEF SeqNew, call
  <1>2. ASSUME NEW o \in Operations, AddOperation(o)
        PROVE  ListKept'
    <2>1. /\ added' = Append(added, o) /\ ops' = <<o>> \o ops /\ rest' = rest
          /\ step' = "open" /\ Len(added) + 1 <= MaxOps
      BY <1>2, MaxOpsAssumption DEF AddOperation, call
    <2>2. added' \in Seq(Operations) /\ Len(added') = Len(added) + 1
      BY <2>1, ReversedMore
    <2>3. Reversed(rest, added')
      BY <2>1, ReversedMore
    <2>4. Reversed(ops', added') /\ Len(ops') = Len(added) + 1
      BY <2>1, ReversedMore
    <2> QED BY <2>1, <2>2, <2>3, <2>4
  <1>3. CASE Call \/ SeqFree \/ (Allocate /\ step' = "write")
    BY <1>3 DEF Call, SeqFree, Allocate
  <1>4. CASE MeasureItem \/ WriteItem \/ FreeOperation
    <2>1. rest # <<>> /\ rest' = Tail(rest) /\ ops' = ops /\ added' = added
          /\ step' = step
      BY <1>4 DEF MeasureItem, WriteItem, FreeOperation
    <2>2. Reversed(Tail(rest), added)
      BY <2>1, ReversedRest
    <2> QED BY <2>1, <2>2
  <1>5. CASE (Allocate /\ step' = "open") \/ CallReturns
    BY <1>5, ReversedNone DEF Allocate, CallReturns, CallOver
  <1>6. CASE WriteHeader \/ AddAborts \/ UNCHANGED seqVars
    BY <1>6 DEF WriteHeader, AddAborts, call, seqVars
  <1>7. CASE SeqFreed
    <2>1. /\ added' = <<>> /\ added' \in Seq(Operations) /\ Len(added') = 0
          /\ ops' = <<>> /\ Len(ops') = 0 /\ rest' = <<>>
      BY <1>7 DEF SeqFreed, call
    <2>2. Reversed(<<>>, added')
      BY <2>1, ReversedNone
    <2> QED BY <2>1, <2>2, MaxOpsAssumption
  <1>8. Allocate => step' \in {"write", "open"}
    BY DEF Allocate
  <1> QED BY <1>1, <1>2, <1>3, <1>4, <1>5, <1>6, <1>7, <1>8 DEF SeqNext

LEMMA MemoryStep ==
    ASSUME Locals, ListKept, MemoryKept, [SeqNext]_seqVars
    PROVE  MemoryKept'
  <1> USE DEF MemoryKept
  <1>1. CASE SeqNew
    BY <1>1 DEF SeqNew, call, ListKept
  <1>2. ASSUME NEW o \in Operations, AddOperation(o)
        PROVE  MemoryKept'
    <2>1. /\ added' = Append(added, o) /\ added \in Seq(Operations)
          /\ step = "open" /\ step' = "open"
          /\ blocks' = blocks + IF o.value = NoValue THEN 2 ELSE 3
      BY <1>2 DEF AddOperation, ListKept
    <2>2. Len(added') = Len(added) + 1
      BY <2>1, ReversedMore DEF ListKept
    <2>3. blocks = Sums(BlocksOf(added))[Len(added)]
      BY <2>1
    <2>4. blocks' = Sums(BlocksOf(added'))[Len(added) + 1]
      BY <2>1, <2>3, BlocksOfMore
    <2> QED BY <2>1, <2>2, <2>4
  <1>3. CASE AddAborts \/ Call \/ MeasureItem \/ Allocate \/ WriteItem \/ WriteHeader
             \/ CallReturns
    <2>1. /\ added' = added /\ blocks' = blocks
          /\ step # "freeing" /\ step' # "freeing"
      BY <1>3 DEF AddAborts, Call, MeasureItem, Allocate, WriteItem, WriteHeader,
                  CallReturns
    <2> QED BY <2>1
  <1>4. CASE SeqFree
    <2>1. /\ added' = added /\ blocks' = blocks /\ rest' = ops
          /\ step = "open" /\ step' = "freeing"
      BY <1>4 DEF SeqFree
    <2>2. Len(rest') = Len(added)
      BY <2>1 DEF ListKept
    <2> QED BY <2>1, <2>2
  <1>5. CASE FreeOperation
    <2>1. /\ rest # <<>> /\ rest' = Tail(rest) /\ added' = added
          /\ step = "freeing" /\ step' = "freeing"
          /\ blocks' = blocks - ItemBlocks(Head(rest))
      BY <1>5 DEF FreeOperation
    <2>2. /\ Len(rest) \in 1 .. Len(added) /\ Len(rest') = Len(rest) - 1
          /\ Head(rest) = added[Len(rest)]
      BY <2>1, ReversedRest DEF ListKept
    <2> DEFINE m == Len(rest)
               f == Sums(BlocksOf(added))
    <2>3. /\ f \in [0 .. Len(added) -> Nat]
          /\ \A n \in 1 .. Len(added) : f[n] = f[n - 1] + ItemBlocks(added[n])
      BY BlocksAre DEF ListKept
    <2>4. blocks = f[m] /\ blocks' = blocks - ItemBlocks(added[m])
      BY <2>1, <2>2
    <2>5. m \in 1 .. Len(added) /\ m - 1 \in 0 .. Len(added)
      BY <2>2
    <2> HIDE DEF m, f
    <2>6. f[m] = f[m - 1] + ItemBlocks(added[m]) /\ f[m - 1] \in Nat
      BY <2>3, <2>5
    <2>7. ItemBlocks(added[m]) \in Nat
      BY DEF ItemBlocks
    <2>8. blocks' = f[m - 1]
      BY <2>4, <2>6, <2>7
    <2> QED BY <2>1, <2>2, <2>8 DEF m, f
  <1>6. CASE SeqFreed
    <2>1. /\ rest = <<>> /\ step = "freeing" /\ step' = "absent"
          /\ blocks' = blocks /\ added' = <<>>
      BY <1>6 DEF SeqFreed
    <2>2. Len(rest) = 0 /\ added \in Seq(Operations)
      BY <2>1 DEF ListKept
    <2>3. blocks' = 0
      BY <2>1, <2>2, BlocksAre
    <2>4. <<>> \in Seq(Operations) /\ Len(<<>>) = 0
      OBVIOUS
    <2>5. Sums(BlocksOf(<<>>))[0] = 0
      BY <2>4, BlocksAre
    <2> QED BY <2>1, <2>3, <2>4, <2>5
  <1>7. CASE UNCHANGED seqVars
    BY <1>7 DEF seqVars
  <1> QED BY <1>1, <1>2, <1>3, <1>4, <1>5, <1>6, <1>7 DEF SeqNext

LEMMA MeasuredStep ==
    ASSUME Locals, ListKept, Measured, [SeqNext]_seqVars
    PROVE  Measured'
  <1> SUFFICES ASSUME step' = "measure"
               PROVE  Measured'
    BY DEF Measured
  <1>1. CASE Call
    <2>1. /\ command' = <<>> /\ count' = 0 /\ len' = HeaderLen /\ rest' = ops
          /\ added' = added
      BY <1>1 DEF Call
    <2>2. Len(rest') = Len(added)
      BY <2>1 DEF ListKept
    <2> QED BY <2>1, <2>2 DEF Measured, Part
  <1>2. CASE MeasureItem
    <2>1. /\ step = "measure" /\ rest # <<>> /\ rest' = Tail(rest)
          /\ len' = len + ItemLen(Head(rest))
          /\ command' = command /\ count' = count /\ added' = added
      BY <1>2 DEF MeasureItem
    <2>2. PICK m \in 1 .. Len(added) : m = Len(rest)
      BY <2>1, ReversedRest DEF ListKept
    <2>3. /\ m \in 1 .. Len(added) /\ Len(rest') = m - 1
          /\ Head(rest) = added[m]
      BY <2>1, <2>2, ReversedRest DEF ListKept
    <2>4. /\ Width(Part(m)) = Width(Part(m - 1)) + ItemLen(added[m])
          /\ ItemLen(added[m]) \in Nat
      BY <2>3, PartsAre DEF ListKept
    <2>5. Width(Part(m - 1)) \in Nat
      <3>1. m - 1 \in 0 .. Len(added)
        BY <2>3
      <3> QED BY <3>1, PartsAre DEF ListKept
    <2>6. len + Width(Part(m)) = HeaderLen + Width(Part(Len(added)))
      BY <2>1, <2>2 DEF Measured
    <2>7. command' = <<>> /\ count' = 0
      BY <2>1 DEF Measured
    <2>8. len \in Nat /\ Width(Part(Len(added))) \in Nat
      <3>1. Len(added) \in 0 .. Len(added)
        BY DEF ListKept
      <3> QED BY <3>1, PartsAre DEF ListKept, Locals
    <2>9. len' + Width(Part(m - 1)) = HeaderLen + Width(Part(Len(added)))
      BY <2>1, <2>3, <2>4, <2>5, <2>6, <2>8
    <2> QED BY <2>1, <2>3, <2>7, <2>9 DEF Measured, Part
  <1>3. CASE UNCHANGED seqVars
    BY <1>3 DEF seqVars, Measured, Part
  <1>4. step' = "measure" => Call \/ MeasureItem \/ UNCHANGED seqVars
    BY DEF SeqNext, SeqNew, AddOperation, AddAborts, Allocate, WriteItem, WriteHeader,
           CallReturns, SeqFree, FreeOperation, SeqFreed
  <1> QED BY <1>1, <1>2, <1>3, <1>4

LEMMA BuildingStep ==
    ASSUME Locals, ListKept, Measured, Building, [SeqNext]_seqVars
    PROVE  Building'
  <1> SUFFICES ASSUME step' = "write"
               PROVE  Building'
    BY DEF Building
  <1>1. PICK n \in Nat : n = Len(added)
    BY DEF ListKept
  <1>2. n \in 0 .. Len(added) /\ 0 \in 0 .. Len(added)
    BY <1>1
  <1>3. /\ Part(0) = <<>> /\ Width(Part(0)) = 0
        /\ Part(n) \in Seq(Token) /\ Width(Part(n)) \in Nat
    BY <1>2, PartsAre, WidthOfNone DEF ListKept
  <1>4. CASE Allocate
    <2>1. /\ step = "measure" /\ rest = <<>> /\ rest' = ops /\ pos' = len
          /\ len' = len /\ count' = count /\ command' = command /\ added' = added
      BY <1>4 DEF Allocate
    <2>2. Len(rest) = 0 /\ Len(rest') = n
      BY <1>1, <2>1 DEF ListKept
    <2>3. command = <<>> /\ count = 0 /\ len = HeaderLen + Width(Part(n))
      <3>1. len + Width(Part(0)) = HeaderLen + Width(Part(n))
        BY <1>1, <2>1, <2>2 DEF Measured
      <3> QED BY <1>3, <2>1, <3>1 DEF Measured, Locals
    <2>4. Part(n) \o <<>> = Part(n)
      BY <1>3
    <2> QED BY <1>1, <2>1, <2>2, <2>3, <2>4 DEF Building, Part
  <1>5. CASE WriteItem
    <2>1. /\ step = "write" /\ rest # <<>> /\ rest' = Tail(rest) /\ added' = added
          /\ command' = Written(Head(rest)) \o command
          /\ pos' = pos - Width(Written(Head(rest)))
          /\ count' = count + 1 /\ len' = len
      BY <1>5 DEF WriteItem
    <2>2. PICK m \in 1 .. n : m = Len(rest)
      BY <1>1, <2>1, ReversedRest DEF ListKept
    <2>3. Len(rest') = m - 1 /\ Head(rest) = added[m] /\ m - 1 \in 0 .. Len(added)
      BY <1>1, <2>1, <2>2, ReversedRest DEF ListKept
    <2>4. /\ Part(m) = Part(m - 1) \o Written(added[m])
          /\ Width(Part(m)) = Width(Part(m - 1)) + ItemLen(added[m])
          /\ Part(m - 1) \in Seq(Token) /\ Width(Part(m - 1)) \in Nat
      BY <1>1, <2>2, <2>3, PartsAre DEF ListKept
    <2>5. /\ Written(added[m]) \in Seq(Token)
          /\ Width(Written(added[m])) = ItemLen(added[m]) /\ ItemLen(added[m]) \in Nat
      <3>1. added[m] \in Operations
        BY <1>1 DEF ListKept
      <3> QED BY <3>1, WrittenWidth
    <2>6. /\ len = HeaderLen + Width(Part(n))
          /\ pos = HeaderLen + Width(Part(m))
          /\ count = n - m
          /\ command \in Seq(Token)
          /\ Part(m) \o command = Part(n)
      BY <1>1, <2>1, <2>2 DEF Building
    <2>7. pos' = HeaderLen + Width(Part(m - 1))
      <3> DEFINE a == Width(Part(m - 1))
                 b == ItemLen(added[m])
      <3>1. a \in Nat /\ b \in Nat /\ pos = HeaderLen + (a + b) /\ pos' = pos - b
        BY <2>1, <2>3, <2>4, <2>5, <2>6
      <3> HIDE DEF a, b
      <3>2. pos' = HeaderLen + a
        BY <3>1 DEF HeaderLen, CommandLen, UInt32Len
      <3> QED BY <3>2 DEF a
    <2>8. command' \in Seq(Token) /\ Part(m - 1) \o command' = Part(n)
      <3> DEFINE f == Part(m - 1)
                 w == Written(added[m])
      <3>1. /\ f \in Seq(Token) /\ w \in Seq(Token) /\ command \in Seq(Token)
            /\ command' = w \o command /\ Part(n) = (f \o w) \o command
        BY <2>1, <2>3, <2>4, <2>5, <2>6
      <3> HIDE DEF f, w
      <3>2. w \o command \in Seq(Token)
        BY <3>1
      <3>3. f \o (w \o command) = (f \o w) \o command
        BY <3>1
      <3> QED BY <3>1, <3>2, <3>3 DEF f
    <2>9. count' = n - (m - 1)
      BY <2>1, <2>6
    <2> QED BY <1>1, <2>1, <2>3, <2>6, <2>7, <2>8, <2>9 DEF Building, Part
  <1>6. CASE UNCHANGED seqVars
    BY <1>6 DEF seqVars, Building, Part
  <1>7. Allocate \/ WriteItem \/ UNCHANGED seqVars
    BY DEF SeqNext, SeqNew, AddOperation, AddAborts, Call, MeasureItem, WriteHeader,
           CallReturns, SeqFree, FreeOperation, SeqFreed
  <1> QED BY <1>4, <1>5, <1>6, <1>7

LEMMA SentStep ==
    ASSUME Locals, ListKept, Building, AsStored, [SeqNext]_seqVars
    PROVE  AsStored'
  <1> SUFFICES ASSUME step' = "sent"
               PROVE  (command = Stored(added))'
    BY DEF AsStored
  <1>1. CASE WriteHeader
    <2>1. /\ step = "write" /\ rest = <<>> /\ command' = Header \o command
          /\ added' = added /\ code' = code
      BY <1>1 DEF WriteHeader
    <2>2. PICK n \in Nat : n = Len(added)
      BY DEF ListKept
    <2>3. Len(rest) = 0 /\ n \in 0 .. Len(added)
      BY <2>1, <2>2
    <2>4. Part(n) \in Seq(Token) /\ Width(Part(n)) \in Nat /\ Part(0) = <<>>
      BY <2>3, PartsAre DEF ListKept
    <2>5. /\ len = HeaderLen + Width(Part(n)) /\ count = n
          /\ command \in Seq(Token) /\ Part(0) \o command = Part(n)
      BY <2>1, <2>2, <2>3 DEF Building
    <2>6. command = Part(n)
      BY <2>4, <2>5
    <2> DEFINE body == <<UInt32(5), UInt32(n)>> \o Part(n)
    <2>7. /\ Stored(added) = <<Command(code), UInt32(Width(body))>> \o body
          /\ Width(body) = 8 + Width(Part(n))
      BY <2>2, WireIs DEF ListKept
    <2>8. Width(body) = len - UInt32Len - CommandLen
      <3> DEFINE a == Width(Part(n))
                 w == Width(body)
      <3>1. a \in Nat /\ len = HeaderLen + a /\ w = 8 + a
        BY <2>4, <2>5, <2>7
      <3> HIDE DEF a, w
      <3>2. w = len - UInt32Len - CommandLen
        BY <3>1 DEF HeaderLen, UInt32Len, CommandLen
      <3> QED BY <3>2 DEF w
    <2>9. code \in Int /\ Width(body) \in Int
      BY <2>4, <2>7 DEF Locals
    <2>10. Header \o command = Stored(added)
      <3> DEFINE a == Command(code)
                 b == UInt32(Width(body))
                 c == UInt32(5)
                 d == UInt32(n)
      <3>1. Header \o command = AtOnce(a, b, c, d, command)
        BY <2>5, <2>8 DEF Header, AtOnce
      <3>2. Stored(added) = InTwoSteps(a, b, c, d, command)
        BY <2>6, <2>7 DEF InTwoSteps
      <3>3. a \in Token /\ b \in Token /\ c \in Token /\ d \in Token
        BY <2>9, TokensAre
      <3>4. command \in Seq(Token)
        BY <2>5
      <3> HIDE DEF a, b, c, d
      <3> QED BY <3>1, <3>2, <3>3, <3>4, FourTokens
    <2>11. Stored(added)' = Stored(added)
      BY <2>1 DEF Stored
    <2> QED BY <2>1, <2>10, <2>11
  <1>2. CASE UNCHANGED seqVars
    BY <1>2 DEF seqVars, AsStored, Stored
  <1>3. WriteHeader \/ UNCHANGED seqVars
    BY DEF SeqNext, SeqNew, AddOperation, AddAborts, Call, MeasureItem, Allocate,
           WriteItem, CallReturns, SeqFree, FreeOperation, SeqFreed
  <1> QED BY <1>1, <1>2, <1>3

LEMMA LocalsStep ==
    ASSUME Locals, ListKept, Building, ListKept', Building', [SeqNext]_seqVars
    PROVE  Locals'
  <1> USE DEF Locals
  <1>1. CASE SeqNew \/ AddAborts \/ CallReturns \/ SeqFree \/ FreeOperation \/ SeqFreed
             \/ Allocate \/ UNCHANGED seqVars
    BY <1>1, MaxOpsAssumption
       DEF SeqNew, AddAborts, CallReturns, SeqFree, FreeOperation, SeqFreed, Allocate,
           CallOver, call, seqVars
  <1>2. ASSUME NEW o \in Operations, AddOperation(o)
        PROVE  Locals'
    BY <1>2 DEF AddOperation, call
  <1>3. CASE Call
    BY <1>3, MaxOpsAssumption DEF Call, HeaderLen, CommandLen, UInt32Len
  <1>4. CASE MeasureItem
    <2>1. Head(rest) \in Operations
      BY <1>4 DEF MeasureItem, ListKept, Reversed
    <2> QED BY <1>4, <2>1, WrittenWidth DEF MeasureItem
  <1>5. CASE WriteItem
    <2>1. step' = "write" /\ len' = len /\ code' = code /\ added' = added
      BY <1>5 DEF WriteItem
    <2>2. PICK m \in 0 .. Len(added) : m = Len(rest')
      BY <2>1 DEF ListKept, Reversed
    <2>3. pos' = HeaderLen + Width(Part(m)) /\ count' = Len(added) - m
      BY <2>1, <2>2 DEF Building, Part
    <2>4. Width(Part(m)) \in Nat
      BY <2>2, PartsAre DEF ListKept
    <2>5. pos' \in Nat
      BY <2>3, <2>4 DEF HeaderLen, CommandLen, UInt32Len
    <2>6. count' \in 0 .. MaxOps
      BY <2>2, <2>3, MaxOpsAssumption DEF ListKept
    <2> QED BY <2>1, <2>5, <2>6
  <1>6. CASE WriteHeader
    BY <1>6 DEF WriteHeader
  <1> QED BY <1>1, <1>2, <1>3, <1>4, <1>5, <1>6 DEF SeqNext

\* The two loops over the list of a sequence stay in step: what they have come to
\* is the same number of operations, counted from the first one added.
THEOREM SequenceInvariant == SeqSpec => []SeqInv
  <1>1. SeqInit => SeqInv
    BY InvInit
  <1>2. SeqInv /\ [SeqNext]_seqVars => SeqInv'
    <2> SUFFICES ASSUME SeqInv, [SeqNext]_seqVars
                 PROVE  SeqInv'
      OBVIOUS
    <2>1. /\ Locals /\ ListKept /\ MemoryKept /\ Measured /\ Building /\ AsStored
      BY DEF SeqInv
    <2>2. ListKept' /\ MemoryKept' /\ Measured' /\ Building' /\ AsStored'
      BY <2>1, ListStep, MemoryStep, MeasuredStep, BuildingStep, SentStep
    <2>3. Locals'
      BY <2>1, <2>2, LocalsStep
    <2> QED BY <2>2, <2>3 DEF SeqInv
  <1> QED BY <1>1, <1>2, PTL DEF SeqSpec

\* The variables of a sequence have their types; the memory of its items is
\* at most three blocks for each.
THEOREM SequenceTypeCorrect == SeqSpec => []SeqTypeOK
  <1>1. SeqInv => SeqTypeOK
    <2> SUFFICES ASSUME SeqInv
                 PROVE  SeqTypeOK
      OBVIOUS
    <2>1. /\ added \in Seq(Operations) /\ Len(added) <= MaxOps
          /\ ops \in Seq(Operations) /\ rest \in Seq(Operations) /\ Len(rest) <= Len(added)
      BY DEF SeqInv, ListKept, Reversed
    <2>2. PICK n \in 0 .. Len(added) : blocks = Sums(BlocksOf(added))[n]
      BY <2>1 DEF SeqInv, MemoryKept
    <2>3. blocks \in Nat /\ blocks <= 3 * n
      BY <2>1, <2>2, BlocksAre
    <2>4. blocks \in 0 .. 3 * MaxOps
      BY <2>1, <2>3, MaxOpsAssumption
    <2> QED BY <2>1, <2>4 DEF SeqInv, Locals, SeqTypeOK
  <1> QED BY <1>1, SequenceInvariant, PTL

\* Whatever a program adds, and however often it sends the sequence, the command
\* that _arakoon_sequence_impl writes from its end to its start holds the
\* operations in the order of their addition, their number and its own size.
THEOREM SentRight == SeqSpec => []SentAsAdded
  <1>1. SeqInv => SentAsAdded
    <2> SUFFICES ASSUME SeqInv, step = "sent", Fits(added)
                 PROVE  command = Wire(added)
      BY DEF SentAsAdded
    <2>1. added \in Seq(Operations) /\ command = Stored(added)
      BY DEF SeqInv, ListKept, AsStored
    <2> QED BY <2>1, StoredWhole
  <1> QED BY <1>1, SequenceInvariant, PTL

\* arakoon_sequence_free gives back all that was taken for the items.
THEOREM Freed == SeqSpec => []SequenceFreed
  <1>1. SeqInv => SequenceFreed
    <2> SUFFICES ASSUME SeqInv, step = "absent"
                 PROVE  blocks = 0
      BY DEF SequenceFreed
    <2>1. added = <<>> /\ added \in Seq(Operations) /\ Len(added) = 0
      BY DEF SeqInv, ListKept
    <2> QED BY <2>1, BlocksAre DEF SeqInv, MemoryKept
  <1> QED BY <1>1, SequenceInvariant, PTL

\* The second loop never leaves the memory that the first one measured, and comes
\* out at the place of the header, so that no call ends the program.
THEOREM WithinBuffer == SeqSpec => BuiltWithinBuffer
  <1> DEFINE Step == /\ step' = "write" => pos' >= HeaderLen
                     /\ step = "write" => step' # "aborted"
  <1>1. SeqInv /\ SeqInv' /\ [SeqNext]_seqVars => Step
    <2> SUFFICES ASSUME SeqInv, SeqInv', [SeqNext]_seqVars
                 PROVE  Step
      OBVIOUS
    <2>1. ASSUME step' = "write"
          PROVE  pos' >= HeaderLen
      <3>1. /\ added' \in Seq(Operations) /\ Len(rest') \in 0 .. Len(added')
            /\ pos' = HeaderLen + Width(Part(Len(rest)))'
        BY <2>1 DEF SeqInv, ListKept, Reversed, Building
      <3>2. Width(Part(Len(rest)))' \in Nat
        <4>1. Flat(added') \in [0 .. Len(added') -> Seq(Token)]
          BY <3>1, FlatAre
        <4>2. Flat(added')[Len(rest')] \in Seq(Token)
          BY <3>1, <4>1
        <4> QED BY <4>2, WidthsAre DEF Part
      <3> QED BY <3>1, <3>2 DEF HeaderLen, CommandLen, UInt32Len
    <2>2. ASSUME step = "write", step' = "aborted"
          PROVE  FALSE
      <3>1. WriteHeader /\ rest = <<>> /\ pos # HeaderLen
        BY <2>2 DEF SeqNext, SeqNew, AddOperation, AddAborts, Call, MeasureItem,
                    Allocate, WriteItem, WriteHeader, CallReturns, SeqFree,
                    FreeOperation, SeqFreed, seqVars
      <3>2. Len(rest) = 0 /\ pos = HeaderLen + Width(Part(Len(rest)))
        BY <2>2, <3>1 DEF SeqInv, Building
      <3>3. Width(Part(0)) = 0
        BY PartsAre, WidthOfNone DEF SeqInv, ListKept
      <3> QED BY <3>1, <3>2, <3>3 DEF HeaderLen, CommandLen, UInt32Len
    <2> QED BY <2>1, <2>2
  <1> QED BY <1>1, SequenceInvariant, PTL DEF SeqSpec, BuiltWithinBuffer

-----------------------------------------------------------------------------
(* The objects of the C++ interface: what is in use is owned once *)

InUseAndOwned ==
    /\ lost \subseteq memory
    /\ OneOwner

Inv == WrapTypeOK /\ InUseAndOwned

-----------------------------------------------------------------------------
(* The places that own memory *)

LEMMA OwnedByNode ==
    ASSUME NEW h
    PROVE  /\ Owned(<<"node", h>>) = {node_[h]} \intersect Chunks
           /\ Owned(<<"node", h>>)' = {node_'[h]} \intersect Chunks
  BY DEF Owned

LEMMA OwnedByCluster ==
    ASSUME NEW c
    PROVE  /\ Owned(<<"cluster", c>>) = members[c]
           /\ Owned(<<"cluster", c>>)' = members'[c]
  BY DEF Owned

LEMMA OwnedByError ==
    ASSUME NEW c
    PROVE  /\ Owned(<<"error", c>>) = {lastError[c]} \intersect Chunks
           /\ Owned(<<"error", c>>)' = {lastError'[c]} \intersect Chunks
  BY DEF Owned

LEMMA OwnedByBuffer ==
    ASSUME NEW b
    PROVE  /\ Owned(<<"buffer", b>>) = {buffer[b]} \intersect Chunks
           /\ Owned(<<"buffer", b>>)' = {buffer'[b]} \intersect Chunks
  BY DEF Owned

LEMMA OwnersAre ==
    /\ \A h \in Handles : <<"node", h>> \in Owners
    /\ \A c \in Clusters : <<"cluster", c>> \in Owners /\ <<"error", c>> \in Owners
    /\ \A b \in Buffers : <<"buffer", b>> \in Owners
    /\ \A o \in Owners : \/ \E h \in Handles : o = <<"node", h>>
                         \/ \E c \in Clusters : o = <<"cluster", c>> \/ o = <<"error", c>>
                         \/ \E b \in Buffers : o = <<"buffer", b>>
  BY DEF Owners

\* An owner whose variable has not changed there owns what it did.
LEMMA Elsewhere ==
    ASSUME NEW r, NEW s,
           \A h \in Handles : <<"node", h>> \notin {r, s} => node_'[h] = node_[h],
           \A c \in Clusters : <<"cluster", c>> \notin {r, s} => members'[c] = members[c],
           \A c \in Clusters : <<"error", c>> \notin {r, s} => lastError'[c] = lastError[c],
           \A b \in Buffers : <<"buffer", b>> \notin {r, s} => buffer'[b] = buffer[b]
    PROVE  \A o \in Owners \ {r, s} : Owned(o)' = Owned(o)
  <1> TAKE o \in Owners \ {r, s}
  <1>1. CASE \E h \in Handles : o = <<"node", h>>
    BY <1>1, OwnedByNode
  <1>2. CASE \E c \in Clusters : o = <<"cluster", c>>
    BY <1>2, OwnedByCluster
  <1>3. CASE \E c \in Clusters : o = <<"error", c>>
    BY <1>3, OwnedByError
  <1>4. CASE \E b \in Buffers : o = <<"buffer", b>>
    BY <1>4, OwnedByBuffer
  <1> QED BY <1>1, <1>2, <1>3, <1>4, OwnersAre

\* What a step has to do to keep every chunk with one owner: only r and s own
\* anything else than before, what they own has no other owner, and what is in
\* use changes as they do.
LEMMA Moves ==
    ASSUME Inv, ~ended,
           NEW r \in Owners, NEW s \in Owners,
           \A o \in Owners \ {r, s} : Owned(o)' = Owned(o),
           lost' \subseteq memory',
           memory' \ lost' = ((memory \ lost) \ (Owned(r) \union Owned(s)))
                                 \union (Owned(r)' \union Owned(s)'),
           (Owned(r)' \union Owned(s)')
               \intersect ((memory \ lost) \ (Owned(r) \union Owned(s))) = {},
           r = s \/ Owned(r)' \intersect Owned(s)' = {}
    PROVE  InUseAndOwned'
  <1> DEFINE held == memory \ lost
             others == held \ (Owned(r) \union Owned(s))
             new  == Owned(r)' \union Owned(s)'
  <1>1. /\ UNION {Owned(o) : o \in Owners} = held
        /\ \A o1, o2 \in Owners : o1 # o2 => Owned(o1) \intersect Owned(o2) = {}
    BY DEF Inv, InUseAndOwned, OneOwner
  <1>2. Owners' = Owners
    BY DEF Owners
  <1>3. \A o \in Owners \ {r, s} : Owned(o)' \subseteq others
    BY <1>1
  <1>4. UNION {Owned(o)' : o \in Owners} = others \union new
    <2>1. ASSUME NEW o \in Owners PROVE Owned(o)' \subseteq others \union new
      BY <1>3
    <2>2. ASSUME NEW p \in others PROVE \E o \in Owners : p \in Owned(o)'
      <3>1. PICK o \in Owners : p \in Owned(o)
        BY <1>1
      <3>2. o \notin {r, s}
        BY <3>1
      <3> QED BY <3>1, <3>2
    <2> QED BY <2>1, <2>2
  <1>5. ASSUME NEW o1 \in Owners, NEW o2 \in Owners, o1 # o2
        PROVE  Owned(o1)' \intersect Owned(o2)' = {}
    <2>1. CASE o1 \notin {r, s} /\ o2 \notin {r, s}
      BY <1>1, <1>5, <2>1
    <2>2. CASE o1 \in {r, s} /\ o2 \notin {r, s}
      BY <1>3, <2>2
    <2>3. CASE o1 \notin {r, s} /\ o2 \in {r, s}
      BY <1>3, <2>3
    <2>4. CASE o1 \in {r, s} /\ o2 \in {r, s}
      BY <1>5, <2>4
    <2> QED BY <2>1, <2>2, <2>3, <2>4
  <1> QED BY <1>2, <1>4, <1>5 DEF InUseAndOwned, OneOwner
-----------------------------------------------------------------------------
(* The steps *)

LEMMA NewNodeStep ==
    ASSUME Inv, ~ended, NEW h \in Handles, NewNode(h)
    PROVE  InUseAndOwned'
  <1> DEFINE r == <<"node", h>>
  <1> USE PointersAssumption
  <1>1. PICK n \in Available :
            /\ memory' = memory \union {n} /\ node_' = [node_ EXCEPT ![h] = n]
            /\ UNCHANGED <<ended, clusters, members, lastError, buffer, lost>>
    BY DEF NewNode
  <1>2. Owned(r) = {} /\ Owned(r)' = {n}
    BY <1>1, OwnedByNode DEF Inv, WrapTypeOK, NewNode, Available
  <1>3. \A o \in Owners \ {r, r} : Owned(o)' = Owned(o)
    BY <1>1, Elsewhere DEF Inv, WrapTypeOK
  <1>4. n \notin memory /\ lost \subseteq memory
    BY DEF Available, Inv, InUseAndOwned
  <1> HIDE DEF r
  <1>5. r \in Owners
    BY OwnersAre DEF r
  <1>6. memory' \ lost' = ((memory \ lost) \ (Owned(r) \union Owned(r)))
                          \union (Owned(r)' \union Owned(r)')
    BY <1>1, <1>2, <1>4
  <1>7. (Owned(r)' \union Owned(r)') \intersect ((memory \ lost) \ (Owned(r) \union Owned(r))) = {}
    BY <1>2, <1>4
  <1> QED BY <1>1, <1>3, <1>4, <1>5, <1>6, <1>7, Moves

LEMMA DropNodeStep ==
    ASSUME Inv, ~ended, NEW h \in Handles, DropNode(h)
    PROVE  InUseAndOwned'
  <1> DEFINE r == <<"node", h>>
  <1> USE PointersAssumption
  <1>1. /\ memory' = memory \ {node_[h]}
        /\ node_' = [node_ EXCEPT ![h] = Absent]
        /\ UNCHANGED <<clusters, members, lastError, buffer, lost>>
    BY DEF DropNode, Free
  <1>2. Owned(r) = {node_[h]} \intersect Chunks /\ Owned(r)' = {}
    BY <1>1, OwnedByNode DEF Inv, WrapTypeOK
  <1>3. \A o \in Owners \ {r, r} : Owned(o)' = Owned(o)
    BY <1>1, Elsewhere DEF Inv, WrapTypeOK
  <1> HIDE DEF r
  <1>5. r \in Owners
    BY OwnersAre DEF r
  <1>4. lost \subseteq memory /\ memory \subseteq Chunks /\ Owned(r) \subseteq memory \ lost
    BY <1>5 DEF Inv, WrapTypeOK, InUseAndOwned, OneOwner
  <1>6. memory' \ lost' = ((memory \ lost) \ (Owned(r) \union Owned(r)))
                          \union (Owned(r)' \union Owned(r)')
    BY <1>1, <1>2, <1>4
  <1>7. lost' \subseteq memory'
    BY <1>1, <1>2, <1>4
  <1> QED BY <1>2, <1>3, <1>5, <1>6, <1>7, Moves

LEMMA AddToClusterStep ==
    ASSUME Inv, ~ended, NEW c \in Clusters, NEW h \in Handles, AddToCluster(c, h)
    PROVE  InUseAndOwned'
  <1> DEFINE r == <<"node", h>>
             s == <<"cluster", c>>
  <1> USE PointersAssumption
  <1>1. /\ node_[h] \in Chunks
        /\ members' = [members EXCEPT ![c] = @ \union {node_[h]}]
        /\ node_' = [node_ EXCEPT ![h] = Null]
        /\ UNCHANGED <<ended, memory, clusters, lastError, buffer, lost>>
    BY DEF AddToCluster, Inv, WrapTypeOK
  <1>2. /\ Owned(r) = {node_[h]} /\ Owned(r)' = {}
        /\ Owned(s) = members[c] /\ Owned(s)' = members[c] \union {node_[h]}
    BY <1>1, OwnedByNode, OwnedByCluster DEF Inv, WrapTypeOK
  <1>3. \A o \in Owners \ {r, s} : Owned(o)' = Owned(o)
    BY <1>1, Elsewhere DEF Inv, WrapTypeOK
  <1>4. r \in Owners /\ s \in Owners
    BY OwnersAre
  <1> HIDE DEF r, s
  <1>5. lost \subseteq memory /\ Owned(r) \union Owned(s) \subseteq memory \ lost
    BY <1>4 DEF Inv, InUseAndOwned, OneOwner
  <1>6. memory' \ lost' = ((memory \ lost) \ (Owned(r) \union Owned(s)))
                          \union (Owned(r)' \union Owned(s)')
    BY <1>1, <1>2, <1>5
  <1>7. (Owned(r)' \union Owned(s)') \intersect ((memory \ lost) \ (Owned(r) \union Owned(s))) = {}
    BY <1>2
  <1> QED BY <1>1, <1>2, <1>3, <1>4, <1>5, <1>6, <1>7, Moves

LEMMA DropClusterStep ==
    ASSUME Inv, ~ended, NEW c \in Clusters, DropCluster(c)
    PROVE  InUseAndOwned'
  <1> DEFINE r == <<"cluster", c>>
             s == <<"error", c>>
  <1> USE PointersAssumption
  <1>1. /\ memory' = memory \ (members[c] \union {lastError[c]})
        /\ members' = [members EXCEPT ![c] = {}]
        /\ lastError' = [lastError EXCEPT ![c] = Null]
        /\ UNCHANGED <<node_, buffer, lost>>
    BY DEF DropCluster, Free
  <1>2. /\ Owned(r) = members[c] /\ Owned(r)' = {}
        /\ Owned(s) = {lastError[c]} \intersect Chunks /\ Owned(s)' = {}
    BY <1>1, OwnedByError, OwnedByCluster DEF Inv, WrapTypeOK
  <1>3. \A o \in Owners \ {r, s} : Owned(o)' = Owned(o)
    BY <1>1, Elsewhere DEF Inv, WrapTypeOK
  <1>4. r \in Owners /\ s \in Owners
    BY OwnersAre
  <1> HIDE DEF r, s
  <1>5. /\ lost \subseteq memory /\ memory \subseteq Chunks
        /\ Owned(r) \union Owned(s) \subseteq memory \ lost
    BY <1>4 DEF Inv, WrapTypeOK, InUseAndOwned, OneOwner
  <1>6. memory' \ lost' = ((memory \ lost) \ (Owned(r) \union Owned(s)))
                          \union (Owned(r)' \union Owned(s)')
    BY <1>1, <1>2, <1>5
  <1>7. lost' \subseteq memory'
    BY <1>1, <1>2, <1>5
  <1> QED BY <1>2, <1>3, <1>4, <1>6, <1>7, Moves

LEMMA CallDoneStep ==
    ASSUME Inv, ~ended, NEW c \in Clusters, CallDone(c)
    PROVE  InUseAndOwned'
  <1> DEFINE r == <<"error", c>>
  <1> USE PointersAssumption
  <1>1. /\ memory' = memory \ {lastError[c]}
        /\ lastError' = [lastError EXCEPT ![c] = Null]
        /\ UNCHANGED <<node_, clusters, members, buffer, lost>>
    BY DEF CallDone, Free
  <1>2. Owned(r) = {lastError[c]} \intersect Chunks /\ Owned(r)' = {}
    BY <1>1, OwnedByError DEF Inv, WrapTypeOK
  <1>3. \A o \in Owners \ {r, r} : Owned(o)' = Owned(o)
    BY <1>1, Elsewhere DEF Inv, WrapTypeOK
  <1>4. r \in Owners
    BY OwnersAre
  <1> HIDE DEF r
  <1>5. lost \subseteq memory /\ memory \subseteq Chunks /\ Owned(r) \subseteq memory \ lost
    BY <1>4 DEF Inv, WrapTypeOK, InUseAndOwned, OneOwner
  <1>6. memory' \ lost' = ((memory \ lost) \ (Owned(r) \union Owned(r)))
                          \union (Owned(r)' \union Owned(r)')
    BY <1>1, <1>2, <1>5
  <1>7. lost' \subseteq memory'
    BY <1>1, <1>2, <1>5
  <1> QED BY <1>2, <1>3, <1>4, <1>6, <1>7, Moves

LEMMA DropBufferStep ==
    ASSUME Inv, ~ended, NEW b \in Buffers, DropBuffer(b)
    PROVE  InUseAndOwned'
  <1> DEFINE r == <<"buffer", b>>
  <1> USE PointersAssumption
  <1>1. /\ memory' = memory \ {buffer[b]}
        /\ buffer' = [buffer EXCEPT ![b] = Absent]
        /\ UNCHANGED <<node_, clusters, members, lastError, lost>>
    BY DEF DropBuffer, Free
  <1>2. Owned(r) = {buffer[b]} \intersect Chunks /\ Owned(r)' = {}
    BY <1>1, OwnedByBuffer DEF Inv, WrapTypeOK
  <1>3. \A o \in Owners \ {r, r} : Owned(o)' = Owned(o)
    BY <1>1, Elsewhere DEF Inv, WrapTypeOK
  <1>4. r \in Owners
    BY OwnersAre
  <1> HIDE DEF r
  <1>5. lost \subseteq memory /\ memory \subseteq Chunks /\ Owned(r) \subseteq memory \ lost
    BY <1>4 DEF Inv, WrapTypeOK, InUseAndOwned, OneOwner
  <1>6. memory' \ lost' = ((memory \ lost) \ (Owned(r) \union Owned(r)))
                          \union (Owned(r)' \union Owned(r)')
    BY <1>1, <1>2, <1>5
  <1>7. lost' \subseteq memory'
    BY <1>1, <1>2, <1>5
  <1> QED BY <1>2, <1>3, <1>4, <1>6, <1>7, Moves

\* A get whose buffer could be made gives the value to it; otherwise the value is
\* lost and only the last error is freed.
LEMMA GetStep ==
    ASSUME Inv, ~ended, NEW c \in Clusters, NEW b \in Buffers, Get(c, b)
    PROVE  InUseAndOwned'
  <1> DEFINE r == <<"error", c>>
             s == <<"buffer", b>>
  <1> USE PointersAssumption
  <1>1. PICK p \in (Chunks \ InUse(c)) \union {Marker, Null} :
            /\ memory' = InUse(c) \union ({p} \intersect Chunks)
            /\ \/ buffer' = [buffer EXCEPT ![b] = p] /\ UNCHANGED lost
               \/ lost' = lost \union ({p} \intersect Chunks) /\ UNCHANGED buffer
    BY DEF Get
  <1>2. /\ buffer[b] = Absent
        /\ lastError' = [lastError EXCEPT ![c] = Null]
        /\ UNCHANGED <<node_, members>>
    BY DEF Get
  <1>3. /\ Owned(r) = {lastError[c]} \intersect Chunks /\ Owned(r)' = {}
        /\ Owned(s) = {}
        /\ buffer' = [buffer EXCEPT ![b] = p] => Owned(s)' = {p} \intersect Chunks
        /\ UNCHANGED buffer => Owned(s)' = {}
    BY <1>1, <1>2, OwnedByError, OwnedByBuffer DEF Inv, WrapTypeOK
  <1>4. \A o \in Owners \ {r, s} : Owned(o)' = Owned(o)
    BY <1>1, <1>2, Elsewhere DEF Inv, WrapTypeOK
  <1>5. r \in Owners /\ s \in Owners
    BY OwnersAre
  <1> HIDE DEF r, s
  <1>6. /\ lost \subseteq memory /\ memory \subseteq Chunks
        /\ Owned(r) \subseteq memory \ lost
    BY <1>5 DEF Inv, WrapTypeOK, InUseAndOwned, OneOwner
  <1>7. InUse(c) = memory \ Owned(r)
    BY <1>3, <1>6 DEF InUse
  <1>8. CASE buffer' = [buffer EXCEPT ![b] = p] /\ UNCHANGED lost
    <2>1. Owned(s)' = {p} \intersect Chunks
      BY <1>3, <1>8
    <2>2. memory' \ lost' = ((memory \ lost) \ (Owned(r) \union Owned(s)))
                            \union (Owned(r)' \union Owned(s)')
      BY <1>1, <1>3, <1>6, <1>7, <1>8, <2>1
    <2>3. (Owned(r)' \union Owned(s)') \intersect ((memory \ lost) \ (Owned(r) \union Owned(s))) = {}
      BY <1>1, <1>3, <1>7, <2>1
    <2>4. lost' \subseteq memory'
      BY <1>1, <1>6, <1>7, <1>8
    <2> QED BY <1>3, <1>4, <1>5, <2>2, <2>3, <2>4, Moves
  <1>9. CASE lost' = lost \union ({p} \intersect Chunks) /\ UNCHANGED buffer
    <2>1. Owned(s)' = {}
      BY <1>3, <1>9
    <2>2. memory' \ lost' = ((memory \ lost) \ (Owned(r) \union Owned(s)))
                            \union (Owned(r)' \union Owned(s)')
      BY <1>1, <1>3, <1>6, <1>7, <1>9, <2>1
    <2>3. (Owned(r)' \union Owned(s)') \intersect ((memory \ lost) \ (Owned(r) \union Owned(s))) = {}
      BY <1>3, <2>1
    <2>4. lost' \subseteq memory'
      BY <1>1, <1>6, <1>7, <1>9
    <2> QED BY <1>3, <1>4, <1>5, <2>2, <2>3, <2>4, Moves
  <1> QED BY <1>1, <1>8, <1>9
\* The three outcomes of Thrown.
LEMMA ThrownCases ==
    ASSUME NEW p, NEW used, NEW b, Thrown(p, used, b)
    PROVE  \/ /\ p \in Chunks
              /\ \E copy \in Chunks \ used :
                     memory' = used \union {copy} /\ buffer' = [buffer EXCEPT ![b] = copy]
              /\ UNCHANGED ended
           \/ memory' = used /\ UNCHANGED <<ended, buffer>>
           \/ memory' = used /\ ended'
  BY DEF Thrown

\* The message goes to the last error and its copy to the buffer.
LEMMA RefusedStep ==
    ASSUME Inv, ~ended, NEW c \in Clusters, NEW b \in Buffers, Refused(c, b)
    PROVE  InUseAndOwned'
  <1> DEFINE r == <<"error", c>>
             s == <<"buffer", b>>
  <1> USE PointersAssumption
  <1>1. PICK p \in (Chunks \ InUse(c)) \union {Marker} :
            /\ Thrown(p, InUse(c) \union ({p} \intersect Chunks), b)
            /\ lastError' = [lastError EXCEPT ![c] = p]
    BY DEF Refused
  <1>2. buffer[b] = Absent /\ UNCHANGED <<node_, members, lost>>
    BY DEF Refused
  <1>3. /\ Owned(r) = {lastError[c]} \intersect Chunks
        /\ Owned(r)' = {p} \intersect Chunks
        /\ Owned(s) = {}
    BY <1>1, <1>2, OwnedByError, OwnedByBuffer DEF Inv, WrapTypeOK
  <1>4. r \in Owners /\ s \in Owners
    BY OwnersAre
  <1>5. ASSUME NEW q, buffer' = [buffer EXCEPT ![b] = q] \/ UNCHANGED buffer
        PROVE  \A o \in Owners \ {r, s} : Owned(o)' = Owned(o)
    BY <1>1, <1>2, <1>5, Elsewhere DEF Inv, WrapTypeOK
  <1>6. /\ \A q \in Chunks : buffer' = [buffer EXCEPT ![b] = q] => Owned(s)' = {q}
        /\ UNCHANGED buffer => Owned(s)' = {}
    BY <1>2, OwnedByBuffer DEF Inv, WrapTypeOK
  <1> DEFINE used == InUse(c) \union ({p} \intersect Chunks)
  <1> HIDE DEF r, s
  <1>7. /\ lost \subseteq memory /\ memory \subseteq Chunks
        /\ Owned(r) \subseteq memory \ lost
    BY <1>4 DEF Inv, WrapTypeOK, InUseAndOwned, OneOwner
  <1>8. InUse(c) = memory \ Owned(r)
    BY <1>3, <1>7 DEF InUse
  <1>9. lost \subseteq used
    BY <1>7, <1>8
  <1>10. CASE \E copy \in Chunks \ used :
                  memory' = used \union {copy} /\ buffer' = [buffer EXCEPT ![b] = copy]
    <2>1. PICK copy \in Chunks \ used :
                  memory' = used \union {copy} /\ buffer' = [buffer EXCEPT ![b] = copy]
      BY <1>10
    <2>2. Owned(s)' = {copy}
      BY <1>6, <2>1
    <2>3. memory' \ lost' = ((memory \ lost) \ (Owned(r) \union Owned(s)))
                            \union (Owned(r)' \union Owned(s)')
      BY <1>1, <1>2, <1>3, <1>7, <1>8, <2>1, <2>2
    <2>4. (Owned(r)' \union Owned(s)') \intersect ((memory \ lost) \ (Owned(r) \union Owned(s))) = {}
      BY <1>1, <1>3, <1>8, <2>1, <2>2
    <2>5. Owned(r)' \intersect Owned(s)' = {}
      BY <1>3, <2>1, <2>2
    <2>6. lost' \subseteq memory'
      BY <1>2, <1>9, <2>1
    <2>7. \A o \in Owners \ {r, s} : Owned(o)' = Owned(o)
      BY <1>5, <2>1
    <2> QED BY <1>4, <2>3, <2>4, <2>5, <2>6, <2>7, Moves
  <1>11. CASE memory' = used /\ UNCHANGED <<ended, buffer>>
    <2>1. Owned(s)' = {}
      BY <1>6, <1>11
    <2>2. memory' \ lost' = ((memory \ lost) \ (Owned(r) \union Owned(s)))
                            \union (Owned(r)' \union Owned(s)')
      BY <1>1, <1>2, <1>3, <1>7, <1>8, <1>11, <2>1
    <2>3. (Owned(r)' \union Owned(s)') \intersect ((memory \ lost) \ (Owned(r) \union Owned(s))) = {}
      BY <1>1, <1>3, <1>8, <2>1
    <2>4. lost' \subseteq memory'
      BY <1>2, <1>9, <1>11
    <2>5. \A o \in Owners \ {r, s} : Owned(o)' = Owned(o)
      BY <1>5, <1>11
    <2> QED BY <1>4, <2>1, <2>2, <2>3, <2>4, <2>5, Moves
  <1>12. CASE memory' = used /\ ended'
    BY <1>2, <1>9, <1>12 DEF InUseAndOwned, OneOwner
  <1> QED BY <1>1, <1>10, <1>11, <1>12, ThrownCases

\* The last error stays, and the buffer gets its copy.
LEMMA ConnectFailsStep ==
    ASSUME Inv, ~ended, NEW c \in Clusters, NEW b \in Buffers, ConnectFails(c, b)
    PROVE  InUseAndOwned'
  <1> DEFINE s == <<"buffer", b>>
  <1> USE PointersAssumption
  <1>1. /\ Thrown(lastError[c], memory, b)
        /\ buffer[b] = Absent
        /\ UNCHANGED <<node_, clusters, members, lastError, lost>>
    BY DEF ConnectFails
  <1>2. lost \subseteq memory
    BY DEF Inv, InUseAndOwned
  <1>3. CASE \E copy \in Chunks \ memory :
                 memory' = memory \union {copy} /\ buffer' = [buffer EXCEPT ![b] = copy]
    <2>1. PICK copy \in Chunks \ memory :
                 memory' = memory \union {copy} /\ buffer' = [buffer EXCEPT ![b] = copy]
      BY <1>3
    <2>2. Owned(s) = {} /\ Owned(s)' = {copy}
      BY <1>1, <2>1, OwnedByBuffer DEF Inv, WrapTypeOK
    <2>3. \A o \in Owners \ {s, s} : Owned(o)' = Owned(o)
      BY <1>1, <2>1, Elsewhere DEF Inv, WrapTypeOK
    <2>4. s \in Owners
      BY OwnersAre
    <2> HIDE DEF s
    <2>5. memory' \ lost' = ((memory \ lost) \ (Owned(s) \union Owned(s)))
                            \union (Owned(s)' \union Owned(s)')
      BY <1>1, <1>2, <2>1, <2>2
    <2>6. (Owned(s)' \union Owned(s)') \intersect ((memory \ lost) \ (Owned(s) \union Owned(s))) = {}
      BY <2>1, <2>2
    <2>7. lost' \subseteq memory'
      BY <1>1, <1>2, <2>1
    <2> QED BY <2>3, <2>4, <2>5, <2>6, <2>7, Moves
  <1>4. CASE memory' = memory /\ UNCHANGED <<ended, buffer>>
    BY <1>1, <1>4 DEF Inv, InUseAndOwned, OneOwner, Owned, Owners
  <1>5. CASE memory' = memory /\ ended'
    BY <1>1, <1>2, <1>5 DEF InUseAndOwned, OneOwner
  <1> QED BY <1>1, <1>3, <1>4, <1>5, ThrownCases

-----------------------------------------------------------------------------
(* The invariant *)

LEMMA TypeStep ==
    ASSUME WrapTypeOK, WrapNext
    PROVE  WrapTypeOK'
  <1> USE DEF WrapTypeOK
  <1>1. ASSUME NEW h \in Handles, NewNode(h) \/ DropNode(h)
        PROVE  WrapTypeOK'
    BY <1>1 DEF NewNode, DropNode, Free, Available
  <1>2. ASSUME NEW h \in Handles, NEW c \in Clusters, AddToCluster(c, h)
        PROVE  WrapTypeOK'
    BY <1>2 DEF AddToCluster
  <1>3. ASSUME NEW c \in Clusters,
               NewCluster(c) \/ DropCluster(c) \/ CallEnds(c) \/ CallDone(c)
        PROVE  WrapTypeOK'
    <2>1. CASE NewCluster(c)
      BY <2>1 DEF NewCluster
    <2>2. CASE DropCluster(c)
      BY <2>2 DEF DropCluster, Free
    <2>3. CASE CallEnds(c)
      BY <2>3 DEF CallEnds, Free
    <2>4. CASE CallDone(c)
      BY <2>4 DEF CallDone, Free
    <2> QED BY <1>3, <2>1, <2>2, <2>3, <2>4
  <1>4. ASSUME NEW b \in Buffers, DropBuffer(b)
        PROVE  WrapTypeOK'
    BY <1>4 DEF DropBuffer, Free
  <1>5. ASSUME NEW b \in Buffers, NEW c \in Clusters, Get(c, b)
        PROVE  WrapTypeOK'
    BY <1>5 DEF Get, InUse
  <1>6. ASSUME NEW p, NEW used \in SUBSET Chunks, NEW b \in Buffers, Thrown(p, used, b)
        PROVE  /\ memory' \in SUBSET Chunks
               /\ buffer' \in [Buffers -> Chunks \union {Null, Marker, Absent}]
               /\ ended' \in BOOLEAN
    BY <1>6 DEF Thrown
  <1>7. ASSUME NEW b \in Buffers, NEW c \in Clusters, Refused(c, b)
        PROVE  WrapTypeOK'
    <2>1. PICK p \in (Chunks \ InUse(c)) \union {Marker} :
              /\ Thrown(p, InUse(c) \union ({p} \intersect Chunks), b)
              /\ lastError' = [lastError EXCEPT ![c] = p]
      BY <1>7 DEF Refused
    <2>2. InUse(c) \union ({p} \intersect Chunks) \in SUBSET Chunks
      BY DEF InUse
    <2> QED BY <1>6, <1>7, <2>1, <2>2 DEF Refused
  <1>8. ASSUME NEW b \in Buffers, NEW c \in Clusters, ConnectFails(c, b)
        PROVE  WrapTypeOK'
    BY <1>6, <1>8 DEF ConnectFails
  <1> QED BY <1>1, <1>2, <1>3, <1>4, <1>5, <1>7, <1>8 DEF WrapNext

LEMMA OwnersStep ==
    ASSUME Inv, WrapNext
    PROVE  InUseAndOwned'
  <1>1. ~ended
    BY DEF WrapNext
  <1>2. ASSUME NEW c \in Clusters, NewCluster(c)
        PROVE  InUseAndOwned'
    BY <1>1, <1>2 DEF NewCluster, Inv, InUseAndOwned, OneOwner, Owned, Owners
  <1>3. ASSUME NEW c \in Clusters, CallEnds(c)
        PROVE  InUseAndOwned'
    <2>1. lost \subseteq memory /\ Marker \notin memory
      BY PointersAssumption DEF Inv, WrapTypeOK, InUseAndOwned
    <2>2. ended' /\ memory' = memory /\ lost' = lost
      BY <1>3, <2>1, PointersAssumption DEF CallEnds, Free
    <2> QED BY <2>1, <2>2 DEF InUseAndOwned, OneOwner
  <1> QED BY <1>1, <1>2, <1>3, NewNodeStep, DropNodeStep, AddToClusterStep,
             DropClusterStep, CallDoneStep, GetStep, RefusedStep, ConnectFailsStep,
             DropBufferStep DEF WrapNext

\* The inductive invariant: types, and one owner for every chunk in use, those
\* apart whose owner could not be made, which are in use too.
THEOREM Invariant == WrapSpec => []Inv
  <1>1. WrapInit => Inv
    <2> SUFFICES ASSUME WrapInit PROVE Inv
      OBVIOUS
    <2> USE PointersAssumption DEF WrapInit
    <2>1. WrapTypeOK
      BY DEF WrapTypeOK
    <2>2. ASSUME NEW o \in Owners PROVE Owned(o) = {}
      <3>1. CASE \E h \in Handles : o = <<"node", h>>
        BY <3>1, OwnedByNode
      <3>2. CASE \E c \in Clusters : o = <<"cluster", c>>
        BY <3>2, OwnedByCluster
      <3>3. CASE \E c \in Clusters : o = <<"error", c>>
        BY <3>3, OwnedByError
      <3>4. CASE \E b \in Buffers : o = <<"buffer", b>>
        BY <3>4, OwnedByBuffer
      <3> QED BY <3>1, <3>2, <3>3, <3>4, OwnersAre
    <2> QED BY <2>1, <2>2 DEF Inv, InUseAndOwned, OneOwner
  <1>2. Inv /\ [WrapNext]_wrapVars => Inv'
    <2>1. CASE WrapNext
      BY <2>1, TypeStep, OwnersStep DEF Inv
    <2>2. CASE UNCHANGED wrapVars
      BY <2>2 DEF wrapVars, Inv, WrapTypeOK, InUseAndOwned, OneOwner, Owned, Owners
    <2> QED BY <2>1, <2>2
  <1> QED BY <1>1, <1>2, PTL DEF WrapSpec

\* Every variable of the objects of the C++ interface keeps its type.
THEOREM TypeCorrect == WrapSpec => []WrapTypeOK
  <1>1. Inv => WrapTypeOK
    BY DEF Inv
  <1> QED BY <1>1, Invariant, PTL

\* Every C node, value and message that is in use has one owner among the objects
\* of the C++ interface and the clusters behind them, so that it is freed once
\* and not while something refers to it.
THEOREM Ownership == WrapSpec => []OneOwner
  <1>1. Inv => OneOwner
    BY DEF Inv, InUseAndOwned
  <1> QED BY <1>1, Invariant, PTL

=============================================================================
