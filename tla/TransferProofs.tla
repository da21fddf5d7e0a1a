---------------------------- MODULE TransferProofs ----------------------------
(***************************************************************************)
(* The time a call takes, for any timeout, any units and any number of     *)
(* transfers and nodes: never more than Longest and what its writes were   *)
(* blocked, and what is left of the timeout never grows.                   *)
(***************************************************************************)
EXTENDS Transfer, TLAPS

Busy  == pc \in {"loop", "poll", "move"}
Timed == given # Infinite /\ timeout # Infinite

\* What a call may take with one node.
OneNode == (Positive(given) + MaxTransfers) * NsPerMs + Overshoot

\* What it has taken, the time blocked in writes aside.
Taken == time - began - blocked

\* What it may have taken before a transfer is entered: what was charged and a
\* millisecond for each transfer with this node, or, when nothing is left of the
\* timeout, all that may be charged and the lateness of one poll.
Charged ==
    failed * OneNode + (given - timeout) * NsPerMs
        + (MaxTransfers - transfers) * NsPerMs
Spent ==
    failed * OneNode + Positive(given) * NsPerMs
        + (MaxTransfers - transfers) * NsPerMs + Overshoot

\* The bounds on the variables of a call in progress.
InCall ==
    /\ given = Infinite => timeout = Infinite
    /\ pc # "idle" =>
           attempts > 0 /\ transfers > 0 /\ failed + attempts <= MaxAttempts
    /\ Busy =>
           /\ limit = timeout /\ start <= time
           /\ WithTimeout => limit > 0
    /\ pc = "poll" => WithTimeout /\ wait > 0

\* How late a call is at each place.
InTime ==
    Timed =>
        /\ timeout > 0 /\ pc # "idle" => timeout <= given
        /\ pc = "enter" =>
               Taken <= IF timeout > 0 THEN Charged ELSE Spent
        /\ Busy => start - began - blocked <= Charged
        /\ pc \in {"loop", "move"} => Taken <= Spent + NsPerMs
        /\ pc = "poll" => time - start < (limit - wait) * NsPerMs + NsPerMs
        /\ pc = "idle" => Taken <= (failed + 1) * OneNode

Inv == TypeOK /\ InCall /\ InTime
-----------------------------------------------------------------------------
(* Arithmetic *)

LEMMA ProductIsNat ==
    ASSUME NEW a \in Nat, NEW b \in Nat
    PROVE  a * b \in Nat
  BY SMT

LEMMA Distributes ==
    ASSUME NEW a \in Int, NEW b \in Int, NEW c \in Int
    PROVE  (a + b) * c = a * c + b * c
  BY SMT

LEMMA NoneOf ==
    \A a \in Int : 0 * a = 0 /\ \A x \in Int : (x - x) * a = 0
  BY SMT

\* What is known of \div.
LEMMA Division ==
    ASSUME NEW x \in Nat, NEW d \in Nat \ {0}
    PROVE  /\ x \div d \in Nat
           /\ d * (x \div d) <= x
           /\ x < d * (x \div d) + d
  BY SMT

LEMMA DivisionGrows ==
    ASSUME NEW d \in Nat \ {0}, NEW x \in Nat, NEW y \in Nat, x <= y
    PROVE  x \div d <= y \div d
  BY SMT

\* time_delta never gives time back and falls short of the time that has passed by
\* less than a millisecond (it may exceed it by a second).
LEMMA TimeDeltaBounds ==
    ASSUME NEW s \in Nat, NEW e \in Nat, s <= e
    PROVE  /\ TimeDelta(s, e) \in Nat
           /\ e - s < TimeDelta(s, e) * NsPerMs + NsPerMs
  <1> USE UnitsAssumption
  <1>1. NsPerS \in Nat \ {0}
    BY DEF NsPerS
  <1>2. /\ Sec(s) \in Nat /\ Sec(e) \in Nat /\ Sec(s) <= Sec(e)
        /\ Nsec(s) \in 0 .. NsPerS - 1 /\ Nsec(e) \in 0 .. NsPerS - 1
        /\ e - s = (Sec(e) - Sec(s)) * NsPerS + Nsec(e) - Nsec(s)
    <2>1. /\ Sec(s) \in Nat /\ NsPerS * Sec(s) <= s /\ s < NsPerS * Sec(s) + NsPerS
      BY <1>1, Division DEF Sec
    <2>2. /\ Sec(e) \in Nat /\ NsPerS * Sec(e) <= e /\ e < NsPerS * Sec(e) + NsPerS
      BY <1>1, Division DEF Sec
    <2>3. Sec(s) <= Sec(e)
      BY <1>1, DivisionGrows DEF Sec
    <2> QED BY <1>1, <2>1, <2>2, <2>3 DEF Nsec
  <1>3. CASE Sec(s) = Sec(e)
    <2>1. Nsec(e) - Nsec(s) = e - s
      BY <1>1, <1>2, <1>3
    <2>2. TimeDelta(s, e) = (e - s) \div NsPerMs
      BY <1>3, <2>1 DEF TimeDelta
    <2> QED BY <2>2, Division
  <1>4. CASE Sec(s) # Sec(e)
    <2> DEFINE x == (NsPerS - Nsec(s)) + Nsec(e)
               n == Sec(e) - Sec(s)
    <2>1. x \in Nat /\ n \in Nat
      BY <1>1, <1>2
    <2>2. x \div NsPerMs \in Nat /\ x < NsPerMs * (x \div NsPerMs) + NsPerMs
      BY <2>1, Division
    <2>3. TimeDelta(s, e) = x \div NsPerMs + n * MsPerS
      BY <1>4 DEF TimeDelta
    <2>4. e - s = n * NsPerS + x - NsPerS
      BY <1>1, <1>2
    <2>5. n * MsPerS \in Nat
      BY <2>1, ProductIsNat
    <2>6. (n * MsPerS) * NsPerMs = n * NsPerS
      BY <2>1 DEF NsPerS
    <2> HIDE DEF x, n
    <2>7. TimeDelta(s, e) * NsPerMs = (x \div NsPerMs) * NsPerMs + n * NsPerS
      BY <2>2, <2>3, <2>5, <2>6, Distributes
    <2> QED BY <1>1, <2>1, <2>2, <2>3, <2>4, <2>5, <2>7
  <1> QED BY <1>3, <1>4
-----------------------------------------------------------------------------
(* The bounds *)

LEMMA Numbers ==
    ASSUME TypeOK
    PROVE  /\ NsPerMs \in Nat \ {0} /\ Overshoot \in Nat /\ MaxTransfers \in Nat
           /\ MaxAttempts \in Nat /\ MaxTime \in Nat
           /\ given \in Int /\ timeout \in Int /\ limit \in Int
           /\ Positive(given) \in Nat
           /\ failed \in Nat /\ attempts \in Nat /\ transfers \in 0 .. MaxTransfers
           /\ time \in Nat /\ start \in Nat /\ began \in Nat /\ wait \in Nat
           /\ blocked \in Nat /\ Taken = time - began - blocked /\ Taken \in Int
           /\ OneNode = Positive(given) * NsPerMs + MaxTransfers * NsPerMs + Overshoot
           /\ OneNode \in Nat
           /\ failed * OneNode \in Nat
           /\ (failed + 1) * OneNode = failed * OneNode + OneNode
           /\ Charged \in Int /\ Spent \in Int
  <1>1. /\ NsPerMs \in Nat \ {0} /\ Overshoot \in Nat /\ MaxTransfers \in Nat
        /\ MaxAttempts \in Nat /\ MaxTime \in Nat
        /\ given \in Int /\ timeout \in Int /\ limit \in Int
        /\ failed \in Nat /\ attempts \in Nat /\ transfers \in 0 .. MaxTransfers
        /\ time \in Nat /\ start \in Nat /\ began \in Nat /\ wait \in Nat
        /\ blocked \in Nat /\ Taken = time - began - blocked /\ Taken \in Int
    BY UnitsAssumption, TimeoutsAssumption, TransferBoundsAssumption DEF TypeOK, Infinite, Taken
  <1>2. Positive(given) \in Nat
    BY <1>1 DEF Positive
  <1>3. /\ OneNode = Positive(given) * NsPerMs + MaxTransfers * NsPerMs + Overshoot
        /\ OneNode \in Nat
    BY <1>1, <1>2, Distributes, ProductIsNat DEF OneNode
  <1>4. failed * OneNode \in Nat /\ (failed + 1) * OneNode = failed * OneNode + OneNode
    BY <1>1, <1>3, Distributes, ProductIsNat
  <1>5. Charged \in Int /\ Spent \in Int
    BY <1>1, <1>2, <1>3 DEF Charged, Spent
  <1> QED BY <1>1, <1>2, <1>3, <1>4, <1>5

\* A call that has spent what it may leaves a millisecond for the transfer at hand.
LEMMA SpentInTime ==
    ASSUME Inv, pc # "idle"
    PROVE  Spent + NsPerMs <= (failed + 1) * OneNode
  <1> USE Numbers DEF Inv
  <1>1. transfers \in 1 .. MaxTransfers
    BY DEF InCall
  <1>2. (MaxTransfers - transfers) * NsPerMs + NsPerMs = (MaxTransfers - transfers + 1) * NsPerMs
    BY <1>1, Distributes
  <1>3. (MaxTransfers - transfers + 1) * NsPerMs <= MaxTransfers * NsPerMs
    <2>1. (transfers - 1) * NsPerMs \in Nat
      BY <1>1, ProductIsNat
    <2>2. MaxTransfers * NsPerMs = ((MaxTransfers - transfers + 1) + (transfers - 1)) * NsPerMs
      BY <1>1
    <2>3. MaxTransfers * NsPerMs
              = (MaxTransfers - transfers + 1) * NsPerMs + (transfers - 1) * NsPerMs
      BY <1>1, <2>2, Distributes
    <2> QED BY <1>1, <2>1, <2>3
  <1> QED BY <1>1, <1>2, <1>3 DEF Spent

\* As long as some of the timeout is left, not all of it was charged.
LEMMA ChargedSpent ==
    ASSUME Inv, Timed, pc # "idle", timeout > 0
    PROVE  Charged <= Spent
  <1> USE Numbers DEF Inv
  <1>1. timeout <= given /\ Positive(given) = given
    BY DEF InTime, Positive
  <1>2. timeout * NsPerMs \in Nat
    BY ProductIsNat
  <1>3. (given - timeout) * NsPerMs + timeout * NsPerMs = given * NsPerMs
    BY Distributes
  <1> QED BY <1>1, <1>2, <1>3 DEF Charged, Spent

\* A transfer takes no longer than its share of the timeout.
LEMMA BusyInTime ==
    ASSUME Inv, Busy, Timed, NEW t \in Int,
           t - start <= limit * NsPerMs + NsPerMs + Overshoot
    PROVE  t - began - blocked <= Spent + NsPerMs
  <1> USE Numbers DEF Inv
  <1>1. limit = timeout /\ timeout > 0 /\ timeout <= given /\ Positive(given) = given
    BY DEF InCall, InTime, Busy, Timed, WithTimeout, Positive
  <1>2. start - began - blocked <= Charged
    BY DEF InTime
  <1>3. (given - timeout) * NsPerMs + limit * NsPerMs = given * NsPerMs
    BY <1>1, Distributes
  <1> QED BY <1>1, <1>2, <1>3 DEF Charged, Spent

-----------------------------------------------------------------------------
(* The steps *)

\* A transfer that fails, whatever it leaves in the timeout variable.
LEMMA FailStep ==
    ASSUME Inv, pc # "idle", NEW r \in {"IO", "TIMEOUT"}, Fail(r),
           time' \in 0 .. MaxTime, blocked' \in Nat, timeout' \in Int,
           given = Infinite => timeout' = Infinite,
           given # Infinite /\ timeout' # Infinite =>
               /\ timeout' > 0 => timeout' <= given
               /\ time' - began - blocked' <= (failed + 1) * OneNode
    PROVE  Inv'
  <1> USE Numbers DEF Inv
  <1>1. given' = given /\ began' = began /\ OneNode' = OneNode
    BY DEF Fail, End, OneNode, Positive
  <1>2. CASE attempts > 1
    <2>1. /\ pc' = "enter" /\ Entered
          /\ transfers' \in 1 .. MaxTransfers /\ act' = "write"
          /\ attempts' = attempts - 1 /\ failed' = failed + 1
          /\ UNCHANGED <<result, given, began>>
      BY <1>2 DEF Fail
    <2>2. TypeOK'
      BY <1>2, <2>1 DEF TypeOK, Entered, InCall, Infinite
    <2>3. InCall'
      BY <1>2, <2>1 DEF InCall, Busy
    <2>4. ASSUME Timed'
          PROVE  Taken' <= IF timeout' > 0 THEN Charged' ELSE Spent'
      <3>1. Taken' <= (failed + 1) * OneNode
        BY <1>1, <2>4 DEF Timed, Taken
      <3>2. (MaxTransfers - transfers') * NsPerMs \in Nat
        BY <2>1, ProductIsNat
      <3>3. Positive(given) * NsPerMs \in Nat
        BY ProductIsNat
      <3>4. CASE timeout' > 0
        <4>1. (given - timeout') * NsPerMs \in Nat
          BY <1>1, <2>4, <3>4, ProductIsNat DEF Timed
        <4> QED BY <1>1, <2>1, <3>1, <3>2, <3>4, <4>1 DEF Charged, Taken
      <3>5. CASE ~(timeout' > 0)
        <4>1. Positive(given)' = Positive(given)
          BY <1>1 DEF Positive
        <4>2. Spent' = (failed + 1) * OneNode + Positive(given) * NsPerMs
                           + (MaxTransfers - transfers') * NsPerMs + Overshoot
          BY <1>1, <2>1, <4>1 DEF Spent
        <4> QED BY <1>1, <3>1, <3>2, <3>3, <3>5, <4>2 DEF Taken
      <3> QED BY <3>4, <3>5
    <2>5. InTime'
      BY <1>1, <2>1, <2>4 DEF InTime, Timed, Busy
    <2> QED BY <2>2, <2>3, <2>5
  <1>3. CASE ~(attempts > 1)
    <2>1. End("IO") \/ End(r)
      BY <1>3 DEF Fail
    <2>2. TypeOK'
      BY <2>1 DEF TypeOK, End, Entered, Infinite
    <2>3. InCall'
      BY <1>1, <2>1 DEF InCall, End, Busy
    <2>4. InTime'
      BY <1>1, <2>1 DEF InTime, Timed, End, Busy, Taken
    <2> QED BY <2>2, <2>3, <2>4
  <1> QED BY <1>2, <1>3

LEMMA StartCallStep ==
    ASSUME Inv, NEW o \in Timeouts, NEW k \in 1 .. MaxTransfers, NEW n \in 1 .. MaxAttempts,
           StartCall(o, k, n)
    PROVE  Inv'
  <1> USE Numbers DEF Inv
  <1>1. o \in Int
    BY TimeoutsAssumption
  <1>2. TypeOK'
    BY <1>1 DEF TypeOK, StartCall
  <1>3. InCall'
    BY DEF InCall, StartCall, Busy
  <1>4. ASSUME Timed'
        PROVE  Taken' <= IF timeout' > 0 THEN Charged' ELSE Spent'
    <2>1. /\ pc' = "enter" /\ transfers' = k /\ timeout' = o /\ given' = o
          /\ began' = time /\ time' = time /\ failed' = 0 /\ blocked' = 0
      BY DEF StartCall
    <2>2. OneNode' \in Nat /\ Positive(given') \in Nat /\ Positive(given)' = Positive(given')
      <3>1. Positive(o) \in Nat
        BY <1>1 DEF Positive
      <3>2. (Positive(o) + MaxTransfers) * NsPerMs \in Nat
        BY <3>1, ProductIsNat
      <3> QED BY <2>1, <3>1, <3>2 DEF OneNode, Positive
    <2>3. (MaxTransfers - k) * NsPerMs \in Nat /\ Positive(given') * NsPerMs \in Nat
      BY <2>2, ProductIsNat
    <2>4. PICK one \in Nat : OneNode' = one /\ 0 * one = 0
      BY <2>2, NoneOf
    <2>5. (o - o) * NsPerMs = 0
      BY <1>1, NoneOf
    <2> QED BY <1>1, <2>1, <2>2, <2>3, <2>4, <2>5 DEF Charged, Spent, Taken
  <1>5. InTime'
    BY <1>1, <1>4 DEF InTime, StartCall, Busy, Timed
  <1> QED BY <1>2, <1>3, <1>5

LEMMA EnterStep ==
    ASSUME Inv, NEW action \in {"write", "read"}, NEW size \in Sizes, Enter(action, size)
    PROVE  Inv'
  <1> USE Numbers DEF Inv
  <1>1. pc = "enter" /\ UNCHANGED <<time, blocked, timeout>>
    BY DEF Enter, clock
  <1>2. CASE timeout # Infinite /\ timeout <= 0
    <2>1. Fail("TIMEOUT")
      BY <1>2 DEF Enter
    <2>2. Timed => Taken <= Spent
      BY <1>1, <1>2 DEF InTime
    <2>3. Timed => Taken <= (failed + 1) * OneNode
      BY <1>1, <2>2, SpentInTime
    <2> QED BY <1>1, <1>2, <2>1, <2>3, FailStep DEF TypeOK, Timed, InCall
  <1>3. CASE ~(timeout # Infinite /\ timeout <= 0)
    <2>1. /\ pc' = "loop"
          /\ act' = action /\ todo' = size /\ limit' = timeout /\ start' = time
          /\ UNCHANGED <<transfers, wait, call>>
      BY <1>3 DEF Enter
    <2>2. TypeOK'
      BY <1>1, <2>1, SizesAssumption DEF TypeOK, call
    <2>3. InCall'
      BY <1>1, <1>3, <2>1 DEF InCall, Busy, WithTimeout, call
    <2>4. Charged' = Charged
      BY <1>1, <2>1 DEF Charged, OneNode, Positive, call
    <2>5. Timed => timeout * NsPerMs \in Nat
      BY <1>3, ProductIsNat DEF Timed
    <2>6. Spent' = Spent /\ Taken' = Taken /\ NsPerMs \in Nat
      BY <1>1, <2>1 DEF Spent, Taken, OneNode, Positive, call
    <2>7. Timed => Charged <= Spent
      BY <1>1, <1>3, ChargedSpent DEF Timed
    <2>8. InTime'
      <3>1. Timed => Taken <= Charged
        BY <1>1, <1>3 DEF InTime, Timed
      <3> QED BY <1>1, <1>3, <2>1, <2>4, <2>6, <2>7, <3>1 DEF InTime, Timed, Busy, call
    <2> QED BY <2>2, <2>3, <2>8
  <1> QED BY <1>2, <1>3

LEMMA ReckonStep ==
    ASSUME Inv, Reckon
    PROVE  Inv'
  <1> USE Numbers DEF Inv
  <1>1. /\ pc = "loop" /\ time' = time /\ blocked' = blocked
        /\ limit = timeout /\ start <= time
    BY DEF Reckon, InCall, Busy, clock
  <1>2. TimeDelta(start, time) \in Nat
        /\ time - start < TimeDelta(start, time) * NsPerMs + NsPerMs
    BY <1>1, TimeDeltaBounds
  <1>3. CASE ~WithTimeout
    <2>1. pc' = "move" /\ UNCHANGED <<timeout, locals, call>>
      BY <1>3 DEF Reckon
    <2> QED BY <1>1, <1>3, <2>1
            DEF TypeOK, InCall, InTime, Busy, Timed, WithTimeout, Taken, locals, call
  <1>4. CASE WithTimeout /\ Remaining(time) <= 0
    <2>1. timeout' = 0 /\ Fail("TIMEOUT")
      BY <1>4 DEF Reckon
    <2>2. Timed => Taken <= (failed + 1) * OneNode
      BY <1>1, SpentInTime DEF InTime
    <2>3. Timed <=> given # Infinite
      BY <1>1, <1>4 DEF Timed, WithTimeout
    <2>4. given # Infinite
      BY <1>1, <1>4 DEF InCall, WithTimeout
    <2> QED BY <1>1, <2>1, <2>2, <2>3, <2>4, FailStep DEF TypeOK
  <1>5. CASE WithTimeout /\ ~(Remaining(time) <= 0)
    <2>1. /\ pc' = "poll" /\ wait' = Remaining(time)
          /\ UNCHANGED <<timeout, transfers, act, todo, limit, start, call>>
      BY <1>5 DEF Reckon
    <2>2. wait' \in Nat /\ wait' > 0 /\ limit - wait' = TimeDelta(start, time)
      BY <1>2, <1>5, <2>1 DEF Remaining
    <2>3. TypeOK'
      BY <1>1, <2>1, <2>2 DEF TypeOK, call
    <2>4. InCall'
      BY <1>1, <1>5, <2>1, <2>2 DEF InCall, Busy, WithTimeout, call
    <2>5. Charged' = Charged
      BY <2>1 DEF Charged, OneNode, Positive, call
    <2>6. InTime'
      BY <1>1, <1>2, <2>1, <2>2, <2>5 DEF InTime, Timed, Busy, call
    <2> QED BY <2>3, <2>4, <2>6
  <1> QED BY <1>3, <1>4, <1>5

\* poll waits no longer than it was told, and is a little late.
LEMMA PollTakes ==
    ASSUME Inv, pc = "poll", NEW d \in 0 .. wait * NsPerMs + Overshoot, Timed
    PROVE  time + d - start < limit * NsPerMs + NsPerMs + Overshoot
  <1> USE Numbers DEF Inv
  <1>1. time - start < (limit - wait) * NsPerMs + NsPerMs
    BY DEF InTime
  <1>2. (limit - wait) * NsPerMs + wait * NsPerMs = limit * NsPerMs
    BY Distributes
  <1>3. wait * NsPerMs \in Nat
    BY ProductIsNat
  <1> QED BY <1>1, <1>2, <1>3

\* poll_act goes on with the time still reckoned from its start.
LEMMA PassStep ==
    ASSUME Inv, Busy, time' \in 0 .. MaxTime, time <= time', blocked' \in Nat,
           blocked <= blocked', pc' \in {"loop", "move"},
           UNCHANGED <<timeout, transfers, act, limit, start, wait, call>>,
           todo' \in Nat,
           Timed => Taken' <= Spent + NsPerMs
    PROVE  Inv'
  <1> USE Numbers DEF Inv
  <1>1. TypeOK'
    BY DEF TypeOK, call
  <1>2. InCall'
    BY DEF InCall, Busy, WithTimeout, call
  <1>3. Charged' = Charged /\ Spent' = Spent
    BY DEF Charged, Spent, OneNode, Positive, call
  <1>4. InTime'
    BY <1>3 DEF InTime, Timed, Busy, call
  <1> QED BY <1>1, <1>2, <1>4

\* poll is over.
LEMMA PolledStep ==
    ASSUME Inv, pc = "poll", NEW d \in 0 .. wait * NsPerMs + Overshoot, Polls(d),
           pc' \in {"loop", "move"}, UNCHANGED <<timeout, locals, call>>
    PROVE  Inv'
  <1> USE Numbers DEF Inv
  <1>1. /\ time' = time + d /\ time' \in 0 .. MaxTime /\ time <= time'
        /\ blocked' = blocked /\ began' = began
    BY DEF Polls, Passes, call
  <1>2. ASSUME Timed PROVE Taken' <= Spent + NsPerMs
    <2>1. limit * NsPerMs \in Int
      OBVIOUS
    <2>2. time + d - start <= limit * NsPerMs + NsPerMs + Overshoot
      BY <1>1, <1>2, <2>1, PollTakes
    <2>3. time' \in Int /\ time' - start <= limit * NsPerMs + NsPerMs + Overshoot
      BY <1>1, <2>2
    <2>4. time' - began - blocked <= Spent + NsPerMs
      BY <1>2, <2>3, BusyInTime DEF Busy
    <2> QED BY <1>1, <2>4 DEF Taken
  <1> QED BY <1>1, <1>2, PassStep DEF Busy, locals, TypeOK

LEMMA PollReadyStep ==
    ASSUME Inv, PollReady
    PROVE  Inv'
  <1>1. pc = "poll" /\ pc' = "move" /\ UNCHANGED <<timeout, locals, call>>
    BY DEF PollReady
  <1>2. PICK d \in 0 .. wait * NsPerMs + Overshoot : Polls(d)
    BY DEF PollReady
  <1> QED BY <1>1, <1>2, PolledStep

LEMMA PollOtherStep ==
    ASSUME Inv, PollOther
    PROVE  Inv'
  <1>1. pc = "poll" /\ pc' = "loop" /\ UNCHANGED <<timeout, locals, call>>
    BY DEF PollOther
  <1>2. PICK d \in 1 .. wait * NsPerMs + Overshoot : Polls(d)
    BY DEF PollOther
  <1>3. d \in 0 .. wait * NsPerMs + Overshoot
    BY Numbers DEF Inv
  <1> QED BY <1>1, <1>2, <1>3, PolledStep

\* poll was the last thing that a transfer did.
LEMMA PollEnds ==
    ASSUME Inv, pc = "poll", NEW d \in 0 .. wait * NsPerMs + Overshoot, Polls(d)
    PROVE  /\ time' = time + d /\ time' \in 0 .. MaxTime /\ blocked' \in Nat
           /\ given # Infinite /\ Timed /\ limit = timeout
           /\ start <= time'
           /\ time' - began - blocked' <= (failed + 1) * OneNode
  <1> USE Numbers DEF Inv
  <1>1. time' = time + d /\ time' \in 0 .. MaxTime /\ blocked' = blocked /\ d \in Nat
    BY DEF Polls, Passes
  <1>2. given # Infinite /\ Timed /\ limit = timeout /\ start <= time
    BY DEF InCall, Busy, WithTimeout, Timed
  <1>3. limit * NsPerMs \in Int
    OBVIOUS
  <1>4. time + d - start <= limit * NsPerMs + NsPerMs + Overshoot
    BY <1>1, <1>2, <1>3, PollTakes
  <1>5. time' \in Int /\ time' - start <= limit * NsPerMs + NsPerMs + Overshoot
    BY <1>1, <1>4
  <1>6. time' - began - blocked <= Spent + NsPerMs
    BY <1>2, <1>5, BusyInTime DEF Busy
  <1> QED BY <1>1, <1>2, <1>6, SpentInTime

LEMMA PollBreaksStep ==
    ASSUME Inv, PollBreaks
    PROVE  Inv'
  <1> USE Numbers DEF Inv
  <1>1. pc = "poll" /\ timeout' \in {Remaining(time'), timeout} /\ Fail("IO")
    BY DEF PollBreaks
  <1>2. PICK d \in 0 .. wait * NsPerMs + Overshoot : Polls(d)
    BY DEF PollBreaks
  <1>3. /\ time' = time + d /\ time' \in 0 .. MaxTime /\ blocked' \in Nat
        /\ given # Infinite /\ Timed /\ limit = timeout
        /\ start <= time'
        /\ time' - began - blocked' <= (failed + 1) * OneNode
    BY <1>1, <1>2, PollEnds
  <1>4. TimeDelta(start, time') \in Nat
    <2>1. time' \in Nat
      BY <1>3
    <2> QED BY <1>3, <2>1, TimeDeltaBounds
  <1>5. timeout' \in Int /\ timeout' <= timeout
    BY <1>1, <1>3, <1>4 DEF Remaining
  <1>6. timeout <= given
    BY <1>1, <1>3 DEF InTime, InCall, Busy, WithTimeout
  <1>7. timeout' > 0 => timeout' <= given
    BY <1>5, <1>6
  <1> QED BY <1>1, <1>3, <1>5, <1>7, FailStep

LEMMA PollTimeoutStep ==
    ASSUME Inv, PollTimeout
    PROVE  Inv'
  <1> USE Numbers DEF Inv
  <1>1. pc = "poll" /\ timeout' = 0 /\ Fail("TIMEOUT")
    BY DEF PollTimeout
  <1>2. PICK d \in wait * NsPerMs .. wait * NsPerMs + Overshoot : Polls(d)
    BY DEF PollTimeout
  <1>3. wait * NsPerMs \in Nat
    BY ProductIsNat
  <1>4. d \in 0 .. wait * NsPerMs + Overshoot
    BY <1>2, <1>3
  <1>5. /\ time' \in 0 .. MaxTime /\ blocked' \in Nat /\ given # Infinite
        /\ time' - began - blocked' <= (failed + 1) * OneNode
    BY <1>1, <1>2, <1>4, PollEnds
  <1> QED BY <1>1, <1>5, FailStep

\* The time of a read or write is over; that of a call with a timeout is counted.
LEMMA SystemCallTakes ==
    ASSUME Inv, pc = "move", SystemCall, began' = began
    PROVE  /\ time' \in 0 .. MaxTime /\ time <= time'
           /\ blocked' \in Nat /\ blocked <= blocked'
           /\ Timed => Taken' = Taken /\ time' - began - blocked' = Taken
  <1> USE Numbers DEF Inv
  <1>1. PICK d \in Nat : /\ Passes(d)
                         /\ blocked' = IF WithTimeout THEN blocked + d ELSE blocked
    BY DEF SystemCall
  <1>2. time' = time + d /\ time' \in 0 .. MaxTime
    BY <1>1 DEF Passes
  <1>3. Timed => WithTimeout
    BY DEF Timed, WithTimeout, InCall, Busy
  <1> QED BY <1>1, <1>2, <1>3 DEF Taken

LEMMA MoveStep ==
    ASSUME Inv, Move
    PROVE  Inv'
  <1> USE Numbers DEF Inv
  <1>1. /\ pc = "move" /\ pc' = "loop" /\ todo \in Nat /\ SystemCall
        /\ UNCHANGED <<timeout, transfers, act, limit, start, wait, call>>
    BY DEF Move, TypeOK
  <1>2. todo' \in Nat
    BY <1>1 DEF Move
  <1>3. began' = began
    BY <1>1 DEF call
  <1>4. Timed => Taken <= Spent + NsPerMs
    BY <1>1 DEF InTime
  <1> QED BY <1>1, <1>2, <1>3, <1>4, SystemCallTakes, PassStep DEF Busy

LEMMA MoveAgainStep ==
    ASSUME Inv, MoveAgain
    PROVE  Inv'
  <1> USE Numbers DEF Inv
  <1>1. /\ pc = "move" /\ pc' = "loop" /\ todo \in Nat /\ SystemCall
        /\ UNCHANGED <<timeout, locals, call>>
    BY DEF MoveAgain, TypeOK
  <1>2. began' = began
    BY <1>1 DEF call
  <1>3. Timed => Taken <= Spent + NsPerMs
    BY <1>1 DEF InTime
  <1> QED BY <1>1, <1>2, <1>3, SystemCallTakes, PassStep DEF Busy, locals

LEMMA MoveFailsStep ==
    ASSUME Inv, MoveFails
    PROVE  Inv'
  <1> USE Numbers DEF Inv
  <1>1. pc = "move" /\ Fail("IO") /\ timeout' = timeout /\ SystemCall
    BY DEF MoveFails
  <1>2. began' = began
    BY <1>1 DEF Fail, End
  <1>3. Timed => Taken <= (failed + 1) * OneNode
    BY <1>1, SpentInTime DEF InTime
  <1>4. Timed => (timeout > 0 => timeout <= given)
    BY <1>1 DEF InTime
  <1>5. given = Infinite => timeout' = Infinite
    BY <1>1 DEF InCall
  <1> QED BY <1>1, <1>2, <1>3, <1>4, <1>5, SystemCallTakes, FailStep DEF Timed

LEMMA ClockFailsStep ==
    ASSUME Inv, ClockFails
    PROVE  Inv'
  <1> USE Numbers DEF Inv
  <1>1. /\ (pc = "enter" /\ timeout > 0) \/ (pc = "loop" /\ WithTimeout)
        /\ Fail("IO") /\ time' = time /\ blocked' = blocked /\ timeout' = timeout
    BY DEF ClockFails, clock
  <1>2. Timed => Taken <= (failed + 1) * OneNode
    <2>1. CASE pc = "enter"
      <3>1. Timed => Taken <= Charged /\ Charged <= Spent
        BY <1>1, <2>1, ChargedSpent DEF InTime
      <3> QED BY <2>1, <3>1, SpentInTime
    <2>2. CASE pc = "loop"
      BY <2>2, SpentInTime DEF InTime
    <2> QED BY <1>1, <2>1, <2>2
  <1>3. Timed => (timeout > 0 => timeout <= given)
    BY <1>1 DEF InTime
  <1>4. given = Infinite => timeout' = Infinite
    BY <1>1 DEF InCall
  <1>5. time' \in 0 .. MaxTime /\ blocked' \in Nat /\ timeout' \in Int
    BY <1>1 DEF TypeOK
  <1>6. Timed => time' - began - blocked' <= (failed + 1) * OneNode
    BY <1>1, <1>2
  <1> QED BY <1>1, <1>3, <1>4, <1>5, <1>6, FailStep DEF Timed

LEMMA ChargeStep ==
    ASSUME Inv, Charge
    PROVE  Inv'
  <1> USE Numbers DEF Inv
  <1>1. /\ pc = "loop" /\ time' = time /\ blocked' = blocked
        /\ limit = timeout /\ start <= time
        /\ timeout' = IF WithTimeout THEN Remaining(time) ELSE timeout
    BY DEF Charge, InCall, Busy, clock
  <1>2. /\ TimeDelta(start, time) \in Nat
        /\ time - start < TimeDelta(start, time) * NsPerMs + NsPerMs
    BY <1>1, TimeDeltaBounds
  <1>3. /\ timeout' \in Int
        /\ WithTimeout => timeout' = timeout - TimeDelta(start, time) /\ timeout' <= timeout
        /\ given = Infinite => timeout' = Infinite
        /\ timeout' # Infinite /\ given # Infinite => Timed
    BY <1>1, <1>2 DEF Remaining, InCall, Timed, WithTimeout
  <1>4. Timed => Taken <= Spent + NsPerMs /\ Taken <= (failed + 1) * OneNode
    BY <1>1, SpentInTime DEF InTime
  <1>5. CASE transfers > 1
    <2>1. /\ pc' = "enter" /\ transfers' = transfers - 1 /\ Entered
          /\ UNCHANGED <<act, call>>
      BY <1>5 DEF Charge
    <2>2. TypeOK'
      BY <1>1, <1>3, <1>5, <2>1 DEF TypeOK, Entered, Infinite, call
    <2>3. InCall'
      BY <1>1, <1>3, <1>5, <2>1 DEF InCall, Busy, call
    <2>4. OneNode' = OneNode /\ Positive(given)' = Positive(given)
          /\ (MaxTransfers - transfers') * NsPerMs
                 = (MaxTransfers - transfers) * NsPerMs + NsPerMs
      <3>1. MaxTransfers - transfers' = (MaxTransfers - transfers) + 1
        BY <2>1
      <3> QED BY <2>1, <3>1, Distributes DEF OneNode, Positive, call
    <2>5. Spent' = Spent + NsPerMs
      BY <2>1, <2>4 DEF Spent, call
    <2>6. ASSUME Timed', timeout' > 0
          PROVE  Taken' <= Charged'
      <3>1. Timed /\ given' = given /\ timeout' = timeout - TimeDelta(start, time)
        BY <1>1, <1>3, <2>1, <2>6 DEF Timed, WithTimeout, call
      <3>2. (given - timeout') * NsPerMs
                = (given - timeout) * NsPerMs + TimeDelta(start, time) * NsPerMs
        <4>1. given - timeout' = (given - timeout) + TimeDelta(start, time)
          BY <1>2, <3>1
        <4> QED BY <1>2, <4>1, Distributes
      <3>3. Charged' = Charged + TimeDelta(start, time) * NsPerMs + NsPerMs
        BY <1>2, <1>3, <2>1, <2>4, <3>1, <3>2 DEF Charged, call
      <3>4. start - began - blocked <= Charged
        BY <1>1, <3>1 DEF InTime, Busy
      <3>5. Taken' = Taken
        BY <1>1, <2>1 DEF Taken, call
      <3> QED BY <1>1, <1>2, <3>3, <3>4, <3>5
    <2>7. InTime'
      <3>1. Timed' => Timed
        BY <1>3, <2>1 DEF Timed, call
      <3>2. Timed => timeout <= given
        BY <1>1 DEF InTime, InCall, Busy, Timed, WithTimeout
      <3>3. Timed' => Taken' <= IF timeout' > 0 THEN Charged' ELSE Spent'
        BY <1>1, <1>4, <2>1, <2>5, <2>6, <3>1 DEF Taken, call
      <3>4. Timed' /\ timeout' > 0 => timeout' <= given'
        BY <1>1, <1>3, <2>1, <3>1, <3>2 DEF Timed, WithTimeout, call
      <3> QED BY <2>1, <3>3, <3>4 DEF InTime, Busy
    <2> QED BY <2>2, <2>3, <2>7
  <1>6. CASE ~(transfers > 1)
    <2>1. End("OK")
      BY <1>6 DEF Charge
    <2>2. TypeOK'
      BY <1>1, <1>3, <2>1 DEF TypeOK, End, Entered, Infinite
    <2>3. InCall'
      BY <1>1, <1>3, <2>1 DEF InCall, End, Busy
    <2>4. OneNode' = OneNode
      BY <2>1 DEF End, OneNode, Positive
    <2>5. InTime'
      BY <1>1, <1>3, <1>4, <2>1, <2>4 DEF InTime, Timed, End, Busy, Taken
    <2> QED BY <2>2, <2>3, <2>5
  <1> QED BY <1>5, <1>6

-----------------------------------------------------------------------------
(* Theorems *)

\* The inductive invariant of a call's time: what it has taken is what was charged
\* to it and a millisecond per transfer.
THEOREM Invariant == Spec => []Inv
  <1>1. Init => Inv
    <2> SUFFICES ASSUME Init PROVE Inv
      OBVIOUS
    <2>1. TypeOK
      <3>1. NsPerS \in Nat /\ 0 .. NsPerS - 1 \subseteq 0 .. MaxTime
        BY UnitsAssumption, TransferBoundsAssumption DEF NsPerS
      <3> QED BY <3>1, UnitsAssumption, TransferBoundsAssumption DEF Init, TypeOK, Infinite
    <2> QED BY <2>1 DEF Inv, Init, InCall, InTime, Busy, Timed
  <1>2. Inv /\ [Next]_vars => Inv'
    <2>1. ASSUME Inv, Step PROVE Inv'
      BY <2>1, EnterStep, ReckonStep, PollReadyStep, PollOtherStep, PollBreaksStep,
         PollTimeoutStep, MoveStep, MoveAgainStep, MoveFailsStep, ClockFailsStep,
         ChargeStep DEF Step
    <2>2. ASSUME Inv, UNCHANGED vars PROVE Inv'
      BY <2>2 DEF Inv, TypeOK, InCall, InTime, Busy, Timed, Charged, Spent, OneNode,
                  Positive, WithTimeout, Taken, vars, clock, locals, call
    <2> QED BY <2>1, <2>2, StartCallStep DEF Next
  <1> QED BY <1>1, <1>2, PTL DEF Spec

\* Every variable of a call's transfers keeps its type.
THEOREM TypeCorrect == Spec => []TypeOK
  <1>1. Inv => TypeOK
    BY DEF Inv
  <1> QED BY <1>1, Invariant, PTL

\* A call with a timeout that was not lost is over its timeout by no more than the
\* time its writes were blocked, a millisecond per transfer and the lateness of one
\* poll, once per node.
THEOREM NotLate == Spec => []NeverLate
  <1>1. ASSUME Inv PROVE NeverLate
    <2> USE <1>1, Numbers DEF Inv
    <2> SUFFICES ASSUME Timed PROVE Taken <= (failed + 1) * OneNode
      BY DEF NeverLate, Timed, Longest, OneNode
    <2>1. limit * NsPerMs \in Int /\ Spent \in Int
      OBVIOUS
    <2>2. CASE pc = "idle"
      BY <2>2 DEF InTime
    <2>3. CASE pc = "enter" /\ timeout > 0
      <3>1. Taken <= Charged /\ Charged <= Spent
        BY <2>3, ChargedSpent DEF InTime
      <3> QED BY <2>3, <3>1, SpentInTime
    <2>4. CASE pc = "enter" /\ ~(timeout > 0)
      BY <2>1, <2>4, SpentInTime DEF InTime
    <2>5. CASE pc \in {"loop", "move"}
      BY <2>5, SpentInTime DEF InTime
    <2>6. CASE pc = "poll"
      <3>1. 0 \in 0 .. wait * NsPerMs + Overshoot
        BY ProductIsNat
      <3>2. time - start <= limit * NsPerMs + NsPerMs + Overshoot
        BY <2>1, <2>6, <3>1, PollTakes
      <3>3. Taken <= Spent + NsPerMs
        BY <2>6, <3>2, BusyInTime DEF Busy
      <3> QED BY <2>6, <3>3, SpentInTime
    <2> QED BY <2>2, <2>3, <2>4, <2>5, <2>6 DEF TypeOK
  <1> QED BY <1>1, Invariant, PTL

\* No transfer gives time back to the call.
THEOREM TimeIsSpent == Spec => NeverGrows
  <1>1. ASSUME Inv, [Next]_vars, pc # "idle", given # Infinite
        PROVE  timeout' <= timeout
    <2> USE <1>1, Numbers DEF Inv
    <2>1. CASE UNCHANGED timeout
      BY <2>1
    <2>2. CASE Reckon
      BY <2>2 DEF Reckon, InCall, Busy, WithTimeout
    <2>3. CASE PollBreaks
      <3>1. /\ timeout' \in {timeout - TimeDelta(start, time'), timeout}
            /\ start <= time /\ time' \in Nat /\ time <= time'
        BY <2>3 DEF PollBreaks, Polls, Passes, Remaining, InCall, Busy
      <3>2. TimeDelta(start, time') \in Nat
        <4>1. start <= time'
          BY <3>1
        <4> QED BY <3>1, <4>1, TimeDeltaBounds
      <3> QED BY <3>1, <3>2
    <2>4. CASE PollTimeout
      BY <2>4 DEF PollTimeout, InCall, Busy, WithTimeout
    <2>5. CASE Charge
      <3>1. start <= time /\ limit = timeout
        BY <2>5 DEF Charge, InCall, Busy
      <3>2. TimeDelta(start, time) \in Nat
        BY <3>1, TimeDeltaBounds
      <3> QED BY <2>5, <3>1, <3>2 DEF Charge, Remaining
    <2> QED BY <1>1, <2>1, <2>2, <2>3, <2>4, <2>5
            DEF Next, Step, StartCall, Enter, PollReady, PollOther, Move, MoveAgain,
                MoveFails, ClockFails, vars
  <1>2. Inv /\ [Next]_vars => [pc # "idle" /\ given # Infinite => timeout' <= timeout]_vars
    BY <1>1
  <1> QED BY <1>2, Invariant, PTL DEF Spec, NeverGrows

=============================================================================
