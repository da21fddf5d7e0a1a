------------------------------ MODULE Transfer ------------------------------
(***************************************************************************)
(* The reads and writes of one call on its connection, and the time they   *)
(* share: _arakoon_networking_poll_act of src/src/arakoon-networking.c,    *)
(* called several times by a call of src/src/arakoon.c with a pointer to   *)
(* the same timeout variable.  connect_master asks one node after the      *)
(* other that way, and goes on to the next one when a transfer fails.      *)
(*                                                                         *)
(* A step takes as long as the system call it stands for.  poll may return *)
(* up to Overshoot late.  The descriptor is a blocking one (connect made   *)
(* it so again when it was done), so that write waits for the peer even    *)
(* after poll has found room for some bytes.  The bytes themselves are not *)
(* modelled, only how many are left to move.                               *)
(***************************************************************************)
EXTENDS Clock

CONSTANTS
    Timeouts,     \* the timeout options of calls, Infinite among them or not
    Sizes,        \* bytes of a transfer
    MaxTransfers, \* bound: transfers of one call, with one node
    MaxAttempts,  \* bound: nodes that connect_master asks
    Overshoot,    \* how many ns late poll may return
    MaxStall,     \* bound: how long one read or write waits for the peer
    MaxTime       \* bound on the clock

ASSUME TimeoutsAssumption == Timeouts \subseteq Int
ASSUME SizesAssumption == Sizes \subseteq Nat
ASSUME TransferBoundsAssumption ==
    /\ MaxTransfers \in Nat /\ MaxAttempts \in Nat /\ Overshoot \in Nat
    /\ MaxStall \in Nat /\ MaxTime \in Nat /\ NsPerS <= MaxTime

VARIABLES
    time,       \* the clock
    timeout,    \* the call's timeout variable: what is left of the option
    pc,         \* "idle", or what is done next
    attempts,   \* nodes the call may still ask, this one included
    transfers,  \* transfers it has still to make with this one
    act,        \* poll_act: action, "write" or "read"
    todo,       \* poll_act: bytes left
    limit,      \* poll_act: timeout_, the timeout on entry
    start,      \* poll_act: the clock on entry
    wait,       \* poll_act: time_left as passed to poll
    result,     \* of the latest call
    given,      \* history: the option of the call
    began,      \* history: when the call began
    failed,     \* history: how many nodes it has given up
    blocked     \* history: how long it was in reads and writes in spite of a
                \* timeout

clock  == <<time, blocked>>
locals == <<transfers, act, todo, limit, start, wait>>
call   == <<attempts, result, given, began, failed>>
vars   == <<clock, timeout, pc, locals, call>>

WithTimeout == limit # Infinite

Init ==
    /\ time \in 0 .. NsPerS - 1
    /\ timeout = Infinite /\ pc = "idle" /\ result = "none"
    /\ transfers = 0 /\ act = "write"
    /\ todo = 0 /\ limit = Infinite /\ start = 0 /\ wait = 0
    /\ attempts = 0 /\ given = Infinite /\ began = 0 /\ failed = 0 /\ blocked = 0

\* The clock moves on by d.
Passes(d) == time + d <= MaxTime /\ time' = time + d

\* poll takes the time d.
Polls(d) == Passes(d) /\ UNCHANGED blocked

\* The local variables of poll_act before it is entered.
Entered == todo' = 0 /\ limit' = Infinite /\ start' = 0 /\ wait' = 0

\* The call returns; its local variables are gone.
End(r) ==
    /\ pc' = "idle" /\ result' = r
    /\ transfers' = 0 /\ act' = "write" /\ Entered
    /\ attempts' = 0
    /\ UNCHANGED <<given, began, failed>>

\* A transfer failed with r.  connect_master goes on with the next node and what
\* the timeout variable says; when no node is left its error is another one.
Fail(r) ==
    IF attempts > 1
    THEN /\ pc' = "enter" /\ Entered
         /\ transfers' \in 1 .. MaxTransfers /\ act' = "write"
         /\ attempts' = attempts - 1 /\ failed' = failed + 1
         /\ UNCHANGED <<result, given, began>>
    ELSE End(IF failed > 0 THEN "IO" ELSE r)

-----------------------------------------------------------------------------
StartCall(option, k, nodes) ==
    /\ pc = "idle"
    /\ pc' = "enter" /\ transfers' = k /\ attempts' = nodes /\ timeout' = option
    /\ given' = option /\ began' = time /\ failed' = 0 /\ blocked' = 0
    /\ result' = "none"
    /\ UNCHANGED <<time, act, todo, limit, start, wait>>

\* Up to the loop of poll_act.  With each node a call writes, and then reads.
Enter(action, size) ==
    /\ pc = "enter"
    /\ action = "write" => act = "write"
    /\ IF timeout # Infinite /\ timeout <= 0
       THEN Fail("TIMEOUT")
       ELSE /\ pc' = "loop"
            /\ act' = action /\ todo' = size /\ limit' = timeout /\ start' = time
            /\ UNCHANGED <<transfers, wait, call>>
    /\ UNCHANGED <<clock, timeout>>

\* clock_gettime fails before the loop, at its head or after it: poll_act returns
\* at once and charges nothing.
ClockFails ==
    /\ \/ pc = "enter" /\ timeout > 0
       \/ pc = "loop" /\ WithTimeout
    /\ Fail("IO")
    /\ UNCHANGED <<clock, timeout>>

\* What is left of the timeout, as poll_act reckons it.
Remaining(t) == limit - TimeDelta(start, t)

\* Mutant: only a remaining time of exactly zero ends the loop.
MutReckon ==
    /\ pc = "loop" /\ todo > 0
    /\ IF ~WithTimeout
       THEN pc' = "move" /\ UNCHANGED <<timeout, locals, call>>
       ELSE IF Remaining(time) = 0
       THEN timeout' = 0 /\ Fail("TIMEOUT")
       ELSE /\ pc' = "poll" /\ wait' = Remaining(time)
            /\ UNCHANGED <<timeout, transfers, act, todo, limit, start, call>>
    /\ UNCHANGED clock

\* The head of the loop: how long may poll wait?
Reckon ==
    /\ pc = "loop" /\ todo > 0
    /\ IF ~WithTimeout
       THEN pc' = "move" /\ UNCHANGED <<timeout, locals, call>>
       ELSE IF Remaining(time) <= 0
       THEN timeout' = 0 /\ Fail("TIMEOUT")
       ELSE /\ pc' = "poll" /\ wait' = Remaining(time)
            /\ UNCHANGED <<timeout, transfers, act, todo, limit, start, call>>
    /\ UNCHANGED clock

\* poll finds the descriptor ready before its timeout ...
PollReady ==
    /\ pc = "poll"
    /\ \E d \in 0 .. wait * NsPerMs + Overshoot : Polls(d)
    /\ pc' = "move"
    /\ UNCHANGED <<timeout, locals, call>>

\* ... or reports an event that was not asked for, and the loop goes round ...
PollOther ==
    /\ pc = "poll"
    /\ \E d \in 1 .. wait * NsPerMs + Overshoot : Polls(d)
    /\ pc' = "loop"
    /\ UNCHANGED <<timeout, locals, call>>

\* ... or is interrupted, or reports an error or a hangup; the time is charged
\* unless clock_gettime fails ...
PollBreaks ==
    /\ pc = "poll"
    /\ \E d \in 0 .. wait * NsPerMs + Overshoot : Polls(d)
    /\ timeout' \in {Remaining(time'), timeout}
    /\ Fail("IO")

\* ... or runs into its timeout.
PollTimeout ==
    /\ pc = "poll"
    /\ \E d \in wait * NsPerMs .. wait * NsPerMs + Overshoot : Polls(d)
    /\ timeout' = 0
    /\ Fail("TIMEOUT")

\* The read or write of poll_act.  After poll a read takes what is there at once.
\* A write waits until the peer has made room for all the bytes that are left (or a
\* signal comes), whatever the timeout; and without a timeout there was no poll.
SystemCall ==
    \E d \in IF WithTimeout /\ act = "read" THEN {0} ELSE 0 .. MaxStall :
        /\ Passes(d)
        /\ blocked' = IF WithTimeout THEN blocked + d ELSE blocked

\* It moves some of the bytes, or all.
Move ==
    /\ pc = "move"
    /\ \E n \in 1 .. todo : todo' = todo - n
    /\ SystemCall
    /\ pc' = "loop"
    /\ UNCHANGED <<timeout, transfers, act, limit, start, wait, call>>

\* EINTR or EAGAIN: the loop goes round.
MoveAgain ==
    /\ pc = "move"
    /\ SystemCall
    /\ pc' = "loop"
    /\ UNCHANGED <<timeout, locals, call>>

\* Any other error: poll_act returns at once, the timeout is left as it was.
MoveFails ==
    /\ pc = "move"
    /\ SystemCall
    /\ Fail("IO")
    /\ UNCHANGED timeout

\* All bytes were moved: charge the time to the timeout.  The call goes on with
\* its next transfer, or is done.
Charge ==
    /\ pc = "loop" /\ todo = 0
    /\ timeout' = IF WithTimeout THEN Remaining(time) ELSE timeout
    /\ IF transfers > 1
       THEN /\ pc' = "enter" /\ transfers' = transfers - 1
            /\ Entered
            /\ UNCHANGED <<act, call>>
       ELSE End("OK")
    /\ UNCHANGED clock

-----------------------------------------------------------------------------
Step ==
    \/ \E a \in {"write", "read"}, s \in Sizes : Enter(a, s)
    \/ ClockFails
    \/ Reckon \/ PollReady \/ PollOther \/ PollBreaks \/ PollTimeout
    \/ Move \/ MoveAgain \/ MoveFails \/ Charge

\* How long n nodes may take with the timeout t, and the lateness of poll, as long
\* as no write blocks.  A negative timeout is over at once.
Positive(t) == IF t > 0 THEN t ELSE 0
Longest(t, n) == n * ((Positive(t) + MaxTransfers) * NsPerMs + Overshoot)

\* The bound leaves every call this time.
Next ==
    \/ Step
    \/ \E o \in Timeouts, k \in 1 .. MaxTransfers, n \in 1 .. MaxAttempts :
           time + Longest(o, n) <= MaxTime /\ StartCall(o, k, n)

Spec == Init /\ [][Next]_vars

-----------------------------------------------------------------------------
\* A finite timeout has become -1, which the next transfer takes for no timeout.
Lost == given # Infinite /\ timeout = Infinite /\ pc # "idle"

TypeOK ==
    /\ time \in 0 .. MaxTime
    /\ timeout \in Int
    /\ pc \in {"idle", "enter", "loop", "poll", "move"}
    /\ transfers \in 0 .. MaxTransfers
    /\ {attempts, failed} \subseteq 0 .. MaxAttempts
    /\ act \in {"write", "read"}
    /\ todo \in Nat
    /\ limit \in Int
    /\ start \in 0 .. MaxTime
    /\ wait \in Nat
    /\ result \in {"none", "OK", "IO", "TIMEOUT"}
    /\ given \in Timeouts \union {Infinite}
    /\ began \in 0 .. MaxTime
    /\ blocked \in Nat

\* Whatever the reads and writes of a call with a timeout come to, poll_act adds no
\* more to its timeout than the time that write was blocked, the millisecond that
\* time_delta rounds off per transfer and the lateness of the last poll, unless the
\* timeout was lost.  connect_master may be late by as much again for every node it
\* gave up: a transfer that fails does not charge its time.  (The timeout itself is
\* no bound: nothing ends a write that blocks.)
NeverLate ==
    given # Infinite /\ timeout # Infinite =>
        time - began - blocked <= Longest(given, failed + 1)

\* No transfer gives time back to the call (the stores to *timeout of poll_act):
\* what was left for the reads and writes to come only ever shrinks.
NeverGrows == [][pc # "idle" /\ given # Infinite => timeout' <= timeout]_vars

\* "The timeout is an integer value of milliseconds" (arakoon.h): a call gives up
\* with CLIENT_TIMEOUT no earlier than that.
NoEarlyTimeout ==
    result = "TIMEOUT" /\ pc = "idle" => time - began >= given * NsPerMs

\* "When equal to ARAKOON_CLIENT_CALL_OPTIONS_INFINITE_TIMEOUT, no timeout will be
\* used" (arakoon.h), and only then.
FiniteStaysFinite == ~Lost

=============================================================================
