------------------------------- MODULE Clock --------------------------------
(***************************************************************************)
(* The clock of arakoon-networking.c and the remaining time of a call.     *)
(* A point in time is a number of nanoseconds; struct timespec splits it   *)
(* into seconds and nanoseconds.  The unit sizes are parameters, so that   *)
(* small seconds can be checked.                                           *)
(***************************************************************************)
EXTENDS Integers

CONSTANTS
    NsPerMs,    \* NS_PER_MS
    MsPerS      \* MS_PER_S

ASSUME UnitsAssumption == NsPerMs \in Nat \ {0} /\ MsPerS \in Nat \ {0}

NsPerS == MsPerS * NsPerMs

Sec(t)  == t \div NsPerS
Nsec(t) == t - Sec(t) * NsPerS

\* Mutant: the seconds are left out.
MutTimeDelta(start, end) == (Nsec(end) - Nsec(start)) \div NsPerMs

\* time_delta, in milliseconds.
TimeDelta(start, end) ==
    IF Sec(start) = Sec(end)
    THEN (Nsec(end) - Nsec(start)) \div NsPerMs
    ELSE ((NsPerS - Nsec(start)) + Nsec(end)) \div NsPerMs
             + (Sec(end) - Sec(start)) * MsPerS

\* What time_delta is for: the whole milliseconds from start to end.
Elapsed(start, end) == (end - start) \div NsPerMs

\* ARAKOON_CLIENT_CALL_OPTIONS_INFINITE_TIMEOUT
Infinite == -1

=============================================================================
