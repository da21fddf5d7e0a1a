----------------------------- MODULE MCTransfer -----------------------------
\* Model checking of Transfer with seconds of three milliseconds.
EXTENDS Transfer

MCTimeouts == {Infinite, -7, 0, 1, 3}
MCSizes == {1, 2}

=============================================================================
