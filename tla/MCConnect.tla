----------------------------- MODULE MCConnect ------------------------------
(***************************************************************************)
(* A small instance of Connect: two nodes of two addresses each, in a      *)
(* process with room for four descriptors besides its standard input.     *)
(***************************************************************************)
EXTENDS Connect, TLC

CONSTANTS n1, n2

MCNodes  == {n1, n2}
MCAppFds == {0}

=============================================================================
