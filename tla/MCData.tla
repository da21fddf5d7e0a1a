------------------------------- MODULE MCData -------------------------------
(***************************************************************************)
(* The data structures of the API, which do not interact: a behaviour is   *)
(* one of the lists, of a sequence or of the objects of the C++ interface, *)
(* so that the state spaces add up.                                        *)
(***************************************************************************)
EXTENDS Lists, Sequence, Wrapper

VARIABLE active

DataInit ==
    /\ active \in {"lists", "sequence", "wrapper"}
    /\ ListInit /\ SeqInit /\ WrapInit

DataNext ==
    \/ active = "lists" /\ ListNext /\ UNCHANGED <<active, seqVars, wrapVars>>
    \/ active = "sequence" /\ SeqNext /\ UNCHANGED <<active, listVars, wrapVars>>
    \/ active = "wrapper" /\ WrapNext /\ UNCHANGED <<active, listVars, seqVars>>

DataSpec == DataInit /\ [][DataNext]_<<active, listVars, seqVars, wrapVars>>

=============================================================================
