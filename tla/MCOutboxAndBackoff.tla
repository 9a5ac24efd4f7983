------------------------- MODULE MCOutboxAndBackoff -------------------------
(***************************************************************************)
(* Outbox and Backoff for TLC.  They share no state and are checked one    *)
(* beside the other: part says which of them moves, and the other one      *)
(* stays in an initial state.                                              *)
(***************************************************************************)
EXTENDS MCOutbox, Backoff

VARIABLE part

MCInit ==
    \/ part = "outbox" /\ Init
       /\ base = 1 /\ maximum = 1 /\ attempt = 1 /\ delay = 1
    \/ part = "backoff" /\ Init /\ BackoffInit

MCNext ==
    /\ UNCHANGED part
    /\ \/ part = "outbox" /\ Next /\ UNCHANGED backoffVars
       \/ part = "backoff" /\ FailAgain /\ UNCHANGED vars

MCSpec == MCInit /\ [][MCNext]_<<part, vars, backoffVars>>

=============================================================================
