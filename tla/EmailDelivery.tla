--------------------------- MODULE EmailDelivery ---------------------------
(***************************************************************************)
(* What transactional delivery promises about one account e-mail, with no  *)
(* workers, leases, retries or clocks (ARCHITECTURE.md, "In transactional  *)
(* delivery mode"): an e-mail is accepted with the request that asked for  *)
(* it, is offered to the SMTP server at least once before it is recorded   *)
(* as delivered, and once recorded as delivered or abandoned stays so.     *)
(* Duplicates are allowed, even after the e-mail has been settled: a       *)
(* worker that lost its lease may still be talking to the SMTP server.     *)
(* Module Outbox implements this specification.                            *)
(***************************************************************************)
CONSTANT Messages

VARIABLES
    outcome,   \* outcome[m]: what the application has recorded about e-mail m
    sent       \* sent[m]: the SMTP server has accepted m at least once

vars == <<outcome, sent>>

Outcomes == {"absent", "accepted", "delivered", "abandoned"}

TypeOK ==
    /\ outcome \in [Messages -> Outcomes]
    /\ sent \in [Messages -> BOOLEAN]

Init ==
    /\ outcome = [m \in Messages |-> "absent"]
    /\ sent = [m \in Messages |-> FALSE]

----------------------------------------------------------------------------
\* The request's transaction commits with the e-mail in it.
Accept(m) ==
    /\ outcome[m] = "absent"
    /\ outcome' = [outcome EXCEPT ![m] = "accepted"]
    /\ UNCHANGED sent

\* The SMTP server takes the e-mail, for the first time or once more.
Send(m) ==
    /\ outcome[m] # "absent"
    /\ sent' = [sent EXCEPT ![m] = TRUE]
    /\ UNCHANGED outcome

\* Delivery is recorded, and only of an e-mail that was sent.
Confirm(m) ==
    /\ outcome[m] = "accepted"
    /\ sent[m]
    /\ outcome' = [outcome EXCEPT ![m] = "delivered"]
    /\ UNCHANGED sent

\* Delivery is given up: out of attempts, too late, or unreadable.
Abandon(m) ==
    /\ outcome[m] = "accepted"
    /\ outcome' = [outcome EXCEPT ![m] = "abandoned"]
    /\ UNCHANGED sent

Next == \E m \in Messages : Accept(m) \/ Send(m) \/ Confirm(m) \/ Abandon(m)

Spec == Init /\ [][Next]_vars

============================================================================
