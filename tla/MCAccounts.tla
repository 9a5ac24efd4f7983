----------------------------- MODULE MCAccounts -----------------------------
(* Small instances of Accounts for TLC. *)
EXTENDS Accounts, TLC

CONSTANTS u1, u2, e1, t1, t2, x1, x2, s1, s2, i1, i2, k1, k2, o1, o2, r1, r2

MCUsers == {u1, u2}
MCEmails == {e1}
MCTransactions == {t1, t2}
MCRows == {x1, x2}
MCSubjects == {s1, s2}
MCIssuerOf == s1 :> i1 @@ s2 :> i2
MCOidcRequests == {o1, o2}
MCTokens == {k1, k2}
MCTokenRequests == {r1, r2}

\* Requests, rows, accounts and random values are interchangeable; no liveness
\* is checked with it.
MCSymmetry ==
    Permutations(MCUsers) \cup Permutations(MCTransactions) \cup Permutations(MCRows)
    \cup Permutations(MCOidcRequests) \cup Permutations(MCTokens)
    \cup Permutations(MCTokenRequests)

Issued ==
    Cardinality({t \in Transactions : tx[t].status # "absent"})
    + Cardinality({k \in Tokens : token[k].status # "absent"})

Running ==
    Cardinality({r \in OidcRequests : oidc[r].at # "idle"})
    + Cardinality({r \in TokenRequests : treq[r].at # "idle"})

\* Bounds: transactions and tokens together, and requests in flight.
MaxIssued == 3
MaxRunning == 2
MCBound == Issued <= MaxIssued /\ Running <= MaxRunning

=============================================================================
