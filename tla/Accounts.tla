------------------------------ MODULE Accounts ------------------------------
(***************************************************************************)
(* The accounts with every way to sign in to them: Identities and          *)
(* AccountTokens run concurrently on the rows of Users, and an             *)
(* administrator deletes accounts.                                         *)
(***************************************************************************)
EXTENDS Identities, AccountTokens

ASSUME RequestsApart ==
    /\ OidcRequests \cap TokenRequests = {}
    /\ None \notin OidcRequests \cup TokenRequests \cup Users \cup Emails \cup Subjects

vars == <<user, userLock, oidcVars, tokenVars>>

Init == UsersInit /\ OidcInit /\ TokensInit

\* delete_user: every row that refers to the account goes with it.
DeleteUser(u) ==
    /\ Exists(u)
    /\ Unlocked(u)
    /\ user' = [user EXCEPT ![u] = [NoAccount EXCEPT !.status = "deleted"]]
    /\ DropIdentities(u)
    /\ DropTokens(u)
    /\ UNCHANGED userLock

Next ==
    \/ UsersNext /\ UNCHANGED <<oidcVars, tokenVars>>
    \/ OidcNext /\ UNCHANGED tokenVars
    \/ TokensNext /\ UNCHANGED oidcVars
    \/ \E u \in Users : DeleteUser(u)

Spec == Init /\ [][Next]_vars

----------------------------------------------------------------------------
(* Properties.                                                             *)

\* An external identity belongs to one account, which has one per provider.
UniqueIdentities ==
    \A x, y \in {z \in Rows : Stored(z)} :
       x # y => /\ identity[x].subject # identity[y].subject
                /\ identity[x].user = identity[y].user =>
                      IssuerOf[identity[x].subject] # IssuerOf[identity[y].subject]

\* A verified provider e-mail never makes a second account for an address.
OneAccountPerEmail ==
    \A u, v \in {w \in Users : Exists(w)} :
       user[u].email # None /\ user[u].email = user[v].email => u = v

\* Rows and requests are well formed, rows obey the unique constraints, and they
\* are held by requests that run.
TypeOK ==
    /\ UniqueIdentities /\ OneAccountPerEmail
    /\ user \in [Users -> Account]
    /\ userLock \in [Users -> OidcRequests \cup TokenRequests \cup {None}]
    /\ tx \in [Transactions -> Transaction]
    /\ txLock \in [Transactions -> OidcRequests \cup {None}]
    /\ identity \in [Rows -> IdentityRow]
    /\ rowLock \in [Rows -> OidcRequests \cup {None}]
    /\ oidc \in [OidcRequests -> OidcRequest]
    /\ done \in [Transactions -> Completion]
    /\ token \in [Tokens -> Token]
    /\ tokenLock \in [Tokens -> TokenRequests \cup {None}]
    /\ treq \in [TokenRequests -> TokenRequest]
    /\ confirmed \in [Tokens -> 0 .. 2]
    /\ \A r \in OidcRequests :
          oidc[r].at = "idle" => r \notin {txLock[t] : t \in Transactions}
                                       \cup {rowLock[x] : x \in Rows}
                                       \cup {userLock[u] : u \in Users}

\* ARCHITECTURE.md 17: the callback consumes its transaction, so two callbacks
\* with the same state never both complete, whatever they wait for.
TransactionOnce ==
    \A t \in Transactions :
       done[t].times <= 1 /\ (done[t].times = 1 => tx[t].status = "consumed")

\* A callback that completes leaves its subject linked to the account it signed
\* in or linked, and that account active, although unlinking, disabling and
\* deleting run beside it.
SignsInOwner ==
    [][\A t \in Transactions :
          done'[t] # done[t] =>
             /\ user'[done'[t].user].status = "active"
             /\ \E x \in Rows : identity'[x] = [user |-> done'[t].user,
                                               subject |-> done'[t].subject]]_vars

\* API_EXAMPLES.md 193: the only sign-in method of an account without a
\* password cannot be removed, not even by two requests that each remove one.
CanSignIn == \A u \in Users : Exists(u) => user[u].password \/ RowsOf(u) # {}

\* ARCHITECTURE.md 8 and 9: a token confirms once.
TokenOnce ==
    \A k \in Tokens : confirmed[k] <= 1 /\ (confirmed[k] = 1 => token[k].status = "consumed")

\* API_EXAMPLES.md 79: a successful reset consumes all the outstanding reset
\* tokens of the account, one that is being issued at that moment included.
ResetConsumesAll ==
    [][\A k \in Tokens :
          confirmed'[k] # confirmed[k] /\ token[k].purpose = "password_reset" =>
             \A j \in Tokens :
                token'[j].user = token[k].user /\ token'[j].purpose = "password_reset" =>
                   token'[j].status # "open"]_vars

=============================================================================
