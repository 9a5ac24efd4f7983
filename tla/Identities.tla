----------------------------- MODULE Identities -----------------------------
(***************************************************************************)
(* Signing in with an OpenID Connect provider (services/oidc.py): the      *)
(* transactions that authorize a login or a link, the external identities  *)
(* of the accounts, and unlinking.                                         *)
(*                                                                         *)
(* A callback keeps its transaction's row locked while it talks to the     *)
(* provider; if anything fails it rolls back and the transaction can be    *)
(* used again.  Login and unlinking lock the identity and then the user,   *)
(* linking the user and then the identity: whom the deadlock detector      *)
(* aborts rolls back.  A transaction remembers its issuer, which differs   *)
(* from another's when the deployment has changed its provider.  Expired   *)
(* or mismatched transactions only refuse.                                 *)
(***************************************************************************)
EXTENDS Users, Integers, FiniteSets

CONSTANTS
    Transactions,   \* OIDC transactions
    Rows,           \* rows of external_identities
    Subjects,       \* the provider's users
    IssuerOf,       \* IssuerOf[s]: the provider that subject s belongs to
    OidcRequests    \* requests of this module in flight at once

Issuers == {IssuerOf[s] : s \in Subjects}

VARIABLES
    tx,         \* tx[t]: the stored transaction t
    txLock,     \* txLock[t]: the request that holds it FOR UPDATE
    identity,   \* identity[x]: row x, user |-> None if there is none
    rowLock,    \* rowLock[x]: the request that holds row x FOR UPDATE
    oidc,       \* oidc[r]: what request r is doing and has read
    done        \* done[t]: what transaction t has completed, the last time

oidcTables == <<tx, identity, done>>
oidcVars == <<tx, txLock, identity, rowLock, oidc, done>>

Transaction == [status : {"absent", "open", "consumed"}, intent : {"login", "link"},
                user : Users \cup {None}, issuer : Issuers \cup {None}]

NoTransaction == [status |-> "absent", intent |-> "login", user |-> None, issuer |-> None]

IdentityRow == [user : Users \cup {None}, subject : Subjects \cup {None}]

NoRow == [user |-> None, subject |-> None]

OidcStages == {"idle", "exchange", "login", "owner", "sign_in", "create", "link", "check",
               "insert", "unlink", "count", "delete"}

OidcRequest == [at : OidcStages, tx : Transactions \cup {None},
                subject : Subjects \cup {None}, user : Users \cup {None},
                row : Rows \cup {None}, email : Emails \cup {None}, password : BOOLEAN]

OidcResting == [at |-> "idle", tx |-> None, subject |-> None, user |-> None,
                row |-> None, email |-> None, password |-> FALSE]

\* The callbacks completed, up to two, and the account and subject of the last.
Completion == [times : 0 .. 2, user : Users \cup {None}, subject : Subjects \cup {None}]

NothingDone == [times |-> 0, user |-> None, subject |-> None]

Stored(x) == identity[x].user # None
RowsOf(u) == {x \in Rows : identity[x].user = u}
HasSubject(s) == \E x \in Rows : identity[x].subject = s
HasIssuer(u, i) == \E x \in RowsOf(u) : IssuerOf[identity[x].subject] = i

Released(lock, r) == [y \in DOMAIN lock |-> IF lock[y] = r THEN None ELSE lock[y]]

\* Mutant: the end of a transaction leaves the identity locked.
OidcEndsLocked(r) ==
    /\ oidc' = [oidc EXCEPT ![r] = OidcResting]
    /\ txLock' = Released(txLock, r)
    /\ userLock' = Released(userLock, r)
    /\ UNCHANGED rowLock

\* The transaction of request r ends and gives up its locks.
OidcEnds(r) ==
    /\ oidc' = [oidc EXCEPT ![r] = OidcResting]
    /\ txLock' = Released(txLock, r)
    /\ rowLock' = Released(rowLock, r)
    /\ userLock' = Released(userLock, r)

OidcInit ==
    /\ tx = [t \in Transactions |-> NoTransaction]
    /\ txLock = [t \in Transactions |-> None]
    /\ identity = [x \in Rows |-> NoRow]
    /\ rowLock = [x \in Rows |-> None]
    /\ oidc = [r \in OidcRequests |-> OidcResting]
    /\ done = [t \in Transactions |-> NothingDone]

----------------------------------------------------------------------------
(* Authorization.                                                          *)

\* begin_oidc_authorization; linking is for the account that asks for it, to
\* which the new row refers.
Begin(t, intent, u, i) ==
    /\ tx[t].status = "absent"
    /\ intent = "login" => u = None
    /\ intent = "link" => u # None /\ Active(u) /\ Unlocked(u)
    /\ tx' = [tx EXCEPT ![t] = [status |-> "open", intent |-> intent, user |-> u, issuer |-> i]]
    /\ UNCHANGED <<user, userLock, txLock, identity, rowLock, oidc, done>>

\* Mutant: the transaction is read without FOR UPDATE.
ReadTransaction(r, t) == txLock[t] = None /\ UNCHANGED txLock

LockTransaction(r, t) == txLock[t] = None /\ txLock' = [txLock EXCEPT ![t] = r]

\* complete_oidc_authorization finds the transaction open.
Callback(r, t) ==
    /\ oidc[r].at = "idle"
    /\ LockTransaction(r, t)
    /\ tx[t].status = "open"
    /\ oidc' = [oidc EXCEPT ![r].at = "exchange", ![r].tx = t, ![r].user = tx[t].user]
    /\ UNCHANGED <<user, userLock, oidcTables, rowLock>>

\* The provider answers with an ID token of one of its users.
Exchange(r, s) ==
    /\ oidc[r].at = "exchange"
    /\ IssuerOf[s] = tx[oidc[r].tx].issuer
    /\ oidc' = [oidc EXCEPT ![r].at = tx[oidc[r].tx].intent, ![r].subject = s]
    /\ UNCHANGED <<user, userLock, oidcTables, txLock, rowLock>>

\* The callback commits with its transaction consumed: a session (or the MFA
\* challenge before it) starts for account u, or the subject is linked to it.
Complete(r, u) ==
    /\ tx' = [tx EXCEPT ![oidc[r].tx].status = "consumed"]
    /\ done' = [done EXCEPT ![oidc[r].tx] =
          [times |-> IF @.times < 2 THEN @.times + 1 ELSE @.times,
           user |-> u, subject |-> oidc[r].subject]]
    /\ OidcEnds(r)

----------------------------------------------------------------------------
(* Login.                                                                  *)

\* Mutant: the identity is read without FOR UPDATE.
ReadRow(r, x) == rowLock[x] = None /\ UNCHANGED rowLock

LockRow(r, x) == rowLock[x] = None /\ rowLock' = [rowLock EXCEPT ![x] = r]

\* _identity_for_login finds the identity of the subject.
LoginKnown(r, x) ==
    /\ oidc[r].at = "login"
    /\ identity[x].subject = oidc[r].subject
    /\ LockRow(r, x)
    /\ oidc' = [oidc EXCEPT ![r].at = "owner", ![r].row = x, ![r].user = identity[x].user]
    /\ UNCHANGED <<user, userLock, oidcTables, txLock>>

\* Mutant: the user is read without FOR UPDATE.
ReadOwner(r, u) == Unlocked(u) /\ UNCHANGED userLock

LockOwner(r, u) == Unlocked(u) /\ userLock' = [userLock EXCEPT ![u] = r]

\* Then it locks the identity's user.
LoginOwner(r) ==
    /\ oidc[r].at = "owner"
    /\ Active(oidc[r].user)
    /\ LockOwner(r, oidc[r].user)
    /\ oidc' = [oidc EXCEPT ![r].at = "sign_in"]
    /\ UNCHANGED <<user, oidcTables, txLock, rowLock>>

LoginCommit(r) ==
    /\ oidc[r].at = "sign_in"
    /\ Complete(r, oidc[r].user)
    /\ UNCHANGED <<user, identity>>

\* It finds neither the identity nor an account with the verified e-mail.
LoginUnknown(r, e) ==
    /\ oidc[r].at = "login"
    /\ ~HasSubject(oidc[r].subject)
    /\ ~EmailTaken(e)
    /\ oidc' = [oidc EXCEPT ![r].at = "create", ![r].email = e]
    /\ UNCHANGED <<user, userLock, oidcTables, txLock, rowLock>>

\* The unique constraints of external_identities.
NewIdentity(u, s) == ~HasSubject(s) /\ ~HasIssuer(u, IssuerOf[s])

\* A new account and the unique index on its e-mail.
NewAccount(u, e) == user[u].status = "absent" /\ ~EmailTaken(e)

\* An account without a password is created together with its identity.
CreateCommit(r, u, x) ==
    /\ oidc[r].at = "create"
    /\ ~Stored(x)
    /\ NewAccount(u, oidc[r].email)
    /\ NewIdentity(u, oidc[r].subject)
    /\ user' = [user EXCEPT ![u] = [status |-> "active", email |-> oidc[r].email,
                                    verified |-> TRUE, password |-> FALSE]]
    /\ identity' = [identity EXCEPT ![x] = [user |-> u, subject |-> oidc[r].subject]]
    /\ Complete(r, u)

----------------------------------------------------------------------------
(* Linking.                                                                *)

\* _identity_for_link locks the user first.
LinkUser(r) ==
    /\ oidc[r].at = "link"
    /\ Active(oidc[r].user)
    /\ LockOwner(r, oidc[r].user)
    /\ oidc' = [oidc EXCEPT ![r].at = "check"]
    /\ UNCHANGED <<user, oidcTables, txLock, rowLock>>

\* The identity is already the account's: nothing but the transaction changes.
LinkAgain(r, x) ==
    /\ oidc[r].at = "check"
    /\ identity[x] = [user |-> oidc[r].user, subject |-> oidc[r].subject]
    /\ rowLock[x] = None
    /\ Complete(r, oidc[r].user)
    /\ UNCHANGED <<user, identity>>

LinkCheck(r) ==
    /\ oidc[r].at = "check"
    /\ ~HasSubject(oidc[r].subject)
    /\ ~HasIssuer(oidc[r].user, IssuerOf[oidc[r].subject])
    /\ oidc' = [oidc EXCEPT ![r].at = "insert"]
    /\ UNCHANGED <<user, userLock, oidcTables, txLock, rowLock>>

LinkInsert(r, x) ==
    /\ oidc[r].at = "insert"
    /\ ~Stored(x)
    /\ NewIdentity(oidc[r].user, oidc[r].subject)
    /\ identity' = [identity EXCEPT ![x] = [user |-> oidc[r].user, subject |-> oidc[r].subject]]
    /\ Complete(r, oidc[r].user)
    /\ UNCHANGED user

----------------------------------------------------------------------------
(* Unlinking.                                                              *)

\* get_current_user loads the row that unlink_external_identity will look at.
UnlinkRead(r, u) ==
    /\ oidc[r].at = "idle"
    /\ Active(u)
    /\ oidc' = [oidc EXCEPT ![r].at = "unlink", ![r].user = u, ![r].password = user[u].password]
    /\ UNCHANGED <<user, userLock, oidcTables, txLock, rowLock>>

UnlinkIdentity(r, x) ==
    /\ oidc[r].at = "unlink"
    /\ identity[x].user = oidc[r].user
    /\ LockRow(r, x)
    /\ oidc' = [oidc EXCEPT ![r].at = "count", ![r].row = x]
    /\ UNCHANGED <<user, userLock, oidcTables, txLock>>

\* Mutant: an account without a password may lose its last identity.
LeavesAnything(r) == TRUE

\* Another way to sign in is left.
LeavesMethod(r) == oidc[r].password \/ Cardinality(RowsOf(oidc[r].user)) > 1

\* The user is locked and the identities are counted.
UnlinkCount(r) ==
    /\ oidc[r].at = "count"
    /\ LockOwner(r, oidc[r].user)
    /\ LeavesMethod(r)
    /\ oidc' = [oidc EXCEPT ![r].at = "delete"]
    /\ UNCHANGED <<user, oidcTables, txLock, rowLock>>

UnlinkCommit(r) ==
    /\ oidc[r].at = "delete"
    /\ identity' = [identity EXCEPT ![oidc[r].row] = NoRow]
    /\ OidcEnds(r)
    /\ UNCHANGED <<user, tx, done>>

\* A request is refused, fails, or is the deadlock detector's victim.
OidcRollback(r) ==
    /\ oidc[r].at # "idle"
    /\ OidcEnds(r)
    /\ UNCHANGED <<user, oidcTables>>

----------------------------------------------------------------------------
SignInNext(r) ==
    \/ \E t \in Transactions : Callback(r, t)
    \/ \E s \in Subjects : Exchange(r, s)
    \/ \E x \in Rows : LoginKnown(r, x)
    \/ LoginOwner(r)
    \/ LoginCommit(r)
    \/ \E e \in Emails : LoginUnknown(r, e)
    \/ \E u \in Users, x \in Rows : CreateCommit(r, u, x)

LinkNext(r) ==
    \/ LinkUser(r)
    \/ \E x \in Rows : LinkAgain(r, x) \/ LinkInsert(r, x) \/ UnlinkIdentity(r, x)
    \/ LinkCheck(r)
    \/ \E u \in Users : UnlinkRead(r, u)
    \/ UnlinkCount(r)
    \/ UnlinkCommit(r)

OidcNext ==
    \/ \E t \in Transactions, i \in Issuers, intent \in {"login", "link"}, u \in Users \cup {None} :
          Begin(t, intent, u, i)
    \/ \E r \in OidcRequests : SignInNext(r) \/ LinkNext(r) \/ OidcRollback(r)

\* The rows of a deleted account go with it, once nobody holds them.
DropIdentities(u) ==
    /\ \A x \in RowsOf(u) : rowLock[x] = None
    /\ \A t \in Transactions : tx[t].user = u => txLock[t] = None
    /\ identity' = [x \in Rows |-> IF identity[x].user = u THEN NoRow ELSE identity[x]]
    /\ tx' = [t \in Transactions |-> IF tx[t].user = u /\ tx[t].status = "open"
                                     THEN [NoTransaction EXCEPT !.status = "consumed"]
                                     ELSE tx[t]]
    /\ UNCHANGED <<txLock, rowLock, oidc, done>>

=============================================================================
