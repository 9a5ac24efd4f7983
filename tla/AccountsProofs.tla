--------------------------- MODULE AccountsProofs ---------------------------
(***************************************************************************)
(* Safety of module Accounts for every number of accounts, addresses,      *)
(* transactions, identities, providers, tokens and requests.               *)
(***************************************************************************)
EXTENDS Accounts, FiniteSetTheorems, TLAPS

(***************************************************************************)
(* What a request may rely on while it is at a stage: the rows it has      *)
(* locked, and what it has read from them.                                 *)
(***************************************************************************)

\* A callback holds its transaction, which stays open.
TransactionHeld(r) ==
    oidc[r].at \in {"exchange", "login", "owner", "sign_in", "create", "link", "check", "insert"} =>
       /\ oidc[r].tx \in Transactions
       /\ txLock[oidc[r].tx] = r
       /\ tx[oidc[r].tx].status = "open"
       /\ oidc[r].at = "exchange" => oidc[r].user = tx[oidc[r].tx].user
       /\ oidc[r].at # "exchange" => oidc[r].subject \in Subjects

\* A login holds the identity of its subject.
IdentityHeld(r) ==
    oidc[r].at \in {"owner", "sign_in"} =>
       /\ oidc[r].row \in Rows
       /\ rowLock[oidc[r].row] = r
       /\ identity[oidc[r].row] = [user |-> oidc[r].user, subject |-> oidc[r].subject]

\* Unlinking holds an identity of its user.
UnlinkedHeld(r) ==
    oidc[r].at \in {"count", "delete"} =>
       /\ oidc[r].row \in Rows
       /\ rowLock[oidc[r].row] = r
       /\ identity[oidc[r].row].user = oidc[r].user

\* Before it commits, a request holds the user; a sign-in found it active.
OwnerHeld(r) ==
    /\ oidc[r].at \in {"owner", "sign_in", "link", "check", "insert", "unlink", "count", "delete"} =>
          oidc[r].user \in Users
    /\ oidc[r].at \in {"sign_in", "check", "insert", "delete"} => userLock[oidc[r].user] = r
    /\ oidc[r].at \in {"sign_in", "check", "insert"} => Active(oidc[r].user)

\* Unlinking knows of a password only if there is one, and before it deletes the
\* identity it has seen a password or another identity.
MethodLeft(r) ==
    /\ oidc[r].at \in {"unlink", "count", "delete"} =>
          /\ user[oidc[r].user].status # "absent"
          /\ Exists(oidc[r].user) /\ oidc[r].password => user[oidc[r].user].password
    /\ oidc[r].at = "delete" =>
          oidc[r].password \/ \E x \in RowsOf(oidc[r].user) : x # oidc[r].row

OidcHolds(r) ==
    /\ TransactionHeld(r) /\ IdentityHeld(r) /\ UnlinkedHeld(r)
    /\ OwnerHeld(r) /\ MethodLeft(r)

\* A confirmation holds its token as it has read it.
TokenHeld(r) ==
    /\ treq[r].at # "idle" => treq[r].user \in Users
    /\ treq[r].at \in {"confirm", "outstanding", "reset"} =>
          /\ treq[r].token \in Tokens
          /\ tokenLock[treq[r].token] = r
          /\ token[treq[r].token] =
                [status |-> "open", purpose |-> treq[r].purpose, user |-> treq[r].user]

\* A reset holds its user, so that its UPDATE meets every outstanding token.
ResetHeld(r) ==
    /\ treq[r].at \in {"outstanding", "reset"} =>
          treq[r].purpose = "password_reset" /\ userLock[treq[r].user] = r
    /\ treq[r].at = "reset" => Outstanding(treq[r].user, "password_reset") \subseteq treq[r].open

TokenHolds(r) == TokenHeld(r) /\ ResetHeld(r)

----------------------------------------------------------------------------
(* The inductive invariant.                                                *)

Typed ==
    /\ user \in [Users -> Account]
    /\ userLock \in [Users -> OidcRequests \cup TokenRequests \cup {None}]
    /\ tx \in [Transactions -> Transaction]
    /\ txLock \in [Transactions -> OidcRequests \cup {None}]
    /\ identity \in [Rows -> IdentityRow]
    /\ rowLock \in [Rows -> OidcRequests \cup {None}]
    /\ oidc \in [OidcRequests -> OidcRequest]
    /\ done \in [Transactions -> Completion]
    /\ token \in [Tokens -> Token]
    /\ tokenLock \in [Tokens -> TokenRequests \cup {None}]
    /\ treq \in [TokenRequests -> TokenRequest]
    /\ confirmed \in [Tokens -> 0 .. 2]

\* A request that rests holds nothing.
Rests(r) ==
    /\ \A t \in Transactions : txLock[t] # r
    /\ \A x \in Rows : rowLock[x] # r
    /\ \A u \in Users : userLock[u] # r

IdleHoldsNothing == \A r \in OidcRequests : oidc[r].at = "idle" => Rests(r)

\* Rows are written as a whole, and what is open has an account if it needs one.
Whole ==
    /\ \A x \in Rows : identity[x].user = None <=> identity[x].subject = None
    /\ \A t \in Transactions :
          tx[t].status = "open" /\ tx[t].intent = "link" => tx[t].user \in Users
    /\ \A k \in Tokens : token[k].status = "open" => token[k].user \in Users

\* Nobody holds a user that was never registered.
HeldExist == \A u \in Users : userLock[u] # None => user[u].status # "absent"

Tables ==
    /\ UniqueIdentities /\ OneAccountPerEmail /\ Whole
    /\ TransactionOnce /\ CanSignIn /\ TokenOnce

Requests ==
    /\ IdleHoldsNothing /\ HeldExist
    /\ \A r \in OidcRequests : OidcHolds(r)
    /\ \A r \in TokenRequests : TokenHolds(r)

IInv == Typed /\ Tables /\ Requests

----------------------------------------------------------------------------
(* What a step of request q, or of nobody if q is None, leaves to others.  *)

\* It takes free locks and gives up its own.
MovesLocks(q) ==
    /\ \A t \in Transactions :
          txLock'[t] # txLock[t] => {txLock[t], txLock'[t]} \subseteq {None, q}
    /\ \A x \in Rows :
          rowLock'[x] # rowLock[x] => {rowLock[x], rowLock'[x]} \subseteq {None, q}
    /\ \A u \in Users :
          userLock'[u] # userLock[u] =>
             {userLock[u], userLock'[u]} \subseteq {None, q} /\ user[u].status # "absent"
    /\ \A k \in Tokens :
          tokenLock'[k] # tokenLock[k] => {tokenLock[k], tokenLock'[k]} \subseteq {None, q}

\* It changes its own record only.
MovesAlone(q) ==
    /\ \A r \in OidcRequests : r # q => oidc'[r] = oidc[r]
    /\ \A r \in TokenRequests : r # q => treq'[r] = treq[r]

\* It writes to no stored row that another request holds, takes no identity from
\* a user that another holds and gives it no token, and takes no password away.
WritesOwn(q) ==
    /\ \A t \in Transactions :
          txLock[t] \notin {None, q} /\ tx[t].status # "absent" => tx'[t] = tx[t]
    /\ \A x \in Rows : rowLock[x] \notin {None, q} /\ Stored(x) => identity'[x] = identity[x]
    /\ \A k \in Tokens :
          tokenLock[k] \notin {None, q} /\ token[k].status # "absent" => token'[k] = token[k]
    /\ \A u \in Users : userLock[u] \notin {None, q} =>
          /\ user'[u].status = user[u].status
          /\ RowsOf(u) \subseteq RowsOf(u)'
          /\ Outstanding(u, "password_reset")' \subseteq Outstanding(u, "password_reset")
    /\ \A u \in Users : user[u].status # "absent" =>
          /\ user'[u].status # "absent"
          /\ Exists(u)' => Exists(u) /\ (user[u].password => user'[u].password)

Everybody == OidcRequests \cup TokenRequests \cup {None}

\* A request keeps what it relies on over the step of another.
LEMMA OidcFrame ==
    ASSUME IInv, NEW q \in Everybody, NEW r \in OidcRequests, r # q,
           MovesLocks(q), MovesAlone(q), WritesOwn(q)
    PROVE  OidcHolds(r)'
<1> USE RequestsApart DEF IInv, Requests, OidcHolds
<1>1. oidc'[r] = oidc[r] /\ r # None
  BY DEF MovesAlone
<1>2. TransactionHeld(r)'
  BY <1>1 DEF TransactionHeld, MovesLocks, WritesOwn
<1>3. IdentityHeld(r)'
  BY <1>1 DEF IdentityHeld, OwnerHeld, MovesLocks, WritesOwn, Stored
<1>4. UnlinkedHeld(r)'
  BY <1>1 DEF UnlinkedHeld, OwnerHeld, MovesLocks, WritesOwn, Stored
<1>5. OwnerHeld(r)'
  BY <1>1 DEF OwnerHeld, MovesLocks, WritesOwn, Active
<1>6. MethodLeft(r)'
  <2>1. oidc[r].at \in {"unlink", "count", "delete"} =>
          /\ user'[oidc[r].user].status # "absent"
          /\ Exists(oidc[r].user)' /\ oidc[r].password => user'[oidc[r].user].password
    BY <1>1 DEF MethodLeft, OwnerHeld, WritesOwn, Exists
  <2>2. ASSUME oidc[r].at = "delete", ~oidc[r].password
        PROVE  \E x \in RowsOf(oidc[r].user)' : x # oidc[r].row
    BY <2>2, <1>1 DEF MethodLeft, OwnerHeld, WritesOwn
  <2> QED
    BY <1>1, <2>1, <2>2 DEF MethodLeft, Exists, RowsOf
<1> QED
  BY <1>2, <1>3, <1>4, <1>5, <1>6

\* What a token request holds survives the step of anybody else.
LEMMA TokenFrame ==
    ASSUME IInv, NEW q \in Everybody, NEW r \in TokenRequests, r # q,
           MovesLocks(q), MovesAlone(q), WritesOwn(q)
    PROVE  TokenHolds(r)'
<1> USE RequestsApart DEF IInv, Requests, TokenHolds
<1>1. treq'[r] = treq[r] /\ r # None
  BY DEF MovesAlone
<1>2. TokenHeld(r)'
  BY <1>1 DEF TokenHeld, MovesLocks, WritesOwn
<1>3. ResetHeld(r)'
  <2>1. treq[r].at \in {"outstanding", "reset"} =>
          /\ treq[r].user \in Users
          /\ userLock[treq[r].user] = r
          /\ userLock'[treq[r].user] = r
          /\ treq[r].purpose = "password_reset"
    BY <1>1 DEF ResetHeld, TokenHeld, MovesLocks
  <2>2. treq[r].at = "reset" =>
          Outstanding(treq[r].user, "password_reset")' \subseteq treq[r].open
    BY <1>1, <2>1 DEF ResetHeld, WritesOwn
  <2> QED
    BY <1>1, <2>1, <2>2 DEF ResetHeld, Outstanding
<1> QED
  BY <1>2, <1>3

\* So it is enough to look at the request whose step it is.
LEMMA RequestsStep ==
    ASSUME IInv, NEW q \in Everybody, MovesLocks(q), MovesAlone(q), WritesOwn(q),
           q \in OidcRequests => OidcHolds(q)' /\ (oidc'[q].at = "idle" => Rests(q)'),
           q \in TokenRequests => TokenHolds(q)'
    PROVE  Requests'
<1> USE RequestsApart DEF IInv, Requests
<1>1. ASSUME NEW r \in OidcRequests, oidc'[r].at = "idle" PROVE Rests(r)'
  <2>1. CASE r = q
    BY <1>1, <2>1
  <2>2. CASE r # q
    <3>1. Rests(r) /\ r # None
      BY <1>1, <2>2 DEF MovesAlone, IdleHoldsNothing
    <3> QED
      BY <2>2, <3>1 DEF Rests, MovesLocks
  <2> QED
    BY <2>1, <2>2
<1>2. HeldExist'
  BY DEF HeldExist, MovesLocks, WritesOwn
<1>3. \A r \in OidcRequests : OidcHolds(r)'
  BY OidcFrame
<1>4. \A r \in TokenRequests : TokenHolds(r)'
  BY TokenFrame
<1> QED
  BY <1>1, <1>2, <1>3, <1>4 DEF IdleHoldsNothing

----------------------------------------------------------------------------
(* Requests of Identities that only read, and take locks that are free.    *)

\* A step that writes to no table leaves everything in the tables as it was.
LEMMA QuietStep ==
    ASSUME IInv, NEW q \in Everybody, UNCHANGED <<user, oidcTables, token, confirmed>>
    PROVE  Tables' /\ WritesOwn(q)
<1> USE DEF IInv, oidcTables
<1>1. UniqueIdentities' /\ OneAccountPerEmail'
  BY DEF Tables, UniqueIdentities, OneAccountPerEmail, Exists, Stored
<1>2. Whole'
  BY DEF Tables, Whole
<1>3. TransactionOnce' /\ TokenOnce'
  BY DEF Tables, TransactionOnce, TokenOnce
<1>4. CanSignIn'
  BY DEF Tables, CanSignIn, Exists, RowsOf
<1>5. WritesOwn(q)
  BY DEF WritesOwn, RowsOf, Outstanding, Exists
<1> QED
  BY <1>1, <1>2, <1>3, <1>4, <1>5 DEF Tables

\* An OIDC request that writes no row and keeps running.
LEMMA OidcQuietStep ==
    ASSUME IInv, NEW r \in OidcRequests, UNCHANGED <<user, oidcTables, tokenVars>>, Typed',
           MovesLocks(r), MovesAlone(r), OidcHolds(r)', oidc'[r].at # "idle"
    PROVE  IInv'
<1>1. Tables' /\ WritesOwn(r)
  BY QuietStep DEF tokenVars, Everybody
<1>2. Requests'
  BY <1>1, RequestsStep, RequestsApart DEF Everybody
<1> QED
  BY <1>1, <1>2 DEF IInv

\* The fields of an OIDC request.
LEMMA OidcFields ==
    ASSUME Typed, NEW r \in OidcRequests
    PROVE  /\ oidc[r] \in OidcRequest
           /\ oidc[r].at \in OidcStages /\ oidc[r].tx \in Transactions \cup {None}
           /\ oidc[r].subject \in Subjects \cup {None} /\ oidc[r].user \in Users \cup {None}
           /\ oidc[r].row \in Rows \cup {None} /\ oidc[r].email \in Emails \cup {None}
           /\ oidc[r].password \in BOOLEAN
  BY DEF Typed, OidcRequest

\* What the reads of a request do to its record.
LEMMA OidcRecord ==
    ASSUME NEW m \in OidcRequest, NEW a \in OidcStages
    PROVE  /\ [m EXCEPT !.at = a] \in OidcRequest
           /\ \A t \in Transactions, u \in Users \cup {None} :
                 [m EXCEPT !.at = a, !.tx = t, !.user = u] \in OidcRequest
           /\ \A s \in Subjects : [m EXCEPT !.at = a, !.subject = s] \in OidcRequest
           /\ \A x \in Rows : [m EXCEPT !.at = a, !.row = x] \in OidcRequest
           /\ \A x \in Rows, u \in Users :
                 [m EXCEPT !.at = a, !.row = x, !.user = u] \in OidcRequest
           /\ \A e \in Emails : [m EXCEPT !.at = a, !.email = e] \in OidcRequest
           /\ \A u \in Users, p \in BOOLEAN :
                 [m EXCEPT !.at = a, !.user = u, !.password = p] \in OidcRequest
<1> DEFINE n == [m EXCEPT !.at = a]
<1>1. n \in OidcRequest
  BY DEF OidcRequest
<1> HIDE DEF n
<1>2. \A t \in Transactions : [n EXCEPT !.tx = t] \in OidcRequest
  BY <1>1 DEF OidcRequest
<1>3. \A s \in Subjects : [n EXCEPT !.subject = s] \in OidcRequest
  BY <1>1 DEF OidcRequest
<1>4. \A x \in Rows : [n EXCEPT !.row = x] \in OidcRequest
  BY <1>1 DEF OidcRequest
<1>5. \A e \in Emails : [n EXCEPT !.email = e] \in OidcRequest
  BY <1>1 DEF OidcRequest
<1>6. \A u \in Users : [n EXCEPT !.user = u] \in OidcRequest
  BY <1>1 DEF OidcRequest
<1>7. \A o \in OidcRequest, u \in Users \cup {None} : [o EXCEPT !.user = u] \in OidcRequest
  BY DEF OidcRequest
<1>8. \A o \in OidcRequest, p \in BOOLEAN : [o EXCEPT !.password = p] \in OidcRequest
  BY DEF OidcRequest
<1> USE DEF n
<1>9. \A t \in Transactions, u \in Users \cup {None} :
        [m EXCEPT !.at = a, !.tx = t, !.user = u] = [[n EXCEPT !.tx = t] EXCEPT !.user = u]
  OBVIOUS
<1>10. \A x \in Rows, u \in Users :
        [m EXCEPT !.at = a, !.row = x, !.user = u] = [[n EXCEPT !.row = x] EXCEPT !.user = u]
  OBVIOUS
<1>11. \A u \in Users, p \in BOOLEAN :
        [m EXCEPT !.at = a, !.user = u, !.password = p]
           = [[n EXCEPT !.user = u] EXCEPT !.password = p]
  OBVIOUS
<1> HIDE DEF n
<1>12. /\ \A t \in Transactions, u \in Users \cup {None} :
             [[n EXCEPT !.tx = t] EXCEPT !.user = u] \in OidcRequest
       /\ \A x \in Rows, u \in Users :
             [[n EXCEPT !.row = x] EXCEPT !.user = u] \in OidcRequest
       /\ \A u \in Users, p \in BOOLEAN :
             [[n EXCEPT !.user = u] EXCEPT !.password = p] \in OidcRequest
  BY <1>2, <1>4, <1>6, <1>7, <1>8
<1> QED
  BY <1>1, <1>3, <1>4, <1>5, <1>9, <1>10, <1>11, <1>12 DEF n

\* A callback locks its transaction.
LEMMA CallbackStep ==
    ASSUME IInv, NEW r \in OidcRequests, NEW t \in Transactions, Callback(r, t),
           UNCHANGED tokenVars
    PROVE  IInv'
<1> USE DEF Callback, LockTransaction, tokenVars, oidcTables
<1>1. Typed'
  <2>1. tx[t].user \in Users \cup {None}
    BY DEF IInv, Typed, Transaction
  <2>2. oidc'[r] = [oidc[r] EXCEPT !.at = "exchange", !.tx = t, !.user = tx[t].user]
    BY DEF IInv, Typed
  <2>3. oidc'[r] \in OidcRequest
    BY <2>1, <2>2, OidcRecord DEF IInv, Typed, OidcStages
  <2> QED
    BY <2>3 DEF IInv, Typed
<1>2. MovesLocks(r) /\ MovesAlone(r)
  BY RequestsApart DEF MovesLocks, MovesAlone, IInv, Typed
<1>3. /\ oidc'[r].at = "exchange" /\ oidc'[r].tx = t /\ oidc'[r].user = tx[t].user
      /\ txLock'[t] = r
  BY DEF IInv, Typed, OidcRequest
<1>4. OidcHolds(r)'
  BY <1>3 DEF OidcHolds, TransactionHeld, IdentityHeld, UnlinkedHeld, OwnerHeld, MethodLeft
<1> QED
  BY <1>1, <1>2, <1>3, <1>4, OidcQuietStep

\* The provider has answered, and the callback holds its transaction still.
LEMMA ExchangeStep ==
    ASSUME IInv, NEW r \in OidcRequests, NEW s \in Subjects, Exchange(r, s),
           UNCHANGED tokenVars
    PROVE  IInv'
<1> USE DEF Exchange, tokenVars, oidcTables
<1>1. /\ oidc[r].tx \in Transactions /\ txLock[oidc[r].tx] = r
      /\ tx[oidc[r].tx].status = "open" /\ oidc[r].user = tx[oidc[r].tx].user
      /\ tx[oidc[r].tx].intent \in {"login", "link"}
      /\ tx[oidc[r].tx].intent = "link" => tx[oidc[r].tx].user \in Users
  BY DEF IInv, Requests, OidcHolds, TransactionHeld, Typed, Transaction, Tables, Whole
<1>2. Typed'
  <2>1. oidc'[r] = [oidc[r] EXCEPT !.at = tx[oidc[r].tx].intent, !.subject = s]
    BY DEF IInv, Typed
  <2>2. oidc'[r] \in OidcRequest
    BY <1>1, <2>1, OidcRecord DEF IInv, Typed, OidcStages
  <2> QED
    BY <2>2 DEF IInv, Typed
<1>3. MovesLocks(r) /\ MovesAlone(r)
  BY RequestsApart DEF MovesLocks, MovesAlone, IInv, Typed
<1>4. /\ oidc'[r].at = tx[oidc[r].tx].intent /\ oidc'[r].subject = s
      /\ oidc'[r].tx = oidc[r].tx /\ oidc'[r].user = oidc[r].user
  BY DEF IInv, Typed, OidcRequest
<1>5. OidcHolds(r)'
  BY <1>1, <1>4 DEF OidcHolds, TransactionHeld, IdentityHeld, UnlinkedHeld, OwnerHeld, MethodLeft
<1> QED
  BY <1>1, <1>2, <1>3, <1>4, <1>5, OidcQuietStep

\* A login finds the identity of its subject and locks it.
LEMMA LoginKnownStep ==
    ASSUME IInv, NEW r \in OidcRequests, NEW x \in Rows, LoginKnown(r, x),
           UNCHANGED tokenVars
    PROVE  IInv'
<1> USE DEF LoginKnown, LockRow, tokenVars, oidcTables
<1>1. /\ oidc[r].tx \in Transactions /\ txLock[oidc[r].tx] = r
      /\ tx[oidc[r].tx].status = "open" /\ oidc[r].subject \in Subjects
  BY DEF IInv, Requests, OidcHolds, TransactionHeld
<1>2. identity[x].user \in Users /\ identity[x].subject = oidc[r].subject
  BY <1>1, RequestsApart DEF IInv, Tables, Whole, Typed, IdentityRow
<1>3. Typed'
  <2>1. oidc'[r] = [oidc[r] EXCEPT !.at = "owner", !.row = x, !.user = identity[x].user]
    BY DEF IInv, Typed
  <2>2. oidc'[r] \in OidcRequest
    BY <1>2, <2>1, OidcRecord DEF IInv, Typed, OidcStages
  <2> QED
    BY <2>2 DEF IInv, Typed
<1>4. MovesLocks(r) /\ MovesAlone(r)
  BY RequestsApart DEF MovesLocks, MovesAlone, IInv, Typed
<1>5. /\ oidc'[r].at = "owner" /\ oidc'[r].subject = oidc[r].subject /\ oidc'[r].tx = oidc[r].tx
      /\ oidc'[r].row = x /\ oidc'[r].user = identity[x].user /\ rowLock'[x] = r
  BY DEF IInv, Typed, OidcRequest
<1>6. identity[x] = [user |-> identity[x].user, subject |-> identity[x].subject]
  BY DEF IInv, Typed, IdentityRow
<1>7. OidcHolds(r)'
  BY <1>1, <1>2, <1>5, <1>6
     DEF OidcHolds, TransactionHeld, IdentityHeld, UnlinkedHeld, OwnerHeld, MethodLeft
<1> QED
  BY <1>3, <1>4, <1>5, <1>7, OidcQuietStep

\* It locks the account of that identity.
LEMMA LoginOwnerStep ==
    ASSUME IInv, NEW r \in OidcRequests, LoginOwner(r), UNCHANGED tokenVars
    PROVE  IInv'
<1> USE DEF LoginOwner, LockOwner, tokenVars, oidcTables
<1>1. TransactionHeld(r) /\ IdentityHeld(r) /\ oidc[r].user \in Users
  BY DEF IInv, Requests, OidcHolds, OwnerHeld
<1>2. Typed'
  BY DEF IInv, Typed, OidcRequest, OidcStages
<1>3. MovesLocks(r) /\ MovesAlone(r)
  BY RequestsApart DEF MovesLocks, MovesAlone, IInv, Typed, Unlocked, Active
<1>4. /\ oidc'[r].at = "sign_in" /\ oidc'[r].subject = oidc[r].subject
      /\ oidc'[r].tx = oidc[r].tx /\ oidc'[r].row = oidc[r].row
      /\ oidc'[r].user = oidc[r].user /\ userLock'[oidc[r].user] = r
  BY <1>1 DEF IInv, Typed, OidcRequest
<1>5. OidcHolds(r)'
  BY <1>1, <1>4
     DEF OidcHolds, TransactionHeld, IdentityHeld, UnlinkedHeld, OwnerHeld, MethodLeft, Active
<1> QED
  BY <1>2, <1>3, <1>4, <1>5, OidcQuietStep

\* A login finds neither the identity nor an account with its e-mail: it will
\* create one.
LEMMA LoginUnknownStep ==
    ASSUME IInv, NEW r \in OidcRequests, NEW e \in Emails, LoginUnknown(r, e),
           UNCHANGED tokenVars
    PROVE  IInv'
<1> USE DEF LoginUnknown, tokenVars, oidcTables
<1>1. TransactionHeld(r)
  BY DEF IInv, Requests, OidcHolds
<1>2. Typed'
  <2>1. oidc'[r] = [oidc[r] EXCEPT !.at = "create", !.email = e]
    BY DEF IInv, Typed
  <2>2. oidc'[r] \in OidcRequest
    BY <2>1, OidcRecord DEF IInv, Typed, OidcStages
  <2> QED
    BY <2>2 DEF IInv, Typed
<1>3. MovesLocks(r) /\ MovesAlone(r)
  BY RequestsApart DEF MovesLocks, MovesAlone, IInv, Typed
<1>4. /\ oidc'[r].at = "create" /\ oidc'[r].subject = oidc[r].subject
      /\ oidc'[r].tx = oidc[r].tx
  BY DEF IInv, Typed, OidcRequest
<1>5. OidcHolds(r)'
  BY <1>1, <1>4
     DEF OidcHolds, TransactionHeld, IdentityHeld, UnlinkedHeld, OwnerHeld, MethodLeft
<1> QED
  BY <1>2, <1>3, <1>4, <1>5, OidcQuietStep

\* A callback that links locks the account first.
LEMMA LinkUserStep ==
    ASSUME IInv, NEW r \in OidcRequests, LinkUser(r), UNCHANGED tokenVars
    PROVE  IInv'
<1> USE DEF LinkUser, LockOwner, tokenVars, oidcTables
<1>1. TransactionHeld(r) /\ oidc[r].user \in Users
  BY DEF IInv, Requests, OidcHolds, OwnerHeld
<1>2. Typed'
  BY DEF IInv, Typed, OidcRequest, OidcStages
<1>3. MovesLocks(r) /\ MovesAlone(r)
  BY RequestsApart DEF MovesLocks, MovesAlone, IInv, Typed, Unlocked, Active
<1>4. /\ oidc'[r].at = "check" /\ oidc'[r].subject = oidc[r].subject
      /\ oidc'[r].tx = oidc[r].tx /\ oidc'[r].user = oidc[r].user
      /\ userLock'[oidc[r].user] = r
  BY <1>1 DEF IInv, Typed, OidcRequest
<1>5. OidcHolds(r)'
  BY <1>1, <1>4
     DEF OidcHolds, TransactionHeld, IdentityHeld, UnlinkedHeld, OwnerHeld, MethodLeft, Active
<1> QED
  BY <1>2, <1>3, <1>4, <1>5, OidcQuietStep

\* It finds no identity of its subject: it will insert one.
LEMMA LinkCheckStep ==
    ASSUME IInv, NEW r \in OidcRequests, LinkCheck(r), UNCHANGED tokenVars
    PROVE  IInv'
<1> USE DEF LinkCheck, tokenVars, oidcTables
<1>1. TransactionHeld(r) /\ OwnerHeld(r)
  BY DEF IInv, Requests, OidcHolds
<1>2. Typed'
  BY DEF IInv, Typed, OidcRequest, OidcStages
<1>3. MovesLocks(r) /\ MovesAlone(r)
  BY RequestsApart DEF MovesLocks, MovesAlone, IInv, Typed
<1>4. /\ oidc'[r].at = "insert" /\ oidc'[r].subject = oidc[r].subject
      /\ oidc'[r].tx = oidc[r].tx /\ oidc'[r].user = oidc[r].user
  BY DEF IInv, Typed, OidcRequest
<1>5. OidcHolds(r)'
  BY <1>1, <1>4
     DEF OidcHolds, TransactionHeld, IdentityHeld, UnlinkedHeld, OwnerHeld, MethodLeft, Active
<1> QED
  BY <1>2, <1>3, <1>4, <1>5, OidcQuietStep

\* An unlinking request loads its account.
LEMMA UnlinkReadStep ==
    ASSUME IInv, NEW r \in OidcRequests, NEW u \in Users, UnlinkRead(r, u),
           UNCHANGED tokenVars
    PROVE  IInv'
<1> USE DEF UnlinkRead, tokenVars, oidcTables
<1>1. Typed'
  <2>1. oidc'[r] = [oidc[r] EXCEPT !.at = "unlink", !.user = u, !.password = user[u].password]
    BY DEF IInv, Typed
  <2>2. user[u].password \in BOOLEAN
    BY DEF IInv, Typed, Account
  <2>3. oidc'[r] \in OidcRequest
    BY <2>1, <2>2, OidcRecord DEF IInv, Typed, OidcStages
  <2> QED
    BY <2>3 DEF IInv, Typed
<1>2. MovesLocks(r) /\ MovesAlone(r)
  BY RequestsApart DEF MovesLocks, MovesAlone, IInv, Typed
<1>3. /\ oidc'[r].at = "unlink" /\ oidc'[r].user = u
      /\ oidc'[r].password = user[u].password
  BY DEF IInv, Typed, OidcRequest
<1>4. OidcHolds(r)'
  BY <1>3 DEF OidcHolds, TransactionHeld, IdentityHeld, UnlinkedHeld, OwnerHeld, MethodLeft, Active
<1> QED
  BY <1>1, <1>2, <1>3, <1>4, OidcQuietStep

\* It locks that identity.
LEMMA UnlinkIdentityStep ==
    ASSUME IInv, NEW r \in OidcRequests, NEW x \in Rows, UnlinkIdentity(r, x),
           UNCHANGED tokenVars
    PROVE  IInv'
<1> USE DEF UnlinkIdentity, LockRow, tokenVars, oidcTables
<1>1. oidc[r].user \in Users /\ MethodLeft(r)
  BY DEF IInv, Requests, OidcHolds, OwnerHeld
<1>2. Typed'
  <2>1. oidc'[r] = [oidc[r] EXCEPT !.at = "count", !.row = x]
    BY DEF IInv, Typed
  <2>2. oidc'[r] \in OidcRequest
    BY <2>1, OidcRecord DEF IInv, Typed, OidcStages
  <2> QED
    BY <2>2 DEF IInv, Typed
<1>3. MovesLocks(r) /\ MovesAlone(r)
  BY RequestsApart DEF MovesLocks, MovesAlone, IInv, Typed
<1>4. /\ oidc'[r].at = "count" /\ oidc'[r].user = oidc[r].user /\ oidc'[r].row = x
      /\ oidc'[r].password = oidc[r].password /\ rowLock'[x] = r
  BY DEF IInv, Typed, OidcRequest
<1>5. OidcHolds(r)'
  BY <1>1, <1>4
     DEF OidcHolds, TransactionHeld, IdentityHeld, UnlinkedHeld, OwnerHeld, MethodLeft, Exists
<1> QED
  BY <1>2, <1>3, <1>4, <1>5, OidcQuietStep

\* Two or more identities are one and another.
LEMMA AnotherLeft ==
    ASSUME NEW u \in Users, NEW x \in RowsOf(u), Cardinality(RowsOf(u)) > 1
    PROVE  \E y \in RowsOf(u) : y # x
<1>1. ASSUME \A y \in RowsOf(u) : y = x PROVE FALSE
  <2>1. RowsOf(u) = {x}
    BY <1>1
  <2>2. Cardinality(RowsOf(u)) = 1
    BY <2>1, FS_Singleton
  <2> QED
    BY <2>2
<1> QED
  BY <1>1

\* It counts the identities of the account that it holds, and goes on if another
\* way to sign in is left.
LEMMA UnlinkCountStep ==
    ASSUME IInv, NEW r \in OidcRequests, UnlinkCount(r), UNCHANGED tokenVars
    PROVE  IInv'
<1> USE DEF UnlinkCount, LockOwner, tokenVars, oidcTables
<1>1. oidc[r].user \in Users /\ MethodLeft(r) /\ UnlinkedHeld(r)
  BY DEF IInv, Requests, OidcHolds, OwnerHeld
<1>2. Typed'
  BY DEF IInv, Typed, OidcRequest, OidcStages
<1>3. MovesLocks(r) /\ MovesAlone(r)
  BY <1>1, RequestsApart DEF MovesLocks, MovesAlone, IInv, Typed, Unlocked, MethodLeft
<1>4. /\ oidc'[r].at = "delete" /\ oidc'[r].user = oidc[r].user /\ oidc'[r].row = oidc[r].row
      /\ oidc'[r].password = oidc[r].password /\ userLock'[oidc[r].user] = r
  BY <1>1 DEF IInv, Typed, OidcRequest
<1>5. oidc[r].password \/ \E x \in RowsOf(oidc[r].user) : x # oidc[r].row
  <2>1. CASE oidc[r].password
    BY <2>1
  <2>2. CASE Cardinality(RowsOf(oidc[r].user)) > 1
    <3>1. oidc[r].row \in RowsOf(oidc[r].user)
      BY <1>1 DEF UnlinkedHeld, RowsOf
    <3> QED
      BY <1>1, <2>2, <3>1, AnotherLeft
  <2> QED
    BY <2>1, <2>2 DEF LeavesMethod
<1>6. OidcHolds(r)'
  BY <1>1, <1>4, <1>5
     DEF OidcHolds, TransactionHeld, IdentityHeld, UnlinkedHeld, OwnerHeld, MethodLeft, Exists,
         RowsOf
<1> QED
  BY <1>2, <1>3, <1>4, <1>6, OidcQuietStep

----------------------------------------------------------------------------
(* Requests of Identities that end.                                        *)

\* The end of a transaction frees its locks and no others.
LEMMA OidcEndsEffect ==
    ASSUME IInv, NEW r \in OidcRequests, OidcEnds(r), UNCHANGED <<tokenLock, treq>>
    PROVE  /\ oidc' \in [OidcRequests -> OidcRequest]
           /\ txLock' \in [Transactions -> OidcRequests \cup {None}]
           /\ rowLock' \in [Rows -> OidcRequests \cup {None}]
           /\ userLock' \in [Users -> OidcRequests \cup TokenRequests \cup {None}]
           /\ oidc'[r] = OidcResting
           /\ Rests(r)'
           /\ MovesLocks(r) /\ MovesAlone(r)
<1> USE RequestsApart DEF OidcEnds, Released, IInv, Typed
<1>1. OidcResting \in OidcRequest
  BY DEF OidcResting, OidcRequest, OidcStages
<1>2. /\ oidc' \in [OidcRequests -> OidcRequest] /\ oidc'[r] = OidcResting
      /\ MovesAlone(r)
  BY <1>1 DEF MovesAlone
<1>3. /\ txLock' \in [Transactions -> OidcRequests \cup {None}]
      /\ rowLock' \in [Rows -> OidcRequests \cup {None}]
      /\ userLock' \in [Users -> OidcRequests \cup TokenRequests \cup {None}]
  OBVIOUS
<1>4. Rests(r)'
  BY DEF Rests
<1>5. MovesLocks(r)
  BY DEF MovesLocks, Requests, HeldExist
<1> QED
  BY <1>2, <1>3, <1>4, <1>5

\* A request that ends leaves the other ones what they hold.
LEMMA OidcEndStep ==
    ASSUME IInv, NEW r \in OidcRequests, OidcEnds(r), UNCHANGED <<tokenLock, treq>>, WritesOwn(r)
    PROVE  Requests'
<1>1. oidc'[r].at = "idle" /\ Rests(r)' /\ MovesLocks(r) /\ MovesAlone(r)
  BY OidcEndsEffect DEF OidcResting
<1>2. OidcHolds(r)'
  BY <1>1 DEF OidcHolds, TransactionHeld, IdentityHeld, UnlinkedHeld, OwnerHeld, MethodLeft
<1> QED
  BY <1>1, <1>2, RequestsStep, RequestsApart DEF Everybody

\* Any request may roll back at any time.
LEMMA OidcRollbackStep ==
    ASSUME IInv, NEW r \in OidcRequests, OidcRollback(r), UNCHANGED tokenVars
    PROVE  IInv'
<1> USE DEF OidcRollback, tokenVars, oidcTables
<1>1. Tables' /\ WritesOwn(r)
  BY QuietStep DEF Everybody
<1>2. Requests'
  BY <1>1, OidcEndStep
<1>3. Typed'
  BY OidcEndsEffect DEF IInv, Typed
<1> QED
  BY <1>1, <1>2, <1>3 DEF IInv

\* A callback that commits holds its transaction, which is consumed by this one
\* completion.
LEMMA CompleteEffect ==
    ASSUME IInv, NEW r \in OidcRequests, NEW u \in Users, Complete(r, u),
           oidc[r].at \in {"sign_in", "create", "check", "insert"}
    PROVE  /\ OidcEnds(r)
           /\ oidc[r].tx \in Transactions /\ oidc[r].subject \in Subjects
           /\ tx' \in [Transactions -> Transaction] /\ done' \in [Transactions -> Completion]
           /\ TransactionOnce'
           /\ \A t \in Transactions :
                 tx'[t].status = "open" /\ tx'[t].intent = "link" => tx'[t].user \in Users
           /\ \A t \in Transactions :
                 txLock[t] \notin {None, r} /\ tx[t].status # "absent" => tx'[t] = tx[t]
           /\ \A t \in Transactions :
                 done'[t] # done[t] => done'[t].user = u /\ done'[t].subject = oidc[r].subject
<1> USE DEF Complete, IInv
<1>1. /\ oidc[r].tx \in Transactions /\ oidc[r].subject \in Subjects
      /\ txLock[oidc[r].tx] = r /\ tx[oidc[r].tx].status = "open"
  BY DEF Requests, OidcHolds, TransactionHeld
<1>2. done[oidc[r].tx].times = 0
  BY <1>1 DEF Tables, TransactionOnce, Typed, Completion
<1>3. done' = [done EXCEPT ![oidc[r].tx] =
                 [times |-> 1, user |-> u, subject |-> oidc[r].subject]]
  BY <1>1, <1>2 DEF Typed
<1>4. done' \in [Transactions -> Completion]
  <2>1. [times |-> 1, user |-> u, subject |-> oidc[r].subject] \in Completion
    BY <1>1 DEF Completion
  <2> QED
    BY <1>3, <2>1 DEF Typed
<1>5. tx' \in [Transactions -> Transaction]
  <2>1. [tx[oidc[r].tx] EXCEPT !.status = "consumed"] \in Transaction
    BY <1>1 DEF Typed, Transaction
  <2> QED
    BY <1>1, <2>1 DEF Typed
<1>6. TransactionOnce'
  BY <1>1, <1>3 DEF Tables, TransactionOnce, Typed, Transaction
<1>7. \A t \in Transactions :
        tx'[t].status = "open" /\ tx'[t].intent = "link" => tx'[t].user \in Users
  BY <1>1 DEF Tables, Whole, Typed, Transaction
<1>8. \A t \in Transactions : txLock[t] \notin {None, r} => tx'[t] = tx[t]
  BY <1>1 DEF Typed
<1>9. \A t \in Transactions :
        done'[t] # done[t] => done'[t].user = u /\ done'[t].subject = oidc[r].subject
  BY <1>1, <1>3 DEF Typed
<1> QED
  BY <1>1, <1>4, <1>5, <1>6, <1>7, <1>8, <1>9

\* A callback that leaves users and identities as they are.
LEMMA CompleteStep ==
    ASSUME IInv, NEW r \in OidcRequests, NEW u \in Users, Complete(r, u),
           oidc[r].at \in {"sign_in", "create", "check", "insert"},
           UNCHANGED <<user, identity, tokenVars>>
    PROVE  IInv'
<1> USE DEF tokenVars
<1>1. /\ OidcEnds(r)
      /\ tx' \in [Transactions -> Transaction] /\ done' \in [Transactions -> Completion]
      /\ TransactionOnce'
      /\ \A t \in Transactions :
            tx'[t].status = "open" /\ tx'[t].intent = "link" => tx'[t].user \in Users
      /\ \A t \in Transactions :
            txLock[t] \notin {None, r} /\ tx[t].status # "absent" => tx'[t] = tx[t]
  BY CompleteEffect
<1>2. Typed'
  BY <1>1, OidcEndsEffect DEF IInv, Typed
<1>3. UniqueIdentities' /\ OneAccountPerEmail'
  BY DEF IInv, Tables, UniqueIdentities, OneAccountPerEmail, Exists, Stored
<1>4. Whole' /\ TokenOnce' /\ CanSignIn'
  BY <1>1 DEF IInv, Tables, Whole, TokenOnce, CanSignIn, Exists, RowsOf
<1>5. WritesOwn(r)
  BY <1>1 DEF WritesOwn, RowsOf, Outstanding, Exists
<1>6. Requests'
  BY <1>1, <1>5, OidcEndStep
<1> QED
  BY <1>1, <1>2, <1>3, <1>4, <1>6 DEF IInv, Tables

\* A login completes for the owner of the identity.
LEMMA LoginCommitStep ==
    ASSUME IInv, NEW r \in OidcRequests, LoginCommit(r), UNCHANGED tokenVars
    PROVE  IInv'
<1>1. oidc[r].user \in Users
  BY DEF LoginCommit, IInv, Requests, OidcHolds, OwnerHeld
<1> QED
  BY <1>1, CompleteStep DEF LoginCommit

\* The identity is linked to the account already.
LEMMA LinkAgainStep ==
    ASSUME IInv, NEW r \in OidcRequests, NEW x \in Rows, LinkAgain(r, x), UNCHANGED tokenVars
    PROVE  IInv'
<1>1. oidc[r].user \in Users
  BY DEF LinkAgain, IInv, Requests, OidcHolds, OwnerHeld
<1> QED
  BY <1>1, CompleteStep DEF LinkAgain

\* A new row obeys the unique constraints and takes no identity from anybody.
LEMMA InsertEffect ==
    ASSUME IInv, NEW u \in Users, NEW s \in Subjects, NEW x \in Rows,
           ~Stored(x), NewIdentity(u, s),
           identity' = [identity EXCEPT ![x] = [user |-> u, subject |-> s]]
    PROVE  /\ identity' \in [Rows -> IdentityRow]
           /\ UniqueIdentities'
           /\ \A y \in Rows : identity'[y].user = None <=> identity'[y].subject = None
           /\ \A v \in Users : RowsOf(v) \subseteq RowsOf(v)'
           /\ \A y \in Rows : Stored(y) => identity'[y] = identity[y]
           /\ x \in RowsOf(u)'
<1> USE RequestsApart DEF IInv
<1>1. /\ identity'[x].user = u /\ identity'[x].subject = s
      /\ \A y \in Rows : y # x => identity'[y] = identity[y]
  BY DEF Typed
<1>2. identity' \in [Rows -> IdentityRow]
  BY DEF Typed, IdentityRow
<1>3. \A y \in Rows : identity'[y].user = None <=> identity'[y].subject = None
  BY <1>1 DEF Tables, Whole
<1>4. /\ \A v \in Users : RowsOf(v) \subseteq RowsOf(v)'
      /\ \A y \in Rows : Stored(y) => identity'[y] = identity[y]
      /\ x \in RowsOf(u)'
  BY <1>1 DEF RowsOf, Stored
<1>5. UniqueIdentities'
  <2>1. ASSUME NEW y \in Rows, y # x, Stored(y)
        PROVE  /\ identity[y].subject # s
               /\ identity[y].user = u => IssuerOf[identity[y].subject] # IssuerOf[s]
    BY <2>1 DEF NewIdentity, HasSubject, HasIssuer, RowsOf
  <2> SUFFICES ASSUME NEW y \in Rows, NEW z \in Rows, y # z, Stored(y)', Stored(z)'
               PROVE  /\ identity'[y].subject # identity'[z].subject
                      /\ identity'[y].user = identity'[z].user =>
                            IssuerOf[identity'[y].subject] # IssuerOf[identity'[z].subject]
    BY DEF UniqueIdentities
  <2>2. CASE y = x
    BY <1>1, <2>1, <2>2 DEF Stored
  <2>3. CASE z = x
    BY <1>1, <2>1, <2>3 DEF Stored
  <2>4. CASE y # x /\ z # x
    BY <1>1, <2>4 DEF Stored, Tables, UniqueIdentities
  <2> QED
    BY <2>2, <2>3, <2>4
<1> QED
  BY <1>2, <1>3, <1>4, <1>5

\* The identity is inserted; the subject had none.
LEMMA LinkInsertStep ==
    ASSUME IInv, NEW r \in OidcRequests, NEW x \in Rows, LinkInsert(r, x), UNCHANGED tokenVars
    PROVE  IInv'
<1> USE DEF LinkInsert, tokenVars
<1>1. oidc[r].user \in Users
  BY DEF IInv, Requests, OidcHolds, OwnerHeld
<1>2. /\ OidcEnds(r)
      /\ oidc[r].subject \in Subjects
      /\ tx' \in [Transactions -> Transaction] /\ done' \in [Transactions -> Completion]
      /\ TransactionOnce'
      /\ \A t \in Transactions :
            tx'[t].status = "open" /\ tx'[t].intent = "link" => tx'[t].user \in Users
      /\ \A t \in Transactions :
            txLock[t] \notin {None, r} /\ tx[t].status # "absent" => tx'[t] = tx[t]
  BY <1>1, CompleteEffect
<1>3. /\ identity' \in [Rows -> IdentityRow]
      /\ UniqueIdentities'
      /\ \A y \in Rows : identity'[y].user = None <=> identity'[y].subject = None
      /\ \A v \in Users : RowsOf(v) \subseteq RowsOf(v)'
      /\ \A y \in Rows : Stored(y) => identity'[y] = identity[y]
  BY <1>1, <1>2, InsertEffect
<1>4. Typed'
  BY <1>2, <1>3, OidcEndsEffect DEF IInv, Typed
<1>5. OneAccountPerEmail'
  BY DEF IInv, Tables, OneAccountPerEmail, Exists
<1>6. Whole' /\ TokenOnce'
  BY <1>2, <1>3 DEF IInv, Tables, Whole, TokenOnce
<1>7. CanSignIn'
  BY <1>3 DEF IInv, Tables, CanSignIn, Exists
<1>8. WritesOwn(r)
  BY <1>2, <1>3 DEF WritesOwn, Outstanding, Exists
<1>9. Requests'
  BY <1>2, <1>8, OidcEndStep
<1> QED
  BY <1>2, <1>3, <1>4, <1>5, <1>6, <1>7, <1>9 DEF IInv, Tables

\* A new account has an e-mail of its own, and takes nothing from another.
LEMMA AccountEffect ==
    ASSUME IInv, NEW u \in Users, NEW row \in Account, user[u].status = "absent",
           row.status = "active", row.email # None => ~EmailTaken(row.email),
           user' = [user EXCEPT ![u] = row]
    PROVE  /\ user' \in [Users -> Account]
           /\ OneAccountPerEmail'
           /\ userLock[u] = None
           /\ user'[u] = row
           /\ \A v \in Users : v # u => user'[v] = user[v]
<1> USE DEF IInv
<1>1. user' \in [Users -> Account] /\ userLock[u] = None
  BY DEF Typed, Requests, HeldExist
<1>2. user'[u] = row /\ \A v \in Users : v # u => user'[v] = user[v]
  BY DEF Typed
<1>3. OneAccountPerEmail'
  <2> SUFFICES ASSUME NEW v \in Users, NEW w \in Users, Exists(v)', Exists(w)',
                      user'[v].email # None, user'[v].email = user'[w].email, v # w
               PROVE  FALSE
    BY DEF OneAccountPerEmail
  <2>1. CASE v = u
    BY <1>2, <2>1 DEF EmailTaken, Exists
  <2>2. CASE w = u
    BY <1>2, <2>2 DEF EmailTaken, Exists
  <2>3. CASE v # u /\ w # u
    BY <1>2, <2>3 DEF Exists, Tables, OneAccountPerEmail
  <2> QED
    BY <2>1, <2>2, <2>3
<1> QED
  BY <1>1, <1>2, <1>3

\* A first login creates the account together with its identity.
LEMMA CreateCommitStep ==
    ASSUME IInv, NEW r \in OidcRequests, NEW u \in Users, NEW x \in Rows,
           CreateCommit(r, u, x), UNCHANGED tokenVars
    PROVE  IInv'
<1> USE DEF CreateCommit, NewAccount, tokenVars
<1> DEFINE row == [status |-> "active", email |-> oidc[r].email,
                   verified |-> TRUE, password |-> FALSE]
<1>1. row \in Account
  BY OidcFields DEF IInv, Account
<1>2. /\ user' \in [Users -> Account]
      /\ OneAccountPerEmail'
      /\ userLock[u] = None
      /\ user'[u] = row
      /\ \A v \in Users : v # u => user'[v] = user[v]
  BY <1>1, AccountEffect
<1>3. /\ OidcEnds(r)
      /\ oidc[r].subject \in Subjects
      /\ tx' \in [Transactions -> Transaction] /\ done' \in [Transactions -> Completion]
      /\ TransactionOnce'
      /\ \A t \in Transactions :
            tx'[t].status = "open" /\ tx'[t].intent = "link" => tx'[t].user \in Users
      /\ \A t \in Transactions :
            txLock[t] \notin {None, r} /\ tx[t].status # "absent" => tx'[t] = tx[t]
  BY CompleteEffect
<1>4. /\ identity' \in [Rows -> IdentityRow]
      /\ UniqueIdentities'
      /\ \A y \in Rows : identity'[y].user = None <=> identity'[y].subject = None
      /\ \A v \in Users : RowsOf(v) \subseteq RowsOf(v)'
      /\ \A y \in Rows : Stored(y) => identity'[y] = identity[y]
      /\ x \in RowsOf(u)'
  BY <1>3, InsertEffect
<1>5. Typed'
  BY <1>2, <1>3, <1>4, OidcEndsEffect DEF IInv, Typed
<1>6. Whole' /\ TokenOnce'
  BY <1>3, <1>4 DEF IInv, Tables, Whole, TokenOnce
<1>7. CanSignIn'
  <2> SUFFICES ASSUME NEW v \in Users, Exists(v)', ~user'[v].password
               PROVE  RowsOf(v)' # {}
    BY DEF CanSignIn
  <2>1. CASE v = u
    BY <1>4, <2>1
  <2>2. CASE v # u
    <3>1. Exists(v) /\ ~user[v].password
      BY <1>2, <2>2 DEF Exists
    <3> QED
      BY <1>4, <3>1 DEF IInv, Tables, CanSignIn
  <2> QED
    BY <2>1, <2>2
<1>8. WritesOwn(r)
  BY <1>2, <1>3, <1>4 DEF WritesOwn, Outstanding, Exists
<1>9. Requests'
  BY <1>3, <1>8, OidcEndStep
<1> QED
  BY <1>2, <1>3, <1>4, <1>5, <1>6, <1>7, <1>9 DEF IInv, Tables

\* Unlinking deletes the identity it holds; a password or another one is left.
LEMMA UnlinkCommitStep ==
    ASSUME IInv, NEW r \in OidcRequests, UnlinkCommit(r), UNCHANGED tokenVars
    PROVE  IInv'
<1> USE RequestsApart DEF UnlinkCommit, tokenVars
<1> DEFINE u == oidc[r].user
           x == oidc[r].row
<1>1. /\ u \in Users /\ x \in Rows /\ rowLock[x] = r /\ userLock[u] = r
      /\ identity[x].user = u
      /\ Exists(u) /\ oidc[r].password => user[u].password
      /\ oidc[r].password \/ \E y \in RowsOf(u) : y # x
  BY DEF IInv, Requests, OidcHolds, UnlinkedHeld, OwnerHeld, MethodLeft
<1>2. /\ identity'[x] = NoRow
      /\ \A y \in Rows : y # x => identity'[y] = identity[y]
      /\ identity' \in [Rows -> IdentityRow]
  BY <1>1 DEF IInv, Typed, NoRow, IdentityRow
<1>3. Typed'
  BY <1>2, OidcEndsEffect DEF IInv, Typed
<1>4. UniqueIdentities'
  BY <1>2 DEF IInv, Tables, UniqueIdentities, Stored, NoRow
<1>5. OneAccountPerEmail' /\ TransactionOnce' /\ TokenOnce'
  BY DEF IInv, Tables, OneAccountPerEmail, Exists, TransactionOnce, TokenOnce
<1>6. Whole'
  BY <1>2 DEF IInv, Tables, Whole, NoRow
<1>7. \A v \in Users : v # u => RowsOf(v)' = RowsOf(v)
  BY <1>1, <1>2 DEF RowsOf, NoRow
<1>8. CanSignIn'
  <2> SUFFICES ASSUME NEW v \in Users, Exists(v), ~user[v].password
               PROVE  RowsOf(v)' # {}
    BY DEF CanSignIn, Exists
  <2>1. CASE v = u
    <3>1. PICK y \in RowsOf(u) : y # x
      BY <1>1, <2>1
    <3> QED
      BY <1>2, <2>1, <3>1 DEF RowsOf
  <2>2. CASE v # u
    BY <1>7, <2>2 DEF IInv, Tables, CanSignIn
  <2> QED
    BY <2>1, <2>2
<1>9. WritesOwn(r)
  BY <1>1, <1>2, <1>7 DEF WritesOwn, Outstanding, Exists
<1>10. Requests'
  BY <1>9, OidcEndStep
<1> QED
  BY <1>3, <1>4, <1>5, <1>6, <1>8, <1>10 DEF IInv, Tables

----------------------------------------------------------------------------
(* Steps of no request.                                                    *)

\* A step of no request, which only has to leave alone what requests hold.
LEMMA NobodyStep ==
    ASSUME IInv, WritesOwn(None),
           UNCHANGED <<userLock, txLock, rowLock, oidc, tokenLock, treq>>
    PROVE  Requests'
<1>1. MovesLocks(None) /\ MovesAlone(None)
  BY DEF MovesLocks, MovesAlone
<1> QED
  BY <1>1, RequestsStep, RequestsApart DEF Everybody

\* A transaction is opened.
LEMMA BeginStep ==
    ASSUME IInv, NEW t \in Transactions, NEW intent \in {"login", "link"},
           NEW u \in Users \cup {None}, NEW i \in Issuers, Begin(t, intent, u, i),
           UNCHANGED tokenVars
    PROVE  IInv'
<1> USE DEF Begin, tokenVars
<1> DEFINE new == [status |-> "open", intent |-> intent, user |-> u, issuer |-> i]
<1>1. new \in Transaction
  BY DEF Transaction
<1>2. tx' \in [Transactions -> Transaction]
  BY <1>1 DEF IInv, Typed
<1>3. Typed'
  BY <1>2 DEF IInv, Typed
<1>4. UniqueIdentities' /\ OneAccountPerEmail'
  BY DEF IInv, Tables, UniqueIdentities, OneAccountPerEmail, Exists, Stored
<1>5. Whole'
  BY DEF IInv, Tables, Whole, Typed
<1>6. TransactionOnce'
  BY DEF IInv, Tables, TransactionOnce, Typed
<1>7. TokenOnce' /\ CanSignIn'
  BY DEF IInv, Tables, TokenOnce, CanSignIn, Exists, RowsOf
<1>8. WritesOwn(None)
  BY DEF IInv, Typed, WritesOwn, RowsOf, Outstanding, Exists
<1>9. Requests'
  BY <1>8, NobodyStep
<1> QED
  BY <1>3, <1>4, <1>5, <1>6, <1>7, <1>9 DEF IInv, Tables

\* An account is registered under an e-mail address that no other one has.
LEMMA RegisterStep ==
    ASSUME IInv, NEW u \in Users, NEW e \in Emails \cup {None}, Register(u, e),
           UNCHANGED <<oidcVars, tokenVars>>
    PROVE  IInv'
<1> USE DEF Register, oidcVars, tokenVars
<1> DEFINE row == [NoAccount EXCEPT !.status = "active", !.email = e, !.password = TRUE]
<1>1. row \in Account /\ row.status = "active" /\ row.email = e /\ row.password = TRUE
  BY DEF NoAccount, Account
<1>2. user' = [user EXCEPT ![u] = row]
  OBVIOUS
<1> HIDE DEF row
<1>3. /\ user' \in [Users -> Account]
      /\ OneAccountPerEmail'
      /\ userLock[u] = None
      /\ user'[u] = row
      /\ \A v \in Users : v # u => user'[v] = user[v]
  BY <1>1, <1>2, AccountEffect
<1>4. Typed'
  BY <1>3 DEF IInv, Typed
<1>5. UniqueIdentities' /\ Whole' /\ TransactionOnce' /\ TokenOnce'
  BY DEF IInv, Tables, UniqueIdentities, Stored, Whole, TransactionOnce, TokenOnce
<1>6. CanSignIn'
  BY <1>1, <1>3 DEF IInv, Tables, CanSignIn, Exists, RowsOf
<1>7. WritesOwn(None)
  BY <1>3 DEF WritesOwn, RowsOf, Outstanding, Exists
<1>8. Requests'
  BY <1>7, NobodyStep
<1> QED
  BY <1>3, <1>4, <1>5, <1>6, <1>8 DEF IInv, Tables

\* Changes of an account's fields.
LEMMA AccountRecord ==
    ASSUME NEW a \in Account
    PROVE  /\ [a EXCEPT !.password = TRUE] \in Account
           /\ [a EXCEPT !.verified = TRUE] \in Account
           /\ \A status \in {"active", "disabled"} : [a EXCEPT !.status = status] \in Account
  BY DEF Account

\* A change of status, of the verification or a new password of an account that
\* keeps its e-mail.
LEMMA AccountKept ==
    ASSUME IInv, NEW u \in Users, Exists(u)' => Exists(u),
           \A v \in Users : v # u => user'[v] = user[v],
           user'[u].email = user[u].email,
           user[u].password => user'[u].password,
           UNCHANGED identity
    PROVE  OneAccountPerEmail' /\ UniqueIdentities' /\ CanSignIn'
<1> USE DEF IInv, Tables
<1>1. \A v \in Users : Exists(v)' => Exists(v)
  BY DEF Exists
<1>2. \A v \in Users : user'[v].email = user[v].email
  OBVIOUS
<1>3. OneAccountPerEmail'
  BY <1>1, <1>2 DEF OneAccountPerEmail
<1>4. UniqueIdentities'
  BY DEF UniqueIdentities, Stored
<1>5. \A v \in Users : user[v].password => user'[v].password
  OBVIOUS
<1>6. \A v \in Users : RowsOf(v)' = RowsOf(v)
  BY DEF RowsOf
<1>7. CanSignIn'
  BY <1>1, <1>5, <1>6 DEF CanSignIn
<1> QED
  BY <1>3, <1>4, <1>7

\* An administrator enables or disables an account that nobody has locked.
LEMMA SetStatusStep ==
    ASSUME IInv, NEW u \in Users, NEW status \in {"active", "disabled"}, SetStatus(u, status),
           UNCHANGED <<oidcVars, tokenVars>>
    PROVE  IInv'
<1> USE DEF SetStatus, oidcVars, tokenVars
<1>1. /\ user'[u].status = status /\ user'[u].email = user[u].email
      /\ user'[u].password = user[u].password
      /\ \A v \in Users : v # u => user'[v] = user[v]
  BY DEF IInv, Typed, Account
<1>2. user' \in [Users -> Account]
  <2>1. [user[u] EXCEPT !.status = status] \in Account
    BY DEF IInv, Typed, Account
  <2> QED
    BY <2>1 DEF IInv, Typed
<1>3. Typed'
  BY <1>2 DEF IInv, Typed
<1>4. OneAccountPerEmail' /\ UniqueIdentities' /\ CanSignIn'
  BY <1>1, AccountKept DEF Exists
<1>5. Whole' /\ TransactionOnce' /\ TokenOnce'
  BY DEF IInv, Tables, Whole, TransactionOnce, TokenOnce
<1>6. WritesOwn(None)
  BY <1>1 DEF WritesOwn, RowsOf, Outstanding, Exists, Unlocked
<1>7. Requests'
  BY <1>6, NobodyStep
<1> QED
  BY <1>3, <1>4, <1>5, <1>7 DEF IInv, Tables

\* What a deletion takes was nobody's at the moment, and nobody else's.
LEMMA DeleteUserStep ==
    ASSUME IInv, NEW u \in Users, DeleteUser(u)
    PROVE  IInv'
<1> USE RequestsApart DEF DeleteUser, DropIdentities, DropTokens
<1>1. /\ user'[u].status = "deleted"
      /\ \A v \in Users : v # u => user'[v] = user[v]
      /\ user' \in [Users -> Account]
  BY DEF IInv, Typed, Account, NoAccount
<1>2. /\ identity' \in [Rows -> IdentityRow]
      /\ \A x \in Rows : identity'[x] = IF identity[x].user = u THEN NoRow ELSE identity[x]
  BY DEF IInv, Typed, IdentityRow, NoRow
<1>3. [NoTransaction EXCEPT !.status = "consumed"] \in Transaction
  BY DEF NoTransaction, Transaction
<1>4. /\ tx' \in [Transactions -> Transaction]
      /\ \A t \in Transactions : tx'[t] # tx[t] =>
            tx[t].user = u /\ tx[t].status = "open" /\ tx'[t].status = "consumed"
  BY <1>3 DEF IInv, Typed, NoTransaction
<1>5. [NoToken EXCEPT !.status = "consumed"] \in Token
  BY DEF NoToken, Token, Purposes
<1>6. /\ token' \in [Tokens -> Token]
      /\ \A k \in Tokens : token'[k] # token[k] =>
            token[k].user = u /\ token'[k].status = "consumed"
  BY <1>5 DEF IInv, Typed, NoToken
<1>7. Typed'
  BY <1>1, <1>2, <1>4, <1>6 DEF IInv, Typed
<1>8. UniqueIdentities'
  BY <1>2 DEF IInv, Tables, UniqueIdentities, Stored, NoRow
<1>9. OneAccountPerEmail'
  BY <1>1 DEF IInv, Tables, OneAccountPerEmail, Exists
<1>10. Whole'
  BY <1>2, <1>4, <1>6 DEF IInv, Tables, Whole, NoRow
<1>11. TransactionOnce' /\ TokenOnce'
  BY <1>4, <1>6 DEF IInv, Tables, TransactionOnce, TokenOnce
<1>12. \A v \in Users : v # u => RowsOf(v)' = RowsOf(v)
  BY <1>2 DEF RowsOf, NoRow
<1>13. CanSignIn'
  BY <1>1, <1>12 DEF IInv, Tables, CanSignIn, Exists
<1>14. WritesOwn(None)
  <2>1. \A t \in Transactions : txLock[t] # None => tx'[t] = tx[t]
    BY <1>4
  <2>2. \A x \in Rows : rowLock[x] # None => identity'[x] = identity[x]
    BY <1>2 DEF RowsOf
  <2>3. \A k \in Tokens : tokenLock[k] # None => token'[k] = token[k]
    BY <1>6
  <2>4. \A v \in Users : Outstanding(v, "password_reset")' \subseteq Outstanding(v, "password_reset")
    BY <1>6 DEF Outstanding
  <2> QED
    BY <1>1, <1>12, <2>1, <2>2, <2>3, <2>4 DEF WritesOwn, Exists, Unlocked
<1>15. Requests'
  BY <1>14, NobodyStep
<1> QED
  BY <1>7, <1>8, <1>9, <1>10, <1>11, <1>13, <1>15 DEF IInv, Tables

----------------------------------------------------------------------------
(* Requests of AccountTokens that only read, and take locks that are free. *)

\* A token request that writes no row and keeps running.
LEMMA TokenQuietStep ==
    ASSUME IInv, NEW r \in TokenRequests, UNCHANGED <<user, oidcVars, token, confirmed>>, Typed',
           MovesLocks(r), MovesAlone(r), TokenHolds(r)'
    PROVE  IInv'
<1>1. Tables' /\ WritesOwn(r)
  BY QuietStep DEF oidcVars, oidcTables, Everybody
<1>2. Requests'
  BY <1>1, RequestsStep, RequestsApart DEF Everybody
<1> QED
  BY <1>1, <1>2 DEF IInv

\* What the reads of a request do to its record.
LEMMA TokenRecord ==
    ASSUME NEW m \in TokenRequest, NEW a \in TokenStages
    PROVE  /\ [m EXCEPT !.at = a] \in TokenRequest
           /\ \A p \in Purposes, u \in Users :
                 [m EXCEPT !.at = a, !.purpose = p, !.user = u] \in TokenRequest
           /\ \A p \in Purposes, u \in Users, k \in Tokens :
                 [m EXCEPT !.at = a, !.purpose = p, !.user = u, !.token = k] \in TokenRequest
           /\ \A open \in SUBSET Tokens : [m EXCEPT !.at = a, !.open = open] \in TokenRequest
<1> DEFINE n == [m EXCEPT !.at = a]
<1>1. n \in TokenRequest
  BY DEF TokenRequest
<1> HIDE DEF n
<1>2. \A p \in Purposes : [n EXCEPT !.purpose = p] \in TokenRequest
  BY <1>1 DEF TokenRequest
<1>3. \A o \in TokenRequest, u \in Users : [o EXCEPT !.user = u] \in TokenRequest
  BY DEF TokenRequest
<1>4. \A o \in TokenRequest, k \in Tokens : [o EXCEPT !.token = k] \in TokenRequest
  BY DEF TokenRequest
<1>5. \A open \in SUBSET Tokens : [n EXCEPT !.open = open] \in TokenRequest
  BY <1>1 DEF TokenRequest
<1>6. \A p \in Purposes, u \in Users : [n EXCEPT !.purpose = p, !.user = u] \in TokenRequest
  <2> TAKE p \in Purposes, u \in Users
  <2> DEFINE o == [n EXCEPT !.purpose = p]
  <2>1. o \in TokenRequest
    BY <1>2
  <2>2. [o EXCEPT !.user = u] \in TokenRequest
    BY <1>3, <2>1
  <2> QED
    BY <2>2
<1>7. \A p \in Purposes, u \in Users, k \in Tokens :
        [n EXCEPT !.purpose = p, !.user = u, !.token = k] \in TokenRequest
  <2> TAKE p \in Purposes, u \in Users, k \in Tokens
  <2> DEFINE o == [n EXCEPT !.purpose = p, !.user = u]
  <2>1. o \in TokenRequest
    BY <1>6
  <2>2. [o EXCEPT !.token = k] \in TokenRequest
    BY <1>4, <2>1
  <2> QED
    BY <2>2
<1> QED
  BY <1>1, <1>5, <1>6, <1>7 DEF n

\* The issue of a token reads the account.
LEMMA IssueReadStep ==
    ASSUME IInv, NEW r \in TokenRequests, NEW u \in Users, NEW p \in Purposes,
           IssueRead(r, u, p), UNCHANGED oidcVars
    PROVE  IInv'
<1> USE DEF IssueRead, oidcVars
<1>1. treq'[r] = [treq[r] EXCEPT !.at = "update", !.purpose = p, !.user = u]
  BY DEF IInv, Typed
<1>2. treq'[r] \in TokenRequest
  BY <1>1, TokenRecord DEF IInv, Typed, TokenStages
<1>3. Typed'
  BY <1>2 DEF IInv, Typed
<1>4. MovesLocks(r) /\ MovesAlone(r)
  BY RequestsApart DEF MovesLocks, MovesAlone, IInv, Typed
<1>5. treq'[r].at = "update" /\ treq'[r].user = u
  BY DEF IInv, Typed, TokenRequest
<1>6. TokenHolds(r)'
  BY <1>5 DEF TokenHolds, TokenHeld, ResetHeld
<1> QED
  BY <1>3, <1>4, <1>6, TokenQuietStep

\* It takes its snapshot of the older tokens.
LEMMA IssueUpdateStep ==
    ASSUME IInv, NEW r \in TokenRequests, IssueUpdate(r), UNCHANGED oidcVars
    PROVE  IInv'
<1> USE DEF IssueUpdate, oidcVars
<1> DEFINE open == Outstanding(treq[r].user, treq[r].purpose)
<1>1. treq'[r] = [treq[r] EXCEPT !.at = "insert", !.open = open]
  BY DEF IInv, Typed
<1>2. open \in SUBSET Tokens
  BY DEF Outstanding
<1>3. treq'[r] \in TokenRequest
  BY <1>1, <1>2, TokenRecord DEF IInv, Typed, TokenStages
<1>4. Typed'
  BY <1>3 DEF IInv, Typed
<1>5. MovesLocks(r) /\ MovesAlone(r)
  BY RequestsApart DEF MovesLocks, MovesAlone, IInv, Typed
<1>6. treq'[r].at = "insert" /\ treq'[r].user = treq[r].user
  BY DEF IInv, Typed, TokenRequest
<1>7. TokenHolds(r)'
  BY <1>6 DEF IInv, Requests, TokenHolds, TokenHeld, ResetHeld
<1> QED
  BY <1>4, <1>5, <1>7, TokenQuietStep

\* A confirmation locks its token.
LEMMA ConfirmTokenStep ==
    ASSUME IInv, NEW r \in TokenRequests, NEW k \in Tokens, ConfirmToken(r, k),
           UNCHANGED oidcVars
    PROVE  IInv'
<1> USE DEF ConfirmToken, LockToken, oidcVars
<1>1. token[k].purpose \in Purposes /\ token[k].user \in Users
  BY DEF IInv, Typed, Token, Tables, Whole
<1>2. treq'[r] = [treq[r] EXCEPT !.at = "confirm", !.purpose = token[k].purpose,
                                 !.user = token[k].user, !.token = k]
  BY DEF IInv, Typed
<1>3. treq'[r] \in TokenRequest
  BY <1>1, <1>2, TokenRecord DEF IInv, Typed, TokenStages
<1>4. Typed'
  BY <1>3 DEF IInv, Typed
<1>5. MovesLocks(r) /\ MovesAlone(r)
  BY RequestsApart DEF MovesLocks, MovesAlone, IInv, Typed
<1>6. /\ treq'[r].at = "confirm" /\ treq'[r].purpose = token[k].purpose
      /\ treq'[r].user = token[k].user /\ treq'[r].token = k /\ tokenLock'[k] = r
  BY DEF IInv, Typed, TokenRequest
<1>7. token[k] = [status |-> "open", purpose |-> token[k].purpose, user |-> token[k].user]
  BY DEF IInv, Typed, Token
<1>8. TokenHolds(r)'
  BY <1>1, <1>6, <1>7 DEF TokenHolds, TokenHeld, ResetHeld
<1> QED
  BY <1>4, <1>5, <1>8, TokenQuietStep

\* A reset locks the account as well.
LEMMA ResetUserStep ==
    ASSUME IInv, NEW r \in TokenRequests, ResetUser(r), UNCHANGED oidcVars
    PROVE  IInv'
<1> USE DEF ResetUser, LockUser, oidcVars
<1>1. TokenHeld(r) /\ treq[r].user \in Users
  BY DEF IInv, Requests, TokenHolds, TokenHeld
<1>2. Typed'
  BY DEF IInv, Typed, TokenRequest, TokenStages
<1>3. MovesLocks(r) /\ MovesAlone(r)
  BY RequestsApart DEF MovesLocks, MovesAlone, IInv, Typed, Unlocked, Active
<1>4. /\ treq'[r].at = "outstanding" /\ treq'[r].purpose = treq[r].purpose
      /\ treq'[r].user = treq[r].user /\ treq'[r].token = treq[r].token
      /\ userLock'[treq[r].user] = r
  BY <1>1 DEF IInv, Typed, TokenRequest
<1>5. TokenHolds(r)'
  BY <1>1, <1>4 DEF TokenHolds, TokenHeld, ResetHeld
<1> QED
  BY <1>2, <1>3, <1>5, TokenQuietStep

\* It takes its snapshot of the account's open tokens.
LEMMA ResetUpdateStep ==
    ASSUME IInv, NEW r \in TokenRequests, ResetUpdate(r), UNCHANGED oidcVars
    PROVE  IInv'
<1> USE DEF ResetUpdate, oidcVars
<1> DEFINE open == Outstanding(treq[r].user, "password_reset")
<1>1. TokenHeld(r) /\ ResetHeld(r)
  BY DEF IInv, Requests, TokenHolds
<1>2. treq'[r] = [treq[r] EXCEPT !.at = "reset", !.open = open]
  BY DEF IInv, Typed
<1>3. open \in SUBSET Tokens
  BY DEF Outstanding
<1>4. treq'[r] \in TokenRequest
  BY <1>2, <1>3, TokenRecord DEF IInv, Typed, TokenStages
<1>5. Typed'
  BY <1>4 DEF IInv, Typed
<1>6. MovesLocks(r) /\ MovesAlone(r)
  BY RequestsApart DEF MovesLocks, MovesAlone, IInv, Typed
<1>7. /\ treq'[r].at = "reset" /\ treq'[r].purpose = treq[r].purpose
      /\ treq'[r].user = treq[r].user /\ treq'[r].token = treq[r].token
      /\ treq'[r].open = open
  BY DEF IInv, Typed, TokenRequest
<1>8. TokenHolds(r)'
  BY <1>1, <1>7 DEF TokenHolds, TokenHeld, ResetHeld, Outstanding
<1> QED
  BY <1>5, <1>6, <1>8, TokenQuietStep

----------------------------------------------------------------------------
(* Requests of AccountTokens that end.                                     *)

\* What the end of a token request does to records and locks.
LEMMA TokenEndsEffect ==
    ASSUME IInv, NEW r \in TokenRequests, TokenEnds(r), UNCHANGED <<oidc, txLock, rowLock>>
    PROVE  /\ treq' \in [TokenRequests -> TokenRequest]
           /\ tokenLock' \in [Tokens -> TokenRequests \cup {None}]
           /\ userLock' \in [Users -> OidcRequests \cup TokenRequests \cup {None}]
           /\ treq'[r] = TokenResting
           /\ MovesLocks(r) /\ MovesAlone(r)
<1> USE RequestsApart DEF TokenEnds, IInv, Typed
<1>1. TokenResting \in TokenRequest
  BY DEF TokenResting, TokenRequest, TokenStages, Purposes
<1>2. /\ treq' \in [TokenRequests -> TokenRequest] /\ treq'[r] = TokenResting
      /\ MovesAlone(r)
  BY <1>1 DEF MovesAlone
<1>3. /\ tokenLock' \in [Tokens -> TokenRequests \cup {None}]
      /\ userLock' \in [Users -> OidcRequests \cup TokenRequests \cup {None}]
  OBVIOUS
<1>4. MovesLocks(r)
  BY DEF MovesLocks, Requests, HeldExist
<1> QED
  BY <1>2, <1>3, <1>4

\* A token request that ends leaves the other ones what they hold.
LEMMA TokenEndStep ==
    ASSUME IInv, NEW r \in TokenRequests, TokenEnds(r), UNCHANGED <<oidc, txLock, rowLock>>,
           WritesOwn(r)
    PROVE  Requests'
<1>1. treq'[r].at = "idle" /\ MovesLocks(r) /\ MovesAlone(r)
  BY TokenEndsEffect DEF TokenResting
<1>2. TokenHolds(r)'
  BY <1>1 DEF TokenHolds, TokenHeld, ResetHeld
<1> QED
  BY <1>1, <1>2, RequestsStep, RequestsApart DEF Everybody

\* Any token request may roll back at any time.
LEMMA TokenRollbackStep ==
    ASSUME IInv, NEW r \in TokenRequests, TokenRollback(r), UNCHANGED oidcVars
    PROVE  IInv'
<1> USE DEF TokenRollback, oidcVars
<1>1. Tables' /\ WritesOwn(r)
  BY QuietStep DEF Everybody, oidcTables
<1>2. Requests'
  BY <1>1, TokenEndStep
<1>3. Typed'
  BY TokenEndsEffect DEF IInv, Typed
<1> QED
  BY <1>1, <1>2, <1>3 DEF IInv

\* A new token and the tokens that its UPDATE consumes are nobody else's.
LEMMA IssueCommitStep ==
    ASSUME IInv, NEW r \in TokenRequests, NEW k \in Tokens, IssueCommit(r, k),
           UNCHANGED oidcVars
    PROVE  IInv'
<1> USE DEF IssueCommit, oidcVars
<1> DEFINE new == [status |-> "open", purpose |-> treq[r].purpose, user |-> treq[r].user]
<1>1. treq[r].user \in Users /\ treq[r].purpose \in Purposes
  BY DEF IInv, Typed, TokenRequest, Requests, TokenHolds, TokenHeld
<1>2. new \in Token
  BY <1>1 DEF Token
<1>3. \A j \in Tokens : [token[j] EXCEPT !.status = "consumed"] \in Token
  BY DEF IInv, Typed, Token
<1>4. token' \in [Tokens -> Token]
  BY <1>2, <1>3 DEF IInv, Typed
<1>5. /\ token'[k] = new
      /\ \A j \in Tokens : j # k /\ j \in treq[r].open => token'[j].status = "consumed"
      /\ \A j \in Tokens : j # k /\ j \notin treq[r].open => token'[j] = token[j]
  BY DEF IInv, Typed, Token
<1>6. Typed'
  BY <1>4, TokenEndsEffect DEF IInv, Typed
<1>7. UniqueIdentities' /\ OneAccountPerEmail' /\ TransactionOnce' /\ CanSignIn'
  BY DEF IInv, Tables, UniqueIdentities, Stored, OneAccountPerEmail, Exists, TransactionOnce,
         CanSignIn, RowsOf
<1>8. Whole'
  BY <1>1, <1>5 DEF IInv, Tables, Whole
<1>9. TokenOnce'
  BY <1>5 DEF IInv, Tables, TokenOnce
<1>10. WritesOwn(r)
  <2>1. \A j \in Tokens :
          tokenLock[j] \notin {None, r} /\ token[j].status # "absent" => token'[j] = token[j]
    BY <1>5 DEF Free
  <2>2. \A v \in Users : userLock[v] \notin {None, r} =>
          Outstanding(v, "password_reset")' \subseteq Outstanding(v, "password_reset")
    <3> SUFFICES ASSUME NEW v \in Users, userLock[v] \notin {None, r}, NEW j \in Tokens,
                        token'[j] = [status |-> "open", purpose |-> "password_reset", user |-> v]
                 PROVE  token[j] = token'[j]
      BY DEF Outstanding
    <3>1. j # k
      BY <1>5 DEF Referenced, Unlocked
    <3>2. j \notin treq[r].open
      BY <1>5, <3>1
    <3> QED
      BY <1>5, <3>1, <3>2
  <2> QED
    BY <2>1, <2>2 DEF WritesOwn, RowsOf, Exists
<1>11. Requests'
  BY <1>10, TokenEndStep
<1> QED
  BY <1>6, <1>7, <1>8, <1>9, <1>11 DEF IInv, Tables

\* A reset holds its token and its user, and consumes the token with the rest.
LEMMA ResetCommitEffect ==
    ASSUME IInv, NEW r \in TokenRequests, ResetCommit(r)
    PROVE  /\ treq[r].user \in Users /\ treq[r].token \in Tokens
           /\ userLock[treq[r].user] = r
           /\ token[treq[r].token] =
                 [status |-> "open", purpose |-> "password_reset", user |-> treq[r].user]
           /\ Outstanding(treq[r].user, "password_reset") \subseteq treq[r].open
           /\ treq[r].token \in treq[r].open
           /\ confirmed' = [confirmed EXCEPT ![treq[r].token] = 1]
<1> USE DEF ResetCommit
<1>1. /\ treq[r].user \in Users /\ treq[r].token \in Tokens
      /\ userLock[treq[r].user] = r
      /\ token[treq[r].token] =
            [status |-> "open", purpose |-> "password_reset", user |-> treq[r].user]
      /\ Outstanding(treq[r].user, "password_reset") \subseteq treq[r].open
  BY DEF IInv, Requests, TokenHolds, TokenHeld, ResetHeld
<1>2. treq[r].token \in treq[r].open
  BY <1>1 DEF Outstanding
<1>3. confirmed[treq[r].token] = 0
  BY <1>1 DEF IInv, Tables, TokenOnce, Typed
<1> QED
  BY <1>1, <1>2, <1>3 DEF Confirmed

\* A reset consumes its token and all of its snapshot, and sets the password.
LEMMA ResetCommitStep ==
    ASSUME IInv, NEW r \in TokenRequests, ResetCommit(r), UNCHANGED oidcVars
    PROVE  IInv'
<1> USE RequestsApart DEF ResetCommit, oidcVars
<1> DEFINE u == treq[r].user
           k == treq[r].token
<1>1. /\ u \in Users /\ k \in Tokens /\ userLock[u] = r
      /\ token[k] = [status |-> "open", purpose |-> "password_reset", user |-> u]
      /\ k \in treq[r].open
      /\ confirmed' = [confirmed EXCEPT ![k] = 1]
  BY ResetCommitEffect
<1>2. /\ user'[u].status = user[u].status /\ user'[u].email = user[u].email
      /\ user'[u].password = TRUE
      /\ \A v \in Users : v # u => user'[v] = user[v]
  BY <1>1 DEF IInv, Typed, Account
<1>3. user' \in [Users -> Account]
  <2>1. user[u] \in Account
    BY <1>1 DEF IInv, Typed
  <2>2. [user[u] EXCEPT !.password = TRUE] \in Account
    BY <2>1, AccountRecord
  <2> QED
    BY <1>1, <2>2 DEF IInv, Typed
<1>4. \A j \in Tokens : [token[j] EXCEPT !.status = "consumed"] \in Token
  BY DEF IInv, Typed, Token
<1>5. /\ token' \in [Tokens -> Token]
      /\ \A j \in Tokens : j \in treq[r].open => token'[j].status = "consumed"
      /\ \A j \in Tokens : j \notin treq[r].open => token'[j] = token[j]
  BY <1>4 DEF IInv, Typed, Token
<1>6. Typed'
  BY <1>1, <1>3, <1>5, TokenEndsEffect DEF IInv, Typed
<1>7. UniqueIdentities' /\ OneAccountPerEmail' /\ CanSignIn'
  BY <1>1, <1>2, AccountKept DEF Exists
<1>8. Whole' /\ TransactionOnce'
  BY <1>5 DEF IInv, Tables, Whole, TransactionOnce
<1>9. TokenOnce'
  BY <1>1, <1>5 DEF IInv, Tables, TokenOnce, Typed
<1>10. WritesOwn(r)
  <2>1. \A j \in Tokens :
          tokenLock[j] \notin {None, r} /\ token[j].status # "absent" => token'[j] = token[j]
    BY <1>5 DEF Free
  <2>2. \A v \in Users :
          Outstanding(v, "password_reset")' \subseteq Outstanding(v, "password_reset")
    BY <1>5 DEF Outstanding
  <2>3. \A v \in Users : userLock[v] \notin {None, r} => user'[v].status = user[v].status
    BY <1>1, <1>2
  <2>4. \A v \in Users : user[v].status # "absent" =>
          /\ user'[v].status # "absent"
          /\ Exists(v)' => Exists(v) /\ (user[v].password => user'[v].password)
    BY <1>1, <1>2 DEF Exists
  <2> QED
    BY <2>1, <2>2, <2>3, <2>4 DEF WritesOwn, RowsOf
<1>11. Requests'
  BY <1>10, TokenEndStep
<1> QED
  BY <1>6, <1>7, <1>8, <1>9, <1>11 DEF IInv, Tables

\* A verification holds its token only.
LEMMA VerifyCommitStep ==
    ASSUME IInv, NEW r \in TokenRequests, VerifyCommit(r), UNCHANGED oidcVars
    PROVE  IInv'
<1> USE RequestsApart DEF VerifyCommit, oidcVars
<1> DEFINE u == treq[r].user
           k == treq[r].token
<1>1. u \in Users /\ k \in Tokens /\ tokenLock[k] = r /\ token[k].status = "open"
  <2>1. TokenHeld(r)
    BY DEF IInv, Requests, TokenHolds
  <2> QED
    BY <2>1 DEF TokenHeld
<1>2. confirmed[k] = 0
  BY <1>1 DEF IInv, Tables, TokenOnce, Typed
<1>3. confirmed' = [confirmed EXCEPT ![k] = 1]
  BY <1>2 DEF Confirmed
<1>4. /\ user'[u].status = user[u].status /\ user'[u].email = user[u].email
      /\ user'[u].password = user[u].password
      /\ \A v \in Users : v # u => user'[v] = user[v]
  BY <1>1 DEF IInv, Typed, Account
<1>5. user' \in [Users -> Account]
  <2>1. user[u] \in Account
    BY <1>1 DEF IInv, Typed
  <2>2. [user[u] EXCEPT !.verified = TRUE] \in Account
    BY <2>1, AccountRecord
  <2> QED
    BY <1>1, <2>2 DEF IInv, Typed
<1>6. token' \in [Tokens -> Token]
  <2>1. [token[k] EXCEPT !.status = "consumed"] \in Token
    BY <1>1 DEF IInv, Typed, Token
  <2> QED
    BY <1>1, <2>1 DEF IInv, Typed
<1>7. token'[k].status = "consumed" /\ \A j \in Tokens : j # k => token'[j] = token[j]
  BY <1>1 DEF IInv, Typed, Token
<1>8. Typed'
  BY <1>1, <1>3, <1>5, <1>6, TokenEndsEffect DEF IInv, Typed
<1>9. UniqueIdentities' /\ OneAccountPerEmail' /\ CanSignIn'
  BY <1>1, <1>4, AccountKept DEF Exists
<1>10. Whole' /\ TransactionOnce'
  BY <1>7 DEF IInv, Tables, Whole, TransactionOnce
<1>11. TokenOnce'
  BY <1>1, <1>3, <1>7 DEF IInv, Tables, TokenOnce, Typed
<1>12. WritesOwn(r)
  <2>1. \A v \in Users :
          Outstanding(v, "password_reset")' \subseteq Outstanding(v, "password_reset")
    BY <1>7 DEF Outstanding
  <2>2. \A v \in Users : user[v].status # "absent" =>
          /\ user'[v].status # "absent"
          /\ Exists(v)' => Exists(v) /\ (user[v].password => user'[v].password)
    BY <1>1, <1>4 DEF Exists
  <2> QED
    BY <1>1, <1>4, <1>7, <2>1, <2>2 DEF WritesOwn, RowsOf
<1>13. Requests'
  BY <1>12, TokenEndStep
<1> QED
  BY <1>8, <1>9, <1>10, <1>11, <1>13 DEF IInv, Tables

----------------------------------------------------------------------------
(* The invariant.                                                          *)

\* At first there is nothing to hold.
LEMMA IInvInit == Init => IInv
<1> SUFFICES ASSUME Init PROVE IInv
  OBVIOUS
<1> USE DEF Init, UsersInit, OidcInit, TokensInit
<1>1. /\ NoAccount \in Account /\ NoTransaction \in Transaction /\ NoRow \in IdentityRow
      /\ OidcResting \in OidcRequest /\ NothingDone \in Completion
  BY DEF NoAccount, Account, NoTransaction, Transaction, NoRow, IdentityRow,
         OidcResting, OidcRequest, OidcStages, NothingDone, Completion
<1>2. NoToken \in Token /\ TokenResting \in TokenRequest
  BY DEF NoToken, Token, TokenResting, TokenRequest, TokenStages, Purposes
<1>3. Typed
  BY <1>1, <1>2 DEF Typed
<1>4. Tables
  BY DEF Tables, UniqueIdentities, OneAccountPerEmail, Whole, TransactionOnce, CanSignIn,
         TokenOnce, Stored, Exists, NoAccount, NoTransaction, NoRow, NothingDone, NoToken
<1>5. \A r \in OidcRequests : OidcHolds(r)
  BY DEF OidcHolds, TransactionHeld, IdentityHeld, UnlinkedHeld, OwnerHeld, MethodLeft,
         OidcResting
<1>6. \A r \in TokenRequests : TokenHolds(r)
  BY DEF TokenHolds, TokenHeld, ResetHeld, TokenResting
<1>7. IdleHoldsNothing /\ HeldExist
  BY RequestsApart DEF IdleHoldsNothing, Rests, HeldExist
<1> QED
  BY <1>3, <1>4, <1>5, <1>6, <1>7 DEF IInv, Requests

\* A stutter.
LEMMA UnchangedStep == IInv /\ UNCHANGED vars => IInv'
<1> SUFFICES ASSUME IInv, UNCHANGED vars PROVE IInv'
  OBVIOUS
<1> USE DEF vars, oidcVars, tokenVars
<1>1. Tables' /\ WritesOwn(None)
  BY QuietStep DEF Everybody, oidcTables
<1>2. Requests'
  BY <1>1, NobodyStep
<1>3. Typed'
  BY DEF IInv, Typed
<1> QED
  BY <1>1, <1>2, <1>3 DEF IInv

\* The steps of sign-in, linking and unlinking keep the invariant.
LEMMA OidcNextStep ==
    ASSUME IInv, OidcNext, UNCHANGED tokenVars
    PROVE  IInv'
<1>1. ASSUME NEW r \in OidcRequests, SignInNext(r)
      PROVE  IInv'
  BY <1>1, CallbackStep, ExchangeStep, LoginKnownStep, LoginOwnerStep, LoginCommitStep,
     LoginUnknownStep, CreateCommitStep DEF SignInNext
<1>2. ASSUME NEW r \in OidcRequests, LinkNext(r)
      PROVE  IInv'
  BY <1>2, LinkUserStep, LinkAgainStep, LinkInsertStep, UnlinkIdentityStep, LinkCheckStep,
     UnlinkReadStep, UnlinkCountStep, UnlinkCommitStep DEF LinkNext
<1> QED
  BY <1>1, <1>2, BeginStep, OidcRollbackStep DEF OidcNext

\* The steps of the account tokens keep the invariant.
LEMMA TokensNextStep ==
    ASSUME IInv, TokensNext, UNCHANGED oidcVars
    PROVE  IInv'
  BY IssueReadStep, IssueUpdateStep, IssueCommitStep, ConfirmTokenStep, ResetUserStep,
     ResetUpdateStep, ResetCommitStep, VerifyCommitStep, TokenRollbackStep DEF TokensNext

\* Every step keeps the invariant.
LEMMA IInvStep == IInv /\ [Next]_vars => IInv'
<1> SUFFICES ASSUME IInv, [Next]_vars PROVE IInv'
  OBVIOUS
<1>1. CASE UsersNext /\ UNCHANGED <<oidcVars, tokenVars>>
  BY <1>1, RegisterStep, SetStatusStep DEF UsersNext
<1>2. CASE OidcNext /\ UNCHANGED tokenVars
  BY <1>2, OidcNextStep
<1>3. CASE TokensNext /\ UNCHANGED oidcVars
  BY <1>3, TokensNextStep
<1>4. CASE \E u \in Users : DeleteUser(u)
  BY <1>4, DeleteUserStep
<1>5. CASE UNCHANGED vars
  BY <1>5, UnchangedStep
<1> QED
  BY <1>1, <1>2, <1>3, <1>4, <1>5 DEF Next

----------------------------------------------------------------------------
(* The properties of the runs.                                             *)

\* In every reachable state the rows are well formed and obey the unique
\* constraints, and a request that has ended holds no lock.
THEOREM TypeCorrect == Spec => []TypeOK
<1>1. IInv => TypeOK
  BY DEF IInv, Typed, Tables, Requests, IdleHoldsNothing, Rests, TypeOK
<1> QED
  BY <1>1, IInvInit, IInvStep, PTL DEF Spec

\* A transaction of the provider's login is completed at most once, and is
\* consumed by that: its row is locked over the exchange with the provider.
THEOREM TransactionsOnce == Spec => []TransactionOnce
<1>1. IInv => TransactionOnce
  BY DEF IInv, Tables
<1> QED
  BY <1>1, IInvInit, IInvStep, PTL DEF Spec

\* Every account that exists has a password or an identity left to sign in with,
\* whatever number of unlinking requests runs: each counts the identities of a
\* user that it keeps locked until it has deleted one.
THEOREM SignInMethodLeft == Spec => []CanSignIn
<1>1. IInv => CanSignIn
  BY DEF IInv, Tables
<1> QED
  BY <1>1, IInvInit, IInvStep, PTL DEF Spec

\* A token sent by e-mail confirms at most once: whoever confirms keeps it locked.
THEOREM TokensOnce == Spec => []TokenOnce
<1>1. IInv => TokenOnce
  BY DEF IInv, Tables
<1> QED
  BY <1>1, IInvInit, IInvStep, PTL DEF Spec

\* The account and subject that a callback completes with.
SignedIn(t) ==
    done'[t] # done[t] =>
       /\ user'[done'[t].user].status = "active"
       /\ \E x \in Rows : identity'[x] = [user |-> done'[t].user, subject |-> done'[t].subject]

\* A callback that completes for an active account with its subject signs it in.
LEMMA CompletesFor ==
    ASSUME IInv, NEW r \in OidcRequests, NEW u \in Users, Complete(r, u),
           oidc[r].at \in {"sign_in", "create", "check", "insert"},
           user'[u].status = "active",
           \E x \in Rows : identity'[x] = [user |-> u, subject |-> oidc[r].subject]
    PROVE  \A t \in Transactions : SignedIn(t)
  BY CompleteEffect DEF SignedIn

\* Every step that completes a transaction is such a callback.
LEMMA OidcSignsInOwner ==
    ASSUME IInv, OidcNext, UNCHANGED tokenVars
    PROVE  \A t \in Transactions : SignedIn(t)
<1>1. CASE UNCHANGED done
  BY <1>1 DEF SignedIn
<1>2. ASSUME NEW r \in OidcRequests, LoginCommit(r)
      PROVE  \A t \in Transactions : SignedIn(t)
  <2>1. /\ oidc[r].at = "sign_in" /\ oidc[r].user \in Users /\ Active(oidc[r].user)
        /\ oidc[r].row \in Rows
        /\ identity[oidc[r].row] = [user |-> oidc[r].user, subject |-> oidc[r].subject]
    BY <1>2 DEF LoginCommit, IInv, Requests, OidcHolds, OwnerHeld, IdentityHeld
  <2> QED
    BY <1>2, <2>1, CompletesFor DEF LoginCommit, Active
<1>3. ASSUME NEW r \in OidcRequests, NEW x \in Rows, LinkAgain(r, x)
      PROVE  \A t \in Transactions : SignedIn(t)
  <2>1. oidc[r].at = "check" /\ oidc[r].user \in Users /\ Active(oidc[r].user)
    BY <1>3 DEF LinkAgain, IInv, Requests, OidcHolds, OwnerHeld
  <2> QED
    BY <1>3, <2>1, CompletesFor DEF LinkAgain, Active
<1>4. ASSUME NEW r \in OidcRequests, NEW x \in Rows, LinkInsert(r, x)
      PROVE  \A t \in Transactions : SignedIn(t)
  <2>1. oidc[r].at = "insert" /\ oidc[r].user \in Users /\ Active(oidc[r].user)
    BY <1>4 DEF LinkInsert, IInv, Requests, OidcHolds, OwnerHeld
  <2>2. identity'[x] = [user |-> oidc[r].user, subject |-> oidc[r].subject]
    BY <1>4 DEF LinkInsert, IInv, Typed
  <2> QED
    BY <1>4, <2>1, <2>2, CompletesFor DEF LinkInsert, Active
<1>5. ASSUME NEW r \in OidcRequests, NEW u \in Users, NEW x \in Rows, CreateCommit(r, u, x)
      PROVE  \A t \in Transactions : SignedIn(t)
  <2>1. /\ oidc[r].at = "create" /\ user'[u].status = "active"
        /\ identity'[x] = [user |-> u, subject |-> oidc[r].subject]
    BY <1>5 DEF CreateCommit, IInv, Typed
  <2> QED
    BY <1>5, <2>1, CompletesFor DEF CreateCommit
<1>6. ASSUME NEW r \in OidcRequests, SignInNext(r)
      PROVE  \A t \in Transactions : SignedIn(t)
  BY <1>1, <1>2, <1>5, <1>6 DEF SignInNext, Callback, Exchange, LoginKnown, LoginOwner,
     LoginUnknown, oidcTables
<1>7. ASSUME NEW r \in OidcRequests, LinkNext(r)
      PROVE  \A t \in Transactions : SignedIn(t)
  BY <1>1, <1>3, <1>4, <1>7 DEF LinkNext, LinkUser, UnlinkIdentity, LinkCheck, UnlinkRead,
     UnlinkCount, UnlinkCommit, oidcTables
<1>8. ASSUME NEW r \in OidcRequests, OidcRollback(r)
      PROVE  \A t \in Transactions : SignedIn(t)
  BY <1>1, <1>8 DEF OidcRollback, oidcTables
<1>9. CASE \E t \in Transactions, i \in Issuers, intent \in {"login", "link"},
              u \in Users \cup {None} : Begin(t, intent, u, i)
  BY <1>1, <1>9 DEF Begin
<1> QED
  BY <1>6, <1>7, <1>8, <1>9 DEF OidcNext

\* A completed callback signs in, or links to, an account that is active at that
\* moment and owns the subject: nobody disables or deletes the account or unlinks
\* the identity between the reads and the commit.
THEOREM SignsInItsOwner == Spec => SignsInOwner
<1>1. IInv /\ [Next]_vars =>
        [\A t \in Transactions :
          done'[t] # done[t] =>
             /\ user'[done'[t].user].status = "active"
             /\ \E x \in Rows : identity'[x] = [user |-> done'[t].user,
                                               subject |-> done'[t].subject]]_vars
  <2> SUFFICES ASSUME IInv, Next
               PROVE  \A t \in Transactions : SignedIn(t)
    BY DEF SignedIn
  <2>1. CASE OidcNext /\ UNCHANGED tokenVars
    BY <2>1, OidcSignsInOwner
  <2>2. CASE UNCHANGED oidcVars
    BY <2>2 DEF SignedIn, oidcVars
  <2>3. CASE \E u \in Users : DeleteUser(u)
    BY <2>3 DEF SignedIn, DeleteUser, DropIdentities
  <2> QED
    BY <2>1, <2>2, <2>3 DEF Next
<1> QED
  BY <1>1, IInvInit, IInvStep, PTL DEF Spec, SignsInOwner

\* No reset token of the account of a confirmed one is left open.
AllConsumed(k) ==
    confirmed'[k] # confirmed[k] /\ token[k].purpose = "password_reset" =>
       \A j \in Tokens :
          token'[j].user = token[k].user /\ token'[j].purpose = "password_reset" =>
             token'[j].status # "open"

\* A reset that commits leaves no reset token of its account open.
LEMMA ResetConsumes ==
    ASSUME IInv, NEW r \in TokenRequests, ResetCommit(r)
    PROVE  \A k \in Tokens : AllConsumed(k)
<1> DEFINE u == treq[r].user
<1>1. /\ treq[r].token \in Tokens /\ token[treq[r].token].user = u
      /\ Outstanding(u, "password_reset") \subseteq treq[r].open
      /\ \A k \in Tokens : confirmed'[k] # confirmed[k] => k = treq[r].token
  <2>1. /\ treq[r].token \in Tokens
        /\ token[treq[r].token] = [status |-> "open", purpose |-> "password_reset", user |-> u]
        /\ Outstanding(u, "password_reset") \subseteq treq[r].open
        /\ confirmed' = [confirmed EXCEPT ![treq[r].token] = 1]
    BY ResetCommitEffect
  <2> QED
    BY <2>1 DEF IInv, Typed
<1>2. ASSUME NEW j \in Tokens, token'[j].user = u, token'[j].purpose = "password_reset",
             token'[j].status = "open"
      PROVE  FALSE
  <2>1. j \notin treq[r].open /\ token'[j] = token[j]
    BY <1>2 DEF ResetCommit, IInv, Typed, Token
  <2>2. token[j] = [status |-> "open", purpose |-> "password_reset", user |-> u]
    BY <1>2, <2>1 DEF IInv, Typed, Token
  <2> QED
    BY <1>1, <2>1, <2>2 DEF Outstanding
<1> QED
  BY <1>1, <1>2 DEF AllConsumed

\* A reset leaves no other reset token of the account, although tokens may be
\* issued at the same time: whoever issues one waits for the user's row, and the
\* reset takes its snapshot after it has locked that row.
THEOREM ResetsConsumeAll == Spec => ResetConsumesAll
<1>1. IInv /\ [Next]_vars =>
        [\A k \in Tokens :
          confirmed'[k] # confirmed[k] /\ token[k].purpose = "password_reset" =>
             \A j \in Tokens :
                token'[j].user = token[k].user /\ token'[j].purpose = "password_reset" =>
                   token'[j].status # "open"]_vars
  <2> SUFFICES ASSUME IInv, Next
               PROVE  \A k \in Tokens : AllConsumed(k)
    BY DEF AllConsumed
  <2>1. CASE UNCHANGED confirmed
    BY <2>1 DEF AllConsumed
  <2>2. ASSUME NEW r \in TokenRequests, VerifyCommit(r)
        PROVE  \A k \in Tokens : AllConsumed(k)
    <3>1. treq[r].token \in Tokens /\ token[treq[r].token].purpose = "email_verification"
      <4>1. TokenHeld(r)
        BY DEF IInv, Requests, TokenHolds
      <4> QED
        BY <2>2, <4>1 DEF VerifyCommit, TokenHeld
    <3>2. \A k \in Tokens : confirmed'[k] # confirmed[k] => k = treq[r].token
      BY <2>2 DEF VerifyCommit, Confirmed, IInv, Typed
    <3> QED
      BY <3>1, <3>2 DEF AllConsumed
  <2>3. CASE TokensNext
    BY <2>1, <2>2, <2>3, ResetConsumes DEF TokensNext, IssueRead, IssueUpdate, IssueCommit,
       ConfirmToken, ResetUser, ResetUpdate, TokenRollback
  <2> QED
    BY <2>1, <2>3 DEF Next, tokenVars, DeleteUser, DropTokens
<1> QED
  BY <1>1, IInvInit, IInvStep, PTL DEF Spec, ResetConsumesAll

=============================================================================
