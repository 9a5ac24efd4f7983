---------------------------- MODULE AccountTokens ---------------------------
(***************************************************************************)
(* The tokens that are sent to an account's e-mail address, to reset its   *)
(* password (services/password_reset.py) or to verify the address          *)
(* (services/email_verification.py).                                       *)
(*                                                                         *)
(* Issuing consumes the outstanding tokens in one UPDATE and inserts a new *)
(* one.  The insert refers to the user and waits for a request that holds  *)
(* it FOR UPDATE, as a reset does.  No handler changes an e-mail, so the   *)
(* comparison with the token's target never fails.  Expiry only refuses.   *)
(***************************************************************************)
EXTENDS Users, Integers

CONSTANTS
    Tokens,         \* tokens, each issued at most once
    TokenRequests   \* requests of this module in flight at once

VARIABLES
    token,      \* token[k]: the stored token k
    tokenLock,  \* tokenLock[k]: the request that holds it FOR UPDATE
    treq,       \* treq[r]: what request r is doing and has read
    confirmed   \* confirmed[k]: confirmations that token k has passed, up to two

tokenVars == <<token, tokenLock, treq, confirmed>>

Purposes == {"password_reset", "email_verification"}

Token == [status : {"absent", "open", "consumed"}, purpose : Purposes, user : Users \cup {None}]

NoToken == [status |-> "absent", purpose |-> "password_reset", user |-> None]

TokenStages == {"idle", "update", "insert", "confirm", "outstanding", "reset"}

TokenRequest == [at : TokenStages, purpose : Purposes, user : Users \cup {None},
                 token : Tokens \cup {None}, open : SUBSET Tokens]

TokenResting == [at |-> "idle", purpose |-> "password_reset", user |-> None,
                 token |-> None, open |-> {}]

Outstanding(u, p) ==
    {k \in Tokens : token[k] = [status |-> "open", purpose |-> p, user |-> u]}

\* Nobody but r holds one of the tokens that its UPDATE has to write.
Free(r) == \A k \in treq[r].open : tokenLock[k] \in {None, r}

\* The transaction of request r ends and gives up its locks.
TokenEnds(r) ==
    /\ treq' = [treq EXCEPT ![r] = TokenResting]
    /\ tokenLock' = [k \in Tokens |-> IF tokenLock[k] = r THEN None ELSE tokenLock[k]]
    /\ userLock' = [u \in Users |-> IF userLock[u] = r THEN None ELSE userLock[u]]

TokensInit ==
    /\ token = [k \in Tokens |-> NoToken]
    /\ tokenLock = [k \in Tokens |-> None]
    /\ treq = [r \in TokenRequests |-> TokenResting]
    /\ confirmed = [k \in Tokens |-> 0]

----------------------------------------------------------------------------
(* Issuing.                                                                *)

\* Who is sent a token.
Addressed(u, p) ==
    /\ user[u].email # None
    /\ CASE p = "password_reset" -> Active(u) /\ user[u].verified
         [] OTHER -> Exists(u) /\ ~user[u].verified

IssueRead(r, u, p) ==
    /\ treq[r].at = "idle"
    /\ Addressed(u, p)
    /\ treq' = [treq EXCEPT ![r].at = "update", ![r].purpose = p, ![r].user = u]
    /\ UNCHANGED <<user, userLock, token, tokenLock, confirmed>>

\* The snapshot of the UPDATE.
IssueUpdate(r) ==
    /\ treq[r].at = "update"
    /\ treq' = [treq EXCEPT ![r].at = "insert",
                            ![r].open = Outstanding(treq[r].user, treq[r].purpose)]
    /\ UNCHANGED <<user, userLock, token, tokenLock, confirmed>>

\* Mutant: the new row does not refer to the user's.
NoReference(u) == TRUE

\* The foreign key of the new row.
Referenced(u) == Exists(u) /\ Unlocked(u)

IssueCommit(r, k) ==
    /\ treq[r].at = "insert"
    /\ token[k].status = "absent"
    /\ Free(r)
    /\ Referenced(treq[r].user)
    /\ token' = [j \in Tokens |->
          IF j = k THEN [status |-> "open", purpose |-> treq[r].purpose, user |-> treq[r].user]
          ELSE IF j \in treq[r].open THEN [token[j] EXCEPT !.status = "consumed"]
          ELSE token[j]]
    /\ TokenEnds(r)
    /\ UNCHANGED <<user, confirmed>>

----------------------------------------------------------------------------
(* Confirming.                                                             *)

\* Mutant: the token is read without FOR UPDATE.
ReadToken(r, k) == tokenLock[k] = None /\ UNCHANGED tokenLock

LockToken(r, k) == tokenLock[k] = None /\ tokenLock' = [tokenLock EXCEPT ![k] = r]

ConfirmToken(r, k) ==
    /\ treq[r].at = "idle"
    /\ LockToken(r, k)
    /\ token[k].status = "open"
    /\ treq' = [treq EXCEPT ![r].at = "confirm", ![r].purpose = token[k].purpose,
                            ![r].user = token[k].user, ![r].token = k]
    /\ UNCHANGED <<user, userLock, token, confirmed>>

Confirmed(k) == confirmed' = [confirmed EXCEPT ![k] = IF @ < 2 THEN @ + 1 ELSE @]

\* Mutant: the user is read without FOR UPDATE.
ReadUser(r, u) == Unlocked(u) /\ UNCHANGED userLock

LockUser(r, u) == Unlocked(u) /\ userLock' = [userLock EXCEPT ![u] = r]

\* confirm_password_reset locks the user too.
ResetUser(r) ==
    /\ treq[r].at = "confirm"
    /\ treq[r].purpose = "password_reset"
    /\ LockUser(r, treq[r].user)
    /\ Active(treq[r].user)
    /\ user[treq[r].user].verified
    /\ treq' = [treq EXCEPT ![r].at = "outstanding"]
    /\ UNCHANGED <<user, token, tokenLock, confirmed>>

\* The snapshot of the UPDATE that consumes every outstanding reset token.
ResetUpdate(r) ==
    /\ treq[r].at = "outstanding"
    /\ treq' = [treq EXCEPT ![r].at = "reset",
                            ![r].open = Outstanding(treq[r].user, "password_reset")]
    /\ UNCHANGED <<user, userLock, token, tokenLock, confirmed>>

ResetCommit(r) ==
    /\ treq[r].at = "reset"
    /\ Free(r)
    /\ user' = [user EXCEPT ![treq[r].user].password = TRUE]
    /\ token' = [j \in Tokens |-> IF j \in treq[r].open
                                  THEN [token[j] EXCEPT !.status = "consumed"]
                                  ELSE token[j]]
    /\ Confirmed(treq[r].token)
    /\ TokenEnds(r)

\* confirm_email_verification locks the token only.
VerifyCommit(r) ==
    /\ treq[r].at = "confirm"
    /\ treq[r].purpose = "email_verification"
    /\ Exists(treq[r].user)
    /\ Unlocked(treq[r].user)
    /\ user' = [user EXCEPT ![treq[r].user].verified = TRUE]
    /\ token' = [token EXCEPT ![treq[r].token].status = "consumed"]
    /\ Confirmed(treq[r].token)
    /\ TokenEnds(r)

\* A request is refused, fails, or is the deadlock detector's victim.
TokenRollback(r) ==
    /\ treq[r].at # "idle"
    /\ TokenEnds(r)
    /\ UNCHANGED <<user, token, confirmed>>

----------------------------------------------------------------------------
TokensNext ==
    \E r \in TokenRequests :
       \/ \E u \in Users, p \in Purposes : IssueRead(r, u, p)
       \/ IssueUpdate(r)
       \/ \E k \in Tokens : IssueCommit(r, k) \/ ConfirmToken(r, k)
       \/ ResetUser(r)
       \/ ResetUpdate(r)
       \/ ResetCommit(r)
       \/ VerifyCommit(r)
       \/ TokenRollback(r)

\* The tokens of a deleted account go with it, once nobody holds them.
DropTokens(u) ==
    /\ \A k \in Tokens : token[k].user = u => tokenLock[k] = None
    /\ token' = [k \in Tokens |-> IF token[k].user = u THEN [NoToken EXCEPT !.status = "consumed"]
                                  ELSE token[k]]
    /\ UNCHANGED <<tokenLock, treq, confirmed>>

=============================================================================
