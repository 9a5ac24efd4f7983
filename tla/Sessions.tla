------------------------------ MODULE Sessions ------------------------------
(***************************************************************************)
(* Device sessions: the refresh tokens of one user and every request that  *)
(* issues, rotates or revokes them (auth/login.py, auth/refresh.py,        *)
(* services/session_issuance.py, services/sessions.py, api/v1/admin.py,    *)
(* services/password_reset.py).                                            *)
(*                                                                         *)
(* Each request is one PostgreSQL transaction at READ COMMITTED.  Its      *)
(* statements are separate steps, so that requests interleave where the    *)
(* database lets them:                                                     *)
(*   - SELECT ... FOR UPDATE waits for the row and reads its latest        *)
(*     version; the lock is held until the transaction ends;               *)
(*   - a plain SELECT reads the last committed version and waits for       *)
(*     nobody;                                                             *)
(*   - UPDATE ... WHERE selects its rows from the snapshot taken when the  *)
(*     statement starts, waits for each row in turn and tests the WHERE    *)
(*     clause again on the row's latest version.  It never sees a row that *)
(*     was committed after its snapshot;                                   *)
(*   - inserting a refresh token takes FOR KEY SHARE on the user's row     *)
(*     (its foreign key), which waits for FOR UPDATE and for nothing else; *)
(*   - attribute changes of loaded objects are written by the flush at     *)
(*     commit, after every explicit statement.                             *)
(* The variables hold committed data, locks and the requests' own memory.  *)
(*                                                                         *)
(* A family is named by the token that started it.  Token expiry only      *)
(* refuses a request without changing anything, and is left out.           *)
(***************************************************************************)
EXTENDS Naturals, FiniteSets

CONSTANTS
    Tokens,      \* refresh tokens that can be generated
    Requests,    \* requests that can be in flight at once
    NoToken,     \* the request is not about one token
    NoRequest    \* nobody holds the lock

ASSUME SessionsAssumption == NoRequest \notin Requests /\ NoToken \notin Tokens

VARIABLES
    state,       \* state[t]: the committed refresh_tokens row of t
    family,      \* family[t]: its family_id
    active,      \* users.is_active, as committed
    tokenLock,   \* tokenLock[t]: the request that holds t's row lock
    userLock,    \* the request that holds the user's row FOR UPDATE
    req          \* req[r]: what request r is doing

vars == <<state, family, active, tokenLock, userLock, req>>

States == {"absent", "live", "revoked"}

\* What a request does.  "replay" is a refresh that met a revoked token,
\* "inactive" one that met a disabled account.
Kinds == {"none", "login", "refresh", "replay", "inactive", "logout",
          "revoke_family", "revoke_all", "disable", "enable", "reset"}

\* The statement it executes next: lock or read the user, start or continue an
\* UPDATE of refresh_tokens, commit.
Stages == {"idle", "lock_user", "read_user", "commit", "snapshot", "update"}

Request == [kind : Kinds, at : Stages, token : Tokens \cup {NoToken},
            todo : SUBSET Tokens, hit : SUBSET Tokens]

Resting == [kind |-> "none", at |-> "idle", token |-> NoToken, todo |-> {}, hit |-> {}]

Live(t) == state[t] = "live"
Started == {t \in Tokens : state[t] # "absent" /\ family[t] = t}
FamilyDead(f) == \A t \in Tokens : family[t] = f => ~Live(t)

Idle(r) == req[r].at = "idle"

\* Request r starts (or goes on) as the given kind of request.
Goes(r, kind, at, t) ==
    req' = [req EXCEPT ![r] = [kind |-> kind, at |-> at, token |-> t,
                               todo |-> {}, hit |-> {}]]

\* Mutant: the end of a transaction leaves the user's row locked.
EndsLocked(r) ==
    /\ req' = [req EXCEPT ![r] = Resting]
    /\ tokenLock' = [t \in Tokens |-> IF tokenLock[t] = r THEN NoRequest
                                                          ELSE tokenLock[t]]
    /\ UNCHANGED userLock

\* Its transaction ends: every lock is released.
Ends(r) ==
    /\ req' = [req EXCEPT ![r] = Resting]
    /\ tokenLock' = [t \in Tokens |-> IF tokenLock[t] = r THEN NoRequest
                                                          ELSE tokenLock[t]]
    /\ userLock' = IF userLock = r THEN NoRequest ELSE userLock

Init ==
    /\ state = [t \in Tokens |-> "absent"]
    /\ family = [t \in Tokens |-> t]
    /\ active = TRUE
    /\ tokenLock = [t \in Tokens |-> NoRequest]
    /\ userLock = NoRequest
    /\ req = [r \in Requests |-> Resting]

rows == <<state, family, active>>
locks == <<tokenLock, userLock>>

----------------------------------------------------------------------------
(* Login and session issuance.                                             *)

\* login reads the user without a lock and verifies the password.
LoginRead(r) ==
    /\ Idle(r)
    /\ active
    /\ Goes(r, "login", "lock_user", NoToken)
    /\ UNCHANGED <<rows, locks>>

\* Mutant: the account is not looked at again under the lock.
LoginLockUnchecked(r) ==
    /\ req[r].at = "lock_user"
    /\ userLock = NoRequest
    /\ userLock' = r
    /\ Goes(r, "login", "commit", NoToken)
    /\ UNCHANGED <<rows, tokenLock>>

\* prepare_session_tokens locks the user, reads it again and looks at
\* is_active; a disabled account ends the request with 401.
LoginLock(r) ==
    /\ req[r].at = "lock_user"
    /\ userLock = NoRequest
    /\ IF active
       THEN /\ userLock' = r
            /\ Goes(r, "login", "commit", NoToken)
            /\ UNCHANGED tokenLock
       ELSE Ends(r)
    /\ UNCHANGED rows

\* A token of a new family is inserted and committed.
LoginCommit(r, t) ==
    /\ req[r].kind = "login"
    /\ req[r].at = "commit"
    /\ state[t] = "absent"
    /\ state' = [state EXCEPT ![t] = "live"]
    /\ Ends(r)
    /\ UNCHANGED <<family, active>>

----------------------------------------------------------------------------
(* Refresh and logout.                                                     *)

\* Mutant: the token is read without FOR UPDATE.
ReadToken(r, t) ==
    /\ Idle(r)
    /\ state[t] # "absent"
    /\ UNCHANGED tokenLock

\* SELECT ... FOR UPDATE on a submitted token.
LockToken(r, t) ==
    /\ Idle(r)
    /\ state[t] # "absent"
    /\ tokenLock[t] = NoRequest
    /\ tokenLock' = [tokenLock EXCEPT ![t] = r]

\* refresh_access_token: a live token goes on to rotation, a revoked one
\* revokes its family.
RefreshLock(r, t) ==
    /\ LockToken(r, t)
    /\ IF Live(t) THEN Goes(r, "refresh", "read_user", t)
                  ELSE Goes(r, "replay", "snapshot", t)
    /\ UNCHANGED <<rows, userLock>>

\* The user is read without a lock; a disabled account loses every session.
RefreshReadUser(r) ==
    /\ req[r].kind = "refresh"
    /\ req[r].at = "read_user"
    /\ IF active THEN Goes(r, "refresh", "commit", req[r].token)
                 ELSE Goes(r, "inactive", "snapshot", req[r].token)
    /\ UNCHANGED <<rows, locks>>

\* Rotation: revoke the token, insert its successor t in the same family.  The
\* insert waits for a request that holds the user FOR UPDATE.
RefreshCommit(r, t) ==
    /\ req[r].kind = "refresh"
    /\ req[r].at = "commit"
    /\ userLock = NoRequest
    /\ state[t] = "absent"
    /\ state' = [state EXCEPT ![req[r].token] = "revoked", ![t] = "live"]
    /\ family' = [family EXCEPT ![t] = family[req[r].token]]
    /\ Ends(r)
    /\ UNCHANGED active

\* revoke_refresh_token locks the submitted token, whatever its state.
Logout(r, t) ==
    /\ LockToken(r, t)
    /\ Goes(r, "logout", "snapshot", t)
    /\ UNCHANGED <<rows, userLock>>

----------------------------------------------------------------------------
(* Revocation by the user, an administrator or a password reset.           *)

\* DELETE of one session or of all of them; get_current_user refuses a
\* disabled account.  No lock is taken first.
RevokeSession(r, f) ==
    /\ Idle(r)
    /\ active
    /\ f \in Started
    /\ Goes(r, "revoke_family", "snapshot", f)
    /\ UNCHANGED <<rows, locks>>

RevokeAllSessions(r) ==
    /\ Idle(r)
    /\ active
    /\ Goes(r, "revoke_all", "snapshot", NoToken)
    /\ UNCHANGED <<rows, locks>>

\* update_user_status(is_active = FALSE) reads the user without a lock.  If the
\* account was already inactive the flush has no changed column to write.
Disable(r) ==
    /\ Idle(r)
    /\ Goes(r, IF active THEN "disable" ELSE "revoke_all", "snapshot", NoToken)
    /\ UNCHANGED <<rows, locks>>

\* update_user_status(is_active = TRUE) of an account it read as inactive; the
\* flush waits for a request that holds the user FOR UPDATE.
Enable(r) ==
    /\ Idle(r)
    /\ ~active
    /\ Goes(r, "enable", "commit", NoToken)
    /\ UNCHANGED <<rows, locks>>

EnableCommit(r) ==
    /\ req[r].kind = "enable"
    /\ req[r].at = "commit"
    /\ userLock = NoRequest
    /\ active' = TRUE
    /\ Ends(r)
    /\ UNCHANGED <<state, family>>

\* Mutant: the user is read without FOR UPDATE.
ResetRead(r) ==
    /\ Idle(r)
    /\ active
    /\ Goes(r, "reset", "snapshot", NoToken)
    /\ UNCHANGED <<rows, locks>>

\* confirm_password_reset locks the user and refuses a disabled account.
ResetLock(r) ==
    /\ Idle(r)
    /\ userLock = NoRequest
    /\ active
    /\ userLock' = r
    /\ Goes(r, "reset", "snapshot", NoToken)
    /\ UNCHANGED <<rows, tokenLock>>

\* The tokens the WHERE clause of r's UPDATE is about.
Scope(r) ==
    IF req[r].kind \in {"replay", "logout", "revoke_family"}
    THEN {t \in Tokens : family[t] = family[req[r].token]}
    ELSE Tokens

\* The UPDATE starts: its snapshot decides which rows it will visit.
UpdateSnapshot(r) ==
    /\ req[r].at = "snapshot"
    /\ req' = [req EXCEPT ![r].at = "update", ![r].todo = {t \in Scope(r) : Live(t)}]
    /\ UNCHANGED <<rows, locks>>

\* It visits the next row, once nobody else has it locked; a row that is no
\* longer live is skipped.
UpdateRow(r, t) ==
    /\ req[r].at = "update"
    /\ t \in req[r].todo
    /\ tokenLock[t] \in {NoRequest, r}
    /\ IF Live(t)
       THEN /\ tokenLock' = [tokenLock EXCEPT ![t] = r]
            /\ req' = [req EXCEPT ![r].todo = @ \ {t}, ![r].hit = @ \cup {t}]
       ELSE /\ req' = [req EXCEPT ![r].todo = @ \ {t}]
            /\ UNCHANGED tokenLock
    /\ UNCHANGED <<rows, userLock>>

\* The transaction commits.  Disabling flushes users.is_active now, after the
\* UPDATE, and waits for a request that holds the user FOR UPDATE.
RevokeCommit(r) ==
    /\ req[r].at = "update"
    /\ req[r].todo = {}
    /\ req[r].kind = "disable" => userLock = NoRequest
    /\ state' = [t \in Tokens |-> IF t \in req[r].hit THEN "revoked" ELSE state[t]]
    /\ active' = (active /\ req[r].kind # "disable")
    /\ Ends(r)
    /\ UNCHANGED family

\* The transaction fails: a lost connection, or the deadlock detector's victim.
Rollback(r) ==
    /\ ~Idle(r)
    /\ Ends(r)
    /\ UNCHANGED rows

----------------------------------------------------------------------------
Login(r) == LoginRead(r) \/ LoginLock(r) \/ \E t \in Tokens : LoginCommit(r, t)

Refresh(r) ==
    \/ \E t \in Tokens : RefreshLock(r, t) \/ RefreshCommit(r, t)
    \/ RefreshReadUser(r)

Revoke(r) ==
    \/ \E t \in Tokens : Logout(r, t) \/ RevokeSession(r, t) \/ UpdateRow(r, t)
    \/ RevokeAllSessions(r) \/ Disable(r) \/ Enable(r) \/ EnableCommit(r)
    \/ ResetLock(r)
    \/ UpdateSnapshot(r) \/ RevokeCommit(r)

Next == \E r \in Requests : Login(r) \/ Refresh(r) \/ Revoke(r) \/ Rollback(r)

Spec == Init /\ [][Next]_vars

----------------------------------------------------------------------------
(* Properties.                                                             *)

\* The committed rows, and locks that only requests in flight hold.
TypeOK ==
    /\ state \in [Tokens -> States]
    /\ family \in [Tokens -> Tokens]
    /\ active \in BOOLEAN
    /\ tokenLock \in [Tokens -> Requests \cup {NoRequest}]
    /\ userLock \in Requests \cup {NoRequest}
    /\ req \in [Requests -> Request]
    /\ userLock # NoRequest => ~Idle(userLock)
    /\ \A t \in Tokens : tokenLock[t] # NoRequest => ~Idle(tokenLock[t])

\* A device has one usable refresh token, however rotations of it race.
AtMostOneLive ==
    \A t, u \in Tokens : Live(t) /\ Live(u) /\ family[t] = family[u] => t = u

\* Once a session has no usable token it never gets one again: no rotation in
\* flight can bring back a family that was revoked.
DeadFamiliesStayDead ==
    [][\A f \in Tokens : f \in Started /\ FamilyDead(f) => FamilyDead(f)']_vars

\* A password reset leaves no session behind, in spite of rotations and logins
\* under way.  Only the lock on the user's row makes it so: a rotation's insert
\* waits for it (or is the deadlock victim), a login waits for it.
ResetRevokesAll ==
    [][\A r \in Requests : req[r].kind = "reset" /\ RevokeCommit(r)
                           => \A t \in Tokens : state'[t] # "live"]_vars

\* Logging out with the session's current token ends the session: while the
\* token is locked nobody can rotate it.  (With a rotated token that is not so,
\* see ReplayRevokesFamily.)
LogoutEndsSession ==
    [][\A r \in Requests, f \in Tokens :
          /\ req[r].kind = "logout" /\ RevokeCommit(r)
          /\ Live(req[r].token) /\ f = family[req[r].token]
          => FamilyDead(f)']_vars

\* A session is started only while the account is active, although login first
\* looked at the account without a lock.
SessionsStartActive ==
    [][\A t \in Tokens : t \notin Started /\ t \in Started' => active]_vars

\* ARCHITECTURE.md, Authentication lifecycle 6: "Disabling a user through the
\* admin status endpoint atomically marks the account inactive and revokes every
\* refresh-token session".
DisableRevokesAll ==
    [][active /\ ~active' => \A t \in Tokens : state'[t] # "live"]_vars

\* ARCHITECTURE.md, Authentication lifecycle 4: "Replay of a rotated token
\* revokes the family's live descendant".
ReplayRevokesFamily ==
    [][\A r \in Requests, f \in Tokens :
          req[r].kind = "replay" /\ RevokeCommit(r) /\ f = family[req[r].token]
          => FamilyDead(f)']_vars

============================================================================
