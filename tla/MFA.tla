-------------------------------- MODULE MFA ---------------------------------
(***************************************************************************)
(* The second factor of one account (services/mfa.py): TOTP enrolment,     *)
(* recovery codes, and the challenges that a login answers with a code.    *)
(*                                                                         *)
(* Every handler but the one that verifies a challenge is authenticated:   *)
(* get_current_user loads the user's row before the handler locks it, and  *)
(* the locking query does not refresh an object that the session already   *)
(* holds.  Such a handler decides on the row as it was when the request    *)
(* began.  Verifying a challenge loads the row with the lock.              *)
(*                                                                         *)
(* A secret and a batch of recovery codes are random and never drawn       *)
(* twice; one code stands for its batch.  Time is counted in TOTP steps.   *)
(* Expiry of challenges and enrolments, and wrong codes, only refuse: such *)
(* a request is one that rolls back.                                       *)
(***************************************************************************)
EXTENDS Integers

CONSTANTS
    Challenges,  \* challenge tokens
    Secrets,     \* TOTP secrets
    Batches,     \* batches of recovery codes
    Requests,    \* requests that can be in flight at once
    LastStep,    \* bound: the last TOTP step
    None         \* NULL, nobody

ASSUME MFAAssumption ==
    /\ None \notin Challenges /\ None \notin Secrets /\ None \notin Requests
    /\ LastStep \in Nat \ {0}

VARIABLES
    user,       \* the MFA columns of the user's row
    recovery,   \* recovery[b]: the stored codes of batch b
    challenge,  \* challenge[c]: the stored challenge c
    holder,     \* the request that holds the user's row FOR UPDATE
    locked,     \* locked[c]: the request that holds challenge c FOR UPDATE
    drawn,      \* the secrets and batches made so far
    now,        \* the current TOTP step
    req,        \* req[r]: what request r is doing and has read
    sessions,   \* sessions[c]: device sessions that challenge c has started
    spent,      \* spent[b]: times the recovery code of batch b was accepted
    uses        \* uses[s][t]: times the code of secret s at step t was accepted

vars == <<user, recovery, challenge, holder, locked, drawn, now, req, sessions, spent, uses>>
tables == <<user, recovery, challenge, drawn, sessions, spent, uses>>
counts == <<sessions, spent, uses>>

NoStep == 0
Steps == 1..LastStep

User == [secret : Secrets \cup {None}, enrolling : BOOLEAN, enabled : BOOLEAN,
         last : Steps \cup {NoStep}]

Plain == [secret |-> None, enrolling |-> FALSE, enabled |-> FALSE, last |-> NoStep]

Ops == {"none", "begin", "confirm", "regenerate", "disable", "verify", "login"}

Request == [op : Ops, phase : {"read", "locked"}, challenge : Challenges \cup {None},
            seen : User, codes : SUBSET Batches, open : SUBSET Challenges]

Resting == [op |-> "none", phase |-> "read", challenge |-> None, seen |-> Plain,
            codes |-> {}, open |-> {}]

Idle(r) == req[r].op = "none"

\* Mutant: it keeps the user's row.
EndsHolding(r) ==
    /\ req' = [req EXCEPT ![r] = Resting]
    /\ locked' = [c \in Challenges |-> IF locked[c] = r THEN None ELSE locked[c]]
    /\ UNCHANGED holder

\* The transaction of request r ends and gives up its locks.
Ends(r) ==
    /\ req' = [req EXCEPT ![r] = Resting]
    /\ holder' = IF holder = r THEN None ELSE holder
    /\ locked' = [c \in Challenges |-> IF locked[c] = r THEN None ELSE locked[c]]

Init ==
    /\ user = Plain
    /\ recovery = [b \in Batches |-> "absent"]
    /\ challenge = [c \in Challenges |-> "absent"]
    /\ holder = None
    /\ locked = [c \in Challenges |-> None]
    /\ drawn = {}
    /\ now = 1
    /\ req = [r \in Requests |-> Resting]
    /\ sessions = [c \in Challenges |-> 0]
    /\ spent = [b \in Batches |-> 0]
    /\ uses = [s \in Secrets |-> [t \in Steps |-> 0]]

----------------------------------------------------------------------------
(* Reading and locking the user.                                           *)

\* get_current_user, before a handler that changes the second factor.
Authenticate(r, op) ==
    /\ Idle(r)
    /\ req' = [req EXCEPT ![r] = [Resting EXCEPT !.op = op, !.seen = user]]
    /\ UNCHANGED <<tables, holder, locked, now>>

\* Mutant: the challenge is read without FOR UPDATE.
ReadChallenge(r, c) == locked[c] = None /\ UNCHANGED locked

LockChallenge(r, c) == locked[c] = None /\ locked' = [locked EXCEPT ![c] = r]

\* verify_mfa_login_challenge: the challenge is there and was not consumed.
VerifyChallenge(r, c) ==
    /\ Idle(r)
    /\ LockChallenge(r, c)
    /\ challenge[c] = "open"
    /\ req' = [req EXCEPT ![r] = [Resting EXCEPT !.op = "verify", !.challenge = c]]
    /\ UNCHANGED <<tables, holder, now>>

\* Mutant: the user is read without FOR UPDATE.
ReadUser(r) == holder = None /\ UNCHANGED holder

\* _lock_user.
LockUser(r) == holder = None /\ holder' = r

\* The user object after the lock: the identity map keeps the one it has.
Loaded(r) == IF req[r].op = "verify" THEN user ELSE req[r].seen

\* Mutant: a challenge is accepted whether MFA is enabled or not.
AcceptsAny(op, u) ==
    CASE op = "begin" -> ~u.enabled
      [] op = "confirm" -> ~u.enabled /\ u.enrolling
      [] op \in {"regenerate", "disable"} -> u.enabled
      [] OTHER -> TRUE

\* What each handler wants of the user it has loaded.
Accepts(op, u) ==
    CASE op = "begin" -> ~u.enabled
      [] op = "confirm" -> ~u.enabled /\ u.enrolling
      [] OTHER -> u.enabled

\* The handler locks the user and goes on; a later DELETE of recovery codes
\* removes those that are there now.
Lock(r) ==
    /\ req[r].op \notin {"none", "login"}
    /\ req[r].phase = "read"
    /\ LockUser(r)
    /\ Accepts(req[r].op, Loaded(r))
    /\ req' = [req EXCEPT ![r].phase = "locked", ![r].seen = Loaded(r),
                          ![r].codes = {b \in Batches : recovery[b] # "absent"}]
    /\ UNCHANGED <<tables, locked, now>>

Holds(r, op) == req[r].op = op /\ req[r].phase = "locked"

----------------------------------------------------------------------------
(* Codes.                                                                  *)

\* _matching_totp_counter: a code of the secret, of this step or a neighbour,
\* and later than the last one accepted.
Matches(u, t) ==
    /\ u.secret # None
    /\ t \in (now - 1)..(now + 1)
    /\ t > u.last

AcceptTotp(u, t) ==
    /\ Matches(u, t)
    /\ uses' = [uses EXCEPT ![u.secret][t] = @ + 1]

\* Mutant: a used code is found again.
Stored(b) == recovery[b] # "absent"

\* The query of _consume_recovery_code.
Unused(b) == recovery[b] = "unused"

\* _replace_recovery_codes: the DELETE, then the INSERTs.
Replaced(r, new) ==
    [b \in Batches |-> IF b \in new THEN "unused"
                       ELSE IF b \in req[r].codes THEN "absent" ELSE recovery[b]]

----------------------------------------------------------------------------
(* Changing the second factor.                                             *)

\* begin_totp_enrollment: a new secret; last is reset if it was seen set.
Begin(r, s) ==
    /\ Holds(r, "begin")
    /\ s \notin drawn
    /\ drawn' = drawn \cup {s}
    /\ user' = [user EXCEPT !.secret = s, !.enrolling = TRUE,
                            !.last = IF req[r].seen.last = NoStep THEN @ ELSE NoStep]
    /\ recovery' = Replaced(r, {})
    /\ Ends(r)
    /\ UNCHANGED <<challenge, now, counts>>

\* confirm_totp_enrollment.
Confirm(r, t, b) ==
    /\ Holds(r, "confirm")
    /\ AcceptTotp(req[r].seen, t)
    /\ b \notin drawn
    /\ drawn' = drawn \cup {b}
    /\ user' = [user EXCEPT !.enabled = TRUE, !.enrolling = FALSE, !.last = t]
    /\ recovery' = Replaced(r, {b})
    /\ Ends(r)
    /\ UNCHANGED <<challenge, now, sessions, spent>>

\* regenerate_recovery_codes.
Regenerate(r, t, b) ==
    /\ Holds(r, "regenerate")
    /\ AcceptTotp(req[r].seen, t)
    /\ b \notin drawn
    /\ drawn' = drawn \cup {b}
    /\ user' = [user EXCEPT !.last = t]
    /\ recovery' = Replaced(r, {b})
    /\ Ends(r)
    /\ UNCHANGED <<challenge, now, sessions, spent>>

\* disable_mfa clears the columns that were seen set.
Cleared(seen) ==
    [secret    |-> IF seen.secret = None THEN user.secret ELSE None,
     enrolling |-> IF seen.enrolling THEN FALSE ELSE user.enrolling,
     enabled   |-> FALSE,
     last      |-> IF seen.last = NoStep THEN user.last ELSE NoStep]

DisableByTotp(r, t) ==
    /\ Holds(r, "disable")
    /\ AcceptTotp(req[r].seen, t)
    /\ user' = Cleared(req[r].seen)
    /\ recovery' = Replaced(r, {})
    /\ Ends(r)
    /\ UNCHANGED <<challenge, drawn, now, sessions, spent>>

DisableByRecovery(r, b) ==
    /\ Holds(r, "disable")
    /\ Unused(b)
    /\ spent' = [spent EXCEPT ![b] = @ + 1]
    /\ user' = Cleared(req[r].seen)
    /\ recovery' = Replaced(r, {})
    /\ Ends(r)
    /\ UNCHANGED <<challenge, drawn, now, sessions, uses>>

----------------------------------------------------------------------------
(* Logging in.                                                             *)

\* The challenge is consumed and a device session starts.
StartSession(r) ==
    LET c == req[r].challenge IN
    /\ challenge' = [challenge EXCEPT ![c] = "consumed"]
    /\ sessions' = [sessions EXCEPT ![c] = @ + 1]

VerifyByTotp(r, t) ==
    /\ Holds(r, "verify")
    /\ AcceptTotp(req[r].seen, t)
    /\ user' = [user EXCEPT !.last = t]
    /\ StartSession(r)
    /\ Ends(r)
    /\ UNCHANGED <<recovery, drawn, now, spent>>

VerifyByRecovery(r, b) ==
    /\ Holds(r, "verify")
    /\ Unused(b)
    /\ spent' = [spent EXCEPT ![b] = @ + 1]
    /\ recovery' = [recovery EXCEPT ![b] = "used"]
    /\ StartSession(r)
    /\ Ends(r)
    /\ UNCHANGED <<user, drawn, now, uses>>

\* login: the first factor is right and MFA was enabled when it was checked.
Login(r) ==
    /\ Idle(r)
    /\ user.enabled
    /\ req' = [req EXCEPT ![r] = [Resting EXCEPT !.op = "login"]]
    /\ UNCHANGED <<tables, holder, locked, now>>

\* prepare_mfa_login_challenge: the UPDATE that consumes the challenges it finds.
IssueUpdate(r) ==
    /\ req[r].op = "login"
    /\ req[r].phase = "read"
    /\ req' = [req EXCEPT ![r].phase = "locked",
                          ![r].open = {c \in Challenges : challenge[c] = "open"}]
    /\ UNCHANGED <<tables, holder, locked, now>>

\* It waits for those that are being verified; then the new one is inserted,
\* whose foreign key waits for a request that holds the user FOR UPDATE.
Issue(r, c) ==
    /\ Holds(r, "login")
    /\ holder = None
    /\ challenge[c] = "absent"
    /\ \A d \in req[r].open : locked[d] = None
    /\ challenge' = [d \in Challenges |-> IF d = c THEN "open"
                                          ELSE IF d \in req[r].open THEN "consumed"
                                          ELSE challenge[d]]
    /\ Ends(r)
    /\ UNCHANGED <<user, recovery, drawn, now, counts>>

\* A request is refused or fails.
Rollback(r) == ~Idle(r) /\ Ends(r) /\ UNCHANGED <<tables, now>>

Tick ==
    /\ now < LastStep
    /\ now' = now + 1
    /\ UNCHANGED <<tables, holder, locked, req>>

----------------------------------------------------------------------------
Change(r) ==
    \/ \E s \in Secrets : Begin(r, s)
    \/ \E t \in Steps, b \in Batches : Confirm(r, t, b) \/ Regenerate(r, t, b)
    \/ \E t \in Steps : DisableByTotp(r, t)
    \/ \E b \in Batches : DisableByRecovery(r, b)

Enter(r) ==
    \/ Login(r)
    \/ IssueUpdate(r)
    \/ \E c \in Challenges : Issue(r, c) \/ VerifyChallenge(r, c)
    \/ \E t \in Steps : VerifyByTotp(r, t)
    \/ \E b \in Batches : VerifyByRecovery(r, b)

Next ==
    \/ \E r \in Requests :
          \/ \E op \in {"begin", "confirm", "regenerate", "disable"} : Authenticate(r, op)
          \/ Lock(r)
          \/ Change(r)
          \/ Enter(r)
          \/ Rollback(r)
    \/ Tick

Spec == Init /\ [][Next]_vars

----------------------------------------------------------------------------
(* Properties.                                                             *)

\* Rows and requests are well formed, and the user's row and the challenges are
\* held by requests that locked them.
TypeOK ==
    /\ user \in User
    /\ recovery \in [Batches -> {"absent", "unused", "used"}]
    /\ challenge \in [Challenges -> {"absent", "open", "consumed"}]
    /\ holder \in Requests \cup {None}
    /\ locked \in [Challenges -> Requests \cup {None}]
    /\ drawn \subseteq Secrets \cup Batches
    /\ now \in Steps
    /\ req \in [Requests -> Request]
    /\ sessions \in [Challenges -> Nat]
    /\ spent \in [Batches -> Nat]
    /\ uses \in [Secrets -> [Steps -> Nat]]
    /\ holder # None => req[holder].phase = "locked"

\* ARCHITECTURE.md 14: a challenge is consumed with the session it starts: it
\* never starts two, however its verifications and new logins cross.
ChallengeOnce ==
    \A c \in Challenges : sessions[c] <= 1 /\ (sessions[c] = 1 => challenge[c] = "consumed")

\* A recovery code is accepted at most once, for a login or to disable MFA.
RecoveryOnce == \A b \in Batches : spent[b] <= 1

\* The recovery codes that are stored were all shown together: concurrent
\* regenerations and confirmations leave one batch.
OneBatch == \A a, b \in Batches : recovery[a] # "absent" /\ recovery[b] # "absent" => a = b

\* A challenge issued while MFA was enabled starts no session after MFA was
\* disabled, even while another enrolment is pending.
SessionsNeedMFA ==
    [][\A c \in Challenges : sessions'[c] > sessions[c] => user.enabled]_vars

\* ARCHITECTURE.md 15: "Accepted TOTP counters are recorded to reject replay in
\* the same time step".
TotpOnce == \A s \in Secrets, t \in Steps : uses[s][t] <= 1

=============================================================================
