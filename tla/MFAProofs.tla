------------------------------ MODULE MFAProofs -----------------------------
(***************************************************************************)
(* Safety of module MFA for every number of challenges, secrets, batches   *)
(* of recovery codes, requests and TOTP steps.                             *)
(***************************************************************************)
EXTENDS MFA, TLAPS

Present == {b \in Batches : recovery[b] # "absent"}

\* The holder of the user's row is the request past its Lock step.
Holding ==
    \A r \in Requests : holder = r <=> req[r].phase = "locked" /\ req[r].op \notin {"none", "login"}

\* No recovery code comes or goes while the user's row is held.
CodesSeen == \A r \in Requests : holder = r => req[r].codes = Present

\* A verification holds its challenge, which stays open.
Verifying ==
    \A r \in Requests : req[r].op = "verify" =>
       /\ req[r].challenge \in Challenges
       /\ locked[req[r].challenge] = r
       /\ challenge[req[r].challenge] = "open"

\* A verification that holds the user has loaded the row as it is.
EnabledSeen ==
    \A r \in Requests : holder = r /\ req[r].op = "verify" => user.enabled

\* Only consumed challenges have started a session.
OpenUnused == \A c \in Challenges : challenge[c] # "consumed" => sessions[c] = 0

\* An unused code was never accepted, and codes that were not drawn do not exist.
Spending ==
    \A b \in Batches :
       /\ recovery[b] = "unused" => spent[b] = 0
       /\ b \notin drawn => recovery[b] = "absent" /\ spent[b] = 0

\* The inductive invariant.
IInv ==
    /\ TypeOK
    /\ Holding
    /\ CodesSeen
    /\ Verifying
    /\ EnabledSeen
    /\ OpenUnused
    /\ ChallengeOnce
    /\ Spending
    /\ RecoveryOnce
    /\ OneBatch

----------------------------------------------------------------------------
(* Requests.                                                               *)

\* The records of a plain user and of a request that does nothing.
LEMMA RestingRequest ==
    /\ Plain \in User
    /\ Resting \in Request /\ Resting.op = "none" /\ Resting.phase = "read"
  BY DEF Plain, User, Resting, Request, Ops, Steps

\* The fields of a request.
LEMMA RequestFields ==
    ASSUME req \in [Requests -> Request], NEW r \in Requests
    PROVE  /\ req[r].op \in Ops /\ req[r].phase \in {"read", "locked"}
           /\ req[r].challenge \in Challenges \cup {None} /\ req[r].seen \in User
           /\ req[r].codes \subseteq Batches /\ req[r].open \subseteq Challenges
  BY DEF Request

\* The fields of a user.
LEMMA UserFields ==
    ASSUME NEW u \in User
    PROVE  /\ u.secret \in Secrets \cup {None} /\ u.enrolling \in BOOLEAN
           /\ u.enabled \in BOOLEAN /\ u.last \in Steps \cup {NoStep}
  BY DEF User

\* Ends makes the request idle and takes away its locks and no others.
LEMMA EndsEffect ==
    ASSUME TypeOK, NEW r \in Requests, Ends(r)
    PROVE  /\ req' \in [Requests -> Request]
           /\ req'[r].op = "none" /\ req'[r].phase = "read"
           /\ \A q \in Requests : q # r => req'[q] = req[q]
           /\ holder' \in Requests \cup {None} /\ holder' # r
           /\ holder # r => holder' = holder
           /\ holder = r => holder' = None
           /\ locked' \in [Challenges -> Requests \cup {None}]
           /\ \A c \in Challenges : locked[c] # r => locked'[c] = locked[c]
  BY RestingRequest, MFAAssumption DEF Ends, TypeOK

\* What the end of a request leaves of the invariant, if the request changed the
\* user and the recovery codes only while it held the user, and no challenge
\* that another one holds.
LEMMA ReleaseStep ==
    ASSUME IInv, NEW r \in Requests, Ends(r),
           user' \in User, recovery' \in [Batches -> {"absent", "unused", "used"}],
           challenge' \in [Challenges -> {"absent", "open", "consumed"}],
           drawn' \subseteq Secrets \cup Batches, now' \in Steps,
           sessions' \in [Challenges -> Nat], spent' \in [Batches -> Nat],
           uses' \in [Secrets -> [Steps -> Nat]],
           \/ holder = r
           \/ user' = user /\ recovery' = recovery,
           \A c \in Challenges : locked[c] \notin {r, None} => challenge'[c] = challenge[c]
    PROVE  TypeOK' /\ Holding' /\ CodesSeen' /\ Verifying' /\ EnabledSeen'
<1> USE DEF IInv
<1>1. /\ req' \in [Requests -> Request]
      /\ req'[r].op = "none" /\ req'[r].phase = "read"
      /\ \A q \in Requests : q # r => req'[q] = req[q]
      /\ holder' \in Requests \cup {None} /\ holder' # r
      /\ holder # r => holder' = holder
      /\ holder = r => holder' = None
      /\ locked' \in [Challenges -> Requests \cup {None}]
      /\ \A c \in Challenges : locked[c] # r => locked'[c] = locked[c]
  BY EndsEffect
<1>2. TypeOK'
  BY <1>1 DEF TypeOK
<1>3. Holding'
  BY <1>1, MFAAssumption DEF Holding
<1>4. CodesSeen'
  BY <1>1, MFAAssumption DEF CodesSeen, Present
<1>5. Verifying'
  <2> SUFFICES ASSUME NEW q \in Requests, req'[q].op = "verify"
               PROVE  /\ req'[q].challenge \in Challenges
                      /\ locked'[req'[q].challenge] = q
                      /\ challenge'[req'[q].challenge] = "open"
    BY DEF Verifying
  <2>1. q # r /\ req'[q] = req[q]
    BY <1>1
  <2>2. /\ req[q].challenge \in Challenges /\ locked[req[q].challenge] = q
        /\ challenge[req[q].challenge] = "open"
    BY <2>1 DEF Verifying
  <2> QED
    BY <1>1, <2>1, <2>2, MFAAssumption
<1>6. EnabledSeen'
  BY <1>1, MFAAssumption DEF EnabledSeen
<1> QED
  BY <1>2, <1>3, <1>4, <1>5, <1>6

\* A request that only reads, or takes a lock that is free.
LEMMA ReadStep ==
    ASSUME IInv, NEW r \in Requests, NEW new \in Request, UNCHANGED <<tables, now>>,
           req' = [req EXCEPT ![r] = new],
           \/ /\ UNCHANGED holder
              /\ holder # r
              /\ new.phase = "read" \/ new.op = "login"
           \/ /\ holder = None /\ holder' = r
              /\ new.phase = "locked" /\ new.op \notin {"none", "login"}
              /\ new.codes = Present
              /\ new.op = "verify" => user.enabled,
           locked' \in [Challenges -> Requests \cup {None}],
           \A c \in Challenges : locked[c] # None => locked'[c] = locked[c],
           new.op = "verify" =>
              /\ new.challenge \in Challenges /\ locked'[new.challenge] = r
              /\ challenge[new.challenge] = "open"
    PROVE  IInv'
<1> USE DEF IInv, tables
<1>1. /\ req' \in [Requests -> Request] /\ req'[r] = new
      /\ \A q \in Requests : q # r => req'[q] = req[q]
  BY DEF TypeOK
<1>2. TypeOK'
  BY <1>1, MFAAssumption DEF TypeOK
<1>3. Holding'
  BY <1>1, MFAAssumption DEF Holding
<1>4. CodesSeen'
  BY <1>1, MFAAssumption DEF CodesSeen, Present
<1>5. Verifying'
  BY <1>1, MFAAssumption DEF Verifying
<1>6. EnabledSeen'
  BY <1>1, MFAAssumption DEF EnabledSeen
<1>7. OpenUnused' /\ ChallengeOnce' /\ Spending' /\ RecoveryOnce' /\ OneBatch'
  BY DEF OpenUnused, ChallengeOnce, Spending, RecoveryOnce, OneBatch
<1> QED
  BY <1>2, <1>3, <1>4, <1>5, <1>6, <1>7

\* The new batch, if any, replaces all others.
LEMMA ReplacedCodes ==
    ASSUME IInv, NEW r \in Requests, holder = r, NEW new \in SUBSET (Batches \ drawn),
           \A a, b \in new : a = b,
           recovery' = Replaced(r, new)
    PROVE  /\ recovery' \in [Batches -> {"absent", "unused", "used"}]
           /\ \A b \in Batches : recovery'[b] = IF b \in new THEN "unused" ELSE "absent"
           /\ OneBatch'
<1>1. req[r].codes = Present
  BY DEF IInv, CodesSeen
<1>2. \A b \in Batches : recovery'[b] = IF b \in new THEN "unused" ELSE "absent"
  BY <1>1 DEF Replaced, Present
<1>3. recovery' \in [Batches -> {"absent", "unused", "used"}]
  BY <1>2 DEF Replaced
<1> QED
  BY <1>2, <1>3 DEF OneBatch

\* Accepting a TOTP code counts its use.
LEMMA UsesStep ==
    ASSUME uses \in [Secrets -> [Steps -> Nat]], NEW u \in User, NEW t \in Steps, AcceptTotp(u, t)
    PROVE  uses' \in [Secrets -> [Steps -> Nat]]
<1>1. u.secret \in Secrets
  BY UserFields DEF AcceptTotp, Matches
<1> QED
  BY <1>1 DEF AcceptTotp

----------------------------------------------------------------------------
(* Steps.                                                                  *)

\* Replacing the codes under the user's lock, by an enrolment or a regeneration.
LEMMA ReplaceStep ==
    ASSUME IInv, NEW r \in Requests, holder = r, Ends(r),
           NEW new \in SUBSET (Batches \ drawn), \A a, b \in new : a = b,
           recovery' = Replaced(r, new),
           user' \in User, drawn' \subseteq Secrets \cup Batches,
           drawn \subseteq drawn' /\ new \subseteq drawn',
           uses' \in [Secrets -> [Steps -> Nat]],
           UNCHANGED <<challenge, now, sessions, spent>>
    PROVE  IInv'
<1> USE DEF IInv
<1>1. /\ recovery' \in [Batches -> {"absent", "unused", "used"}]
      /\ \A b \in Batches : recovery'[b] = IF b \in new THEN "unused" ELSE "absent"
      /\ OneBatch'
  BY ReplacedCodes
<1>2. TypeOK' /\ Holding' /\ CodesSeen' /\ Verifying' /\ EnabledSeen'
  <2>1. /\ challenge' \in [Challenges -> {"absent", "open", "consumed"}] /\ now' \in Steps
        /\ sessions' \in [Challenges -> Nat] /\ spent' \in [Batches -> Nat]
    BY DEF TypeOK
  <2> QED
    BY <1>1, <2>1, ReleaseStep
<1>3. OpenUnused' /\ ChallengeOnce' /\ RecoveryOnce'
  BY DEF OpenUnused, ChallengeOnce, RecoveryOnce
<1>4. Spending'
  BY <1>1 DEF Spending
<1> QED
  BY <1>1, <1>2, <1>3, <1>4

\* What changes the user is done by the request that holds the row.
LEMMA ChangeStep ==
    ASSUME IInv, NEW r \in Requests, Change(r)
    PROVE  IInv'
<1>1. /\ user \in User /\ req[r].seen \in User /\ drawn \subseteq Secrets \cup Batches
      /\ uses \in [Secrets -> [Steps -> Nat]] /\ spent \in [Batches -> Nat]
  BY RequestFields DEF IInv, TypeOK
<1>2. \A op \in {"begin", "confirm", "regenerate", "disable"} : Holds(r, op) => holder = r
  BY DEF IInv, Holding, Holds
<1>3. ASSUME NEW s \in Secrets, Begin(r, s) PROVE IInv'
  <2>1. user' \in User
    BY <1>1, <1>3, UserFields DEF Begin, User, Steps
  <2>2. /\ holder = r /\ Ends(r) /\ recovery' = Replaced(r, {})
        /\ drawn' \subseteq Secrets \cup Batches /\ drawn \subseteq drawn'
        /\ uses' \in [Secrets -> [Steps -> Nat]]
        /\ UNCHANGED <<challenge, now, sessions, spent>>
    BY <1>1, <1>2, <1>3 DEF Begin, counts
  <2>3. {} \in SUBSET (Batches \ drawn) /\ (\A a, b \in {} : a = b) /\ {} \subseteq drawn'
    OBVIOUS
  <2> QED
    BY <2>1, <2>2, <2>3, ReplaceStep
<1>4. ASSUME NEW t \in Steps, NEW b \in Batches, Confirm(r, t, b) \/ Regenerate(r, t, b)
      PROVE  IInv'
  <2>1. user' \in User
    BY <1>1, <1>4 DEF Confirm, Regenerate, User
  <2>2. uses' \in [Secrets -> [Steps -> Nat]]
    BY <1>1, <1>4, UsesStep DEF Confirm, Regenerate
  <2>3. /\ holder = r /\ Ends(r) /\ recovery' = Replaced(r, {b}) /\ b \notin drawn
        /\ drawn' = drawn \cup {b}
        /\ UNCHANGED <<challenge, now, sessions, spent>>
    BY <1>2, <1>4 DEF Confirm, Regenerate
  <2>4. /\ {b} \in SUBSET (Batches \ drawn) /\ (\A x, y \in {b} : x = y)
        /\ drawn' \subseteq Secrets \cup Batches /\ drawn \subseteq drawn' /\ {b} \subseteq drawn'
    BY <1>1, <2>3
  <2> QED
    BY <2>1, <2>2, <2>3, <2>4, ReplaceStep
<1>5. Cleared(req[r].seen) \in User
  BY <1>1, UserFields DEF Cleared, User
<1>6. {} \in SUBSET (Batches \ drawn) /\ (\A a, b \in {} : a = b) /\ {} \subseteq drawn
  OBVIOUS
<1>7. ASSUME NEW t \in Steps, DisableByTotp(r, t) PROVE IInv'
  <2>1. uses' \in [Secrets -> [Steps -> Nat]]
    BY <1>1, <1>7, UsesStep DEF DisableByTotp
  <2>2. /\ holder = r /\ Ends(r) /\ recovery' = Replaced(r, {}) /\ user' \in User
        /\ drawn' = drawn /\ UNCHANGED <<challenge, now, sessions, spent>>
    BY <1>2, <1>5, <1>7 DEF DisableByTotp
  <2> QED
    BY <1>1, <1>6, <2>1, <2>2, ReplaceStep
<1>8. ASSUME NEW b \in Batches, DisableByRecovery(r, b) PROVE IInv'
  <2> USE DEF IInv
  <2>1. /\ holder = r /\ Ends(r) /\ recovery' = Replaced(r, {}) /\ user' \in User
        /\ recovery[b] = "unused" /\ spent' = [spent EXCEPT ![b] = @ + 1]
        /\ UNCHANGED <<challenge, drawn, now, sessions, uses>>
    BY <1>2, <1>5, <1>8 DEF DisableByRecovery, Unused
  <2>2. /\ recovery' \in [Batches -> {"absent", "unused", "used"}]
        /\ \A a \in Batches : recovery'[a] = IF a \in {} THEN "unused" ELSE "absent"
        /\ OneBatch'
    BY <1>6, <2>1, ReplacedCodes
  <2>3. spent' \in [Batches -> Nat] /\ spent[b] = 0 /\ b \in drawn
    BY <1>1, <2>1 DEF Spending
  <2>4. TypeOK' /\ Holding' /\ CodesSeen' /\ Verifying' /\ EnabledSeen'
    <3>1. /\ challenge' \in [Challenges -> {"absent", "open", "consumed"}] /\ now' \in Steps
          /\ sessions' \in [Challenges -> Nat] /\ uses' \in [Secrets -> [Steps -> Nat]]
          /\ drawn' \subseteq Secrets \cup Batches
      BY <2>1 DEF TypeOK
    <3> QED
      BY <2>1, <2>2, <2>3, <3>1, ReleaseStep
  <2>5. OpenUnused' /\ ChallengeOnce'
    BY <2>1 DEF OpenUnused, ChallengeOnce
  <2>6. Spending' /\ RecoveryOnce'
    BY <1>1, <2>1, <2>2, <2>3 DEF Spending, RecoveryOnce
  <2> QED
    BY <2>2, <2>4, <2>5, <2>6
<1> QED
  BY <1>3, <1>4, <1>7, <1>8 DEF Change

\* A verification uses up a challenge that was never used.
LEMMA VerifyStep ==
    ASSUME IInv, NEW r \in Requests,
           \/ \E t \in Steps : VerifyByTotp(r, t)
           \/ \E b \in Batches : VerifyByRecovery(r, b)
    PROVE  /\ IInv'
           /\ user.enabled
<1> USE DEF IInv
<1> DEFINE c == req[r].challenge
<1>1. /\ holder = r /\ req[r].op = "verify" /\ Ends(r) /\ StartSession(r)
      /\ UNCHANGED <<drawn, now>>
  BY DEF VerifyByTotp, VerifyByRecovery, Holds, Holding
<1>2. /\ c \in Challenges /\ locked[c] = r /\ challenge[c] = "open" /\ sessions[c] = 0
      /\ user.enabled
  BY <1>1 DEF Verifying, OpenUnused, EnabledSeen
<1>3. /\ challenge' = [challenge EXCEPT ![c] = "consumed"]
      /\ sessions' = [sessions EXCEPT ![c] = @ + 1]
  BY <1>1 DEF StartSession
<1> HIDE DEF c
<1>4. /\ challenge' \in [Challenges -> {"absent", "open", "consumed"}]
      /\ sessions' \in [Challenges -> Nat]
      /\ challenge'[c] = "consumed" /\ sessions'[c] = 1
      /\ \A d \in Challenges : d # c => challenge'[d] = challenge[d] /\ sessions'[d] = sessions[d]
  BY <1>2, <1>3 DEF TypeOK
<1>5. /\ user' \in User /\ uses' \in [Secrets -> [Steps -> Nat]]
      /\ recovery' \in [Batches -> {"absent", "unused", "used"}] /\ spent' \in [Batches -> Nat]
  <2>1. /\ user \in User /\ req[r].seen \in User /\ uses \in [Secrets -> [Steps -> Nat]]
        /\ recovery \in [Batches -> {"absent", "unused", "used"}] /\ spent \in [Batches -> Nat]
    BY RequestFields DEF TypeOK
  <2>2. CASE \E t \in Steps : VerifyByTotp(r, t)
    BY <2>1, <2>2, UsesStep DEF VerifyByTotp, User
  <2>3. CASE \E b \in Batches : VerifyByRecovery(r, b)
    BY <2>1, <2>3 DEF VerifyByRecovery
  <2> QED
    BY <2>2, <2>3
<1>6. TypeOK' /\ Holding' /\ CodesSeen' /\ Verifying' /\ EnabledSeen'
  <2>1. drawn' \subseteq Secrets \cup Batches /\ now' \in Steps
    BY <1>1 DEF TypeOK
  <2> QED
    BY <1>1, <1>2, <1>4, <1>5, <2>1, ReleaseStep
<1>7. OpenUnused' /\ ChallengeOnce'
  BY <1>4 DEF OpenUnused, ChallengeOnce
<1>8. Spending' /\ RecoveryOnce' /\ OneBatch'
  <2>1. CASE \E t \in Steps : VerifyByTotp(r, t)
    BY <1>1, <2>1 DEF VerifyByTotp, Spending, RecoveryOnce, OneBatch
  <2>2. CASE \E b \in Batches : VerifyByRecovery(r, b)
    <3>1. PICK b \in Batches : VerifyByRecovery(r, b)
      BY <2>2
    <3>2. /\ recovery[b] = "unused" /\ spent[b] = 0 /\ b \in drawn
          /\ recovery' = [recovery EXCEPT ![b] = "used"]
          /\ spent' = [spent EXCEPT ![b] = @ + 1]
          /\ recovery \in [Batches -> {"absent", "unused", "used"}] /\ spent \in [Batches -> Nat]
      BY <3>1 DEF VerifyByRecovery, Unused, Spending, TypeOK
    <3> QED
      BY <1>1, <3>2 DEF Spending, RecoveryOnce, OneBatch
  <2> QED
    BY <2>1, <2>2
<1> QED
  BY <1>2, <1>6, <1>7, <1>8

\* Issuing a challenge consumes only challenges nobody is verifying.
LEMMA IssueStep ==
    ASSUME IInv, NEW r \in Requests, NEW c \in Challenges, Issue(r, c)
    PROVE  IInv'
<1> USE DEF IInv
<1>1. /\ req[r].op = "login" /\ challenge[c] = "absent" /\ Ends(r)
      /\ \A d \in req[r].open : locked[d] = None
      /\ challenge' = [d \in Challenges |-> IF d = c THEN "open"
                                            ELSE IF d \in req[r].open THEN "consumed"
                                            ELSE challenge[d]]
      /\ UNCHANGED <<user, recovery, drawn, now, sessions, spent, uses>>
  BY DEF Issue, Holds, counts
<1>2. challenge' \in [Challenges -> {"absent", "open", "consumed"}]
  BY <1>1 DEF TypeOK
<1>3. \A q \in Requests : req[q].op = "verify" =>
         challenge'[req[q].challenge] = challenge[req[q].challenge]
  BY <1>1, MFAAssumption DEF Verifying
<1>4. TypeOK' /\ Holding' /\ CodesSeen' /\ Verifying' /\ EnabledSeen'
  <2>1. /\ req' \in [Requests -> Request]
        /\ req'[r].op = "none" /\ req'[r].phase = "read"
        /\ \A q \in Requests : q # r => req'[q] = req[q]
        /\ holder' \in Requests \cup {None} /\ holder' # r
        /\ holder # r => holder' = holder
        /\ holder = r => holder' = None
        /\ locked' \in [Challenges -> Requests \cup {None}]
        /\ \A d \in Challenges : locked[d] # r => locked'[d] = locked[d]
    BY <1>1, EndsEffect
  <2>2. holder # r
    BY <1>1 DEF Holding
  <2>3. TypeOK'
    BY <1>1, <1>2, <2>1, <2>2 DEF TypeOK
  <2>4. Holding' /\ CodesSeen' /\ EnabledSeen'
    BY <1>1, <2>1, <2>2, MFAAssumption DEF Holding, CodesSeen, Present, EnabledSeen
  <2>5. Verifying'
    BY <1>3, <2>1 DEF Verifying
  <2> QED
    BY <2>3, <2>4, <2>5
<1>5. OpenUnused' /\ ChallengeOnce'
  <2>1. \A d \in Challenges : challenge'[d] # "consumed" => sessions[d] = 0
    BY <1>1 DEF OpenUnused
  <2>2. \A d \in Challenges : sessions[d] = 1 => challenge'[d] = "consumed"
    BY <1>1, <2>1 DEF ChallengeOnce
  <2> QED
    BY <1>1, <2>1, <2>2 DEF OpenUnused, ChallengeOnce
<1>6. Spending' /\ RecoveryOnce' /\ OneBatch'
  BY <1>1 DEF Spending, RecoveryOnce, OneBatch
<1> QED
  BY <1>4, <1>5, <1>6

\* Any request may roll back at any time.
LEMMA RollbackStep ==
    ASSUME IInv, NEW r \in Requests, Rollback(r)
    PROVE  IInv'
<1> USE DEF IInv
<1>1. Ends(r) /\ UNCHANGED <<tables, now>>
  BY DEF Rollback
<1>2. TypeOK' /\ Holding' /\ CodesSeen' /\ Verifying' /\ EnabledSeen'
  <2>1. /\ user' \in User /\ recovery' \in [Batches -> {"absent", "unused", "used"}]
        /\ challenge' \in [Challenges -> {"absent", "open", "consumed"}]
        /\ drawn' \subseteq Secrets \cup Batches /\ now' \in Steps
        /\ sessions' \in [Challenges -> Nat] /\ spent' \in [Batches -> Nat]
        /\ uses' \in [Secrets -> [Steps -> Nat]]
        /\ user' = user /\ recovery' = recovery
        /\ challenge' = challenge
    BY <1>1 DEF tables, TypeOK
  <2> QED
    BY <1>1, <2>1, ReleaseStep
<1>3. OpenUnused' /\ ChallengeOnce' /\ Spending' /\ RecoveryOnce' /\ OneBatch'
  BY <1>1 DEF tables, OpenUnused, ChallengeOnce, Spending, RecoveryOnce, OneBatch
<1> QED
  BY <1>2, <1>3

\* The steps that read, or lock what is free.
LEMMA LookStep ==
    ASSUME IInv, NEW r \in Requests,
           \/ \E op \in {"begin", "confirm", "regenerate", "disable"} : Authenticate(r, op)
           \/ Login(r)
           \/ IssueUpdate(r)
           \/ \E c \in Challenges : VerifyChallenge(r, c)
           \/ Lock(r)
    PROVE  IInv'
<1> USE DEF IInv
<1>1. /\ user \in User /\ req \in [Requests -> Request]
      /\ locked \in [Challenges -> Requests \cup {None}]
  BY DEF TypeOK
<1>2. Idle(r) => holder # r
  BY DEF Idle, Holding
<1>3. ASSUME NEW op \in {"begin", "confirm", "regenerate", "disable"}, Authenticate(r, op)
      PROVE  IInv'
  <2> DEFINE new == [Resting EXCEPT !.op = op, !.seen = user]
  <2>1. new \in Request /\ new.op = op /\ new.phase = "read"
    BY <1>1, RestingRequest DEF Resting, Request, Ops
  <2>2. req' = [req EXCEPT ![r] = new] /\ Idle(r) /\ UNCHANGED <<tables, holder, locked, now>>
    BY <1>3 DEF Authenticate
  <2> HIDE DEF new
  <2> QED
    BY <1>1, <1>2, <2>1, <2>2, ReadStep
<1>4. CASE Login(r)
  <2> DEFINE new == [Resting EXCEPT !.op = "login"]
  <2>1. new \in Request /\ new.op = "login" /\ new.phase = "read"
    BY RestingRequest DEF Resting, Request, Ops
  <2>2. req' = [req EXCEPT ![r] = new] /\ Idle(r) /\ UNCHANGED <<tables, holder, locked, now>>
    BY <1>4 DEF Login
  <2> HIDE DEF new
  <2> QED
    BY <1>1, <1>2, <2>1, <2>2, ReadStep
<1>5. CASE IssueUpdate(r)
  <2> DEFINE new == [req[r] EXCEPT !.phase = "locked",
                                   !.open = {c \in Challenges : challenge[c] = "open"}]
  <2>1. new \in Request /\ new.op = "login"
    BY <1>1, <1>5 DEF IssueUpdate, Request
  <2>2. /\ req' = [req EXCEPT ![r] = new] /\ holder # r
        /\ UNCHANGED <<tables, holder, locked, now>>
    BY <1>5 DEF IssueUpdate, Holding
  <2> HIDE DEF new
  <2> QED
    BY <1>1, <2>1, <2>2, ReadStep
<1>6. ASSUME NEW c \in Challenges, VerifyChallenge(r, c) PROVE IInv'
  <2> DEFINE new == [Resting EXCEPT !.op = "verify", !.challenge = c]
  <2>1. new \in Request /\ new.op = "verify" /\ new.phase = "read" /\ new.challenge = c
    BY RestingRequest DEF Resting, Request, Ops
  <2>2. /\ req' = [req EXCEPT ![r] = new] /\ Idle(r) /\ UNCHANGED <<tables, holder, now>>
        /\ challenge[c] = "open" /\ locked[c] = None /\ locked' = [locked EXCEPT ![c] = r]
    BY <1>6 DEF VerifyChallenge, LockChallenge
  <2>3. /\ locked' \in [Challenges -> Requests \cup {None}] /\ locked'[c] = r
        /\ \A d \in Challenges : locked[d] # None => locked'[d] = locked[d]
    BY <1>1, <2>2
  <2> HIDE DEF new
  <2> QED
    BY <1>2, <2>1, <2>2, <2>3, ReadStep
<1>7. CASE Lock(r)
  <2> DEFINE new == [req[r] EXCEPT !.phase = "locked", !.seen = Loaded(r), !.codes = Present]
  <2>1. /\ new \in Request /\ new.op = req[r].op /\ new.phase = "locked"
        /\ new.codes = Present /\ new.challenge = req[r].challenge
    BY <1>1, RequestFields DEF Loaded, Request, Present
  <2>2. /\ req' = [req EXCEPT ![r] = new] /\ req[r].op \notin {"none", "login"}
        /\ holder = None /\ holder' = r /\ UNCHANGED <<tables, locked, now>>
    BY <1>7 DEF Lock, LockUser, Present
  <2>3. req[r].op = "verify" => user.enabled
    BY <1>7 DEF Lock, Accepts, Loaded
  <2>4. req[r].op = "verify" => /\ req[r].challenge \in Challenges
                                /\ locked'[req[r].challenge] = r
                                /\ challenge[req[r].challenge] = "open"
    BY <2>2 DEF Verifying
  <2> HIDE DEF new
  <2> QED
    BY <1>1, <2>1, <2>2, <2>3, <2>4, ReadStep
<1> QED
  BY <1>3, <1>4, <1>5, <1>6, <1>7

\* Time passes, or nothing happens.
LEMMA TickStep ==
    ASSUME IInv, Tick \/ UNCHANGED vars
    PROVE  IInv'
<1>1. /\ UNCHANGED <<tables, holder, locked, req>> /\ now' \in Steps
  BY MFAAssumption DEF Tick, vars, tables, Steps, IInv, TypeOK
<1> QED
  BY <1>1 DEF IInv, tables, TypeOK, Holding, CodesSeen, Present, Verifying, EnabledSeen,
              OpenUnused, ChallengeOnce, Spending, RecoveryOnce, OneBatch

\* The invariant holds of a user without MFA.
LEMMA Initially == Init => IInv
<1> SUFFICES ASSUME Init PROVE IInv
  OBVIOUS
<1>1. /\ \A r \in Requests : req[r].op = "none" /\ req[r].phase = "read"
      /\ user \in User /\ req \in [Requests -> Request] /\ now \in Steps
  BY RestingRequest, MFAAssumption DEF Init, Steps
<1>2. TypeOK
  BY <1>1 DEF Init, TypeOK
<1>3. Holding /\ CodesSeen /\ Verifying /\ EnabledSeen
  BY <1>1, MFAAssumption DEF Init, Holding, CodesSeen, Verifying, EnabledSeen
<1>4. OpenUnused /\ ChallengeOnce /\ Spending /\ RecoveryOnce /\ OneBatch
  BY DEF Init, OpenUnused, ChallengeOnce, Spending, RecoveryOnce, OneBatch
<1> QED
  BY <1>2, <1>3, <1>4 DEF IInv

\* Every step keeps the invariant.
LEMMA Preserved == IInv /\ [Next]_vars => IInv'
<1> SUFFICES ASSUME IInv, [Next]_vars PROVE IInv'
  OBVIOUS
<1>1. ASSUME NEW r \in Requests, Enter(r) PROVE IInv'
  BY <1>1, LookStep, VerifyStep, IssueStep DEF Enter
<1> QED
  BY <1>1, LookStep, ChangeStep, RollbackStep, TickStep DEF Next

\* The inductive invariant holds in every reachable state.
THEOREM Invariance == Spec => []IInv
  BY Initially, Preserved, PTL DEF Spec

----------------------------------------------------------------------------
(* The properties of MFA.                                                  *)

\* Rows and requests stay well formed.
THEOREM TypeCorrect == Spec => []TypeOK
<1>1. IInv => TypeOK
  BY DEF IInv
<1> QED
  BY <1>1, Invariance, PTL

\* A challenge starts at most one session.
THEOREM ChallengesAreUsedOnce == Spec => []ChallengeOnce
<1>1. IInv => ChallengeOnce
  BY DEF IInv
<1> QED
  BY <1>1, Invariance, PTL

\* A recovery code is accepted at most once.
THEOREM RecoveryCodesAreUsedOnce == Spec => []RecoveryOnce
<1>1. IInv => RecoveryOnce
  BY DEF IInv
<1> QED
  BY <1>1, Invariance, PTL

\* The stored recovery codes are those of one batch.
THEOREM CodesShownTogether == Spec => []OneBatch
<1>1. IInv => OneBatch
  BY DEF IInv
<1> QED
  BY <1>1, Invariance, PTL

\* A challenge starts a session only while MFA is enabled.
THEOREM NoSessionAfterDisable == Spec => SessionsNeedMFA
<1>1. IInv /\ [Next]_vars =>
         [\A c \in Challenges : sessions'[c] > sessions[c] => user.enabled]_vars
  <2> SUFFICES ASSUME IInv, Next, NEW c \in Challenges, sessions'[c] > sessions[c]
               PROVE  user.enabled
    OBVIOUS
  <2>1. sessions' # sessions
    BY DEF IInv, TypeOK
  <2>2. PICK r \in Requests : \/ \E t \in Steps : VerifyByTotp(r, t)
                              \/ \E b \in Batches : VerifyByRecovery(r, b)
    <3>1. ~Tick /\ \A r \in Requests : ~Change(r) /\ ~Lock(r) /\ ~Rollback(r)
      BY <2>1 DEF Tick, Change, Begin, Confirm, Regenerate, DisableByTotp,
                  DisableByRecovery, Lock, Rollback, tables, counts
    <3>2. \A r \in Requests :
             \A op \in {"begin", "confirm", "regenerate", "disable"} : ~Authenticate(r, op)
      BY <2>1 DEF Authenticate, tables
    <3>3. \A r \in Requests : /\ ~Login(r) /\ ~IssueUpdate(r)
                              /\ \A d \in Challenges : ~Issue(r, d) /\ ~VerifyChallenge(r, d)
      BY <2>1 DEF Login, IssueUpdate, Issue, VerifyChallenge, tables, counts
    <3> QED
      BY <3>1, <3>2, <3>3 DEF Next, Enter
  <2> QED
    BY <2>2, VerifyStep
<1> QED
  BY <1>1, Invariance, PTL DEF Spec, SessionsNeedMFA

=============================================================================
