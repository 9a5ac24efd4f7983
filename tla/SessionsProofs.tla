--------------------------- MODULE SessionsProofs ---------------------------
(***************************************************************************)
(* Safety of module Sessions for every set of tokens and of requests.      *)
(***************************************************************************)
EXTENDS Sessions, TLAPS

\* A reset and a login about to commit hold the user's row.
UserHolders ==
    \A r \in Requests :
       req[r].kind = "reset" \/ (req[r].kind = "login" /\ req[r].at = "commit")
       => userLock = r

\* A login that holds the user's row has seen the account active.
LoginActive ==
    \A r \in Requests : req[r].kind = "login" /\ req[r].at = "commit" => active

\* A rotation or a logout holds the row of the token it was given, and a
\* rotation's token is live until it commits.
TokenHolders ==
    \A r \in Requests :
       req[r].kind \in {"refresh", "logout"} =>
          /\ req[r].token \in Tokens
          /\ tokenLock[req[r].token] = r
          /\ state[req[r].token] # "absent"
          /\ req[r].kind = "refresh" => Live(req[r].token)

\* The rows an UPDATE has changed are locked by it, and were live.
HitsLocked ==
    \A r \in Requests : \A t \in req[r].hit : tokenLock[t] = r /\ Live(t)

\* No live token escapes the UPDATE of a reset: none is inserted after its
\* snapshot, because that needs the user's row.
ResetCovers ==
    \A r \in Requests : req[r].kind = "reset" /\ req[r].at = "update" =>
       \A t \in Tokens : Live(t) => t \in req[r].todo \/ t \in req[r].hit

\* The UPDATE of a logout visits its own token if that is live.
LogoutCovers ==
    \A r \in Requests : req[r].kind = "logout" /\ req[r].at = "update" =>
       (Live(req[r].token) => req[r].token \in req[r].todo \/ req[r].token \in req[r].hit)

\* A family begins with the token that names it.
Roots ==
    /\ \A t \in Tokens : state[t] = "absent" => family[t] = t
    /\ \A t \in Tokens : state[t] # "absent" => state[family[t]] # "absent"

\* The inductive invariant.
IInv ==
    /\ TypeOK
    /\ UserHolders
    /\ LoginActive
    /\ TokenHolders
    /\ HitsLocked
    /\ ResetCovers
    /\ LogoutCovers
    /\ Roots
    /\ AtMostOneLive

----------------------------------------------------------------------------
(* What starting, continuing and ending a request does to its record.      *)

\* The fields of a request.
LEMMA RequestFields ==
    ASSUME req \in [Requests -> Request], NEW r \in Requests
    PROVE  /\ req[r].kind \in Kinds /\ req[r].at \in Stages
           /\ req[r].token \in Tokens \cup {NoToken}
           /\ req[r].todo \subseteq Tokens /\ req[r].hit \subseteq Tokens
  BY DEF Request

\* A request with another set of rows to update and of rows updated is one.
LEMMA RequestSets ==
    ASSUME NEW q \in Request, NEW rest \in SUBSET Tokens, NEW hit \in SUBSET Tokens
    PROVE  [q EXCEPT !.todo = rest, !.hit = hit] \in Request
  BY DEF Request

\* Goes writes a request of the given kind, stage and token and no other.
LEMMA GoesEffect ==
    ASSUME req \in [Requests -> Request], NEW r \in Requests, NEW kind \in Kinds,
           NEW at \in Stages, NEW t \in Tokens \cup {NoToken}, Goes(r, kind, at, t)
    PROVE  /\ req' \in [Requests -> Request]
           /\ req'[r].kind = kind /\ req'[r].at = at /\ req'[r].token = t
           /\ req'[r].todo = {} /\ req'[r].hit = {}
           /\ \A q \in Requests : q # r => req'[q] = req[q]
<1> DEFINE new == [kind |-> kind, at |-> at, token |-> t, todo |-> {}, hit |-> {}]
<1>1. new \in Request
  BY DEF Request
<1>2. req' = [req EXCEPT ![r] = new]
  BY DEF Goes
<1>3. req'[r] = new
  BY <1>2
<1> HIDE DEF new
<1>4. req' \in [Requests -> Request] /\ \A q \in Requests : q # r => req'[q] = req[q]
  BY <1>1, <1>2
<1> QED
  BY <1>3, <1>4 DEF new

\* Ends makes the request idle and takes away its locks and no others.
LEMMA EndsEffect ==
    ASSUME TypeOK, NEW r \in Requests, Ends(r)
    PROVE  /\ req' \in [Requests -> Request]
           /\ req'[r].kind = "none" /\ req'[r].at = "idle"
           /\ req'[r].todo = {} /\ req'[r].hit = {}
           /\ \A q \in Requests : q # r => req'[q] = req[q]
           /\ tokenLock' \in [Tokens -> Requests \cup {NoRequest}]
           /\ userLock' \in Requests \cup {NoRequest}
           /\ \A t \in Tokens : tokenLock'[t] # r
           /\ userLock' # r
           /\ \A t \in Tokens : tokenLock[t] # r => tokenLock'[t] = tokenLock[t]
           /\ \A t \in Tokens : tokenLock'[t] \in {tokenLock[t], NoRequest}
           /\ userLock # r => userLock' = userLock
           /\ userLock' \in {userLock, NoRequest}
<1>1. Resting \in Request
  BY DEF Resting, Request, Kinds, Stages
<1>2. /\ Resting.kind = "none" /\ Resting.at = "idle"
      /\ Resting.todo = {} /\ Resting.hit = {}
  BY DEF Resting
<1>3. req' = [req EXCEPT ![r] = Resting] /\ req \in [Requests -> Request]
  BY DEF Ends, TypeOK
<1>4. /\ req' \in [Requests -> Request] /\ req'[r] = Resting
      /\ \A q \in Requests : q # r => req'[q] = req[q]
  BY <1>1, <1>3
<1>5. NoRequest # r
  BY SessionsAssumption
<1> QED
  BY <1>2, <1>4, <1>5 DEF Ends, TypeOK

----------------------------------------------------------------------------
(* Each step preserves the invariant.                                      *)

\* A request starts or continues: it may take a free lock, touches no
\* committed row, and stands before its UPDATE.
LEMMA GoesStep ==
    ASSUME IInv, NEW r \in Requests, NEW kind \in Kinds,
           NEW at \in Stages \ {"idle", "update"}, NEW t \in Tokens \cup {NoToken},
           Goes(r, kind, at, t), UNCHANGED rows,
           \/ UNCHANGED tokenLock
           \/ t \in Tokens /\ tokenLock[t] = NoRequest /\ tokenLock' = [tokenLock EXCEPT ![t] = r],
           \/ UNCHANGED userLock
           \/ userLock = NoRequest /\ userLock' = r,
           kind = "reset" \/ (kind = "login" /\ at = "commit") => userLock' = r,
           kind = "login" /\ at = "commit" => active,
           kind \in {"refresh", "logout"} =>
              /\ t \in Tokens /\ tokenLock'[t] = r /\ state[t] # "absent"
              /\ kind = "refresh" => Live(t)
    PROVE  IInv'
<1> USE DEF IInv, rows
<1>0. req \in [Requests -> Request]
  BY DEF TypeOK
<1>1. /\ req' \in [Requests -> Request]
      /\ req'[r].kind = kind /\ req'[r].at = at /\ req'[r].token = t
      /\ req'[r].todo = {} /\ req'[r].hit = {}
      /\ \A q \in Requests : q # r => req'[q] = req[q]
  BY <1>0, GoesEffect
<1>2. /\ tokenLock' \in [Tokens -> Requests \cup {NoRequest}]
      /\ \A u \in Tokens : tokenLock'[u] \in {tokenLock[u], r}
      /\ \A u \in Tokens : tokenLock[u] # NoRequest => tokenLock'[u] = tokenLock[u]
  BY DEF TypeOK
<1>3. /\ userLock' \in Requests \cup {NoRequest}
      /\ userLock' \in {userLock, r}
      /\ userLock # NoRequest => userLock' = userLock
  BY DEF TypeOK
<1>4. /\ \A q \in Requests, u \in Tokens : tokenLock[u] = q => tokenLock'[u] = q
      /\ \A q \in Requests : userLock = q => userLock' = q
  BY <1>2, <1>3, SessionsAssumption
<1>5. TypeOK'
  BY <1>1, <1>2, <1>3 DEF TypeOK, Idle
<1>6. UserHolders' /\ LoginActive'
  BY <1>1, <1>4 DEF UserHolders, LoginActive
<1>7. TokenHolders'
  BY <1>1, <1>4 DEF TokenHolders, Live
<1>8. HitsLocked'
  BY <1>0, <1>1, <1>4, RequestFields DEF HitsLocked, Live
<1>9. ResetCovers' /\ LogoutCovers'
  BY <1>1 DEF ResetCovers, LogoutCovers, Live
<1>10. Roots' /\ AtMostOneLive'
  BY DEF Roots, AtMostOneLive, Live
<1> QED
  BY <1>5, <1>6, <1>7, <1>8, <1>9, <1>10

\* A request without an effect on the rows ends.
LEMMA EndsStep ==
    ASSUME IInv, NEW r \in Requests, Ends(r), UNCHANGED rows
    PROVE  IInv'
<1> USE DEF IInv, rows
<1>0. req \in [Requests -> Request]
  BY DEF TypeOK
<1>1. /\ req' \in [Requests -> Request]
      /\ req'[r].kind = "none" /\ req'[r].at = "idle"
      /\ req'[r].todo = {} /\ req'[r].hit = {}
      /\ \A q \in Requests : q # r => req'[q] = req[q]
      /\ tokenLock' \in [Tokens -> Requests \cup {NoRequest}]
      /\ userLock' \in Requests \cup {NoRequest}
      /\ \A t \in Tokens : tokenLock'[t] # r
      /\ userLock' # r
      /\ \A t \in Tokens : tokenLock[t] # r => tokenLock'[t] = tokenLock[t]
      /\ \A t \in Tokens : tokenLock'[t] \in {tokenLock[t], NoRequest}
      /\ userLock # r => userLock' = userLock
      /\ userLock' \in {userLock, NoRequest}
  BY EndsEffect
<1>2. TypeOK'
  BY <1>1 DEF TypeOK, Idle
<1>3. UserHolders' /\ LoginActive'
  BY <1>1 DEF UserHolders, LoginActive
<1>4. TokenHolders'
  BY <1>1 DEF TokenHolders, Live
<1>5. HitsLocked'
  BY <1>0, <1>1, RequestFields DEF HitsLocked, Live
<1>6. ResetCovers' /\ LogoutCovers'
  BY <1>1 DEF ResetCovers, LogoutCovers, Live
<1>7. Roots' /\ AtMostOneLive'
  BY DEF Roots, AtMostOneLive, Live
<1> QED
  BY <1>2, <1>3, <1>4, <1>5, <1>6, <1>7

\* Rows change as a request ends, within what the invariant needs of the rows
\* and of the other requests.
LEMMA CommitStep ==
    ASSUME IInv, NEW r \in Requests, Ends(r),
           state' \in [Tokens -> States], family' \in [Tokens -> Tokens],
           active' \in BOOLEAN,
           Roots', AtMostOneLive',
           \A q \in Requests \ {r} : req[q].kind = "login" /\ req[q].at = "commit"
                                     => active',
           \A t \in Tokens : state[t] # "absent" => state'[t] # "absent",
           \A t \in Tokens, q \in Requests \ {r} :
              tokenLock[t] = q /\ state[t] # "absent" => state'[t] = state[t],
           \A t \in Tokens : Live(t)' /\ ~Live(t) => state[t] = "absent" /\ userLock \in {r, NoRequest}
    PROVE  IInv'
<1> USE DEF IInv
<1>0. req \in [Requests -> Request]
  BY DEF TypeOK
<1>1. /\ req' \in [Requests -> Request]
      /\ req'[r].kind = "none" /\ req'[r].at = "idle"
      /\ req'[r].todo = {} /\ req'[r].hit = {}
      /\ \A q \in Requests : q # r => req'[q] = req[q]
      /\ tokenLock' \in [Tokens -> Requests \cup {NoRequest}]
      /\ userLock' \in Requests \cup {NoRequest}
      /\ \A t \in Tokens : tokenLock'[t] # r
      /\ userLock' # r
      /\ \A t \in Tokens : tokenLock[t] # r => tokenLock'[t] = tokenLock[t]
      /\ \A t \in Tokens : tokenLock'[t] \in {tokenLock[t], NoRequest}
      /\ userLock # r => userLock' = userLock
      /\ userLock' \in {userLock, NoRequest}
  BY EndsEffect
<1>2. TypeOK'
  BY <1>1 DEF TypeOK, Idle
<1>3. UserHolders' /\ LoginActive'
  BY <1>1 DEF UserHolders, LoginActive
<1>4. TokenHolders'
  BY <1>1 DEF TokenHolders, Live
<1>5. HitsLocked'
  BY <1>0, <1>1, RequestFields DEF HitsLocked, Live
<1>6. ResetCovers'
  BY <1>1, SessionsAssumption DEF ResetCovers, UserHolders
<1>7. LogoutCovers'
  BY <1>1 DEF LogoutCovers, TokenHolders, Live
<1> QED
  BY <1>2, <1>3, <1>4, <1>5, <1>6, <1>7

\* Login inserts the first token of a family.
LEMMA LoginCommitStep ==
    ASSUME IInv, NEW r \in Requests, NEW t \in Tokens, LoginCommit(r, t)
    PROVE  IInv'
<1> USE DEF IInv
<1>1. /\ Ends(r) /\ state[t] = "absent" /\ req[r].kind = "login" /\ req[r].at = "commit"
      /\ state' = [state EXCEPT ![t] = "live"] /\ family' = family /\ active' = active
      /\ state \in [Tokens -> States] /\ family \in [Tokens -> Tokens]
      /\ active \in BOOLEAN
  BY DEF LoginCommit, TypeOK
<1>2. /\ state' \in [Tokens -> States] /\ state'[t] = "live"
      /\ \A u \in Tokens : u # t => state'[u] = state[u]
  BY <1>1 DEF States
<1>3. userLock = r
  BY <1>1 DEF UserHolders
<1>4. family[t] = t /\ \A u \in Tokens : Live(u) => family[u] # t
  BY <1>1 DEF Roots, Live
<1>5. Roots' /\ AtMostOneLive'
  BY <1>1, <1>2, <1>4 DEF Roots, AtMostOneLive, Live
<1>6. \A u \in Tokens, q \in Requests \ {r} :
         tokenLock[u] = q /\ state[u] # "absent" => state'[u] = state[u]
  BY <1>1, <1>2
<1>7. \A q \in Requests \ {r} : req[q].kind = "login" /\ req[q].at = "commit" => active'
  BY <1>1 DEF LoginActive
<1>8. \A u \in Tokens : state[u] # "absent" => state'[u] # "absent"
  BY <1>2
<1>9. \A u \in Tokens : Live(u)' /\ ~Live(u) => state[u] = "absent" /\ userLock \in {r, NoRequest}
  BY <1>1, <1>2, <1>3 DEF Live
<1> QED
  BY <1>1, <1>2, <1>5, <1>6, <1>7, <1>8, <1>9, CommitStep

\* A rotation revokes its token and inserts the successor, the family's only
\* live token.
LEMMA RefreshCommitStep ==
    ASSUME IInv, NEW r \in Requests, NEW t \in Tokens, RefreshCommit(r, t)
    PROVE  IInv'
<1> USE DEF IInv
<1> DEFINE old == req[r].token
<1>1. /\ Ends(r) /\ state[t] = "absent" /\ req[r].kind = "refresh"
      /\ userLock = NoRequest
      /\ state' = [state EXCEPT ![old] = "revoked", ![t] = "live"]
      /\ family' = [family EXCEPT ![t] = family[old]] /\ active' = active
      /\ state \in [Tokens -> States] /\ family \in [Tokens -> Tokens]
      /\ active \in BOOLEAN
  BY DEF RefreshCommit, TypeOK
<1>2. old \in Tokens /\ tokenLock[old] = r /\ state[old] = "live" /\ old # t
  BY <1>1 DEF TokenHolders, Live
<1> HIDE DEF old
<1>3. /\ state' \in [Tokens -> States] /\ state'[t] = "live" /\ state'[old] = "revoked"
      /\ \A u \in Tokens : u # t /\ u # old => state'[u] = state[u]
  BY <1>1, <1>2 DEF States
<1>4. /\ family' \in [Tokens -> Tokens] /\ family'[t] = family[old]
      /\ \A u \in Tokens : u # t => family'[u] = family[u]
  BY <1>1, <1>2
<1>5. family[old] # t /\ state[family[old]] # "absent"
  BY <1>1, <1>2 DEF Roots
<1>6. \A u \in Tokens : Live(u) /\ family[u] = family[old] => u = old
  BY <1>2 DEF AtMostOneLive, Live
<1>7. \A u \in Tokens : state[u] # "absent" => state'[u] # "absent"
  BY <1>1, <1>3
<1>8. Roots'
  <2>1. \A u \in Tokens : state'[u] = "absent" => family'[u] = u
    BY <1>2, <1>3, <1>4 DEF Roots
  <2>2. ASSUME NEW u \in Tokens, state'[u] # "absent"
        PROVE  state'[family'[u]] # "absent"
    <3>1. CASE u = t
      BY <3>1, <1>1, <1>4, <1>5, <1>7
    <3>2. CASE u # t
      <4>1. state[u] # "absent" /\ family'[u] = family[u] /\ family[u] \in Tokens
        BY <3>2, <2>2, <1>1, <1>2, <1>3, <1>4
      <4> QED
        BY <4>1, <1>7 DEF Roots
    <3> QED
      BY <3>1, <3>2
  <2> QED
    BY <2>1, <2>2 DEF Roots
<1>9. AtMostOneLive'
  BY <1>2, <1>3, <1>4, <1>6 DEF AtMostOneLive, Live
<1>10. \A u \in Tokens, q \in Requests \ {r} :
         tokenLock[u] = q /\ state[u] # "absent" => state'[u] = state[u]
  BY <1>1, <1>2, <1>3
<1>11. \A q \in Requests \ {r} : req[q].kind = "login" /\ req[q].at = "commit" => active'
  BY <1>1 DEF LoginActive
<1>12. \A u \in Tokens : Live(u)' /\ ~Live(u) => state[u] = "absent" /\ userLock \in {r, NoRequest}
  BY <1>1, <1>2, <1>3 DEF Live
<1> QED
  BY <1>1, <1>3, <1>4, <1>7, <1>8, <1>9, <1>10, <1>11, <1>12, CommitStep

\* Enabling the account changes no token.
LEMMA EnableCommitStep ==
    ASSUME IInv, NEW r \in Requests, EnableCommit(r)
    PROVE  IInv'
<1> USE DEF IInv
<1>1. /\ Ends(r) /\ state' = state /\ family' = family /\ active' = TRUE
      /\ state \in [Tokens -> States] /\ family \in [Tokens -> Tokens]
  BY DEF EnableCommit, TypeOK
<1>2. Roots' /\ AtMostOneLive'
  BY <1>1 DEF Roots, AtMostOneLive, Live
<1> QED
  BY <1>1, <1>2, CommitStep DEF Live

\* A revocation only turns live tokens it has locked into revoked ones, and
\* disables the account only when no login holds the user's row.
LEMMA RevokeCommitStep ==
    ASSUME IInv, NEW r \in Requests, RevokeCommit(r)
    PROVE  IInv'
<1> USE DEF IInv
<1>1. /\ Ends(r) /\ family' = family
      /\ state' = [t \in Tokens |-> IF t \in req[r].hit THEN "revoked" ELSE state[t]]
      /\ active' = (active /\ req[r].kind # "disable")
      /\ req[r].kind = "disable" => userLock = NoRequest
      /\ state \in [Tokens -> States] /\ family \in [Tokens -> Tokens]
      /\ active \in BOOLEAN
  BY DEF RevokeCommit, TypeOK
<1>2. /\ state' \in [Tokens -> States]
      /\ \A t \in Tokens : t \notin req[r].hit => state'[t] = state[t]
      /\ \A t \in Tokens : t \in req[r].hit => state'[t] = "revoked" /\ state[t] = "live" /\ tokenLock[t] = r
  BY <1>1 DEF States, HitsLocked, Live
<1>3. active' \in BOOLEAN
  BY <1>1
<1>4. Roots' /\ AtMostOneLive'
  BY <1>1, <1>2 DEF Roots, AtMostOneLive, Live
<1>5. \A q \in Requests \ {r} : req[q].kind = "login" /\ req[q].at = "commit" => active'
  <2>1. \A q \in Requests : req[q].kind = "login" /\ req[q].at = "commit"
                            => active /\ userLock # NoRequest
    BY SessionsAssumption DEF LoginActive, UserHolders
  <2> QED
    BY <2>1, <1>1
<1>6. \A t \in Tokens : state[t] # "absent" => state'[t] # "absent"
  BY <1>2
<1>7. \A t \in Tokens, q \in Requests \ {r} :
         tokenLock[t] = q /\ state[t] # "absent" => state'[t] = state[t]
  BY <1>2
<1>8. \A t \in Tokens : ~(Live(t)' /\ ~Live(t))
  BY <1>2 DEF Live
<1> QED
  BY <1>1, <1>2, <1>3, <1>4, <1>5, <1>6, <1>7, <1>8, CommitStep

\* The snapshot of an UPDATE contains every live token it is about.
LEMMA UpdateSnapshotStep ==
    ASSUME IInv, NEW r \in Requests, UpdateSnapshot(r)
    PROVE  IInv'
<1> USE DEF IInv, rows, locks
<1> DEFINE seen == {t \in Scope(r) : Live(t)}
<1>0. /\ req \in [Requests -> Request] /\ req[r].at = "snapshot"
      /\ state' = state /\ family' = family /\ active' = active
      /\ tokenLock' = tokenLock /\ userLock' = userLock
  BY DEF TypeOK, UpdateSnapshot
<1>1. seen \subseteq Tokens
  BY DEF Scope
<1>2. req' = [req EXCEPT ![r] = [req[r] EXCEPT !.at = "update", !.todo = seen]]
  BY DEF UpdateSnapshot
<1>3. /\ req' \in [Requests -> Request]
      /\ req'[r].kind = req[r].kind /\ req'[r].token = req[r].token
      /\ req'[r].hit = req[r].hit
      /\ req'[r].at = "update" /\ req'[r].todo = seen
      /\ \A q \in Requests : q # r => req'[q] = req[q]
  <2> HIDE DEF seen
  <2>1. [req[r] EXCEPT !.at = "update", !.todo = seen] \in Request
    BY <1>0, <1>1, RequestFields DEF Request, Stages
  <2> QED
    BY <1>0, <1>2, <2>1 DEF Request
<1>4. TypeOK'
  BY <1>0, <1>3 DEF TypeOK, Idle
<1>5. UserHolders' /\ LoginActive' /\ TokenHolders' /\ HitsLocked'
  BY <1>0, <1>3, RequestFields DEF UserHolders, LoginActive, TokenHolders, HitsLocked, Live
<1>6. ResetCovers'
  <2>1. req[r].kind = "reset" => \A t \in Tokens : Live(t) => t \in seen
    BY DEF Scope
  <2> HIDE DEF seen
  <2> QED
    BY <1>0, <1>3, <2>1 DEF ResetCovers, Live
<1>7. LogoutCovers'
  <2>1. req[r].kind = "logout" /\ Live(req[r].token) => req[r].token \in seen
    BY DEF Scope, TokenHolders
  <2> HIDE DEF seen
  <2> QED
    BY <1>0, <1>3, <2>1 DEF LogoutCovers, Live
<1>8. Roots' /\ AtMostOneLive'
  BY <1>0 DEF Roots, AtMostOneLive, Live
<1> QED
  BY <1>4, <1>5, <1>6, <1>7, <1>8

\* An UPDATE locks the live row it visits and steps over any other.
LEMMA UpdateRowStep ==
    ASSUME IInv, NEW r \in Requests, NEW t \in Tokens, UpdateRow(r, t)
    PROVE  IInv'
<1> USE DEF IInv, rows
<1> DEFINE hits == IF Live(t) THEN req[r].hit \cup {t} ELSE req[r].hit
           left == req[r].todo \ {t}
<1>0. /\ req \in [Requests -> Request] /\ req[r].at = "update"
      /\ t \in req[r].todo /\ tokenLock[t] \in {NoRequest, r}
      /\ state' = state /\ family' = family /\ active' = active
      /\ userLock' = userLock
      /\ tokenLock \in [Tokens -> Requests \cup {NoRequest}]
  BY DEF TypeOK, UpdateRow
<1>1. hits \subseteq Tokens /\ left \subseteq Tokens
  BY <1>0, RequestFields
<1>2. /\ req' \in [Requests -> Request]
      /\ req'[r].kind = req[r].kind /\ req'[r].token = req[r].token
      /\ req'[r].at = "update" /\ req'[r].todo = left /\ req'[r].hit = hits
      /\ \A q \in Requests : q # r => req'[q] = req[q]
  <2>1. CASE Live(t)
    <3>1. req' = [req EXCEPT ![r] = [req[r] EXCEPT !.todo = left, !.hit = hits]]
      BY <2>1 DEF UpdateRow
    <3> HIDE DEF left, hits
    <3>2. [req[r] EXCEPT !.todo = left, !.hit = hits] \in Request
      <4>1. req[r] \in Request
        BY <1>0
      <4> QED
        BY <1>1, <4>1, RequestSets
    <3>3. req' \in [Requests -> Request] /\ req'[r] = [req[r] EXCEPT !.todo = left, !.hit = hits]
          /\ \A q \in Requests : q # r => req'[q] = req[q]
      BY <1>0, <3>1, <3>2
    <3>4. req[r] \in Request
      BY <1>0
    <3> QED
      BY <1>0, <3>3, <3>4 DEF Request
  <2>2. CASE ~Live(t)
    <3>1. req' = [req EXCEPT ![r] = [req[r] EXCEPT !.todo = left]] /\ hits = req[r].hit
      BY <2>2 DEF UpdateRow
    <3> HIDE DEF left, hits
    <3>2. [req[r] EXCEPT !.todo = left] \in Request
      BY <1>0, <1>1, RequestFields DEF Request
    <3> QED
      BY <1>0, <3>1, <3>2 DEF Request
  <2> QED
    BY <2>1, <2>2
<1>3. /\ tokenLock' \in [Tokens -> Requests \cup {NoRequest}]
      /\ Live(t) => tokenLock'[t] = r
      /\ \A u \in Tokens : tokenLock'[u] \in {tokenLock[u], r}
      /\ \A u \in Tokens, q \in Requests : tokenLock[u] = q => tokenLock'[u] = q
  BY <1>0, SessionsAssumption DEF UpdateRow
<1>5. \A u \in Tokens : Live(u) /\ (u \in req[r].todo \/ u \in req[r].hit)
                        => u \in left \/ u \in hits
  OBVIOUS
<1>6. \A u \in hits : u \in req[r].hit \/ (u = t /\ Live(t))
  OBVIOUS
<1> HIDE DEF left, hits
<1>7. TypeOK'
  BY <1>0, <1>2, <1>3 DEF TypeOK, Idle
<1>8. UserHolders' /\ LoginActive' /\ TokenHolders'
  BY <1>0, <1>2, <1>3 DEF UserHolders, LoginActive, TokenHolders, Live
<1>9. HitsLocked'
  BY <1>0, <1>2, <1>3, <1>6, RequestFields DEF HitsLocked, Live
<1>10. ResetCovers' /\ LogoutCovers'
  BY <1>0, <1>2, <1>5 DEF ResetCovers, LogoutCovers, TokenHolders, Live
<1>11. Roots' /\ AtMostOneLive'
  BY <1>0 DEF Roots, AtMostOneLive, Live
<1> QED
  BY <1>7, <1>8, <1>9, <1>10, <1>11

\* Every step preserves the invariant.
LEMMA Step == IInv /\ [Next]_vars => IInv'
<1> SUFFICES ASSUME IInv, [Next]_vars PROVE IInv'
  OBVIOUS
<1>1. ASSUME NEW r \in Requests, Login(r) PROVE IInv'
  <2>1. CASE LoginRead(r)
    BY <2>1, GoesStep DEF LoginRead, locks, Kinds, Stages
  <2>2. CASE LoginLock(r)
    <3>1. CASE active
      BY <2>2, <3>1, GoesStep DEF LoginLock, Kinds, Stages
    <3>2. CASE ~active
      BY <2>2, <3>2, EndsStep DEF LoginLock
    <3> QED
      BY <3>1, <3>2
  <2>3. CASE \E t \in Tokens : LoginCommit(r, t)
    BY <2>3, LoginCommitStep
  <2> QED
    BY <1>1, <2>1, <2>2, <2>3 DEF Login
<1>2. ASSUME NEW r \in Requests, Refresh(r) PROVE IInv'
  <2>1. ASSUME NEW t \in Tokens, RefreshLock(r, t) PROVE IInv'
    <3>1. tokenLock'[t] = r
      BY <2>1 DEF RefreshLock, LockToken, IInv, TypeOK
    <3>2. CASE Live(t)
      BY <2>1, <3>1, <3>2, GoesStep DEF RefreshLock, LockToken, Kinds, Stages
    <3>3. CASE ~Live(t)
      BY <2>1, <3>3, GoesStep DEF RefreshLock, LockToken, Kinds, Stages
    <3> QED
      BY <3>2, <3>3
  <2>2. CASE RefreshReadUser(r)
    <3>1. req[r].token \in Tokens \cup {NoToken}
      BY RequestFields DEF IInv, TypeOK
    <3>2. CASE active
      BY <2>2, <3>1, <3>2, GoesStep DEF RefreshReadUser, locks, Kinds, Stages,
         IInv, TokenHolders
    <3>3. CASE ~active
      BY <2>2, <3>1, <3>3, GoesStep DEF RefreshReadUser, locks, Kinds, Stages
    <3> QED
      BY <3>2, <3>3
  <2>3. CASE \E t \in Tokens : RefreshCommit(r, t)
    BY <2>3, RefreshCommitStep
  <2> QED
    BY <1>2, <2>1, <2>2, <2>3 DEF Refresh
<1>3. ASSUME NEW r \in Requests, Revoke(r) PROVE IInv'
  <2>1. ASSUME NEW t \in Tokens, Logout(r, t) PROVE IInv'
    <3>1. tokenLock'[t] = r
      BY <2>1 DEF Logout, LockToken, IInv, TypeOK
    <3> QED
      BY <2>1, <3>1, GoesStep DEF Logout, LockToken, Kinds, Stages
  <2>2. ASSUME NEW t \in Tokens, RevokeSession(r, t) PROVE IInv'
    BY <2>2, GoesStep DEF RevokeSession, locks, Kinds, Stages
  <2>3. CASE RevokeAllSessions(r)
    BY <2>3, GoesStep DEF RevokeAllSessions, locks, Kinds, Stages
  <2>4. CASE Disable(r)
    <3>1. CASE active
      BY <2>4, <3>1, GoesStep DEF Disable, locks, Kinds, Stages
    <3>2. CASE ~active
      BY <2>4, <3>2, GoesStep DEF Disable, locks, Kinds, Stages
    <3> QED
      BY <3>1, <3>2
  <2>5. CASE Enable(r)
    BY <2>5, GoesStep DEF Enable, locks, Kinds, Stages
  <2>6. CASE ResetLock(r)
    BY <2>6, GoesStep DEF ResetLock, Kinds, Stages
  <2> QED
    BY <1>3, <2>1, <2>2, <2>3, <2>4, <2>5, <2>6, EnableCommitStep,
       UpdateSnapshotStep, UpdateRowStep, RevokeCommitStep DEF Revoke
<1>4. ASSUME NEW r \in Requests, Rollback(r) PROVE IInv'
  BY <1>4, EndsStep DEF Rollback
<1>5. CASE UNCHANGED vars
  BY <1>5 DEF vars, IInv, TypeOK, UserHolders, LoginActive, TokenHolders, HitsLocked,
              ResetCovers, LogoutCovers, Roots, AtMostOneLive, Live, Idle
<1> QED
  BY <1>1, <1>2, <1>3, <1>4, <1>5 DEF Next

\* The invariant holds before anyone has logged in.
LEMMA Initially == Init => IInv
<1> SUFFICES ASSUME Init PROVE IInv
  OBVIOUS
<1>1. Resting \in Request
  BY DEF Resting, Request, Kinds, Stages
<1>2. /\ Resting.kind = "none" /\ Resting.at = "idle"
      /\ Resting.todo = {} /\ Resting.hit = {}
  BY DEF Resting
<1>3. req \in [Requests -> Request] /\ \A r \in Requests : req[r] = Resting
  BY <1>1 DEF Init
<1> HIDE DEF Resting
<1>4. TypeOK
  BY <1>2, <1>3 DEF Init, TypeOK, States, Idle
<1>5. UserHolders /\ LoginActive /\ TokenHolders /\ HitsLocked /\ ResetCovers /\ LogoutCovers
  BY <1>2, <1>3 DEF UserHolders, LoginActive, TokenHolders, HitsLocked, ResetCovers, LogoutCovers
<1>6. Roots /\ AtMostOneLive
  BY DEF Init, Roots, AtMostOneLive, Live
<1> QED
  BY <1>4, <1>5, <1>6 DEF IInv

\* The invariant holds in every reachable state.
LEMMA Invariance == Spec => []IInv
  BY Initially, Step, PTL DEF Spec

----------------------------------------------------------------------------
(* The properties.                                                         *)

\* Rows keep to their type, and only requests in flight hold locks.
THEOREM TypeCorrect == Spec => []TypeOK
<1>1. IInv => TypeOK
  BY DEF IInv
<1> QED
  BY <1>1, Invariance, PTL

\* However many requests rotate, log out and reset at once, a device session
\* has at most one usable refresh token.
THEOREM OneLiveToken == Spec => []AtMostOneLive
<1>1. IInv => AtMostOneLive
  BY DEF IInv
<1> QED
  BY <1>1, Invariance, PTL

\* Tokens become live in a login, as a new family, or in a rotation, whose
\* token was live; so no step revives a dead family.
LEMMA DeadStaysDead ==
    ASSUME IInv, [Next]_vars, NEW f \in Tokens, f \in Started, FamilyDead(f)
    PROVE  FamilyDead(f)'
<1> USE DEF IInv
<1>0. /\ state \in [Tokens -> States] /\ family \in [Tokens -> Tokens]
      /\ state[f] # "absent"
  BY DEF TypeOK, Started
<1>1. ASSUME NEW r \in Requests, NEW t \in Tokens, LoginCommit(r, t) PROVE FamilyDead(f)'
  <2>1. /\ state[t] = "absent" /\ family' = family /\ family[t] = t
        /\ \A u \in Tokens : u # t => state'[u] = state[u]
    BY <1>0, <1>1 DEF LoginCommit, Roots
  <2> QED
    BY <1>0, <2>1 DEF FamilyDead, Live
<1>2. ASSUME NEW r \in Requests, NEW t \in Tokens, RefreshCommit(r, t) PROVE FamilyDead(f)'
  <2>1. req[r].token \in Tokens /\ Live(req[r].token)
    BY <1>2 DEF RefreshCommit, TokenHolders
  <2>2. family[req[r].token] # f
    BY <2>1 DEF FamilyDead
  <2>3. /\ \A u \in Tokens : u # t => (state'[u] = state[u] \/ state'[u] = "revoked")
        /\ family'[t] = family[req[r].token]
        /\ \A u \in Tokens : u # t => family'[u] = family[u]
    BY <1>0, <1>2 DEF RefreshCommit
  <2> QED
    BY <1>0, <2>2, <2>3 DEF FamilyDead, Live
<1>3. ASSUME NEW r \in Requests, RevokeCommit(r) PROVE FamilyDead(f)'
  <2>1. /\ family' = family
        /\ \A u \in Tokens : state'[u] = "revoked" \/ state'[u] = state[u]
    BY <1>3 DEF RevokeCommit
  <2> QED
    BY <2>1 DEF FamilyDead, Live
<1>4. CASE state' = state /\ family' = family
  BY <1>4 DEF FamilyDead, Live
<1>5. ASSUME NEW r \in Requests, Login(r) PROVE FamilyDead(f)'
  BY <1>1, <1>4, <1>5 DEF Login, LoginRead, LoginLock, rows
<1>6. ASSUME NEW r \in Requests, Refresh(r) PROVE FamilyDead(f)'
  BY <1>2, <1>4, <1>6 DEF Refresh, RefreshLock, RefreshReadUser, rows
<1>7. ASSUME NEW r \in Requests, Revoke(r) PROVE FamilyDead(f)'
  BY <1>3, <1>4, <1>7 DEF Revoke, Logout, RevokeSession, UpdateRow, RevokeAllSessions,
     Disable, Enable, EnableCommit, ResetLock, UpdateSnapshot, rows
<1>8. ASSUME NEW r \in Requests, Rollback(r) PROVE FamilyDead(f)'
  BY <1>4, <1>8 DEF Rollback, rows
<1> QED
  BY <1>4, <1>5, <1>6, <1>7, <1>8 DEF Next, vars

\* A family that was revoked or logged out is never usable again, whatever
\* rotations were in flight.
THEOREM NoRevival == Spec => DeadFamiliesStayDead
<1>1. IInv /\ [Next]_vars
      => [\A f \in Tokens : f \in Started /\ FamilyDead(f) => FamilyDead(f)']_vars
  BY DeadStaysDead
<1> QED
  BY <1>1, Invariance, PTL DEF Spec, DeadFamiliesStayDead

\* When a password reset commits, no refresh token of the user is usable.
THEOREM ResetEndsSessions == Spec => ResetRevokesAll
<1>1. ASSUME IInv, NEW r \in Requests, req[r].kind = "reset", RevokeCommit(r),
             NEW t \in Tokens
      PROVE  state'[t] # "live"
  <2>1. req[r].at = "update" /\ req[r].todo = {}
    BY <1>1 DEF RevokeCommit
  <2>2. Live(t) => t \in req[r].hit
    BY <1>1, <2>1 DEF IInv, ResetCovers
  <2> QED
    BY <1>1, <2>2 DEF RevokeCommit, Live
<1>2. IInv /\ [Next]_vars
      => [\A r \in Requests : req[r].kind = "reset" /\ RevokeCommit(r)
                              => \A t \in Tokens : state'[t] # "live"]_vars
  BY <1>1
<1> QED
  BY <1>2, Invariance, PTL DEF Spec, ResetRevokesAll

\* Logging out with the current token of a session leaves the session without
\* a usable token.
THEOREM LogoutIsFinal == Spec => LogoutEndsSession
<1>1. ASSUME IInv, NEW r \in Requests, NEW f \in Tokens, req[r].kind = "logout",
             RevokeCommit(r), Live(req[r].token), f = family[req[r].token]
      PROVE  FamilyDead(f)'
  <2>1. /\ req[r].at = "update" /\ req[r].todo = {} /\ family' = family
        /\ state' = [u \in Tokens |-> IF u \in req[r].hit THEN "revoked" ELSE state[u]]
    BY <1>1 DEF RevokeCommit
  <2>2. req[r].token \in Tokens /\ req[r].token \in req[r].hit
    BY <1>1, <2>1 DEF IInv, LogoutCovers, TokenHolders
  <2>3. \A u \in Tokens : family[u] = f /\ Live(u) => u = req[r].token
    BY <1>1, <2>2 DEF IInv, AtMostOneLive
  <2> QED
    BY <2>1, <2>2, <2>3 DEF FamilyDead, Live
<1>2. IInv /\ [Next]_vars
      => [\A r \in Requests, f \in Tokens :
             /\ req[r].kind = "logout" /\ RevokeCommit(r)
             /\ Live(req[r].token) /\ f = family[req[r].token]
             => FamilyDead(f)']_vars
  BY <1>1
<1> QED
  BY <1>2, Invariance, PTL DEF Spec, LogoutEndsSession

\* Only a login starts a family, and it holds the user's row of an account
\* that is active.
LEMMA StartsWhileActive ==
    ASSUME IInv, [Next]_vars, NEW f \in Tokens, f \notin Started, f \in Started'
    PROVE  active
<1> USE DEF IInv
<1>0. /\ state \in [Tokens -> States] /\ family \in [Tokens -> Tokens]
      /\ state'[f] # "absent" /\ family'[f] = f
      /\ state[f] = "absent" \/ family[f] # f
  BY DEF TypeOK, Started
<1>1. ~(state' = state /\ family' = family)
  BY <1>0
<1>2. ASSUME NEW r \in Requests, NEW t \in Tokens, RefreshCommit(r, t) PROVE FALSE
  <2>1. /\ req[r].token \in Tokens /\ state[req[r].token] # "absent"
        /\ state[t] = "absent"
        /\ state' = [state EXCEPT ![req[r].token] = "revoked", ![t] = "live"]
        /\ family' = [family EXCEPT ![t] = family[req[r].token]]
    BY <1>2 DEF RefreshCommit, TokenHolders
  <2>2. state[family[req[r].token]] # "absent"
    BY <2>1 DEF Roots
  <2>3. CASE f = t
    BY <1>0, <2>1, <2>2, <2>3
  <2>4. CASE f # t
    <3>1. family'[f] = family[f] /\ (state[f] = "absent" => state'[f] = "absent")
      BY <1>0, <2>1, <2>4
    <3> QED
      BY <1>0, <3>1
  <2> QED
    BY <2>3, <2>4
<1>3. ASSUME NEW r \in Requests, RevokeCommit(r) PROVE FALSE
  <2>1. family' = family /\ (state'[f] = "revoked" => state'[f] = state[f] \/ Live(f))
    BY <1>0, <1>3 DEF RevokeCommit, HitsLocked
  <2>2. state'[f] = "revoked" \/ state'[f] = state[f]
    BY <1>3 DEF RevokeCommit
  <2> QED
    BY <1>0, <2>1, <2>2 DEF Live
<1>4. ASSUME NEW r \in Requests, Login(r) PROVE active
  <2>1. CASE \E t \in Tokens : LoginCommit(r, t)
    BY <2>1 DEF LoginCommit, LoginActive
  <2> QED
    BY <1>1, <1>4, <2>1 DEF Login, LoginRead, LoginLock, rows
<1>5. ASSUME NEW r \in Requests, Refresh(r) PROVE FALSE
  BY <1>1, <1>2, <1>5 DEF Refresh, RefreshLock, RefreshReadUser, rows
<1>6. ASSUME NEW r \in Requests, Revoke(r) PROVE FALSE
  BY <1>1, <1>3, <1>6 DEF Revoke, Logout, RevokeSession, UpdateRow, RevokeAllSessions,
     Disable, Enable, EnableCommit, ResetLock, UpdateSnapshot, rows
<1>7. ASSUME NEW r \in Requests, Rollback(r) PROVE FALSE
  BY <1>1, <1>7 DEF Rollback, rows
<1> QED
  BY <1>1, <1>4, <1>5, <1>6, <1>7 DEF Next, vars

\* A session starts only while its account is active.
THEOREM StartsActive == Spec => SessionsStartActive
<1>1. IInv /\ [Next]_vars
      => [\A t \in Tokens : t \notin Started /\ t \in Started' => active]_vars
  BY StartsWhileActive
<1> QED
  BY <1>1, Invariance, PTL DEF Spec, SessionsStartActive

============================================================================
