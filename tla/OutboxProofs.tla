---------------------------- MODULE OutboxProofs ----------------------------
(***************************************************************************)
(* Safety of module Outbox for every set of messages and workers and every *)
(* setting of the lease, batch, retry and attempt parameters.              *)
(***************************************************************************)
EXTENDS Outbox, Backoff, FiniteSetTheorems, TLAPS

\* The table's CHECK constraint on one row's lease.
LeaseState(row) == (row.status = "processing") <=> (row.owner # NoWorker)

\* Claims refer to enqueued rows.
HeldEnqueued == \A w \in Workers : \A c \in Held(w) : outbox[c.msg].status # "absent"

\* A worker about to record a success has seen the server accept the e-mail.
SentAccepted ==
    \A w \in Workers : phase[w] = "sent" => \A c \in current[w] : delivered[c.msg] > 0

\* A worker processes one claim at a time.
OneCurrent == \A w \in Workers : \A c, d \in current[w] : c = d

\* The inductive invariant.
IInv ==
    /\ TypeOK
    /\ OneCurrent
    /\ ClaimFencing
    /\ HeldEnqueued
    /\ SentAccepted
    /\ PendingHasBudget

----------------------------------------------------------------------------
(* What the row updates do.                                                *)

\* The fields of a row.
LEMMA RowFields ==
    ASSUME NEW row \in Row
    PROVE  /\ row.status \in Statuses
           /\ row.owner \in Workers \cup {NoWorker}
           /\ row.attempt \in Nat /\ row.attempt + 1 \in Nat
           /\ row.available \in Nat /\ row.lease \in Nat /\ row.ttl \in Nat
  BY DEF Row

\* The constants as the row lemmas use them.
LEMMA Parameters ==
    /\ NoWorker \notin Workers
    /\ Lease \in Nat
    /\ MaxAttempts \in Nat /\ 0 < MaxAttempts
    /\ RetryDelays \subseteq Nat
    /\ Lifetimes \subseteq Nat
  BY OutboxAssumption

\* Claiming a row keeps it a row and puts it in the claimer's name.
LEMMA LeasedRow ==
    ASSUME NEW row \in Row, NEW w \in Workers
    PROVE  /\ Leased(row, w) \in Row
           /\ LeaseState(Leased(row, w))
           /\ Leased(row, w).status = "processing"
           /\ Leased(row, w).owner = w
           /\ Leased(row, w).attempt = row.attempt + 1
<1>1. Leased(row, w) \in Row
  BY RowFields, Parameters DEF Leased, Row, Statuses
<1>2. /\ Leased(row, w).status = "processing"
      /\ Leased(row, w).owner = w
      /\ Leased(row, w).attempt = row.attempt + 1
  BY DEF Leased, Row
<1> QED
  BY <1>1, <1>2, Parameters DEF LeaseState

\* Every row a finalization may write is a row without a lease and with the
\* attempt count unchanged; it is succeeded after an accepted send, otherwise
\* dead-lettered or, if the claim has attempts left, pending.
LEMMA FinalRow ==
    ASSUME NEW w \in Workers, NEW c \in Claim, outbox[c.msg] \in Row,
           NEW row \in FinalRows(w, c)
    PROVE  /\ row \in Row
           /\ LeaseState(row)
           /\ row.status \in {"succeeded", "dead_letter", "pending"}
           /\ row.attempt = outbox[c.msg].attempt
           /\ row.status = "succeeded" => phase[w] = "sent"
           /\ row.status = "pending" => c.attempt < MaxAttempts
<1> DEFINE old == outbox[c.msg]
<1>0. /\ old.status \in Statuses
      /\ old.attempt \in Nat /\ old.available \in Nat
      /\ old.lease \in Nat /\ old.ttl \in Nat
  BY RowFields
<1>1. CASE row = Succeeded(old) /\ phase[w] = "sent"
  <2>1. row \in Row
    BY <1>1, <1>0 DEF Succeeded, Row, Statuses
  <2>2. row.status = "succeeded" /\ row.owner = NoWorker /\ row.attempt = old.attempt
    BY <1>1 DEF Succeeded, Row
  <2> QED
    BY <2>1, <2>2, <1>1 DEF LeaseState
<1>2. CASE row = DeadLettered(old)
  <2>1. row \in Row
    BY <1>2, <1>0 DEF DeadLettered, Row, Statuses
  <2>2. row.status = "dead_letter" /\ row.owner = NoWorker /\ row.attempt = old.attempt
    BY <1>2 DEF DeadLettered, Row
  <2> QED
    BY <2>1, <2>2 DEF LeaseState
<1>3. CASE ~GivesUp(w, c) /\ row \in {Retried(old, d) : d \in RetryDelays}
  <2>1. PICK d \in RetryDelays : row = Retried(old, d)
    BY <1>3
  <2>2. c.attempt < MaxAttempts
    BY <1>3, Parameters DEF GivesUp, Claim
  <2>3. row \in Row
    BY <2>1, <1>0, Parameters DEF Retried, Row, Statuses
  <2>4. row.status = "pending" /\ row.owner = NoWorker /\ row.attempt = old.attempt
    BY <2>1 DEF Retried, Row
  <2> QED
    BY <2>2, <2>3, <2>4 DEF LeaseState
<1> QED
  BY <1>1, <1>2, <1>3 DEF FinalRows, FailureRows

\* The clock touches neither status nor owner nor attempt count.
LEMMA ElapsedRow ==
    ASSUME NEW row \in Row
    PROVE  /\ RowElapse(row) \in Row
           /\ RowElapse(row).status = row.status
           /\ RowElapse(row).owner = row.owner
           /\ RowElapse(row).attempt = row.attempt
<1>1. \A n \in Nat : Elapse(n) \in Nat
  BY DEF Elapse
<1>2. RowElapse(row) \in Row
  BY <1>1, RowFields DEF RowElapse, Row
<1> QED
  BY <1>2 DEF RowElapse, Row

\* A new row is pending, unleased and unattempted.
LEMMA FreshRow ==
    ASSUME NEW ttl \in Lifetimes
    PROVE  /\ NewRow(ttl) \in Row
           /\ LeaseState(NewRow(ttl))
           /\ NewRow(ttl).status = "pending"
           /\ NewRow(ttl).attempt = 0
<1>1. Absent \in Row /\ Absent.attempt = 0 /\ Absent.owner = NoWorker
  BY DEF Absent, Row, Statuses
<1>2. ttl \in Nat
  BY Parameters
<1>3. NewRow(ttl) \in Row
  BY <1>1, <1>2 DEF NewRow, Row, Statuses
<1>4. /\ NewRow(ttl).status = "pending"
      /\ NewRow(ttl).owner = NoWorker
      /\ NewRow(ttl).attempt = 0
  BY <1>1 DEF NewRow, Row
<1> QED
  BY <1>3, <1>4 DEF LeaseState

----------------------------------------------------------------------------
(* Type correctness.                                                       *)

\* The initial states have the types.
LEMMA TypeInit == Init => TypeOK
<1>1. Absent \in Row /\ Absent.status = "absent" /\ Absent.owner = NoWorker
  BY DEF Absent, Row, Statuses
<1> QED
  BY <1>1, OutboxAssumption DEF Init, TypeOK, Phases, Categories, Held

\* A claimed batch consists of claims.
LEMMA ClaimOfType ==
    ASSUME TypeOK, NEW m \in Messages
    PROVE  ClaimOf(m) \in Claim /\ ClaimOf(m).msg = m
                /\ ClaimOf(m).attempt = outbox[m].attempt + 1
<1>1. outbox[m] \in Row
  BY DEF TypeOK
<1> QED
  BY <1>1, RowFields DEF ClaimOf, Claim

\* Leasing rows S to w keeps the table well formed.
LEMMA LeaseRowsType ==
    ASSUME TypeOK, NEW w \in Workers, NEW S \in SUBSET Messages, LeaseRows(w, S)
    PROVE  /\ outbox' \in [Messages -> Row]
           /\ \A m \in Messages : LeaseState(outbox'[m])
<1>1. \A m \in Messages : outbox[m] \in Row /\ LeaseState(outbox[m])
  BY DEF TypeOK, LeaseState
<1>2. \A m \in Messages : outbox'[m] \in Row /\ LeaseState(outbox'[m])
  BY <1>1, LeasedRow DEF LeaseRows
<1> QED
  BY <1>2 DEF LeaseRows

\* So does settling a claim.
LEMMA SettleType ==
    ASSUME TypeOK, NEW w \in Workers, NEW c \in current[w], Settle(w, c)
    PROVE  /\ outbox' \in [Messages -> Row]
           /\ \A m \in Messages : LeaseState(outbox'[m])
<1>1. c \in Claim /\ c.msg \in Messages
  BY DEF TypeOK, Claim
<1>2. \A m \in Messages : outbox[m] \in Row /\ LeaseState(outbox[m])
  BY DEF TypeOK, LeaseState
<1>3. CASE Owns(w, c)
  <2>1. PICK row \in FinalRows(w, c) : outbox' = [outbox EXCEPT ![c.msg] = row]
    BY <1>3 DEF Settle
  <2>2. row \in Row /\ LeaseState(row)
    BY <1>1, <1>2, FinalRow
  <2> QED
    BY <1>1, <1>2, <2>1, <2>2 DEF TypeOK
<1>4. CASE ~Owns(w, c)
  BY <1>2, <1>4 DEF Settle, TypeOK
<1> QED
  BY <1>3, <1>4

\* Every step keeps the types.
LEMMA TypeStep == TypeOK /\ [Next]_vars => TypeOK'
<1> SUFFICES ASSUME TypeOK, [Next]_vars
             PROVE  TypeOK'
  OBVIOUS
<1> USE DEF workerVars, Phases, Categories, Held
<1>1. ASSUME NEW m \in Messages, NEW ttl \in Lifetimes, Enqueue(m, ttl)
      PROVE  TypeOK'
  BY <1>1, FreshRow DEF Enqueue, TypeOK, LeaseState
<1>2. ASSUME NEW w \in Workers, NEW S \in SUBSET Messages, ClaimMessages(w, S)
      PROVE  TypeOK'
  <2>1. {ClaimOf(m) : m \in S} \in SUBSET Claim
    BY ClaimOfType
  <2>2. LeaseRows(w, S)
    BY <1>2 DEF ClaimMessages
  <2> QED
    BY <1>2, <2>1, <2>2, LeaseRowsType DEF ClaimMessages, Claimable, TypeOK, LeaseState
<1>3. ASSUME NEW w \in Workers, NEW S \in SUBSET Messages, ClaimLost(w, S)
      PROVE  TypeOK'
  <2>1. LeaseRows(w, S)
    BY <1>3 DEF ClaimLost
  <2> QED
    BY <1>3, <2>1, LeaseRowsType DEF ClaimLost, TypeOK, LeaseState
<1>4. ASSUME NEW w \in Workers, NEW c \in batch[w],
             BeginExpired(w, c) \/ BeginInvalid(w, c) \/ BeginSend(w, c)
      PROVE  TypeOK'
  <2>1. c \in Claim /\ batch[w] \ {c} \in SUBSET Claim
    BY DEF TypeOK
  <2>2. \E next \in {"failing", "sending"}, why \in Categories : Begin(w, c, next, why)
    BY <1>4 DEF BeginExpired, BeginInvalid, BeginSend
  <2> QED
    BY <2>1, <2>2 DEF Begin, TypeOK
<1>5. ASSUME NEW w \in Workers, NEW c \in current[w], SendAccepted(w, c)
      PROVE  TypeOK'
  BY <1>5 DEF SendAccepted, TypeOK, Claim
<1>6. ASSUME NEW w \in Workers, NEW c \in current[w], SendFailed(w, c)
      PROVE  TypeOK'
  BY <1>6 DEF SendFailed, TypeOK, Claim
<1>7. ASSUME NEW w \in Workers, NEW c \in current[w], Finalize(w, c)
      PROVE  TypeOK'
  BY <1>7, SettleType DEF Finalize, TypeOK, LeaseState
<1>8. ASSUME NEW w \in Workers, NEW c \in current[w], FinalizeLost(w, c)
      PROVE  TypeOK'
  <2>1. /\ outbox' \in [Messages -> Row]
        /\ \A m \in Messages : LeaseState(outbox'[m])
    BY <1>8, SettleType DEF FinalizeLost, TypeOK, LeaseState
  <2> QED
    BY <1>8, <2>1 DEF FinalizeLost, Drop, TypeOK, LeaseState
<1>9. ASSUME NEW w \in Workers, BatchDone(w)
      PROVE  TypeOK'
  BY <1>9 DEF BatchDone, TypeOK
<1>10. ASSUME NEW w \in Workers, GraceExpired(w) \/ Exit(w)
       PROVE  TypeOK'
  BY <1>10 DEF GraceExpired, Exit, Drop, TypeOK
<1>11. ASSUME NEW w \in Workers, RequestStop(w) \/ Crash(w)
       PROVE  TypeOK'
  <2>1. CASE RequestStop(w)
    BY <2>1 DEF RequestStop, TypeOK
  <2>2. CASE Crash(w)
    BY <2>2 DEF Crash, Drop, TypeOK
  <2> QED
    BY <1>11, <2>1, <2>2
<1>12. CASE Tick
  <2>1. \A m \in Messages : outbox'[m] = RowElapse(outbox[m]) /\ outbox[m] \in Row
    BY <1>12 DEF Tick, TypeOK
  <2>2. \A m \in Messages : outbox'[m] \in Row /\ LeaseState(outbox'[m])
    BY <2>1, ElapsedRow DEF LeaseState, TypeOK
  <2> QED
    BY <1>12, <2>2 DEF Tick, TypeOK, LeaseState
<1>13. CASE UNCHANGED vars
  BY <1>13 DEF vars, TypeOK
<1> QED
  BY <1>1, <1>2, <1>3, <1>4, <1>5, <1>6, <1>7, <1>8, <1>9, <1>10, <1>11, <1>12, <1>13
     DEF Next, Process, Disturb

\* Rows obey the table's constraints and workers' memories their types, in
\* every reachable state.
THEOREM TypeCorrect == Spec => []TypeOK
  BY TypeInit, TypeStep, PTL DEF Spec

----------------------------------------------------------------------------
(* The inductive invariant.                                                *)

\* The invariant holds of an empty outbox.
LEMMA IInvInit == Init => IInv
  BY TypeInit, OutboxAssumption
     DEF Init, IInv, OneCurrent, ClaimFencing, HeldEnqueued, SentAccepted, PendingHasBudget,
         Held, Absent

\* Leasing rows to w leaves every other owner without them, and w, which held
\* nothing, with their latest attempt.
LEMMA LeaseRowsInv ==
    ASSUME IInv, NEW w \in Workers, NEW S \in SUBSET Messages,
           Claimable(w, S), LeaseRows(w, S)
    PROVE  \A m \in Messages :
              /\ m \in S => /\ outbox'[m].status = "processing"
                            /\ outbox'[m].owner = w
                            /\ outbox'[m].attempt = outbox[m].attempt + 1
              /\ m \notin S => outbox'[m] = outbox[m]
<1>1. \A m \in Messages : outbox[m] \in Row
  BY DEF IInv, TypeOK
<1> QED
  BY <1>1, LeasedRow DEF LeaseRows

\* What settling a claim does to the table: one row, which w owned, gives up
\* its lease; it becomes pending only with attempts left.
LEMMA SettleInv ==
    ASSUME IInv, NEW w \in Workers, NEW c \in current[w], Settle(w, c)
    PROVE  \A m \in Messages :
              \/ outbox'[m] = outbox[m]
              \/ /\ m = c.msg
                 /\ outbox[m].status = "processing"
                 /\ outbox'[m].status \in {"succeeded", "dead_letter", "pending"}
                 /\ outbox'[m].status = "succeeded" => phase[w] = "sent"
                 /\ outbox'[m].status = "pending" => outbox'[m].attempt < MaxAttempts
<1>1. c \in Claim /\ c.msg \in Messages /\ c \in Held(w)
  BY DEF IInv, TypeOK, Claim, Held
<1>2. outbox[c.msg] \in Row /\ outbox \in [Messages -> Row]
  BY <1>1 DEF IInv, TypeOK
<1>3. CASE Owns(w, c)
  <2>1. PICK row \in FinalRows(w, c) : outbox' = [outbox EXCEPT ![c.msg] = row]
    BY <1>3 DEF Settle
  <2>2. c.attempt = outbox[c.msg].attempt
    BY <1>1, <1>3 DEF IInv, ClaimFencing
  <2>3. /\ row.status \in {"succeeded", "dead_letter", "pending"}
        /\ row.status = "succeeded" => phase[w] = "sent"
        /\ row.status = "pending" => row.attempt < MaxAttempts
    BY <1>1, <1>2, <2>2, FinalRow
  <2> QED
    BY <1>1, <1>2, <1>3, <2>1, <2>3 DEF Owns
<1>4. CASE ~Owns(w, c)
  BY <1>4 DEF Settle
<1> QED
  BY <1>3, <1>4

\* Every step keeps the invariant.
LEMMA IInvStep == IInv /\ [Next]_vars => IInv'
<1> SUFFICES ASSUME IInv, [Next]_vars
             PROVE  /\ OneCurrent' /\ ClaimFencing' /\ HeldEnqueued'
                    /\ SentAccepted' /\ PendingHasBudget'
  BY TypeStep DEF IInv
<1>0. TypeOK /\ TypeOK'
  BY TypeStep DEF IInv
<1> USE DEF workerVars
<1> DEFINE Goal == /\ OneCurrent' /\ ClaimFencing' /\ HeldEnqueued'
                   /\ SentAccepted' /\ PendingHasBudget'
<1>1. ASSUME NEW m \in Messages, NEW ttl \in Lifetimes, Enqueue(m, ttl)
      PROVE  Goal
  BY <1>0, <1>1, FreshRow, Parameters
     DEF IInv, Enqueue, TypeOK, OneCurrent, ClaimFencing, HeldEnqueued, SentAccepted,
         PendingHasBudget, Held, Owns
<1>2. ASSUME NEW w \in Workers, NEW S \in SUBSET Messages, ClaimMessages(w, S)
      PROVE  Goal
  <2>1. \A m \in Messages :
           /\ m \in S => /\ outbox'[m].status = "processing"
                         /\ outbox'[m].owner = w
                         /\ outbox'[m].attempt = outbox[m].attempt + 1
           /\ m \notin S => outbox'[m] = outbox[m]
    BY <1>2, LeaseRowsInv DEF ClaimMessages
  <2>2. Held(w)' = {ClaimOf(m) : m \in S} /\ \A v \in Workers \ {w} : Held(v)' = Held(v)
    BY <1>0, <1>2 DEF ClaimMessages, Claimable, TypeOK, Held
  <2>3. \A m \in S : ClaimOf(m).msg = m /\ ClaimOf(m).attempt = outbox[m].attempt + 1
    BY <1>0, ClaimOfType
  <2>4. \A v \in Workers : \A c \in Held(v) : c.msg \in Messages
    BY <1>0 DEF TypeOK, Held, Claim
  <2>5. ClaimFencing'
    BY <2>1, <2>2, <2>3, <2>4 DEF IInv, ClaimFencing, Owns
  <2>6. HeldEnqueued'
    BY <2>1, <2>2, <2>3, <2>4 DEF IInv, HeldEnqueued
  <2>7. OneCurrent' /\ SentAccepted' /\ PendingHasBudget'
    BY <1>0, <1>2, <2>1
       DEF IInv, ClaimMessages, TypeOK, OneCurrent, SentAccepted, PendingHasBudget
  <2> QED
    BY <2>5, <2>6, <2>7
<1>3. ASSUME NEW w \in Workers, NEW S \in SUBSET Messages, ClaimLost(w, S)
      PROVE  Goal
  <2>1. \A m \in Messages :
           /\ m \in S => /\ outbox'[m].status = "processing"
                         /\ outbox'[m].owner = w
           /\ m \notin S => outbox'[m] = outbox[m]
    BY <1>3, LeaseRowsInv DEF ClaimLost
  <2>2. \A v \in Workers : Held(v)' = Held(v)
    BY <1>3 DEF ClaimLost, Held
  <2>3. Held(w) = {}
    BY <1>0, <1>3 DEF ClaimLost, Claimable, TypeOK
  <2>4. \A v \in Workers : \A c \in Held(v) : c.msg \in Messages
    BY <1>0 DEF TypeOK, Held, Claim
  <2>5. ClaimFencing' /\ HeldEnqueued'
    BY <2>1, <2>2, <2>3, <2>4 DEF IInv, ClaimFencing, HeldEnqueued, Owns
  <2>6. OneCurrent' /\ SentAccepted' /\ PendingHasBudget'
    BY <1>0, <1>3, <2>1
       DEF IInv, ClaimLost, TypeOK, OneCurrent, SentAccepted, PendingHasBudget
  <2> QED
    BY <2>5, <2>6
<1>4. ASSUME NEW w \in Workers, NEW c \in batch[w],
             BeginExpired(w, c) \/ BeginInvalid(w, c) \/ BeginSend(w, c)
      PROVE  Goal
  <2>1. \E next \in {"failing", "sending"}, why \in Categories : Begin(w, c, next, why)
    BY <1>4 DEF BeginExpired, BeginInvalid, BeginSend, Categories
  <2>2. \A v \in Workers : Held(v)' \subseteq Held(v)
    BY <1>0, <2>1 DEF Begin, TypeOK, Held
  <2>3. UNCHANGED <<outbox, delivered>>
    BY <2>1 DEF Begin
  <2>4. ClaimFencing' /\ HeldEnqueued' /\ PendingHasBudget'
    BY <2>2, <2>3 DEF IInv, ClaimFencing, HeldEnqueued, PendingHasBudget, Owns
  <2>5. OneCurrent' /\ SentAccepted'
    BY <1>0, <2>1 DEF IInv, Begin, TypeOK, OneCurrent, SentAccepted
  <2> QED
    BY <2>4, <2>5
<1>5. ASSUME NEW w \in Workers, NEW c \in current[w],
             SendAccepted(w, c) \/ SendFailed(w, c)
      PROVE  Goal
  <2>1. /\ UNCHANGED <<outbox, batch, current>>
        /\ phase'[w] = "sent" => delivered'[c.msg] > 0
        /\ \A v \in Workers \ {w} : phase'[v] = phase[v]
        /\ \A m \in Messages : delivered'[m] >= delivered[m]
    BY <1>0, <1>5 DEF SendAccepted, SendFailed, TypeOK, Claim
  <2>2. OneCurrent' /\ ClaimFencing' /\ HeldEnqueued' /\ PendingHasBudget'
    BY <2>1 DEF IInv, OneCurrent, ClaimFencing, HeldEnqueued, PendingHasBudget, Held, Owns
  <2>3. SentAccepted'
    <3> SUFFICES ASSUME NEW v \in Workers, phase'[v] = "sent", NEW d \in current[v]
                 PROVE  delivered'[d.msg] > 0
      BY <2>1 DEF SentAccepted
    <3>1. CASE v = w
      BY <2>1, <3>1 DEF IInv, OneCurrent
    <3>2. CASE v # w
      <4>1. delivered[d.msg] > 0 /\ d.msg \in Messages
        BY <1>0, <2>1, <3>2 DEF IInv, SentAccepted, TypeOK, Claim
      <4>2. delivered'[d.msg] >= delivered[d.msg]
            /\ delivered[d.msg] \in Nat /\ delivered'[d.msg] \in Nat
        BY <1>0, <2>1, <4>1 DEF TypeOK
      <4> QED
        BY <4>1, <4>2
    <3> QED
      BY <3>1, <3>2
  <2> QED
    BY <2>2, <2>3
<1>6. ASSUME NEW w \in Workers, NEW c \in current[w],
             Finalize(w, c) \/ FinalizeLost(w, c)
      PROVE  Goal
  <2>1. \A m \in Messages :
           \/ outbox'[m] = outbox[m]
           \/ /\ m = c.msg
              /\ outbox'[m].status \in {"succeeded", "dead_letter", "pending"}
              /\ outbox'[m].status = "pending" => outbox'[m].attempt < MaxAttempts
    BY <1>6, SettleInv DEF Finalize, FinalizeLost
  <2>2. /\ current'[w] = {} /\ phase'[w] # "sent"
        /\ \A v \in Workers \ {w} : phase'[v] = phase[v] /\ current'[v] = current[v]
        /\ \A v \in Workers : Held(v)' \subseteq Held(v)
        /\ UNCHANGED delivered
    BY <1>0, <1>6 DEF Finalize, FinalizeLost, Drop, TypeOK, Held
  <2>3. \A v \in Workers : \A d \in Held(v) : d.msg \in Messages
    BY <1>0 DEF TypeOK, Held, Claim
  <2>4. OneCurrent' /\ SentAccepted'
    BY <2>2 DEF IInv, OneCurrent, SentAccepted
  <2>5. ClaimFencing' /\ HeldEnqueued'
    BY <2>1, <2>2, <2>3 DEF IInv, ClaimFencing, HeldEnqueued, Owns
  <2>6. PendingHasBudget'
    BY <2>1 DEF IInv, PendingHasBudget
  <2> QED
    BY <2>4, <2>5, <2>6
<1>7. ASSUME NEW w \in Workers,
             BatchDone(w) \/ GraceExpired(w) \/ Exit(w) \/ RequestStop(w) \/ Crash(w)
      PROVE  Goal
  <2>1. /\ UNCHANGED <<outbox, delivered>>
        /\ \A v \in Workers : /\ current'[v] \subseteq current[v]
                              /\ Held(v)' \subseteq Held(v)
                              /\ phase'[v] = "sent" => phase[v] = "sent"
    BY <1>0, <1>7
       DEF BatchDone, GraceExpired, Exit, RequestStop, Crash, Drop, TypeOK, Held
  <2> QED
    BY <2>1 DEF IInv, OneCurrent, ClaimFencing, HeldEnqueued, SentAccepted,
                PendingHasBudget, Owns
<1>8. CASE Tick
  <2>1. \A m \in Messages : /\ outbox'[m].status = outbox[m].status
                            /\ outbox'[m].owner = outbox[m].owner
                            /\ outbox'[m].attempt = outbox[m].attempt
    BY <1>0, <1>8, ElapsedRow DEF Tick, TypeOK
  <2>2. \A v \in Workers : \A d \in Held(v) : d.msg \in Messages
    BY <1>0 DEF TypeOK, Held, Claim
  <2>3. UNCHANGED <<phase, batch, current, delivered>>
    BY <1>8 DEF Tick
  <2> QED
    BY <2>1, <2>2, <2>3
       DEF IInv, OneCurrent, ClaimFencing, HeldEnqueued, SentAccepted,
           PendingHasBudget, Held, Owns
<1>9. CASE UNCHANGED vars
  BY <1>9 DEF vars, IInv, OneCurrent, ClaimFencing, HeldEnqueued, SentAccepted,
              PendingHasBudget, Held, Owns
<1> QED
  BY <1>1, <1>2, <1>3, <1>4, <1>5, <1>6, <1>7, <1>8, <1>9 DEF Next, Process, Disturb

\* A claim that passes the finalizing update's ownership test is the row's
\* latest attempt, although the update names no attempt: for any number of
\* workers, leases that expire at any moment, crashes and lost commits.
THEOREM Fencing == Spec => []ClaimFencing
  BY IInvInit, IInvStep, PTL DEF Spec, IInv

\* A row that waits for a retry has attempts left.
THEOREM RetriesWithinBudget == Spec => []PendingHasBudget
  BY IInvInit, IInvStep, PTL DEF Spec, IInv

\* What a claim remembers of its row settles the right attempt and counts the
\* attempts right, for any number of workers and any interleaving.
THEOREM Agreement == Spec => []ClaimsAgree
  BY Fencing, RetriesWithinBudget, PTL DEF ClaimsAgree

----------------------------------------------------------------------------
(* The outbox implements EmailDelivery.                                    *)

\* What EmailDelivery sees of each status.
LEMMA OutcomeValues ==
    /\ OutcomeOf("absent") = "absent"
    /\ OutcomeOf("pending") = "accepted"
    /\ OutcomeOf("processing") = "accepted"
    /\ OutcomeOf("succeeded") = "delivered"
    /\ OutcomeOf("dead_letter") = "abandoned"
  BY DEF OutcomeOf

\* Initial states map to initial states.
LEMMA RefinementInit == Init => Delivery!Init
<1> SUFFICES ASSUME Init
             PROVE  Delivery!Init
  OBVIOUS
<1>1. \A m \in Messages : outbox[m].status = "absent" /\ (delivered[m] > 0) = FALSE
  BY DEF Init, Absent
<1>2. outcomeBar = [m \in Messages |-> "absent"]
  BY <1>1, OutcomeValues DEF outcomeBar
<1>3. sentBar = [m \in Messages |-> FALSE]
  BY <1>1 DEF sentBar
<1> QED
  BY <1>2, <1>3 DEF Delivery!Init

\* A step that changes no outcome and sends nothing is invisible.
LEMMA Invisible ==
    ASSUME \A m \in Messages : OutcomeOf(outbox'[m].status) = OutcomeOf(outbox[m].status),
           UNCHANGED delivered
    PROVE  UNCHANGED Delivery!vars
  BY DEF Delivery!vars, outcomeBar, sentBar

\* Settling a claim confirms it, abandons it or leaves it accepted.
LEMMA RefinementSettle ==
    ASSUME IInv, NEW w \in Workers, NEW c \in current[w], Settle(w, c),
           UNCHANGED delivered
    PROVE  [Delivery!Next]_(Delivery!vars)
<1>1. c.msg \in Messages /\ \A m \in Messages : outbox[m].status \in Statuses
  BY DEF IInv, TypeOK, Claim, Row
<1>2. \A m \in Messages :
         \/ outbox'[m] = outbox[m]
         \/ /\ m = c.msg
            /\ outbox[m].status = "processing"
            /\ outbox'[m].status \in {"succeeded", "dead_letter", "pending"}
            /\ outbox'[m].status = "succeeded" => phase[w] = "sent"
  BY SettleInv
<1>3. CASE outbox'[c.msg] = outbox[c.msg] \/ outbox'[c.msg].status = "pending"
  <2>1. \A m \in Messages : OutcomeOf(outbox'[m].status) = OutcomeOf(outbox[m].status)
    BY <1>1, <1>2, <1>3 DEF OutcomeOf
  <2> QED
    BY <2>1, Invisible
<1>4. CASE outbox[c.msg].status = "processing"
           /\ outbox'[c.msg].status \in {"succeeded", "dead_letter"}
  <2>1. outcomeBar[c.msg] = "accepted" /\ sentBar' = sentBar
    BY <1>1, <1>4 DEF outcomeBar, OutcomeOf, sentBar
  <2>2. outcomeBar' = [outcomeBar EXCEPT ![c.msg] = OutcomeOf(outbox'[c.msg].status)]
    BY <1>1, <1>2 DEF outcomeBar
  <2>3. CASE outbox'[c.msg].status = "succeeded"
    <3>1. sentBar[c.msg]
      BY <1>1, <1>2, <1>4, <2>3 DEF IInv, SentAccepted, sentBar
    <3> QED
      BY <1>1, <2>1, <2>2, <2>3, <3>1 DEF Delivery!Next, Delivery!Confirm, OutcomeOf
  <2>4. CASE outbox'[c.msg].status = "dead_letter"
    BY <1>1, <2>1, <2>2, <2>4 DEF Delivery!Next, Delivery!Abandon, OutcomeOf
  <2> QED
    BY <1>4, <2>3, <2>4
<1> QED
  BY <1>1, <1>2, <1>3, <1>4

\* Every step maps to a step of EmailDelivery or to a stutter.
LEMMA RefinementStep == IInv /\ [Next]_vars => [Delivery!Next]_(Delivery!vars)
<1> SUFFICES ASSUME IInv, [Next]_vars
             PROVE  [Delivery!Next]_(Delivery!vars)
  OBVIOUS
<1>0. /\ \A m \in Messages : outbox[m].status \in Statuses
      /\ \A w \in Workers : \A c \in current[w] : c.msg \in Messages
      /\ TypeOK
  BY DEF IInv, TypeOK, Row, Claim
<1>1. ASSUME NEW m \in Messages, NEW ttl \in Lifetimes, Enqueue(m, ttl)
      PROVE  Delivery!Accept(m)
  <2>1. outbox' = [outbox EXCEPT ![m] = NewRow(ttl)] /\ outbox \in [Messages -> Row]
    BY <1>0, <1>1 DEF Enqueue, TypeOK
  <2>2. outcomeBar' = [outcomeBar EXCEPT ![m] = "accepted"]
    <3>1. outbox'[m].status = "pending" /\ \A k \in Messages \ {m} : outbox'[k] = outbox[k]
      BY <2>1, FreshRow
    <3> QED
      BY <3>1, OutcomeValues DEF outcomeBar
  <2> QED
    BY <1>1, <2>2 DEF Enqueue, Delivery!Accept, outcomeBar, sentBar, OutcomeOf
<1>2. ASSUME NEW w \in Workers, NEW S \in SUBSET Messages,
             ClaimMessages(w, S) \/ ClaimLost(w, S)
      PROVE  UNCHANGED Delivery!vars
  <2>1. \A m \in Messages :
           /\ m \in S => outbox'[m].status = "processing"
           /\ m \notin S => outbox'[m] = outbox[m]
    BY <1>2, LeaseRowsInv DEF ClaimMessages, ClaimLost
  <2>2. \A m \in S : outbox[m].status \in {"pending", "processing"}
    BY <1>2 DEF ClaimMessages, ClaimLost, Claimable, Due
  <2>3. \A m \in Messages : OutcomeOf(outbox'[m].status) = OutcomeOf(outbox[m].status)
    BY <2>1, <2>2 DEF OutcomeOf
  <2> QED
    BY <1>2, <2>3, Invisible DEF ClaimMessages, ClaimLost
<1>3. ASSUME NEW w \in Workers, NEW c \in current[w],
             SendAccepted(w, c) \/ SendFailed(w, c)
      PROVE  [Delivery!Next]_(Delivery!vars)
  <2>1. outbox' = outbox /\ c.msg \in Messages
    BY <1>0, <1>3 DEF SendAccepted, SendFailed
  <2>2. \E n \in {0, 1} : delivered' = [delivered EXCEPT ![c.msg] = @ + n]
    BY <1>3 DEF SendAccepted, SendFailed
  <2>3. CASE delivered' = delivered
    BY <2>1, <2>3, Invisible
  <2>4. CASE delivered' = [delivered EXCEPT ![c.msg] = @ + 1]
    <3>1. \A m \in Messages : delivered[m] \in Nat
      BY <1>0 DEF TypeOK
    <3>2. sentBar' = [sentBar EXCEPT ![c.msg] = TRUE]
      <4>1. delivered'[c.msg] > 0 /\ \A m \in Messages \ {c.msg} : delivered'[m] = delivered[m]
        BY <1>0, <2>1, <2>4, <3>1 DEF TypeOK
      <4>2. \A m \in Messages : (delivered'[m] > 0)
                                = IF m = c.msg THEN TRUE ELSE (delivered[m] > 0)
        BY <4>1
      <4> QED
        BY <4>2 DEF sentBar
    <3>3. outcomeBar' = outcomeBar
      BY <2>1 DEF outcomeBar
    <3>4. outbox[c.msg].status # "absent"
      BY DEF IInv, HeldEnqueued, Held
    <3>5. outcomeBar[c.msg] # "absent"
      BY <1>0, <2>1, <3>4 DEF outcomeBar, OutcomeOf, Statuses
    <3> QED
      BY <2>1, <3>2, <3>3, <3>5 DEF Delivery!Next, Delivery!Send
  <2>5. delivered[c.msg] + 0 = delivered[c.msg] /\ delivered \in [Messages -> Nat]
    BY <1>0, <2>1 DEF TypeOK
  <2>6. [delivered EXCEPT ![c.msg] = @ + 0] = delivered
    BY <2>5
  <2> QED
    BY <2>2, <2>3, <2>4, <2>6
<1>4. ASSUME NEW w \in Workers, NEW c \in current[w],
             Finalize(w, c) \/ FinalizeLost(w, c)
      PROVE  [Delivery!Next]_(Delivery!vars)
  <2>1. UNCHANGED delivered /\ (Settle(w, c) \/ UNCHANGED outbox)
    BY <1>4 DEF Finalize, FinalizeLost
  <2> QED
    BY <2>1, RefinementSettle, Invisible
<1>5. ASSUME UNCHANGED outbox, UNCHANGED delivered
      PROVE  UNCHANGED Delivery!vars
  BY <1>5, Invisible
<1>6. CASE Tick
  BY <1>0, <1>6, ElapsedRow, Invisible DEF Tick, TypeOK
<1>7. ASSUME NEW w \in Workers,
             \/ \E c \in batch[w] : BeginExpired(w, c) \/ BeginInvalid(w, c) \/ BeginSend(w, c)
             \/ BatchDone(w) \/ GraceExpired(w) \/ Exit(w) \/ RequestStop(w) \/ Crash(w)
      PROVE  UNCHANGED outbox /\ UNCHANGED delivered
  BY <1>7 DEF BeginExpired, BeginInvalid, BeginSend, Begin, BatchDone, GraceExpired,
              Exit, RequestStop, Crash
<1>8. CASE UNCHANGED vars
  BY <1>5, <1>8 DEF vars
<1> QED
  BY <1>1, <1>2, <1>3, <1>4, <1>5, <1>6, <1>7, <1>8
     DEF Next, Process, Disturb, Delivery!Next

\* The outbox implements EmailDelivery: nothing is recorded as delivered that
\* the SMTP server never accepted, and a settled e-mail is never reopened.
THEOREM Refinement == Spec => ImplementsDelivery
  BY IInvInit, IInvStep, RefinementInit, RefinementStep, PTL
     DEF Spec, ImplementsDelivery, Delivery!Spec

----------------------------------------------------------------------------
(* What claims can still buy.                                              *)

\* The claims of worker w whose e-mail has not been handed to the server.
Unspent(w) == batch[w] \cup (IF phase[w] = "sending" THEN current[w] ELSE {})

UnspentAttempts(m) ==
    {a \in 1..outbox[m].attempt : \E w \in Workers : [msg |-> m, attempt |-> a] \in Unspent(w)}

\* Attempts are numbered by the row, so no claim exists twice.
ClaimsApart ==
    /\ \A w \in Workers : \A c \in Held(w) : c.attempt \in 1..outbox[c.msg].attempt
    /\ \A v, w \in Workers : v # w => Held(v) \cap Held(w) = {}
    /\ \A w \in Workers : batch[w] \cap current[w] = {}

\* The attempts of a row are those that have bought an e-mail, those that still
\* may, and those that were lost.
Budget ==
    /\ \A m \in Messages : outbox[m].status = "absent" => outbox[m].attempt = 0
    /\ \A m \in Messages :
          delivered[m] + Cardinality(UnspentAttempts(m)) <= outbox[m].attempt

Buying == ClaimsApart /\ Budget

\* The attempts that may still be spent can be counted.
LEMMA UnspentFinite ==
    ASSUME TypeOK, NEW m \in Messages
    PROVE  /\ outbox[m].attempt \in Nat /\ delivered[m] \in Nat
           /\ IsFiniteSet(UnspentAttempts(m))
           /\ Cardinality(UnspentAttempts(m)) \in Nat
<1>1. outbox[m].attempt \in Nat /\ delivered[m] \in Nat
  BY DEF TypeOK, Row
<1>2. IsFiniteSet(1..outbox[m].attempt)
  BY <1>1, FS_Interval
<1>3. UnspentAttempts(m) \in SUBSET (1..outbox[m].attempt)
  BY DEF UnspentAttempts
<1>4. IsFiniteSet(UnspentAttempts(m))
  BY <1>2, <1>3, FS_Subset
<1> QED
  BY <1>1, <1>4, FS_CardinalityType

\* Claims are their message and their attempt.
LEMMA ClaimFields ==
    ASSUME TypeOK, NEW w \in Workers
    PROVE  /\ Unspent(w) \subseteq Held(w)
           /\ \A c \in Held(w) :
                 c \in Claim /\ c.msg \in Messages /\ c = [msg |-> c.msg, attempt |-> c.attempt]
  BY DEF TypeOK, Claim, Held, Unspent

\* Workers forget claims, spend them without an e-mail or do nothing to them.
LEMMA ForgetStep ==
    ASSUME IInv, TypeOK', Buying, UNCHANGED delivered,
           \A m \in Messages : outbox'[m].attempt = outbox[m].attempt,
           \A m \in Messages : outbox'[m].status = "absent" => outbox[m].status = "absent",
           \A w \in Workers : Held(w)' \subseteq Held(w) /\ Unspent(w)' \subseteq Unspent(w),
           \A w \in Workers : batch'[w] \cap current'[w] = {}
    PROVE  Buying'
<1>1. ClaimsApart'
  <2>1. \A w \in Workers : \A c \in Held(w)' : c.attempt \in 1..outbox'[c.msg].attempt
    BY ClaimFields DEF IInv, Buying, ClaimsApart
  <2>2. \A v, w \in Workers : v # w => Held(v)' \cap Held(w)' = {}
    BY DEF Buying, ClaimsApart
  <2> QED
    BY <2>1, <2>2 DEF ClaimsApart
<1>2. ASSUME NEW m \in Messages
      PROVE  delivered'[m] + Cardinality(UnspentAttempts(m)') <= outbox'[m].attempt
  <2>1. UnspentAttempts(m)' \in SUBSET UnspentAttempts(m)
    BY DEF UnspentAttempts
  <2>2. Cardinality(UnspentAttempts(m)') <= Cardinality(UnspentAttempts(m))
    BY <2>1, UnspentFinite, FS_Subset DEF IInv
  <2>3. Cardinality(UnspentAttempts(m)') \in Nat
    BY <2>1, UnspentFinite, FS_Subset, FS_CardinalityType DEF IInv
  <2>4. delivered[m] + Cardinality(UnspentAttempts(m)) <= outbox[m].attempt
    BY DEF Buying, Budget
  <2> QED
    BY <2>2, <2>3, <2>4, UnspentFinite DEF IInv
<1>3. Budget'
  BY <1>2 DEF Buying, Budget
<1> QED
  BY <1>1, <1>3 DEF Buying

\* The exchange with the server spends the claim and buys one e-mail at most.
LEMMA SpendStep ==
    ASSUME IInv, TypeOK', Buying, NEW w \in Workers, NEW c \in current[w], phase[w] = "sending",
           phase'[w] # "sending", \A v \in Workers : v # w => phase'[v] = phase[v],
           UNCHANGED <<outbox, batch, current>>,
           NEW n \in {0, 1}, delivered' = [delivered EXCEPT ![c.msg] = @ + n]
    PROVE  Buying'
<1>1. /\ c \in Held(w) /\ c \in Unspent(w) /\ c \in Claim /\ c.msg \in Messages
      /\ c.attempt \in 1..outbox[c.msg].attempt
      /\ c = [msg |-> c.msg, attempt |-> c.attempt]
  BY ClaimFields DEF IInv, Held, Unspent, Buying, ClaimsApart
<1>2. \A v \in Workers : Held(v)' = Held(v) /\ Unspent(v)' \subseteq Unspent(v)
  BY DEF Held, Unspent
<1>3. ClaimsApart'
  BY <1>2 DEF Buying, ClaimsApart
<1>4. \A v \in Workers : c \notin Unspent(v)'
  <2> TAKE v \in Workers
  <2>1. CASE v = w
    BY <2>1 DEF Unspent, Buying, ClaimsApart
  <2>2. CASE v # w
    <3>1. c \notin Held(v)
      BY <1>1, <2>2 DEF Buying, ClaimsApart
    <3> QED
      BY <1>2, <3>1, ClaimFields DEF IInv
  <2> QED
    BY <2>1, <2>2
<1>5. ASSUME NEW m \in Messages
      PROVE  delivered'[m] + Cardinality(UnspentAttempts(m)') <= outbox'[m].attempt
  <2>1. UnspentAttempts(m)' \in SUBSET UnspentAttempts(m)
    BY <1>2 DEF UnspentAttempts
  <2>2. /\ Cardinality(UnspentAttempts(m)') <= Cardinality(UnspentAttempts(m))
        /\ Cardinality(UnspentAttempts(m)') \in Nat
    BY <2>1, UnspentFinite, FS_Subset, FS_CardinalityType DEF IInv
  <2>3. delivered[m] + Cardinality(UnspentAttempts(m)) <= outbox[m].attempt
    BY DEF Buying, Budget
  <2>4. CASE m # c.msg
    <3>1. delivered'[m] = delivered[m]
      BY <2>4 DEF IInv, TypeOK
    <3> QED
      BY <2>2, <2>3, <3>1, UnspentFinite DEF IInv
  <2>5. CASE m = c.msg
    <3>1. c.attempt \in UnspentAttempts(m)
      BY <1>1, <2>5 DEF UnspentAttempts
    <3>2. UnspentAttempts(m)' \in SUBSET (UnspentAttempts(m) \ {c.attempt})
      BY <1>1, <1>4, <2>1, <2>5 DEF UnspentAttempts
    <3>3. /\ IsFiniteSet(UnspentAttempts(m) \ {c.attempt})
          /\ Cardinality(UnspentAttempts(m) \ {c.attempt}) = Cardinality(UnspentAttempts(m)) - 1
      BY <3>1, UnspentFinite, FS_RemoveElement DEF IInv
    <3>4. Cardinality(UnspentAttempts(m)') <= Cardinality(UnspentAttempts(m)) - 1
      BY <3>2, <3>3, FS_Subset
    <3>5. delivered'[m] \in {delivered[m], delivered[m] + 1}
      BY <2>5, UnspentFinite DEF IInv, TypeOK
    <3> QED
      BY <2>2, <2>3, <3>4, <3>5, UnspentFinite DEF IInv
  <2> QED
    BY <2>4, <2>5
<1>6. Budget'
  BY <1>5 DEF Buying, Budget
<1> QED
  BY <1>3, <1>6 DEF Buying

\* Leasing gives each row of S one attempt more, which its new claim may spend.
LEMMA LeaseStep ==
    ASSUME IInv, Buying, NEW w \in Workers, NEW S \in SUBSET Messages,
           Claimable(w, S), LeaseRows(w, S), UNCHANGED <<current, delivered>>,
           \/ UNCHANGED <<batch, phase>>
           \/ /\ batch' = [batch EXCEPT ![w] = {ClaimOf(m) : m \in S}]
              /\ phase' = [phase EXCEPT ![w] = "running"]
    PROVE  Buying'
<1> DEFINE New(m) == outbox[m].attempt + 1
<1>0. TypeOK
  BY DEF IInv
<1>1. \A m \in Messages :
        /\ m \in S => outbox'[m].attempt = New(m) /\ outbox'[m].status = "processing"
        /\ m \notin S => outbox'[m] = outbox[m]
        /\ outbox[m].attempt \in Nat
  BY <1>0, LeaseRowsInv, UnspentFinite
<1>2. \A m \in Messages : ClaimOf(m) = [msg |-> m, attempt |-> New(m)]
  BY DEF ClaimOf
<1>3. Held(w) = {} /\ current'[w] = {} /\ Held(w)' \subseteq {ClaimOf(m) : m \in S}
  BY <1>0 DEF Claimable, TypeOK, Held
<1>4. \A v \in Workers : v # w => Held(v)' = Held(v) /\ Unspent(v)' = Unspent(v)
  BY <1>0 DEF TypeOK, Held, Unspent
<1>5. Unspent(w)' \subseteq {ClaimOf(m) : m \in S}
  BY <1>0, <1>3 DEF Claimable, TypeOK, Held, Unspent
<1>6. \A v \in Workers : \A c \in Held(v) :
        /\ c.msg \in Messages /\ c.attempt \in 1..outbox[c.msg].attempt
        /\ \A m \in Messages : c # ClaimOf(m)
  <2> TAKE v \in Workers
  <2> TAKE c \in Held(v)
  <2>1. c.msg \in Messages /\ c.attempt \in 1..outbox[c.msg].attempt
    BY <1>0, ClaimFields DEF Buying, ClaimsApart
  <2>2. ASSUME NEW m \in Messages, c = ClaimOf(m) PROVE FALSE
    <3>1. c.msg = m /\ c.attempt = New(m)
      BY <1>2, <2>2
    <3> QED
      BY <1>1, <2>1, <3>1
  <2> QED
    BY <2>1, <2>2
<1>7. ClaimsApart'
  <2>1. ASSUME NEW v \in Workers, NEW c \in Held(v)'
        PROVE  c.attempt \in 1..outbox'[c.msg].attempt
    <3>1. CASE v = w
      <4>1. PICK m \in S : c = ClaimOf(m)
        BY <1>3, <2>1, <3>1
      <4>2. c.msg = m /\ c.attempt = New(m)
        BY <1>2, <4>1
      <4> QED
        BY <1>1, <4>2
    <3>2. CASE v # w
      <4>1. c.msg \in Messages /\ c.attempt \in 1..outbox[c.msg].attempt
        BY <1>4, <1>6, <2>1, <3>2
      <4> QED
        BY <1>1, <4>1
    <3> QED
      BY <3>1, <3>2
  <2>2. ASSUME NEW u \in Workers, NEW v \in Workers, u # v
        PROVE  Held(u)' \cap Held(v)' = {}
    <3>1. CASE u = w
      BY <1>3, <1>4, <1>6, <2>2, <3>1
    <3>2. CASE v = w
      BY <1>3, <1>4, <1>6, <2>2, <3>2
    <3>3. CASE u # w /\ v # w
      BY <1>4, <2>2, <3>3 DEF Buying, ClaimsApart
    <3> QED
      BY <3>1, <3>2, <3>3
  <2>3. \A v \in Workers : batch'[v] \cap current'[v] = {}
    BY <1>0, <1>3 DEF Buying, ClaimsApart, TypeOK
  <2> QED
    BY <2>1, <2>2, <2>3 DEF ClaimsApart
<1>8. ASSUME NEW m \in Messages
      PROVE  delivered'[m] + Cardinality(UnspentAttempts(m)') <= outbox'[m].attempt
  <2>1. delivered[m] + Cardinality(UnspentAttempts(m)) <= outbox[m].attempt
    BY DEF Buying, Budget
  <2>2. ASSUME NEW a \in UnspentAttempts(m)'
        PROVE  a \in UnspentAttempts(m) \/ (m \in S /\ a = New(m))
    <3>1. PICK v \in Workers : [msg |-> m, attempt |-> a] \in Unspent(v)'
      BY <2>2 DEF UnspentAttempts
    <3>2. CASE v = w
      <4>1. PICK k \in S : [msg |-> m, attempt |-> a] = ClaimOf(k)
        BY <1>5, <3>1, <3>2
      <4> QED
        BY <1>2, <4>1
    <3>3. CASE v # w
      <4> DEFINE c == [msg |-> m, attempt |-> a]
      <4>1. c \in Unspent(v) /\ c \in Held(v)
        BY <1>0, <1>4, <3>1, <3>3, ClaimFields
      <4>2. c.attempt \in 1..outbox[c.msg].attempt
        BY <1>6, <4>1
      <4> QED
        BY <4>1, <4>2 DEF UnspentAttempts
    <3> QED
      BY <3>2, <3>3
  <2>3. CASE m \notin S
    <3>1. UnspentAttempts(m)' \in SUBSET UnspentAttempts(m)
      BY <2>2, <2>3
    <3>2. /\ Cardinality(UnspentAttempts(m)') <= Cardinality(UnspentAttempts(m))
          /\ Cardinality(UnspentAttempts(m)') \in Nat
      BY <1>0, <3>1, UnspentFinite, FS_Subset, FS_CardinalityType
    <3> QED
      BY <1>0, <1>1, <2>1, <2>3, <3>2, UnspentFinite
  <2>4. CASE m \in S
    <3> DEFINE more == UnspentAttempts(m) \cup {New(m)}
    <3>1. UnspentAttempts(m)' \in SUBSET more
      BY <2>2
    <3>2. IsFiniteSet(UnspentAttempts(m)) /\ Cardinality(UnspentAttempts(m)) \in Nat
      BY <1>0, UnspentFinite
    <3>3. /\ IsFiniteSet(more)
          /\ Cardinality(more) = IF New(m) \in UnspentAttempts(m)
                                 THEN Cardinality(UnspentAttempts(m))
                                 ELSE Cardinality(UnspentAttempts(m)) + 1
      BY <3>2, FS_AddElement
    <3>4. /\ IsFiniteSet(more) /\ Cardinality(more) \in Nat
          /\ Cardinality(more) <= Cardinality(UnspentAttempts(m)) + 1
      BY <3>2, <3>3
    <3>5. /\ Cardinality(UnspentAttempts(m)') <= Cardinality(more)
          /\ Cardinality(UnspentAttempts(m)') \in Nat
      BY <3>1, <3>4, FS_Subset, FS_CardinalityType
    <3> QED
      BY <1>0, <1>1, <2>1, <2>4, <3>4, <3>5, UnspentFinite
  <2> QED
    BY <2>3, <2>4
<1>9. \A m \in Messages : outbox'[m].status = "absent" => outbox'[m].attempt = 0
  BY <1>1 DEF Buying, Budget
<1> QED
  BY <1>7, <1>8, <1>9 DEF Buying, Budget

\* Settling a row leaves the count of its attempts alone.
LEMMA SettleKeepsAttempt ==
    ASSUME IInv, NEW w \in Workers, NEW c \in current[w], Settle(w, c)
    PROVE  \A m \in Messages :
              /\ outbox'[m].attempt = outbox[m].attempt
              /\ outbox'[m].status = "absent" => outbox[m].status = "absent"
<1>1. c \in Claim /\ c.msg \in Messages /\ outbox[c.msg] \in Row
  BY DEF IInv, TypeOK, Claim
<1>2. CASE Owns(w, c)
  <2>1. PICK row \in FinalRows(w, c) : outbox' = [outbox EXCEPT ![c.msg] = row]
    BY <1>2 DEF Settle
  <2>2. row.attempt = outbox[c.msg].attempt /\ row.status # "absent"
    BY <1>1, FinalRow
  <2> QED
    BY <1>1, <2>1, <2>2 DEF IInv, TypeOK
<1>3. CASE ~Owns(w, c)
  BY <1>3 DEF Settle
<1> QED
  BY <1>2, <1>3

\* At first nothing is delivered.
LEMMA BuyingInit == Init => Buying
<1> SUFFICES ASSUME Init PROVE Buying
  OBVIOUS
<1>1. \A m \in Messages : outbox[m].attempt = 0
  BY DEF Init, Absent
<1>2. \A m \in Messages : UnspentAttempts(m) = {}
  BY <1>1 DEF Init, UnspentAttempts, Unspent
<1>3. ClaimsApart
  BY DEF Init, ClaimsApart, Held
<1> QED
  BY <1>1, <1>2, <1>3, FS_EmptySet DEF Init, Buying, Budget

\* Every step keeps deliveries within the claims.
LEMMA BuyingStep == IInv /\ Buying /\ [Next]_vars => Buying'
<1> SUFFICES ASSUME IInv, Buying, [Next]_vars PROVE Buying'
  OBVIOUS
<1>0. TypeOK /\ TypeOK'
  BY TypeStep DEF IInv
<1> DEFINE Kept == \A m \in Messages :
                      /\ outbox'[m].attempt = outbox[m].attempt
                      /\ outbox'[m].status = "absent" => outbox[m].status = "absent"
<1>1. ASSUME NEW m \in Messages, NEW ttl \in Lifetimes, Enqueue(m, ttl)
      PROVE  Buying'
  <2>1. outbox'[m].attempt = 0 /\ outbox[m].attempt = 0 /\ outbox'[m].status = "pending"
    BY <1>0, <1>1, FreshRow DEF Enqueue, TypeOK, Buying, Budget
  <2>2. Kept
    BY <1>0, <1>1, <2>1 DEF Enqueue, TypeOK
  <2> QED
    BY <1>0, <1>1, <2>2, ForgetStep DEF Enqueue, workerVars, Held, Unspent, Buying, ClaimsApart
<1>2. ASSUME NEW w \in Workers, NEW S \in SUBSET Messages,
             ClaimMessages(w, S) \/ ClaimLost(w, S)
      PROVE  Buying'
  BY <1>2, LeaseStep DEF ClaimMessages, ClaimLost, workerVars
<1>3. ASSUME NEW w \in Workers, NEW c \in batch[w],
             BeginExpired(w, c) \/ BeginInvalid(w, c) \/ BeginSend(w, c)
      PROVE  Buying'
  <2>1. \E next \in {"failing", "sending"}, why \in Categories : Begin(w, c, next, why)
    BY <1>3 DEF BeginExpired, BeginInvalid, BeginSend, Categories
  <2>2. /\ UNCHANGED <<outbox, delivered>>
        /\ batch' = [batch EXCEPT ![w] = @ \ {c}] /\ current' = [current EXCEPT ![w] = {c}]
        /\ phase[w] = "running" /\ \A v \in Workers : v # w => phase'[v] = phase[v]
    BY <1>0, <2>1 DEF Begin, TypeOK
  <2>3. \A v \in Workers : Held(v)' \subseteq Held(v) /\ Unspent(v)' \subseteq Unspent(v)
    BY <1>0, <2>2 DEF TypeOK, Held, Unspent
  <2>4. \A v \in Workers : batch'[v] \cap current'[v] = {}
    BY <1>0, <2>2 DEF TypeOK, Buying, ClaimsApart
  <2> QED
    BY <1>0, <2>2, <2>3, <2>4, ForgetStep
<1>4. ASSUME NEW w \in Workers, NEW c \in current[w], SendAccepted(w, c)
      PROVE  Buying'
  <2>1. phase'[w] # "sending" /\ \A v \in Workers : v # w => phase'[v] = phase[v]
    BY <1>0, <1>4 DEF SendAccepted, TypeOK
  <2> QED
    BY <1>0, <1>4, <2>1, SpendStep DEF SendAccepted
<1>5. ASSUME NEW w \in Workers, NEW c \in current[w], SendFailed(w, c)
      PROVE  Buying'
  <2>1. phase'[w] # "sending" /\ \A v \in Workers : v # w => phase'[v] = phase[v]
    BY <1>0, <1>5 DEF SendFailed, TypeOK
  <2>2. PICK n \in {0, 1} : delivered' = [delivered EXCEPT ![c.msg] = @ + n]
    BY <1>5 DEF SendFailed
  <2> QED
    BY <1>0, <1>5, <2>1, <2>2, SpendStep DEF SendFailed
<1>6. ASSUME NEW w \in Workers, NEW c \in current[w], Finalize(w, c)
      PROVE  Buying'
  <2>1. Kept
    BY <1>6, SettleKeepsAttempt DEF Finalize
  <2>2. \A v \in Workers : Held(v)' \subseteq Held(v) /\ Unspent(v)' \subseteq Unspent(v)
    BY <1>0, <1>6 DEF Finalize, TypeOK, Held, Unspent
  <2>3. \A v \in Workers : batch'[v] \cap current'[v] = {}
    BY <1>0, <1>6 DEF Finalize, TypeOK, Buying, ClaimsApart
  <2> QED
    BY <1>0, <1>6, <2>1, <2>2, <2>3, ForgetStep DEF Finalize
<1>7. ASSUME NEW w \in Workers, NEW next \in {"idle", "stopped"}, Drop(w, next), Kept,
             UNCHANGED delivered
      PROVE  Buying'
  <2>1. \A v \in Workers : Held(v)' \subseteq Held(v) /\ Unspent(v)' \subseteq Unspent(v)
    BY <1>0, <1>7 DEF Drop, TypeOK, Held, Unspent
  <2>2. \A v \in Workers : batch'[v] \cap current'[v] = {}
    BY <1>0, <1>7 DEF Drop, TypeOK, Buying, ClaimsApart
  <2> QED
    BY <1>0, <1>7, <2>1, <2>2, ForgetStep
<1>8. ASSUME NEW w \in Workers, NEW c \in current[w], FinalizeLost(w, c)
      PROVE  Buying'
  <2>1. Kept
    BY <1>8, SettleKeepsAttempt DEF FinalizeLost
  <2> QED
    BY <1>7, <1>8, <2>1 DEF FinalizeLost
<1>9. ASSUME NEW w \in Workers, GraceExpired(w) \/ Crash(w)
      PROVE  Buying'
  BY <1>7, <1>9 DEF GraceExpired, Crash
<1>10. ASSUME NEW w \in Workers, BatchDone(w) \/ Exit(w) \/ RequestStop(w)
       PROVE  Buying'
  <2>1. UNCHANGED <<outbox, batch, current, delivered>>
    BY <1>10 DEF BatchDone, Exit, RequestStop
  <2>2. \A v \in Workers : Held(v)' = Held(v) /\ Unspent(v)' \subseteq Unspent(v)
    BY <1>0, <1>10 DEF BatchDone, Exit, RequestStop, TypeOK, Held, Unspent
  <2> QED
    BY <1>0, <2>1, <2>2, ForgetStep DEF Buying, ClaimsApart
<1>11. CASE Tick
  <2>1. Kept
    BY <1>0, <1>11, ElapsedRow DEF Tick, TypeOK
  <2> QED
    BY <1>0, <1>11, <2>1, ForgetStep DEF Tick, workerVars, Held, Unspent, Buying, ClaimsApart
<1>12. CASE UNCHANGED vars
  BY <1>0, <1>12, ForgetStep DEF vars, Held, Unspent, Buying, ClaimsApart
<1> QED
  BY <1>1, <1>2, <1>3, <1>4, <1>5, <1>6, <1>8, <1>9, <1>10, <1>11, <1>12
     DEF Next, Process, Disturb

\* The invariant and the budget hold in every reachable state.
LEMMA BuyingInvariant == Spec => [](IInv /\ Buying)
  BY IInvInit, IInvStep, BuyingInit, BuyingStep, PTL DEF Spec

\* A message is never handed to the SMTP server more often than it was claimed:
\* leases that expire under a sending worker, repeated claims and crashes between
\* the exchange and the commit each cost an attempt.
THEOREM OneDeliveryPerClaim == Spec => []DeliveriesWithinClaims
<1>1. IInv /\ Buying => DeliveriesWithinClaims
  <2> SUFFICES ASSUME IInv, Buying, NEW m \in Messages
               PROVE  delivered[m] <= outbox[m].attempt
    BY DEF DeliveriesWithinClaims
  <2>1. delivered[m] + Cardinality(UnspentAttempts(m)) <= outbox[m].attempt
    BY DEF Buying, Budget
  <2> QED
    BY <2>1, UnspentFinite DEF IInv
<1> QED
  BY <1>1, BuyingInvariant, PTL

----------------------------------------------------------------------------
(* The delays between attempts.                                            *)

BackoffInv ==
    /\ base \in 1..Seconds /\ maximum \in base..Seconds
    /\ attempt \in 1..LastAttempt
    /\ delay \in RetryDelaysOf(attempt)

\* What a retry delay is: the doubled base, or up to twice of it, unless the
\* maximum is less.
LEMMA DelayBounds ==
    ASSUME NEW n \in 1..LastAttempt, base \in 1..Seconds, maximum \in base..Seconds,
           NEW d \in RetryDelaysOf(n)
    PROVE  /\ base * 2^(n - 1) \in Nat /\ base * 2^(n - 1) >= base
           /\ d \in base..maximum
           /\ d >= AtMost(maximum, base * 2^(n - 1))
           /\ d <= AtMost(maximum, 2 * (base * 2^(n - 1)))
<1> DEFINE power == 2^(n - 1)
           doubled == base * power
<1>1. /\ base \in Nat /\ maximum \in Nat /\ 1 <= base /\ base <= maximum
      /\ n - 1 \in 0..LastAttempt
  BY BackoffAssumption
<1>2. power \in Nat /\ 1 <= power
  BY <1>1, PowersOfTwo
<1> HIDE DEF power
<1>3. doubled \in Nat /\ doubled >= base
  BY <1>1, <1>2
<1>4. Exponential(n) = AtMost(maximum, doubled)
  BY DEF Exponential, power
<1> HIDE DEF doubled
<1>5. PICK jitter \in 0..JitterLimit(n) : d = AtMost(maximum, Exponential(n) + jitter)
  BY DEF RetryDelaysOf
<1>6. /\ Exponential(n) \in Nat /\ base <= Exponential(n)
      /\ Exponential(n) <= maximum /\ Exponential(n) <= doubled
  BY <1>1, <1>3, <1>4 DEF AtMost
<1>7. JitterLimit(n) \in Nat /\ JitterLimit(n) <= Exponential(n)
  <2>1. Exponential(n) \div 4 \in Nat /\ Exponential(n) \div 4 <= Exponential(n)
    BY <1>6
  <2> QED
    BY <1>1, <1>6, <2>1 DEF JitterLimit, AtLeast, AtMost
<1>8. jitter \in Nat /\ jitter <= Exponential(n)
  BY <1>5, <1>6, <1>7
<1>9. /\ d \in base..maximum
      /\ d >= AtMost(maximum, doubled)
      /\ d <= AtMost(maximum, 2 * doubled)
  BY <1>1, <1>3, <1>4, <1>5, <1>6, <1>8 DEF AtMost
<1> QED
  BY <1>3, <1>9 DEF doubled, power

\* A delay is always one of its attempt.
LEMMA BackoffInvariant == BackoffSpec => []BackoffInv
<1>1. BackoffInit => BackoffInv
  BY BackoffAssumption DEF BackoffInit, BackoffInv
<1>2. BackoffInv /\ [FailAgain]_backoffVars => BackoffInv'
  <2> SUFFICES ASSUME BackoffInv, [FailAgain]_backoffVars
               PROVE  BackoffInv'
    OBVIOUS
  <2>1. CASE FailAgain
    <3>1. /\ base' = base /\ maximum' = maximum
          /\ attempt < LastAttempt /\ attempt' = attempt + 1
          /\ delay' \in RetryDelaysOf(attempt + 1)
      BY <2>1 DEF FailAgain
    <3>2. attempt' \in 1..LastAttempt
      BY <3>1, BackoffAssumption DEF BackoffInv
    <3>3. (delay \in RetryDelaysOf(attempt))'
      BY <3>1 DEF RetryDelaysOf, Exponential, JitterLimit
    <3> QED
      BY <3>1, <3>2, <3>3 DEF BackoffInv
  <2>2. CASE UNCHANGED backoffVars
    BY <2>2 DEF BackoffInv, backoffVars, RetryDelaysOf, Exponential, JitterLimit
  <2> QED
    BY <2>1, <2>2
<1> QED
  BY <1>1, <1>2, PTL DEF BackoffSpec

\* _retry_delay: with any settings and any jitter, a message waits at least as
\* long after each failure as after the one before, and never less than
\* OUTBOX_BACKOFF_BASE_SECONDS or more than OUTBOX_BACKOFF_MAX_SECONDS.
THEOREM DelaysGrow == BackoffSpec => BackoffGrows
<1>1. BackoffInv /\ [FailAgain]_backoffVars
      => [{delay, delay'} \subseteq base..maximum /\ delay' >= delay]_backoffVars
  <2> SUFFICES ASSUME BackoffInv, FailAgain
               PROVE  {delay, delay'} \subseteq base..maximum /\ delay' >= delay
    OBVIOUS
  <2>1. /\ base \in 1..Seconds /\ maximum \in base..Seconds
        /\ attempt \in 1..LastAttempt /\ attempt + 1 \in 1..LastAttempt
        /\ delay \in RetryDelaysOf(attempt) /\ delay' \in RetryDelaysOf(attempt + 1)
    BY BackoffAssumption DEF BackoffInv, FailAgain
  <2> DEFINE doubled == base * 2^(attempt - 1)
             next == base * 2^(attempt + 1 - 1)
  <2>2. /\ doubled \in Nat /\ delay \in base..maximum
        /\ delay <= AtMost(maximum, 2 * doubled)
    BY <2>1, DelayBounds
  <2>3. delay' \in base..maximum /\ delay' >= AtMost(maximum, next)
    BY <2>1, DelayBounds
  <2>4. next = 2 * doubled
    <3>1. attempt - 1 \in 0..LastAttempt /\ (attempt - 1) + 1 = attempt /\ attempt + 1 - 1 = attempt
      BY <2>1, BackoffAssumption
    <3>2. 2^(attempt - 1) \in Nat /\ 2^attempt = 2 * 2^(attempt - 1)
      BY <3>1, PowersOfTwo
    <3> DEFINE power == 2^(attempt - 1)
    <3>3. power \in Nat /\ base \in Nat /\ 2^attempt = 2 * power
      BY <2>1, <3>2, BackoffAssumption
    <3>4. next = base * (2 * power)
      BY <3>1, <3>3
    <3> HIDE DEF power
    <3>5. base * (2 * power) = 2 * (base * power)
      BY <3>3
    <3> QED
      BY <3>4, <3>5 DEF power
  <2> HIDE DEF doubled, next
  <2> QED
    BY <2>1, <2>2, <2>3, <2>4, BackoffAssumption DEF AtMost
<1> QED
  BY <1>1, BackoffInvariant, PTL DEF BackoffSpec, BackoffGrows

============================================================================
