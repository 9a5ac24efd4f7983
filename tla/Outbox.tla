------------------------------- MODULE Outbox -------------------------------
(***************************************************************************)
(* The transactional e-mail outbox: the outbox_messages table, the request *)
(* transactions that fill it (services/outbox.py) and the worker processes *)
(* that claim, send and settle its rows (services/outbox_worker.py,        *)
(* workers/outbox.py).                                                     *)
(*                                                                         *)
(* Time is relative: a row carries the ticks left until it becomes due,    *)
(* until its lease runs out and until its payload expires, and Tick lets   *)
(* all of them run down together.  A database transaction is one step,     *)
(* because each of them is one locking statement under READ COMMITTED;     *)
(* everything a worker does between two transactions is a separate step.   *)
(*                                                                         *)
(* A member of Workers is one worker process, with the owner name it drew  *)
(* when it started; a process that is started again is another member.     *)
(***************************************************************************)
EXTENDS Integers, FiniteSets

CONSTANTS
    Messages,       \* the e-mails that may be enqueued
    Workers,        \* worker processes, named by their lease owner
    NoWorker,       \* lease_owner IS NULL
    Lifetimes,      \* possible ticks between enqueueing and payload_expires_at
    Lease,          \* OUTBOX_LEASE_SECONDS, in ticks
    RetryDelays,    \* possible results of _retry_delay, in ticks
    BatchSize,      \* OUTBOX_BATCH_SIZE
    MaxAttempts,    \* OUTBOX_MAX_ATTEMPTS
    Prompt,         \* TRUE: the clock waits for a worker that is not in SMTP I/O
    ClaimBound,     \* bound: a row is claimed at most this often
    FaultBound      \* bound: crashes and database errors in a behaviour

ASSUME OutboxAssumption ==
    /\ NoWorker \notin Workers
    /\ Lifetimes \subseteq Nat \ {0}
    /\ Lease \in Nat \ {0}
    /\ RetryDelays \subseteq Nat \ {0}
    /\ BatchSize \in Nat \ {0}
    /\ MaxAttempts \in Nat \ {0}
    /\ Prompt \in BOOLEAN
    /\ ClaimBound \in Nat
    /\ FaultBound \in Nat

VARIABLES
    outbox,     \* outbox[m]: the committed row of message m
    phase,      \* phase[w]: where worker process w stands
    batch,      \* batch[w]: claims of its batch it has not begun
    current,    \* current[w]: the claim it is processing, at most one
    category,   \* category[w]: why the current claim fails
    stopping,   \* stopping[w]: it has been asked to stop
    delivered,  \* delivered[m]: how often the SMTP server has accepted m
    faults      \* crashes and database errors so far

vars == <<outbox, phase, batch, current, category, stopping, delivered, faults>>

Statuses == {"absent", "pending", "processing", "succeeded", "dead_letter"}

Row == [status : Statuses, attempt : Nat, owner : Workers \cup {NoWorker},
        available : Nat, lease : Nat, ttl : Nat]

\* ClaimedMessage: what a worker remembers of a row after the claim committed.
Claim == [msg : Messages, attempt : Nat]

Phases == {"idle", "running", "sending", "sent", "failing", "stopped"}
Categories == {"none", "expired", "invalid_payload", "smtp"}

Absent == [status |-> "absent", attempt |-> 0, owner |-> NoWorker,
           available |-> 0, lease |-> 0, ttl |-> 0]

\* Every claim worker w still remembers.
Held(w) == batch[w] \cup current[w]

Terminal(row) == row.status \in {"succeeded", "dead_letter"}

----------------------------------------------------------------------------
(* The row updates.                                                        *)

\* enqueue_email_delivery: due at once, never attempted.
NewRow(ttl) == [Absent EXCEPT !.status = "pending", !.ttl = ttl]

\* Mutants: expired leases are not recovered; settled rows are claimed again.
DueOnlyPending(row) == row.status = "pending" /\ row.available = 0
DueAnyStatus(row) == row.status # "absent" /\ row.available = 0 /\ row.lease = 0

\* The WHERE clause of claim_messages: due work, or work whose lease ran out.
Due(row) ==
    \/ row.status = "pending" /\ row.available = 0
    \/ row.status = "processing" /\ row.lease = 0

\* Mutant: a recovered row keeps its attempt count.
LeasedUncounted(row, w) ==
    [row EXCEPT !.status = "processing", !.owner = w, !.lease = Lease,
                !.attempt = IF row.status = "processing" THEN @ ELSE @ + 1]

\* What claim_messages writes: a fresh lease, its owner, one more attempt.
Leased(row, w) ==
    [row EXCEPT !.status = "processing", !.owner = w, !.lease = Lease,
                !.attempt = @ + 1]

\* The ClaimedMessage built from the row after the increment.
ClaimOf(m) == [msg |-> m, attempt |-> outbox[m].attempt + 1]

\* mark_succeeded and the two outcomes of mark_failed.  Every one of them
\* gives up the lease; a settled row also purges its payload.
Succeeded(row) ==
    [row EXCEPT !.status = "succeeded", !.owner = NoWorker, !.lease = 0]

DeadLettered(row) ==
    [row EXCEPT !.status = "dead_letter", !.owner = NoWorker, !.lease = 0,
                !.available = 0]

\* Mutant: a retried row keeps its lease owner.
RetriedLeased(row, delay) ==
    [row EXCEPT !.status = "pending", !.lease = 0, !.available = delay]

Retried(row, delay) ==
    [row EXCEPT !.status = "pending", !.owner = NoWorker, !.lease = 0,
                !.available = delay]

\* Mutant: the update is conditioned on the status alone.
OwnsByStatus(w, c) == outbox[c.msg].status = "processing"

\* The WHERE clause of _owned_update.  It names the owner and not the attempt.
Owns(w, c) ==
    /\ outbox[c.msg].status = "processing"
    /\ outbox[c.msg].owner = w

\* mark_failed: is this failure the last one?  Attempts are read from the
\* claim, the payload's expiry against the clock.
GivesUp(w, c) ==
    \/ category[w] # "smtp"
    \/ c.attempt >= MaxAttempts
    \/ outbox[c.msg].ttl = 0

\* The rows mark_failed may leave behind for claim c.
FailureRows(w, c) ==
    IF GivesUp(w, c) THEN {DeadLettered(outbox[c.msg])}
                     ELSE {Retried(outbox[c.msg], d) : d \in RetryDelays}

\* The rows the pending finalization of claim c may write.
FinalRows(w, c) ==
    IF phase[w] = "sent" THEN {Succeeded(outbox[c.msg])} ELSE FailureRows(w, c)

----------------------------------------------------------------------------
Init ==
    /\ outbox = [m \in Messages |-> Absent]
    /\ phase = [w \in Workers |-> "idle"]
    /\ batch = [w \in Workers |-> {}]
    /\ current = [w \in Workers |-> {}]
    /\ category = [w \in Workers |-> "none"]
    /\ stopping = [w \in Workers |-> FALSE]
    /\ delivered = [m \in Messages |-> 0]
    /\ faults = 0

workerVars == <<phase, batch, current, category, stopping>>

(* Requests.                                                               *)

\* The issuing request commits its token and the outbox row together.
Enqueue(m, ttl) ==
    /\ outbox[m].status = "absent"
    /\ outbox' = [outbox EXCEPT ![m] = NewRow(ttl)]
    /\ UNCHANGED <<workerVars, delivered, faults>>

----------------------------------------------------------------------------
(* The worker loop.                                                        *)

\* The rows S that claim_messages returns.  It takes the oldest due rows that
\* no other transaction has locked, so any set of due rows up to the limit.
Claimable(w, S) ==
    /\ phase[w] = "idle"
    /\ ~stopping[w]
    /\ S # {}
    /\ Cardinality(S) <= BatchSize
    /\ \A m \in S : Due(outbox[m]) /\ outbox[m].attempt < ClaimBound

LeaseRows(w, S) ==
    outbox' = [m \in Messages |-> IF m \in S THEN Leased(outbox[m], w)
                                             ELSE outbox[m]]

\* run_once: claim a batch.
ClaimMessages(w, S) ==
    /\ Claimable(w, S)
    /\ LeaseRows(w, S)
    /\ batch' = [batch EXCEPT ![w] = {ClaimOf(m) : m \in S}]
    /\ phase' = [phase EXCEPT ![w] = "running"]
    /\ UNCHANGED <<current, category, stopping, delivered, faults>>

\* The claim commits but the connection fails before the worker learns of it:
\* run_worker swallows the exception and the leases are left behind.
ClaimLost(w, S) ==
    /\ Claimable(w, S)
    /\ faults < FaultBound
    /\ LeaseRows(w, S)
    /\ faults' = faults + 1
    /\ UNCHANGED <<workerVars, delivered>>

\* run_once takes the next message of the batch and _process_message decides
\* what to do with it before any I/O.
Begin(w, c, next, why) ==
    /\ phase[w] = "running"
    /\ c \in batch[w]
    /\ batch' = [batch EXCEPT ![w] = @ \ {c}]
    /\ current' = [current EXCEPT ![w] = {c}]
    /\ phase' = [phase EXCEPT ![w] = next]
    /\ category' = [category EXCEPT ![w] = why]
    /\ UNCHANGED <<outbox, stopping, delivered, faults>>

BeginExpired(w, c) == outbox[c.msg].ttl = 0 /\ Begin(w, c, "failing", "expired")

\* decrypt_email_payload raises ValueError.
BeginInvalid(w, c) ==
    outbox[c.msg].ttl > 0 /\ Begin(w, c, "failing", "invalid_payload")

BeginSend(w, c) == outbox[c.msg].ttl > 0 /\ Begin(w, c, "sending", "none")

\* The SMTP exchange succeeds.
SendAccepted(w, c) ==
    /\ phase[w] = "sending"
    /\ c \in current[w]
    /\ delivered' = [delivered EXCEPT ![c.msg] = @ + 1]
    /\ phase' = [phase EXCEPT ![w] = "sent"]
    /\ UNCHANGED <<outbox, batch, current, category, stopping, faults>>

\* It raises, and the server may have accepted the e-mail before it did.
SendFailed(w, c) ==
    /\ phase[w] = "sending"
    /\ c \in current[w]
    /\ \E n \in {0, 1} : delivered' = [delivered EXCEPT ![c.msg] = @ + n]
    /\ phase' = [phase EXCEPT ![w] = "failing"]
    /\ category' = [category EXCEPT ![w] = "smtp"]
    /\ UNCHANGED <<outbox, batch, current, stopping, faults>>

\* mark_succeeded or mark_failed writes a row, or does nothing at all when the
\* claim has been lost to another owner.
Settle(w, c) ==
    IF Owns(w, c)
    THEN \E row \in FinalRows(w, c) : outbox' = [outbox EXCEPT ![c.msg] = row]
    ELSE UNCHANGED outbox

\* The finalizing transaction commits and the worker goes on with its batch.
Finalize(w, c) ==
    /\ phase[w] \in {"sent", "failing"}
    /\ c \in current[w]
    /\ Settle(w, c)
    /\ current' = [current EXCEPT ![w] = {}]
    /\ phase' = [phase EXCEPT ![w] = "running"]
    /\ category' = [category EXCEPT ![w] = "none"]
    /\ UNCHANGED <<batch, stopping, delivered, faults>>

\* Worker w forgets every claim.
Drop(w, next) ==
    /\ batch' = [batch EXCEPT ![w] = {}]
    /\ current' = [current EXCEPT ![w] = {}]
    /\ category' = [category EXCEPT ![w] = "none"]
    /\ phase' = [phase EXCEPT ![w] = next]

\* The finalizing transaction raises, before or after it took effect.  The
\* exception leaves run_once and takes the rest of the batch with it.
FinalizeLost(w, c) ==
    /\ phase[w] \in {"sent", "failing"}
    /\ c \in current[w]
    /\ faults < FaultBound
    /\ Settle(w, c) \/ UNCHANGED outbox
    /\ faults' = faults + 1
    /\ Drop(w, "idle")
    /\ UNCHANGED <<stopping, delivered>>

\* The batch is finished: run_once returns.
BatchDone(w) ==
    /\ phase[w] = "running"
    /\ batch[w] = {}
    /\ phase' = [phase EXCEPT ![w] = "idle"]
    /\ UNCHANGED <<outbox, batch, current, category, stopping, delivered, faults>>

----------------------------------------------------------------------------
(* Shutdown, crashes and the clock.                                        *)

Alive == {w \in Workers : phase[w] # "stopped" /\ ~stopping[w]}

\* SIGTERM or SIGINT.  The deployment keeps one worker running.
RequestStop(w) ==
    /\ w \in Alive
    /\ Alive # {w}
    /\ stopping' = [stopping EXCEPT ![w] = TRUE]
    /\ UNCHANGED <<outbox, phase, batch, current, category, delivered, faults>>

\* Between two messages the grace period turns out to be over: run_once drops
\* the rest of its batch and the loop ends.
GraceExpired(w) ==
    /\ phase[w] = "running"
    /\ stopping[w]
    /\ batch[w] # {}
    /\ Drop(w, "stopped")
    /\ UNCHANGED <<outbox, stopping, delivered, faults>>

\* run_worker sees stop_event set and returns.
Exit(w) ==
    /\ phase[w] = "idle"
    /\ stopping[w]
    /\ phase' = [phase EXCEPT ![w] = "stopped"]
    /\ UNCHANGED <<outbox, batch, current, category, stopping, delivered, faults>>

\* The process dies; its leases are left to expire.
Crash(w) ==
    /\ phase[w] # "stopped"
    /\ Alive # {w}
    /\ faults < FaultBound
    /\ faults' = faults + 1
    /\ Drop(w, "stopped")
    /\ UNCHANGED <<outbox, stopping, delivered>>

Elapse(n) == IF n = 0 THEN 0 ELSE n - 1

RowElapse(row) ==
    [row EXCEPT !.available = Elapse(@), !.lease = Elapse(@), !.ttl = Elapse(@)]

Tick ==
    /\ Prompt => \A w \in Workers : phase[w] \in {"idle", "sending", "stopped"}
    /\ \E m \in Messages : RowElapse(outbox[m]) # outbox[m]
    /\ outbox' = [m \in Messages |-> RowElapse(outbox[m])]
    /\ UNCHANGED <<workerVars, delivered, faults>>

----------------------------------------------------------------------------
Process(w) ==
    \/ \E S \in SUBSET Messages : ClaimMessages(w, S)
    \/ \E c \in batch[w] : BeginExpired(w, c) \/ BeginInvalid(w, c) \/ BeginSend(w, c)
    \/ \E c \in current[w] : SendAccepted(w, c) \/ SendFailed(w, c) \/ Finalize(w, c)
    \/ BatchDone(w)
    \/ GraceExpired(w)
    \/ Exit(w)

Disturb(w) ==
    \/ \E S \in SUBSET Messages : ClaimLost(w, S)
    \/ \E c \in current[w] : FinalizeLost(w, c)
    \/ RequestStop(w)
    \/ Crash(w)

Next ==
    \/ \E m \in Messages, ttl \in Lifetimes : Enqueue(m, ttl)
    \/ \E w \in Workers : Process(w) \/ Disturb(w)
    \/ Tick

Spec == Init /\ [][Next]_vars

\* A running worker keeps taking steps (its loop never blocks for ever: the
\* poll, the SMTP exchange and the database statements all have timeouts) and
\* time passes.  Nothing forces a request, a signal or a fault.
Fairness == WF_vars(Tick) /\ \A w \in Workers : WF_vars(Process(w))

FairSpec == Spec /\ Fairness

----------------------------------------------------------------------------
(* Properties.                                                             *)

\* Rows obey the table's CHECK constraints on status and lease, and a worker
\* between batches remembers no claim.
TypeOK ==
    /\ outbox \in [Messages -> Row]
    /\ phase \in [Workers -> Phases]
    /\ batch \in [Workers -> SUBSET Claim]
    /\ current \in [Workers -> SUBSET Claim]
    /\ category \in [Workers -> Categories]
    /\ stopping \in [Workers -> BOOLEAN]
    /\ delivered \in [Messages -> Nat]
    /\ faults \in Nat
    /\ \A m \in Messages :
          (outbox[m].status = "processing") <=> (outbox[m].owner # NoWorker)
    /\ \A w \in Workers : phase[w] \in {"idle", "stopped"} => Held(w) = {}
    /\ \A w \in Workers : phase[w] = "running" => current[w] = {}

\* The finalizing update names the owner and not the attempt, so it is correct
\* only if an owner never holds an old claim on a row it owns again: a claim
\* that passes the ownership test is the row's latest attempt.
ClaimFencing ==
    \A w \in Workers : \A c \in Held(w) : Owns(w, c) => c.attempt = outbox[c.msg].attempt

\* A row that waits for another attempt has one left.  mark_failed decides that
\* from the claim's attempt count, not from the row's.
PendingHasBudget ==
    \A m \in Messages : outbox[m].status = "pending" => outbox[m].attempt < MaxAttempts

\* What a claim remembers decides correctly about the row, in spite of expired
\* leases and claims repeated by one worker: about its settlement and its budget.
ClaimsAgree == ClaimFencing /\ PendingHasBudget

\* At-least-once has a price list: one claim buys at most one e-mail, whatever
\* leases expire and workers crash in between.
DeliveriesWithinClaims ==
    \A m \in Messages : delivered[m] <= outbox[m].attempt

\* What EmailDelivery sees of a row and of the deliveries.
OutcomeOf(status) ==
    CASE status = "absent" -> "absent"
      [] status \in {"pending", "processing"} -> "accepted"
      [] status = "succeeded" -> "delivered"
      [] status = "dead_letter" -> "abandoned"

outcomeBar == [m \in Messages |-> OutcomeOf(outbox[m].status)]

sentBar == [m \in Messages |-> delivered[m] > 0]

Delivery == INSTANCE EmailDelivery WITH outcome <- outcomeBar, sent <- sentBar

\* Every step of requests, workers, crashes and the clock is a step the promise
\* allows or invisible to it: nothing is recorded as delivered that the SMTP
\* server never accepted, and a settled row is never reopened.
ImplementsDelivery == Delivery!Spec

\* Every enqueued e-mail is settled in the end, whoever crashes or stops, as
\* long as one worker keeps running and faults stop happening.
EventuallySettled ==
    \A m \in Messages : outbox[m].status = "pending" ~> Terminal(outbox[m])

============================================================================
