# JobTrack API in TLA+

Models of the JobTrack backend (FastAPI, SQLAlchemy, PostgreSQL, an e-mail
worker): its state machines and transactions, checked by TLC on small instances
and proved by TLAPS for instances of any size. Paths below are relative to
`src/src/app/` unless they start with `src/`. `PROJECT.json` maps every
definition to the lines it models, lists the runs, and lists what is hard to
test (`hazards`) with the property that watches it.

## 1. The system

One FastAPI process serves requests; each request has one SQLAlchemy session and
one PostgreSQL transaction at READ COMMITTED (`db/dependency.py`, ADR 0001,
0002). Several processes may run. A separate worker process sends the e-mails
that requests leave in an outbox table. Redis, if configured, holds caches and
rate-limit counters. A React frontend keeps the tokens.

Almost nothing interacts by calls: the components meet in the rows of the
database, and what can go wrong is what two transactions do to each other, what a
dying worker leaves behind, and what a request decides on a row it read earlier.

| Component | State | Operations | Hard behaviour | Correct when | Module |
|---|---|---|---|---|---|
| E-mail outbox `services/outbox*.py`, `workers/` | `outbox_messages` rows; the claims in a worker's memory; the retry delay | enqueue; claim, send, settle, retry; stop, crash | leases that run out during SMTP I/O, lost commits, restarts, duplicates | nothing is recorded as delivered that was not, settled rows stay settled, every message is settled in the end, delays grow and stay in range | `Outbox`, `EmailDelivery`, `Backoff` |
| Device sessions `auth/login.py`, `auth/refresh.py`, `services/sessions.py`, `services/session_issuance.py` | refresh tokens in families; the account's activity | login, rotate, replay, log out, revoke one or all, disable, enable, reset | bulk UPDATE against rotation and login, deadlock victims | one usable token per session, revoked sessions stay dead, reset leaves none | `Sessions` |
| Accounts `auth/register.py`, `api/v1/admin.py` | user rows | register, disable, enable, delete | cascades beside requests in flight | one account per e-mail, always a way to sign in | `Users`, `Accounts` |
| OIDC `services/oidc.py` | transactions, external identities | authorize, callback (login or link), unlink | provider call under a row lock, opposite lock orders, first logins at once | a transaction completes once, for the account that owns the identity | `Identities` |
| Account tokens `services/password_reset.py`, `services/email_verification.py` | action tokens | issue, confirm | issuing beside confirming | a token confirms once, a reset consumes all | `AccountTokens` |
| MFA `services/mfa.py` | TOTP secret and counter, recovery codes, challenges | enrol, confirm, regenerate, disable, challenge, verify | rows loaded before they are locked | a challenge or code is used once, no session after disabling | `MFA` |
| Applications `services/application_service.py` | application rows, status history | create, edit, change status, delete; book an interview; delete a job | validation on unlocked reads, foreign keys | history is one chain, dates fit the status, nothing orphaned | `Applications` |
| Interviews `services/interview_service.py` | interview rows | create, edit, delete | overlap check then insert | no overlap, end derived, no reopening | `Interviews` |
| Companies and jobs `services/company_service.py`, `services/job_service.py` | rows with unique names and owner keys | create, edit, delete | check then constraint | unique names, ranges in order, no orphans | `Catalog` |
| Lists `repositories/*_repository.py`, `src/frontend/src/components/shared/pagination.tsx` | the page a client is at | count, read a page, turn | rows that change between pages and between the two statements, ties, NULLs | each row shown once, or its absence explained | `Listing` |
| Dashboard cache `services/dashboard_cache.py` | one Redis entry per user | read through, invalidate after commit | a result computed before a write stored after it | a stale entry is explained (ADR 0003) | `DashboardCache` |
| OIDC document cache `services/oidc_cache.py` | Redis documents and a refresh lock | read through, refresh, invalidate | lock that expires under its holder | own lock released, known keys found | `DocumentCache` |
| Rate limit `middlewares/rate_limit.py`, `dependencies/business_rate_limit.py` | a counter per window in Redis, or one per process | count, admit or refuse; fail open or closed | key expiry, window edges, lost answers, scripts that run late, lost data | the limit of a window holds (ADR 0008) | `RateLimit` |
| Browser session `src/frontend/src/features/auth/session.ts`, `auth-context.tsx`, `api.ts` | a refresh token in sessionStorage, an access token in memory, the user shown | log in, restore, fetch and refresh once for all, log out, reload | answers that come in after the session changed, a reload in the middle of a refresh | no token is consumed twice, what is shown and what is stored agree | `BrowserSession` |
| Access tokens, permissions, schemas, errors, configuration, logging | none that outlives a request | | | | not modelled |

### What the models assume of the platform

* READ COMMITTED: a plain SELECT sees the last commit; SELECT FOR UPDATE waits
  for the row and reads its newest version; an UPDATE picks its rows from a
  snapshot taken when it starts, waits for their locks, and looks at each again.
* Inserting a row locks what its foreign keys refer to (FOR KEY SHARE): it waits
  for a FOR UPDATE of that row, and for nothing weaker. This is what makes a
  password reset and the issue of a reset token exclude each other, although
  the issuing code locks nothing.
* Unique, exclusion, check and foreign-key constraints are decided at the
  statement, against the committed rows.
* A deadlock aborts one of the requests. Every module lets any request roll back
  at any point, which covers victims, refusals, dropped connections and errors;
  what is modelled is therefore safe under all of them.
* SQLAlchemy writes the columns of an object that differ from what was loaded,
  and a query that finds an object the session already holds does not refresh
  it (no `populate_existing`). Both matter: the first lets two edits merge into
  a row nobody validated, the second lets a request that locks a row still
  decide on the copy from before the lock.

## 2. The modules

`MC<Module>` gives each module small constants and a symmetry set.
`<Module>Proofs` holds its theorems; `OutboxProofs` includes those of `Backoff`, and
`ServicesProofs` has those of `Catalog`, `Listing`, `RateLimit` and the two caches.
Modules that share no state are checked beside each other in one run:
`MCOutboxAndBackoff`, `MCSessionsAndBrowser` and `MCApplicationsAndServices`.
`Tables` states what the tables of `Applications` and `Catalog` are worth together.

**`EmailDelivery`** is the promise of the outbox without workers, leases or
clocks: accepted, perhaps sent, and then delivered or abandoned for good.

**`Outbox`** is the implementation. `outbox[m]` is a row; `batch`, `current` and
`phase` are what a worker process remembers. Each database transaction is one
step (`ClaimMessages`, `Finalize`), everything between two of them another one
(`BeginSend`, `SendAccepted`, `SendFailed`, ...). A commit may succeed although
the worker sees an exception (`ClaimLost`, `FinalizeLost`), a worker may be
stopped in the middle of a batch (`RequestStop`, `GraceExpired`, `Exit`) or die
(`Crash`). Time is relative: rows carry the ticks left of their lease, delay and
lifetime. The refinement mapping `outcomeBar`, `sentBar` reads the promise off
the rows and the deliveries. A delay is any positive one of a set there;
**`Backoff`** is `_retry_delay` itself, over the failures of one message, with the
hash as any jitter within its limit.

**`Sessions`** has one step per SQL statement. A bulk revocation is its
snapshot (`req[r].todo`), one step for each row it waits for, and the commit.
A family is named by its first token. The account is one: tokens of different
accounts never meet.

**`BrowserSession`** is the other end of `Sessions`: one page with its
`sessionStorage`, the module variables of `session.ts` and the state of
`AuthProvider`. An asynchronous function is split at its awaits (`call[c].at`); a
refresh is one POST that all who need it wait for (`SharedRefresh`, `flight`). What
survives a reload is what is stored and what the network still carries (`stray`). Of
the server it has what a token is worth there (`accepts`). The history variables
`overtaken` and `interrupted` say which exceptions to its properties are due to a
late answer or a reload.

**`Applications`** and **`Interviews`** split every handler into the reading and
the committing step; `seen` is the row that was read and `target` the row that is
wanted, and `Merged` writes the difference. `Applications` includes the steps of
jobs and interviews that the application row has to hold out against.
**`Catalog`** treats companies and jobs in the same way, with the applications of a
job as the environment. A company's name is looked up as
`strip().casefold()` and kept unique as `lower(trim(name))`, two functions (`Fold`,
`Lower`) that the model keeps apart. **`Listing`** is `list_owned` of the four
repositories: the count and the page are two statements with two snapshots, and a
client turns pages as long as the last total says that there are more. What it saw
is explained by what left the list (`gone`), entered it (`come`) or stayed (`steady`).

**`MFA`** keeps, for every request, the copy of the user loaded before the lock
(`seen`) and the sets its statements selected. Verification of a challenge has no
authenticated user and reads under the lock.

**`Users`**, **`Identities`**, **`AccountTokens`** share the user rows and their
locks; **`Accounts`** composes them: they run side by side, and an administrator
deletes accounts with all that refers to them. An OIDC callback is: lock the
transaction (`Callback`), talk to the provider (`Exchange`), lock identity and
user or user and identity, insert, commit (`Complete`). The provider is any user
of the transaction's issuer.

**`DashboardCache`** numbers the commits of one owner and describes a computed
dashboard by the commits all its figures include: each SELECT of `aggregate` has a
snapshot of its own, so the first one is the oldest. A writer commits, reads its
row again and deletes the entry (`Steps`); it may fail or die after the commit,
which leaves its commit in `missed`. **`DocumentCache`** is one provider document:
`load[r]` walks through `_load_public_document` and `validate_id_token`, one step
for each call to Redis or to the provider. A call to Redis that raises may have
taken effect; the lock may expire while its holder fetches.

**`RateLimit`** is one key of a fixed window. With Redis the script runs in one step
at some moment between the request's question and its answer, or after the request
has given up (`late`); keys live two windows; Redis may lose its data. In memory each
process has a count of its own, and the clock that `check` reads before `cleanup`
reads it again may pass a boundary between the two.

## 3. What is checked

Twelve runs; the mutants in `PROJECT.json` show for each property of a passing
run a plausible slip in the code (a lock not taken, a constraint missing, a field
not reset) that the run finds.

| Run | Properties | Shows |
|---|---|---|
| `outbox_safety` | `TypeOK`, `ClaimsAgree` (`ClaimFencing` and `PendingHasBudget`), `DeliveriesWithinClaims`, `ImplementsDelivery`; `BackoffGrows` | Claims, attempts and deliveries stay consistent and the promise of `EmailDelivery` is kept, with leases running out at any moment; beside it, delays never shrink and never leave the configured range. |
| `outbox_liveness` | `EventuallySettled` | Every enqueued e-mail is settled while one worker keeps running. |
| `sessions` | `TypeOK`, `AtMostOneLive`, `DeadFamiliesStayDead`, `ResetRevokesAll`, `LogoutEndsSession`, `SessionsStartActive`; `NeverReplays`, `RestAgrees` | Three requests of any kind on three tokens; beside them a page with two functions running. |
| `applications` | `TypeOK`, `HistoryTellsStatus`, `DatesFollowStatus`, `BookedWhenEligible`; `TablesSound` (with `NothingOrphaned`, `OnePerJob` of `Applications` and `CatalogSound`); `StaleExplained`; `RejectedRight`, `ReleasesOwn`; `WithinLimit`; `PagesExplained` | Two requests of any kind on applications; beside them companies and jobs, lists in pages, the two caches and a quota. |
| `interviews` | `TypeOK`, `EndIsDerived`, `NoOverlap`, `PrecheckAgrees`, `NeverReopened` | Two requests on two interviews. |
| `mfa` | `TypeOK`, `ChallengeOnce`, `RecoveryOnce`, `OneBatch`, `SessionsNeedMFA` | Two requests out of all handlers. |
| `accounts` | `TypeOK` (with `UniqueIdentities`, `OneAccountPerEmail`), `TransactionOnce`, `SignsInOwner`, `CanSignIn`, `TokenOnce`, `ResetConsumesAll` | Two requests out of OIDC and the account tokens, beside registering, disabling and deleting. |
| `sessions_disable`, `sessions_replay`, `applications_dates`, `interviews_feedback`, `mfa_totp` | one each | Disagreements, section 6. |

### Bounds

* Requests in flight: two or three. The races here are between a request and one
  that commits between two of its statements; `sessions` takes three because a
  bulk revocation, a rotation and a login meet on one user.
* Rows: two of what must be unique or exclusive (messages, applications of a
  job, interviews, challenges, identities, accounts), three tokens, three batches
  of codes. A violated uniqueness needs two rows; a rotation needs a successor.
  The theorems do not depend on these numbers.
* `Outbox`: `Lease = 1`, `MaxAttempts = 2`, `ClaimBound` claims of a row,
  `FaultBound` crashes and lost commits. In `outbox_liveness` time waits for
  database and CPU work (`Prompt`) and `ClaimBound` is large enough never to
  stop a worker, so it hides nothing.
* `Applications`: the calendar has two days (`LastDay`) and the clients' dates are
  `DateInputs`; `applications` sends one day or none, `applications_dates` both.
  `Interviews`: three starts (`LastSlot`) and durations up to `MaxDuration = 2`,
  so a start can lie inside, at the edge and outside the query's look-back;
  `Edits` lists which columns a client sends. `MFA`: two TOTP steps (`LastStep`).
* `Accounts`: `MCBound` leaves two requests in flight (`MaxRunning`) and three
  transactions and tokens together (`MaxIssued`), which allows login, link and
  two unlinks, or login and a reset beside the issue of a second token.
* `DashboardCache`: two readers, two writers, three commits (`LastCommit`); a stale
  entry takes one of each. `DocumentCache`: two loads and two rotations (`LastKey`);
  a refusal needs a document that is new and still lacks the key.
* `Catalog`: two requests on two companies, one job and salaries of 0 or 1; two names
  that `casefold()` maps to one and `lower()` to two. `RateLimit`: a limit of one in
  windows of two seconds, two windows (`LastSecond`), two requests and two processes,
  three counted requests in a window (`CountBound`), one loss of each window's count
  (`LossBound`), one late script at a time: enough for a key to expire too early and be
  counted from zero again. `Backoff`: every base and maximum up to `Seconds = 40` and
  `LastAttempt = 8` attempts, which takes every base past its maximum or near it.
* `Listing`: three rows, two ranks one of which is NULL, pages of one row, two changes
  (`ChangeBound`) while a client turns three pages: ties, rows that move over the edge of
  a page in either direction, and a total that is out of date.
* `BrowserSession`: two functions running and three pairs of tokens, issued in order
  (`MCInOrder`, as pairs are interchangeable): two sessions one of which is rotated, or
  one that is rotated twice.
* Modules that share no state are checked in one run. Their product would show nothing
  that they do not show alone, so the initial state picks the `part` that moves: the run
  is several checks in one. Such parts share model values, which makes one symmetry do.
* Deadlock is checked where requests can always come. `Outbox` stops when every
  message is settled and every worker has exited, `Backoff` after the last attempt;
  `Accounts` when its accounts, transactions and tokens are used up; a `Catalog` without
  its user and a `RateLimit` whose clock has reached its bound, in the run
  `applications`, stop as well.

Symmetry is used for safety only.

### Fairness

`FairSpec` of `Outbox` is the only one: weak fairness of the clock and of each
worker's `Process`. The worker loop never blocks for ever: the poll, the SMTP
connection and the database statements have timeouts, and an exception leads back
to the loop (`workers/outbox.py`). Nothing forces a request, a stop, a crash or a
database error. `Crash` and `RequestStop` spare one worker and faults are bounded,
which stands for an operator who restarts workers: without a running worker
nothing is sent. The other modules promise nothing that must happen.

## 4. What is proved

Every property of a passing run is a theorem, but for the liveness of the outbox.
All theorems are of the form `Spec => ...`, for every value of the constants that
satisfies the module's ASSUMEs (mostly: NULL is not an identifier, limits are
positive). Each part proves `Init => IInv`, `IInv /\ [Next]_vars => IInv'`, one
lemma per action, and takes invariants and action properties from `IInv`. TLC has
checked each `IInv` as an invariant, too.

* `OutboxProofs`: `TypeCorrect`, `Fencing`, `RetriesWithinBudget` and with them
  `Agreement`, `OneDeliveryPerClaim`, `Refinement`; `DelaysGrow` of `Backoff`.
  `_owned_update` names the lease owner and not the attempt, so fencing is not
  evident: it holds because a worker processes one claim at a time (`OneCurrent`)
  and drops every claim before it claims again. The refinement also needs
  `SentAccepted`: in phase `sent` the server has accepted the e-mail. For the
  deliveries, `Buying` counts the attempts of a message that may still be spent by a
  worker that holds them, each of which is held once (`ClaimsApart`): deliveries and
  these together are at most the claims made. `DelayBounds` puts a delay between
  the doubled base and twice of it, which is where the next one starts.
* `SessionsProofs`: `TypeCorrect`, `OneLiveToken`, `NoRevival`,
  `ResetEndsSessions`, `LogoutIsFinal`, `StartsActive`. The strengthening says
  who may hold which lock (`UserHolders`, `TokenHolders`), that rows a bulk UPDATE
  has passed stay locked and live (`HitsLocked`), and the key part: while a reset
  holds the user, each live token is still to be visited or already hit
  (`ResetCovers`; `LogoutCovers` for the token of a logout).
* `ApplicationsProofs`: `TypeCorrect`, `HistoryIsOneChain`, `DatesFollow`,
  `NoOrphans`, `OneApplicationPerJob`, `BookingIsChecked`. `LockedRowFrozen` says
  that a request holding the row still sees it as it is (an edit takes no lock when
  it reads, but its UPDATE waits for one); `EditWanted` and `StatusWanted` relate
  what a request wants to what it saw, which with the merge of changed columns
  gives the dates.
* `InterviewsProofs`: `TypeCorrect`, `Overlaps`, `EndDerived`,
  `QueryAndConstraintAgree`, `FinalStatuses`. The query looks back one
  `MAX_DURATION` only; with the derived end that misses nothing. `WritesStatus`
  keeps an edit from writing "scheduled" over another status.
* `MFAProofs`: `TypeCorrect`, `ChallengesAreUsedOnce`, `RecoveryCodesAreUsedOnce`,
  `CodesShownTogether`, `NoSessionAfterDisable`. The codes a request saw after
  locking the user are the codes there are (`CodesSeen`): the row lock protects
  the codes although the handler's copy of the user is old.
* `AccountsProofs`: `TypeCorrect`, `TransactionsOnce`, `SignInMethodLeft`,
  `TokensOnce`, `SignsInItsOwner`, `ResetsConsumeAll`. For each stage of a request
  the invariant says which rows it holds and that these still are what it read
  (`OidcHolds`, `TokenHolds`); a step of another request, of an administrator or of
  the other half of `Accounts` leaves rows that are held alone. An unlinking request
  that goes on has seen a password or a second identity of a user that it holds; a
  reset that has taken its snapshot holds every open reset token of its user.
* `BrowserSessionProofs`: `NoTokenTwice`, `RestIsCoherent`. `TokensKnown`: one flight at
  a time; a rotated token that the page still stores is that of the flight whose
  answer has come, or an interrupted one. `PageKnown`: what runs before and
  after the page is booted, that the two tokens are a pair from then on, and that a pair
  without a user is one that a login has just brought.
* `ServicesProofs`, one invariant for each part. `StaleIsExplained`: the figures have
  their excuses from their aggregation on, also while no entry holds them. `RejectionIsRight`,
  `OwnLockReleased`: a load that goes on has the document it looked at (`LoadHonest`).
  `LimitHolds`: with Redis the requests of a window that were admitted, and those that
  hold a place but have not been told, stay within what its key counts plus a limit for
  each loss (`RedisBudget`); in memory the admitted requests stay within the places that
  the processes have given away (`MemoryBudget`). `CatalogIsSound`: a
  request remembers what its checks have established (`TasksHonest`), and with
  `NoOrphans` and `OneApplicationPerJob` it gives `TablesAreSound`. `PagesAreExplained`:
  the place of a row is the number of rows ahead of it (`PlaceInOrder`, from the order
  being strict and total); one that was shown is behind the pages read, one that was
  not is before their end and was counted.

Assumptions beyond those on identifiers and limits: `RateAssumption` takes the
requests and processes to be finite, as any run of the service has them;
`PowersOfTwo` states for the exponents in use that 2^(n+1) is twice 2^n. It is true of
every bound, but the provers know nothing about exponents and cannot do the induction;
TLC evaluates it.

Only model-checked: `EventuallySettled`, as the provers do not handle fairness.

## 5. What is not modelled

Pure functions of one request (JWT claims, hashing, schemas, error mapping),
configuration, logging, metrics, tracing and the pages of the frontend have no
state these properties speak of. Expiry of tokens, challenges and OIDC
transactions only refuses, so leaving it out adds behaviours and loses none. Passwords
are left out of `Sessions`: a login that verified the password, and waits for the user
while a reset replaces it, starts its session after the reset.
Signatures and claims of ID tokens are the provider's: `Exchange` is any answer
that passes validation. Search patterns and free text are left out; to `Listing` a
filter is what is not in the list. Which requests
are limited and under which key (addresses, proxies, owners) is configuration. The migrations are taken at their result, the models' constraints.

## 6. Where code and documents disagree

* `sessions_disable`: ARCHITECTURE.md says that disabling an account atomically
  revokes every session. The UPDATE's snapshot is taken before anything is locked;
  a login or rotation that commits after it keeps a token. It is refused while
  the account is disabled and works again if the account is enabled first.
* `sessions_replay`: replay of a rotated token should revoke the live
  descendant. If that one is being rotated, the successor is inserted after the
  UPDATE's snapshot and stays.
* `applications_dates`: two edits of one date each, both valid on what they read,
  leave a deadline before the day of application.
* `interviews_feedback`: a cancellation that read the interview before it was
  completed with feedback leaves a cancelled interview with feedback.
* `mfa_totp`: the user is locked but the copy loaded before the lock decides, so
  two requests in flight accept the TOTP code of one step.

More can be reached in the models and has no run of its own. Two overlapping
requests for an account token leave two outstanding ones (ARCHITECTURE.md 7 says
that a request invalidates the older ones). A TOTP confirmation that loaded its
enrolment before another request replaced or disabled it enables MFA on what is
stored by then: a secret nobody has confirmed, or none. A token with a published
key is refused by a load that asked the provider for nothing (DEPLOYMENT.md 490
promises one direct refresh): it missed the key, waited for another load, and that
one had fetched before the second rotation; `RejectedRight` says that this is the
only way. `db.refresh` after a commit can raise, and then the entry is not deleted
although the write succeeded (`RefreshRow`). The figures of one dashboard come from
several snapshots: an offer counted after the applications may make the conversion
rate exceed the 1 that `DashboardResponse` allows, which ends the request with an
error and stores nothing; the models do not look into the figures.

In the browser, an answer that was asked for in an earlier session is applied to the
present one (`overtaken`): a refresh that ends after logout stores a session again, a
failed one clears a session that a new login has stored. Any answer to a refresh other
than success clears the session, a 429 or 503 that left the token valid included. A page
loaded again between the server's rotation and its answer replays the old token when it
restores, which ends the session (`interrupted`).

"strasse" is accepted as a company beside "Straße", and "Straße" beside "strasse"
refused, because `casefold()` of the new name is compared with `lower()` of the others
(`src/API_EXAMPLES.md` 237: names are unique after case normalization). The unique index
is what counts, and it holds. A company created while its owner is deleted is answered
as a name that exists. In memory every process has a quota of its own, and at a boundary
between two clock readings one more request is let through; `WithinLimit` counts both. A
row that enters a list after it was counted pushes the last row to a page that the
client does not ask for (`come` in `PagesExplained`).

## 7. Plan

The order follows the weight of what can go wrong: e-mail delivery and sessions
first, then what users own, then the ways to sign in, then the caches.

Done: all the modules of section 2, checked, and their safety proved.

Left:

1. The order of a login's password check and its session against a password reset
   (`src/src/app/auth/login.py` 41), which needs the password's version in `Sessions`.
2. Refinements: `Sessions`, `MFA` and `AccountTokens` each implement "a secret that is
   worth something once", which could be one abstract module like `EmailDelivery`.
3. The migrations, `--once` of the worker, and a second page of the same browser
   (`sessionStorage` is its own, but a duplicated tab starts with a copy).
