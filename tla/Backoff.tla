------------------------------ MODULE Backoff ------------------------------
(***************************************************************************)
(* The seconds between two attempts to send an e-mail: _retry_delay in     *)
(* services/outbox_worker.py, over the failures of one message.  Outbox    *)
(* takes any positive delay; this module says which ones there are.  The   *)
(* jitter is a hash of the message and the attempt, here any number that   *)
(* the hash may leave.                                                     *)
(***************************************************************************)
EXTENDS Naturals

CONSTANTS
    Seconds,       \* bound: the settings range over 1..Seconds
    LastAttempt    \* bound: OUTBOX_MAX_ATTEMPTS

ASSUME BackoffAssumption == Seconds \in Nat \ {0} /\ LastAttempt \in Nat \ {0}

\* Arithmetic: true of every LastAttempt, but unknown to the provers.
ASSUME PowersOfTwo ==
    \A n \in 0..LastAttempt : 2^n \in Nat \ {0} /\ 2^(n + 1) = 2 * 2^n

VARIABLES
    base,     \* OUTBOX_BACKOFF_BASE_SECONDS
    maximum,  \* OUTBOX_BACKOFF_MAX_SECONDS, at least base
    attempt,  \* attempt_count of the claim that failed last
    delay     \* what was waited after it

backoffVars == <<base, maximum, attempt, delay>>

AtMost(bound, n) == IF n < bound THEN n ELSE bound
AtLeast(bound, n) == IF n > bound THEN n ELSE bound

Exponential(n) == AtMost(maximum, base * 2^(n - 1))
JitterLimit(n) == AtLeast(1, AtMost(base, Exponential(n) \div 4))

\* Mutant: the jitter comes on top of the maximum.
UncappedDelays(n) == {Exponential(n) + jitter : jitter \in 0..JitterLimit(n)}

RetryDelaysOf(n) == {AtMost(maximum, Exponential(n) + jitter) : jitter \in 0..JitterLimit(n)}

BackoffInit ==
    /\ base \in 1..Seconds /\ maximum \in base..Seconds
    /\ attempt = 1
    /\ delay \in RetryDelaysOf(1)

\* The next attempt fails, too.
FailAgain ==
    /\ attempt < LastAttempt
    /\ attempt' = attempt + 1
    /\ delay' \in RetryDelaysOf(attempt + 1)
    /\ UNCHANGED <<base, maximum>>

BackoffSpec == BackoffInit /\ [][FailAgain]_backoffVars

----------------------------------------------------------------------------
(* Properties.                                                             *)

\* _retry_delay: with any settings that config.py accepts and any hash, no wait
\* is shorter than the one before it although each has a jitter of its own, and
\* all of them are between OUTBOX_BACKOFF_BASE_SECONDS and ..._MAX_SECONDS.
BackoffGrows ==
    [][{delay, delay'} \subseteq base..maximum /\ delay' >= delay]_backoffVars

=============================================================================
