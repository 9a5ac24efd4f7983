----------------------------- MODULE RateLimit -----------------------------
(***************************************************************************)
(* The fixed-window limits on requests (middlewares/rate_limit.py) and on  *)
(* business writes (dependencies/business_rate_limit.py): the same two     *)
(* limiters, each under keys of its own, so one key is modelled.           *)
(*                                                                         *)
(* With the Redis backend a script counts a request in the window of       *)
(* Redis's clock; the answer may be lost, or Redis lose its data.  A       *)
(* request without an answer is let through or refused, as FAILURE_MODE    *)
(* says.  With the memory backend each process counts for itself, and      *)
(* loses its counts when it restarts.  Clocks do not go backwards.         *)
(***************************************************************************)
EXTENDS Integers, FiniteSets

CONSTANTS
    Askers,      \* requests that can be waiting for a decision at once
    Processes,   \* the API's worker processes
    Limit,       \* RATE_LIMIT_LIMIT
    Window,      \* RATE_LIMIT_WINDOW_SECONDS
    LastSecond,  \* bound: the clock stops here
    CountBound,  \* bound: requests counted in a window
    LossBound    \* bound: how often counts are lost

ASSUME RateAssumption ==
    /\ Limit \in Nat \ {0} /\ Window \in Nat \ {0}
    /\ IsFiniteSet(Processes) /\ Processes # {} /\ IsFiniteSet(Askers)
    /\ LastSecond \in Nat /\ CountBound \in Nat /\ LossBound \in Nat

VARIABLES
    settings,  \* RATE_LIMIT_BACKEND and RATE_LIMIT_FAILURE_MODE
    second,    \* the clock that tells the window
    count,     \* count[b]: the key of window b in Redis; 0 if there is none
    expiry,    \* expiry[b]: when that key expires
    memory,    \* memory[p]: RateLimiter.requests[client] of process p
    asker,     \* asker[q]: how far the decision on q is
    late,      \* scripts on their way whose callers have given up
    admitted,  \* admitted[b]: requests let through in window b
    losses     \* losses[b]: how often the count of window b was lost

rateVars == <<settings, second, count, expiry, memory, asker, late, admitted, losses>>

Settings == [backend : {"redis", "memory"}, mode : {"open", "closed"}]
Bucket == second \div Window
Buckets == 0..((LastSecond + 1) \div Window)

Asker == [at : {"idle", "sent", "counted"}, bucket : Buckets, count : 0..CountBound]
NotAsking == [at |-> "idle", bucket |-> 0, count |-> 0]

NoCounts == [window |-> 0, count |-> 0]

Proceeds(q, a) == asker' = [asker EXCEPT ![q] = a]

\* Mutant: the key lives for half a window.
HalfTtl == Window \div 2

\* maximum_ttl.
MaximumTtl == Window * 2

Within(n) == n <= Limit

RateInit ==
    /\ settings \in Settings
    /\ second = 0
    /\ count = [b \in Buckets |-> 0]
    /\ expiry = [b \in Buckets |-> 0]
    /\ memory = [p \in Processes |-> NoCounts]
    /\ asker = [q \in Askers |-> NotAsking]
    /\ late = 0
    /\ admitted = [b \in Buckets |-> 0]
    /\ losses = [b \in Buckets |-> 0]

----------------------------------------------------------------------------
(* Redis.                                                                  *)

Ask(q) ==
    /\ settings.backend = "redis"
    /\ asker[q].at = "idle"
    /\ Proceeds(q, [NotAsking EXCEPT !.at = "sent"])
    /\ UNCHANGED <<settings, second, count, expiry, memory, late, admitted, losses>>

\* REDIS_RATE_LIMIT_SCRIPT, in one step; a key that is there has its time.
Script ==
    /\ count[Bucket] < CountBound
    /\ count' = [count EXCEPT ![Bucket] = @ + 1]
    /\ expiry' = IF count[Bucket] = 0
                 THEN [expiry EXCEPT ![Bucket] = second + MaximumTtl] ELSE expiry

RunScript(q) ==
    /\ asker[q].at = "sent"
    /\ Script
    /\ Proceeds(q, [at |-> "counted", bucket |-> Bucket, count |-> count'[Bucket]])
    /\ UNCHANGED <<settings, second, memory, late, admitted, losses>>

RunLateScript ==
    /\ late > 0
    /\ Script
    /\ late' = late - 1
    /\ UNCHANGED <<settings, second, memory, asker, admitted, losses>>

LetThrough(b) == admitted' = [admitted EXCEPT ![b] = @ + 1]

\* The answer arrives: the request goes on, or gets a 429.
Answer(q) ==
    /\ asker[q].at = "counted"
    /\ IF Within(asker[q].count) THEN LetThrough(asker[q].bucket) ELSE UNCHANGED admitted
    /\ Proceeds(q, NotAsking)
    /\ UNCHANGED <<settings, second, count, expiry, memory, late, losses>>

\* The except clause: the request goes on uncounted, or gets a 503.
OnError == IF settings.mode = "open" THEN LetThrough(Bucket) ELSE UNCHANGED admitted

\* No connection, or no answer in time; a script that was sent may still run.
Unavailable(q) ==
    /\ asker[q].at \in {"sent", "counted"}
    /\ admitted[Bucket] < CountBound
    /\ OnError
    /\ late' \in {late} \cup (IF asker[q].at = "sent" /\ late = 0 THEN {1} ELSE {})
    /\ Proceeds(q, NotAsking)
    /\ UNCHANGED <<settings, second, count, expiry, memory, losses>>

----------------------------------------------------------------------------
(* Memory.                                                                 *)

\* RateLimiter.check reads the clock, cleanup reads it again: the next window
\* may have begun, and then the count of the first one is dropped.
CheckInMemory(p) ==
    \E now \in {second, second + 1} :
       LET present == memory[p].window = Bucket
           kept == memory[p].window >= now \div Window
           n == IF present /\ kept THEN memory[p].count + 1 ELSE 1
       IN  /\ settings.backend = "memory"
           /\ now <= LastSecond /\ n <= CountBound
           /\ second' = now
           /\ memory' = [memory EXCEPT ![p] = [window |-> Bucket, count |-> n]]
           /\ IF Within(n) THEN LetThrough(Bucket) ELSE UNCHANGED admitted
           /\ losses' = IF present /\ memory[p].count > 0 /\ ~kept
                        THEN [losses EXCEPT ![Bucket] = @ + 1] ELSE losses
           /\ UNCHANGED <<settings, count, expiry, asker, late>>

----------------------------------------------------------------------------
(* Around them.                                                            *)

\* A second passes, and keys expire.
Tick ==
    /\ second < LastSecond
    /\ second' = second + 1
    /\ count' = [b \in Buckets |-> IF expiry[b] <= second' THEN 0 ELSE count[b]]
    /\ UNCHANGED <<settings, expiry, memory, asker, late, admitted, losses>>

\* Redis, or a process, restarts without its counts.
LoseCounts ==
    /\ losses[Bucket] < LossBound
    /\ losses' = [losses EXCEPT ![Bucket] = @ + 1]
    /\ \/ /\ settings.backend = "redis"
          /\ count' = [b \in Buckets |-> 0]
          /\ UNCHANGED memory
       \/ /\ settings.backend = "memory"
          /\ \E p \in Processes : memory' = [memory EXCEPT ![p] = NoCounts]
          /\ UNCHANGED count
    /\ UNCHANGED <<settings, second, expiry, asker, late, admitted>>

RateNext ==
    \/ \E q \in Askers : Ask(q) \/ RunScript(q) \/ Answer(q) \/ Unavailable(q)
    \/ \E p \in Processes : CheckInMemory(p)
    \/ RunLateScript \/ Tick \/ LoseCounts

RateSpec == RateInit /\ [][RateNext]_rateVars

----------------------------------------------------------------------------
(* Properties.                                                             *)

\* ADR 0008: "Quotas remain consistent across workers and replicas".  With Redis
\* and mode closed, as production requires, at most Limit requests of a window
\* are let through, whatever scripts run late and answers are lost; each loss of
\* the count allows Limit more.  In memory each process has a quota of its own.
WithinLimit ==
    LET quotas == IF settings.backend = "redis" THEN 1 ELSE Cardinality(Processes) IN
    settings.backend = "memory" \/ settings.mode = "closed"
    => \A b \in Buckets : admitted[b] <= Limit * (quotas + losses[b])

=============================================================================
