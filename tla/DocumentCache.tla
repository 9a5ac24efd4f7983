--------------------------- MODULE DocumentCache ---------------------------
(***************************************************************************)
(* The cache of one public document of the OIDC provider                   *)
(* (services/oidc_cache.py) and the requests that load it to validate an   *)
(* ID token (services/oidc_provider.py).  Every call to Redis and to the   *)
(* provider is a step, and a call to Redis that fails may or may not have  *)
(* had its effect.                                                         *)
(*                                                                         *)
(* A document is the number of keys the provider had published when it     *)
(* served it; a token names one of the keys published when it was issued.  *)
(* The discovery document is the same with a key that is always found.     *)
(***************************************************************************)
EXTENDS Integers

CONSTANTS
    Loads,      \* requests that can validate a token at once
    LastKey,    \* bound: keys the provider publishes
    NoLoad      \* nobody

ASSUME DocumentsAssumption == NoLoad \notin Loads /\ LastKey \in Nat

VARIABLES
    published,    \* the newest key of the provider
    entry,        \* the value of the document's key in Redis
    refreshLock,  \* the load whose token is in the refresh-lock key
    load          \* load[r]: how far request r is

documentVars == <<published, entry, refreshLock, load>>

Keys == 0..LastKey
NoDocument == -1
Invalid == -2     \* malformed, oversized or refused by the validator

\* doc: the document in hand; cached: it came from Redis; seen: the document a
\* forced refresh is to replace.
Load == [at : {"idle", "read", "discard", "lock", "wait", "discard_waited", "fetch",
               "write", "release", "check", "accepted", "rejected", "failed"},
         key : Keys, doc : Keys \cup {NoDocument}, cached : BOOLEAN,
         forced : BOOLEAN, seen : Keys \cup {NoDocument}, holds : BOOLEAN]

NotLoading == [at |-> "idle", key |-> 0, doc |-> NoDocument, cached |-> FALSE,
            forced |-> FALSE, seen |-> NoDocument, holds |-> FALSE]

DocumentsInit ==
    /\ published = 0
    /\ entry = NoDocument
    /\ refreshLock = NoLoad
    /\ load = [r \in Loads |-> NotLoading]

At(r, step) == load[r].at = step
Goes(r, step) == load' = [load EXCEPT ![r].at = step]

Takes(r, doc, cached, step) ==
    load' = [load EXCEPT ![r].at = step, ![r].doc = doc, ![r].cached = cached]

\* A token signed with a published key arrives.
Begin(r, key) ==
    /\ load[r].at \in {"idle", "accepted", "rejected", "failed"}
    /\ key <= published
    /\ load' = [load EXCEPT ![r] = [NotLoading EXCEPT !.at = "read", !.key = key]]
    /\ UNCHANGED <<published, entry, refreshLock>>

\* read: a valid value is used, an invalid one deleted, an error is a miss.
ReadDocument(r) ==
    /\ At(r, "read")
    /\ \/ entry \in Keys /\ Takes(r, entry, TRUE, "check")
       \/ entry = Invalid /\ Goes(r, "discard")
       \/ entry = NoDocument /\ Goes(r, "lock")
       \/ Goes(r, "lock")
    /\ UNCHANGED <<published, entry, refreshLock>>

\* _discard_invalid deletes what is there by then.
Discard(r) ==
    /\ \/ At(r, "discard") /\ Goes(r, "lock")
       \/ At(r, "discard_waited") /\ Goes(r, "fetch")
    /\ entry' \in {entry, NoDocument}
    /\ UNCHANGED <<published, refreshLock>>

\* SET NX: whoever does not get the lock waits, also after an error, whose
\* token may stay behind.
Acquire(r) ==
    /\ At(r, "lock")
    /\ \/ /\ refreshLock = NoLoad
          /\ refreshLock' = r
          /\ load' = [load EXCEPT ![r].at = "fetch", ![r].holds = TRUE]
       \/ /\ Goes(r, "wait")
          /\ \/ UNCHANGED refreshLock
             \/ refreshLock = NoLoad /\ refreshLock' = r
    /\ UNCHANGED <<published, entry>>

\* Mutant: the waiter takes any value.
AnyAwaited(r) == Keys

\* different_from: after a miss of the key, the value that missed it is no answer.
Awaited(r) == IF load[r].forced THEN Keys \ {load[r].seen} ELSE Keys

\* wait_for_value: polls until a value, an invalid value, an error or the deadline.
WaitForValue(r) ==
    /\ At(r, "wait")
    /\ \/ entry \in Awaited(r) /\ Takes(r, entry, TRUE, "check")
       \/ entry = Invalid /\ Goes(r, "discard_waited")
       \/ Goes(r, "fetch")
    /\ UNCHANGED <<published, entry, refreshLock>>

FailsTo(r) == IF load[r].holds THEN "release" ELSE "failed"

\* The provider answers with its document or the load fails.
Fetch(r) ==
    /\ At(r, "fetch")
    /\ \/ Takes(r, published, FALSE, "write")
       \/ Takes(r, NoDocument, FALSE, FailsTo(r))
    /\ UNCHANGED <<published, entry, refreshLock>>

StoreDocument(r) ==
    /\ At(r, "write")
    /\ entry' \in {entry, load[r].doc}
    /\ Goes(r, IF load[r].holds THEN "release" ELSE "check")
    /\ UNCHANGED <<published, refreshLock>>

\* Mutant: the lock is deleted whoever holds it.
ReleasedBlindly(r) == NoLoad

\* _RELEASE_LOCK_SCRIPT: deletes the lock if it still has the token of this load.
Released(r) == IF refreshLock = r THEN NoLoad ELSE refreshLock

Release(r) ==
    /\ At(r, "release")
    /\ refreshLock' \in {refreshLock, Released(r)}
    /\ load' = [load EXCEPT ![r].holds = FALSE,
                            ![r].at = IF load[r].doc = NoDocument THEN "failed" ELSE "check"]
    /\ UNCHANGED <<published, entry>>

HasKey(r) == load[r].key <= load[r].doc

\* validate_id_token: a key that is missing from a cached document forces one
\* refresh, which starts at the lock.
Check(r) ==
    /\ At(r, "check")
    /\ \/ HasKey(r) /\ Goes(r, "accepted")
       \/ /\ ~HasKey(r) /\ load[r].cached /\ ~load[r].forced
          /\ load' = [load EXCEPT ![r].at = "lock", ![r].forced = TRUE, ![r].seen = load[r].doc,
                                  ![r].doc = NoDocument, ![r].cached = FALSE]
       \/ ~HasKey(r) /\ (~load[r].cached \/ load[r].forced) /\ Goes(r, "rejected")
    /\ UNCHANGED <<published, entry, refreshLock>>

\* jobtrack-cache invalidate-oidc.
Invalidate ==
    /\ entry' = NoDocument
    /\ UNCHANGED <<published, refreshLock, load>>

\* The provider publishes a new key beside the old ones.
Rotate ==
    /\ published < LastKey
    /\ published' = published + 1
    /\ UNCHANGED <<entry, refreshLock, load>>

\* The lock's time is up although its holder may still be fetching.
LockExpires ==
    /\ refreshLock' = NoLoad
    /\ UNCHANGED <<published, entry, load>>

\* The entry's time is up.
EntryExpires ==
    /\ entry' = NoDocument
    /\ UNCHANGED <<published, refreshLock, load>>

\* Another release of the program left something this one does not accept.
Spoil ==
    /\ entry' = Invalid
    /\ UNCHANGED <<published, refreshLock, load>>

LoadNext(r) ==
    \/ \E key \in Keys : Begin(r, key)
    \/ ReadDocument(r) \/ Discard(r) \/ Acquire(r) \/ WaitForValue(r)
    \/ Fetch(r) \/ StoreDocument(r) \/ Release(r) \/ Check(r)

DocumentsNext ==
    \/ \E r \in Loads : LoadNext(r)
    \/ Invalidate \/ Rotate \/ LockExpires \/ EntryExpires \/ Spoil

DocumentsSpec == DocumentsInit /\ [][DocumentsNext]_documentVars

----------------------------------------------------------------------------
(* Properties.                                                             *)

\* DEPLOYMENT.md 490: a token whose key is published is refused only by a load
\* that was handed the fetch of another one, and never after it asked the
\* provider itself or looked twice at the document that lacked the key.
RejectedRight ==
    \A r \in Loads :
       At(r, "rejected") => /\ load[r].cached /\ load[r].forced
                            /\ load[r].doc # load[r].seen

\* The lock of a load is deleted by that load or by its expiry, never by a load
\* that outlived its own lock.
ReleasesOwn ==
    [][\A r \in Loads :
          refreshLock = r /\ refreshLock' # r =>
             LockExpires \/ load'[r] # load[r]]_documentVars

=============================================================================
