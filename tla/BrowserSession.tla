--------------------------- MODULE BrowserSession ---------------------------
(***************************************************************************)
(* The browser's side of a session: one tab of the frontend with its       *)
(* tokens (src/frontend/src/features/auth/session.ts), the functions that  *)
(* sign in, restore and sign out (auth-context.tsx, api.ts), and as much   *)
(* of the server as they see: which refresh tokens it still accepts.       *)
(*                                                                         *)
(* JavaScript runs one piece of code at a time, from one await to the      *)
(* next; such a piece is one step here.  Code that was waiting for a       *)
(* promise runs before the next event is looked at, so everyone who waits  *)
(* for a refresh continues in the step that ends it.  Answers arrive in    *)
(* any order, or not at all.                                               *)
(*                                                                         *)
(* An access token and the refresh token issued with it are a pair, and a  *)
(* session is named by its first pair.  A challenge for a second factor    *)
(* is part of signing in.                                                  *)
(***************************************************************************)
EXTENDS Naturals

CONSTANTS
    Pairs,   \* pairs of tokens that can be issued
    Calls,   \* asynchronous functions that can be running at once
    NoPair   \* null

ASSUME BrowserAssumption == NoPair \notin Pairs

VARIABLES
    accepts,      \* accepts[p]: what the server thinks of p's refresh token
    session,      \* session[p]: the session that p belongs to
    stored,       \* the refresh token in sessionStorage
    memory,       \* accessToken
    user,         \* the session whose owner the page shows
    booted,       \* ~isInitializing
    call,         \* call[c]: what the function c is waiting for
    flight,       \* flight[c]: the POST /auth/refresh that c has started
    stray,        \* refreshes on their way from a page that is gone
    interrupted,  \* tokens whose refresh was under way when the page went
    overtaken     \* an answer was applied although the session had changed

browserVars == <<accepts, session, stored, memory, user, booted, call, flight, stray,
                 interrupted, overtaken>>
serverSide == <<accepts, session, stray>>
tokens == <<stored, memory>>

Call == [kind : {"none", "fetch", "login", "restore", "logout"},
         at : {"idle", "post", "reply", "sent", "refresh", "retried"},
         pair : Pairs \cup {NoPair}, awaits : Calls]
Flight == [at : {"none", "sent", "answered"}, pair : Pairs \cup {NoPair},
           answer : Pairs \cup {NoPair}]
NoFlight == [at |-> "none", pair |-> NoPair, answer |-> NoPair]

Quiet(c) == call[c].at = "idle"
Waits(kind, at, p, o) == [kind |-> kind, at |-> at, pair |-> p, awaits |-> o]
Returned(c) == Waits("none", "idle", NoPair, c)
Becomes(c, kind, at, p) == call' = [call EXCEPT ![c] = Waits(kind, at, p, c)]
Returns(c) == call' = [call EXCEPT ![c] = Returned(c)]

SetSession(p) == stored' = p /\ memory' = p
ClearSession == SetSession(NoPair)

\* An answer about pair p comes in while another session, or none, is current.
Stale(p, current) == current = NoPair \/ session[current] # session[p]

RevokedIn(s) ==
    [p \in Pairs |-> IF session[p] = s /\ accepts[p] # "unissued" THEN "revoked" ELSE accepts[p]]

BrowserInit ==
    /\ accepts = [p \in Pairs |-> "unissued"]
    /\ session = [p \in Pairs |-> p]
    /\ stored = NoPair /\ memory = NoPair /\ user = NoPair
    /\ booted = FALSE
    /\ call = [c \in Calls |-> Returned(c)]
    /\ flight = [c \in Calls |-> NoFlight]
    /\ stray = {} /\ interrupted = {}
    /\ overtaken = FALSE

----------------------------------------------------------------------------
(* Refreshing.                                                             *)

\* Mutant: everyone starts a refresh of their own.
OwnRefresh(c) == c

\* refreshPromise: the refresh under way, or the one that c starts.
SharedRefresh(c) ==
    IF \E o \in Calls : flight[o].at # "none"
    THEN CHOOSE o \in Calls : flight[o].at # "none"
    ELSE c

\* refreshSession: wait for refreshPromise; performRefresh posts what is stored.
AwaitRefresh(c, kind) ==
    LET o == SharedRefresh(c)
    IN  /\ call' = [call EXCEPT ![c] = Waits(kind, "refresh", NoPair, o)]
        /\ flight' = IF flight[o].at # "none" THEN flight
                     ELSE [flight EXCEPT ![o] = [at |-> "sent", pair |-> stored, answer |-> NoPair]]

\* What POST /auth/refresh with p does: rotation into q, or a replay.
Rotates(p, q) ==
    /\ accepts[p] = "live" /\ accepts[q] = "unissued"
    /\ accepts' = [accepts EXCEPT ![p] = "rotated", ![q] = "live"]
    /\ session' = [session EXCEPT ![q] = session[p]]

Replays(p) ==
    /\ accepts[p] \in {"rotated", "revoked"}
    /\ accepts' = RevokedIn(session[p])
    /\ UNCHANGED session

Answered(c, answer) ==
    flight' = [flight EXCEPT ![c].at = "answered", ![c].answer = answer]

\* The server's answer to c's refresh: a pair, an error, or a lost connection.
AnswerRefresh(c) ==
    /\ flight[c].at = "sent"
    /\ \/ \E q \in Pairs : /\ Rotates(flight[c].pair, q)
                           /\ \E answer \in {q, NoPair} : Answered(c, answer)
       \/ Replays(flight[c].pair) /\ Answered(c, NoPair)
       \/ UNCHANGED <<accepts, session>> /\ Answered(c, NoPair)
    /\ UNCHANGED <<stored, memory, user, booted, call, stray, interrupted, overtaken>>

\* performRefresh stores the new pair, or clears the session, whatever it finds
\* there by now.  Those who wait retry, or dispatch session-expired; restore
\* asks for the user, or gives up.
EndRefresh(c) ==
    /\ flight[c].at = "answered"
    /\ LET p == flight[c].answer
           waiting == {d \in Calls : call[d].at = "refresh" /\ call[d].awaits = c}
           next(d) == IF p = NoPair THEN Returned(d)
                      ELSE Waits(call[d].kind,
                                 IF call[d].kind = "restore" THEN "sent" ELSE "retried", p, d)
       IN  /\ SetSession(p)
           /\ user' = IF p = NoPair THEN NoPair ELSE user
           /\ call' = [d \in Calls |-> IF d \in waiting THEN next(d) ELSE call[d]]
           /\ booted' = (booted \/ (p = NoPair /\ \E d \in waiting : call[d].kind = "restore"))
    /\ flight' = [flight EXCEPT ![c] = NoFlight]
    /\ overtaken' = (overtaken \/ stored # flight[c].pair)
    /\ UNCHANGED <<serverSide, interrupted>>

----------------------------------------------------------------------------
(* Requests with the access token.                                         *)

\* A page asks for something.
Fetch(c) ==
    /\ Quiet(c) /\ booted /\ user # NoPair
    /\ Becomes(c, "fetch", "sent", memory)
    /\ UNCHANGED <<serverSide, tokens, user, booted, flight, interrupted, overtaken>>

\* authenticatedFetch gets a 401 and something is stored to refresh with.
Unauthorized(c) ==
    /\ call[c].at = "sent" /\ stored # NoPair
    /\ AwaitRefresh(c, call[c].kind)
    /\ UNCHANGED <<serverSide, tokens, user, booted, interrupted, overtaken>>

\* The request succeeds.  For login and restore it was getCurrentUser.
Succeed(c) ==
    /\ call[c].at \in {"sent", "retried"} /\ call[c].pair # NoPair
    /\ IF call[c].kind = "fetch" THEN UNCHANGED <<user, overtaken>>
       ELSE /\ user' = session[call[c].pair]
            /\ overtaken' = (overtaken \/ Stale(call[c].pair, memory))
    /\ booted' = (booted \/ call[c].kind = "restore")
    /\ Returns(c)
    /\ UNCHANGED <<serverSide, tokens, flight, interrupted>>

\* It fails: a 401 with nothing stored or after the retry, any other error, or
\* no answer.  acceptTokens and restore then clear the session.
Fail(c) ==
    /\ call[c].at \in {"sent", "retried"}
    /\ IF call[c].kind = "fetch" THEN UNCHANGED <<tokens, overtaken>>
       ELSE /\ ClearSession
            /\ overtaken' = (overtaken \/ Stale(call[c].pair, stored))
    /\ booted' = (booted \/ call[c].kind = "restore")
    /\ Returns(c)
    /\ UNCHANGED <<serverSide, user, flight, interrupted>>

----------------------------------------------------------------------------
(* AuthProvider.                                                           *)

\* The effect of the first render: restore.
Restore(c) ==
    /\ Quiet(c) /\ ~booted
    /\ \A d \in Calls : call[d].kind # "restore"
    /\ IF stored = NoPair
       THEN booted' = TRUE /\ UNCHANGED <<call, flight>>
       ELSE AwaitRefresh(c, "restore") /\ UNCHANGED booted
    /\ UNCHANGED <<serverSide, tokens, user, interrupted, overtaken>>

\* login, or verifyChallenge after it; the form waits for the answer.
PostLogin(c) ==
    /\ Quiet(c) /\ booted /\ user = NoPair
    /\ \A d \in Calls : call[d].kind # "login"
    /\ Becomes(c, "login", "post", NoPair)
    /\ UNCHANGED <<serverSide, tokens, user, booted, flight, interrupted, overtaken>>

\* acceptTokens stores a new session and asks for the user; or it was refused.
LoginAnswer(c) ==
    /\ call[c].kind = "login" /\ call[c].at = "post"
    /\ \/ \E q \in Pairs :
             /\ accepts[q] = "unissued"
             /\ accepts' = [accepts EXCEPT ![q] = "live"]
             /\ SetSession(q)
             /\ Becomes(c, "login", "sent", q)
       \/ Returns(c) /\ UNCHANGED <<accepts, tokens>>
    /\ UNCHANGED <<session, stray, user, booted, flight, interrupted, overtaken>>

\* Mutant: what is stored is cleared only if the server has answered.
ClearsIfAnswered(answered) == IF answered THEN ClearSession ELSE UNCHANGED tokens

\* The finally of logout.
ClearsAlways(answered) == ClearSession

\* logout: revokeCurrentSession posts what is stored, if anything.
PostLogout(c) ==
    /\ Quiet(c) /\ booted /\ user # NoPair
    /\ IF stored = NoPair
       THEN ClearSession /\ user' = NoPair /\ UNCHANGED call
       ELSE Becomes(c, "logout", "post", stored) /\ UNCHANGED <<tokens, user>>
    /\ UNCHANGED <<serverSide, booted, flight, interrupted, overtaken>>

\* POST /auth/logout ends the session of the token.
RevokeOnLogout(c) ==
    /\ call[c].kind = "logout" /\ call[c].at = "post"
    /\ accepts' = RevokedIn(session[call[c].pair])
    /\ call' = [call EXCEPT ![c].at = "reply"]
    /\ UNCHANGED <<session, stray, tokens, user, booted, flight, interrupted, overtaken>>

\* Its answer, or an error instead of it.
EndLogout(c) ==
    /\ call[c].kind = "logout"
    /\ ClearsAlways(call[c].at = "reply")
    /\ user' = NoPair
    /\ overtaken' = (overtaken \/ (stored # NoPair /\ Stale(call[c].pair, stored)))
    /\ Returns(c)
    /\ UNCHANGED <<serverSide, booted, flight, interrupted>>

\* clearLocalSession, after the user revoked every session or ended MFA.
ClearLocalSession ==
    /\ booted /\ user # NoPair
    /\ ClearSession /\ user' = NoPair
    /\ UNCHANGED <<serverSide, booted, call, flight, interrupted, overtaken>>

\* The page is loaded again: only sessionStorage survives.  What was posted may
\* still arrive.
Reload ==
    LET going == {flight[c].pair : c \in {d \in Calls : flight[d].at # "none"}}
    IN  /\ interrupted' = interrupted \cup going
        /\ stray' = stray \cup {flight[c].pair : c \in {d \in Calls : flight[d].at = "sent"}}
    /\ memory' = NoPair /\ user' = NoPair
    /\ booted' = FALSE
    /\ call' = [c \in Calls |-> Returned(c)]
    /\ flight' = [c \in Calls |-> NoFlight]
    /\ overtaken' = FALSE
    /\ UNCHANGED <<accepts, session, stored>>

----------------------------------------------------------------------------
(* The server, without this page.                                          *)

StrayArrives(p) ==
    /\ p \in stray
    /\ (\E q \in Pairs : Rotates(p, q)) \/ Replays(p)
    /\ stray' = stray \ {p}
    /\ UNCHANGED <<tokens, user, booted, call, flight, interrupted, overtaken>>

\* The session is revoked from another device, by an administrator or a reset.
RevokedElsewhere(p) ==
    /\ accepts[p] = "live"
    /\ accepts' = RevokedIn(session[p])
    /\ UNCHANGED <<session, stray, tokens, user, booted, call, flight, interrupted, overtaken>>

CallNext(c) ==
    \/ AnswerRefresh(c) \/ EndRefresh(c)
    \/ Fetch(c) \/ Unauthorized(c) \/ Succeed(c) \/ Fail(c)
    \/ Restore(c) \/ PostLogin(c) \/ LoginAnswer(c)
    \/ PostLogout(c) \/ RevokeOnLogout(c) \/ EndLogout(c)

BrowserNext ==
    \/ \E c \in Calls : CallNext(c)
    \/ ClearLocalSession \/ Reload
    \/ \E p \in Pairs : StrayArrives(p) \/ RevokedElsewhere(p)

BrowserSpec == BrowserInit /\ [][BrowserNext]_browserVars

----------------------------------------------------------------------------
(* Properties.                                                             *)

\* JOBTRACK_FRONTEND_PLAN.md 279: only one refresh at a time, so that a rotated
\* token is not consumed concurrently.  The page never has a token on its way to
\* the server that the server has rotated already, which would end the session
\* as a replay, unless it was loaded again in the middle of that very refresh.
NeverReplays ==
    \A c \in Calls :
       flight[c].at = "sent" /\ accepts[flight[c].pair] = "rotated"
       => flight[c].pair \in interrupted

\* JOBTRACK_FRONTEND_PLAN.md 281: a failed refresh, signing out and revoking the
\* session clear memory and sessionStorage.  When nothing is under way, the page
\* shows a user if and only if it holds a pair of that user's session; only an
\* answer that came in after its session had been left can undo this.
RestAgrees ==
    booted /\ (\A c \in Calls : Quiet(c)) /\ ~overtaken
    => /\ stored = memory
       /\ (user = NoPair) = (stored = NoPair)
       /\ stored # NoPair => user = session[stored]

=============================================================================
