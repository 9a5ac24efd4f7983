------------------------ MODULE BrowserSessionProofs ------------------------
(***************************************************************************)
(* Safety of module BrowserSession for every set of pairs and calls: a     *)
(* token that the server has rotated is not sent again, and a page at rest *)
(* shows the user of the session it holds.                                 *)
(***************************************************************************)
EXTENDS BrowserSession, TLAPS

PairOrNone == Pairs \cup {NoPair}

\* What the variables range over.
Typed ==
    /\ accepts \in [Pairs -> {"unissued", "live", "rotated", "revoked"}]
    /\ session \in [Pairs -> Pairs]
    /\ stored \in PairOrNone /\ memory \in PairOrNone /\ user \in PairOrNone
    /\ booted \in BOOLEAN /\ overtaken \in BOOLEAN
    /\ call \in [Calls -> Call]
    /\ flight \in [Calls -> Flight]
    /\ stray \subseteq Pairs /\ interrupted \subseteq Pairs

----------------------------------------------------------------------------
(* Tokens.                                                                 *)

Issued(p) == p = NoPair \/ accepts[p] # "unissued"

\* The page only has tokens that the server has issued.
HeldIssued ==
    /\ Issued(stored) /\ Issued(memory)
    /\ \A c \in Calls : Issued(call[c].pair) /\ Issued(flight[c].pair) /\ Issued(flight[c].answer)
    /\ \A p \in stray : Issued(p)

\* refreshPromise: one refresh at a time, of a token, which brings another one
\* of the same session, or none.
OneFlight ==
    /\ \A c, d \in Calls : flight[c].at # "none" /\ flight[d].at # "none" => c = d
    /\ \A c \in Calls :
          /\ flight[c].at # "none" => flight[c].pair \in Pairs
          /\ flight[c].at = "answered" /\ flight[c].answer # NoPair
             => session[flight[c].answer] = session[flight[c].pair]

\* A rotated token that the page has is one of an interrupted refresh, or the
\* answer that replaces it has come.
RotatedKnown ==
    /\ stray \subseteq interrupted
    /\ stored # NoPair /\ accepts[stored] = "rotated"
       => \/ stored \in interrupted
          \/ \E c \in Calls : flight[c].at = "answered" /\ flight[c].pair = stored
    /\ \A c \in Calls :
          flight[c].at = "answered" /\ flight[c].answer # NoPair
          /\ accepts[flight[c].answer] = "rotated" => flight[c].answer \in interrupted
    /\ NeverReplays

TokensKnown == HeldIssued /\ OneFlight /\ RotatedKnown

----------------------------------------------------------------------------
(* The page.                                                               *)

\* What runs: before the page is booted only the one restore, afterwards no
\* restore; and one login at most, while no user is shown.
CallsKnown ==
    /\ \A c \in Calls :
          /\ call[c].kind = "none" <=> call[c].at = "idle"
          /\ call[c].kind = "logout" => call[c].at \in {"post", "reply"}
          /\ call[c].kind # "login" /\ call[c].at = "post" => call[c].kind = "logout"
          /\ booted => call[c].kind # "restore"
          /\ ~booted => call[c].kind \in {"none", "restore"}
          /\ call[c].kind = "login" => user = NoPair
    /\ \A c, d \in Calls :
          call[c].kind = call[d].kind /\ call[c].kind \in {"login", "restore"} => c = d
    /\ ~booted => user = NoPair

\* The access token and the stored one are a pair, except before the refresh
\* that follows a reload.
PairHeld ==
    \/ stored = memory
    \/ /\ ~booted /\ memory = NoPair
       /\ \A c \in Calls : call[c].at \notin {"sent", "retried"}

\* As long as no answer was applied to another session than its own, the user
\* on the page is the one of the pair, and a pair without a user is one that a
\* login has just brought.
UserKnown ==
    booted /\ ~overtaken =>
       /\ user # NoPair => stored # NoPair /\ user = session[stored]
       /\ user = NoPair /\ stored # NoPair =>
             \E c \in Calls : call[c].kind = "login" /\ call[c].at \in {"sent", "refresh", "retried"}

PageKnown == CallsKnown /\ PairHeld /\ UserKnown

\* The inductive invariant.
IInv == Typed /\ TokensKnown /\ PageKnown

----------------------------------------------------------------------------
(* The server.                                                             *)

\* Issued tokens stay issued, in their sessions.
ServerOnward ==
    /\ accepts' \in [Pairs -> {"unissued", "live", "rotated", "revoked"}]
    /\ session' \in [Pairs -> Pairs]
    /\ \A o \in Pairs : accepts[o] # "unissued" =>
          accepts'[o] # "unissued" /\ session'[o] = session[o]

\* Rotation of p into q, which was not issued yet.
LEMMA RotatesFacts ==
    ASSUME Typed, NEW p \in Pairs, NEW q \in Pairs, Rotates(p, q)
    PROVE  /\ ServerOnward
           /\ p # q /\ accepts[p] = "live" /\ accepts[q] = "unissued"
           /\ accepts'[p] = "rotated" /\ accepts'[q] = "live"
           /\ session'[q] = session'[p]
           /\ \A o \in Pairs : accepts'[o] = "rotated" => o = p \/ accepts[o] = "rotated"
  BY DEF Typed, Rotates, ServerOnward

\* Revocation of a session issues and rotates nothing.
LEMMA RevokedFacts ==
    ASSUME Typed, NEW s, accepts' = RevokedIn(s), session' = session
    PROVE  /\ ServerOnward
           /\ \A o \in Pairs : accepts'[o] = "rotated" => accepts[o] = "rotated"
  BY DEF Typed, RevokedIn, ServerOnward

\* A replay revokes a session.
LEMMA ReplaysFacts ==
    ASSUME Typed, NEW p \in Pairs, Replays(p)
    PROVE  /\ ServerOnward
           /\ \A o \in Pairs : accepts'[o] = "rotated" => accepts[o] = "rotated"
  BY RevokedFacts DEF Replays

\* The server does nothing.
LEMMA ServerStays == ASSUME Typed, UNCHANGED <<accepts, session>> PROVE ServerOnward
  BY DEF Typed, ServerOnward

\* What the page has stays issued.
LEMMA IssuedStays ==
    ASSUME ServerOnward, NEW p \in PairOrNone, Issued(p)
    PROVE  p = NoPair \/ accepts'[p] # "unissued"
  BY DEF ServerOnward, Issued, PairOrNone

----------------------------------------------------------------------------
(* Frames.                                                                 *)

\* The page does not see what the server does.
LEMMA PageFrame ==
    ASSUME IInv, ServerOnward, UNCHANGED <<tokens, user, booted, call, overtaken>>
    PROVE  PageKnown'
<1>1. UNCHANGED <<stored, memory>>
  BY DEF tokens
<1>2. stored # NoPair => session'[stored] = session[stored]
  BY DEF IInv, Typed, TokensKnown, HeldIssued, Issued, ServerOnward, PairOrNone
<1>3. CallsKnown' /\ PairHeld'
  BY <1>1 DEF IInv, PageKnown, CallsKnown, PairHeld
<1>4. UserKnown'
  BY <1>1, <1>2 DEF IInv, PageKnown, UserKnown
<1> QED
  BY <1>3, <1>4 DEF PageKnown

\* What the page does without the server and without a refresh only drops tokens
\* or hands those it has to its calls.
LEMMA TokensFrame ==
    ASSUME IInv, UNCHANGED <<accepts, session, stray, flight, interrupted>>,
           stored' \in {stored, NoPair}, memory' \in {memory, NoPair},
           \A c \in Calls : call'[c].pair \in {call[c].pair, NoPair, stored, memory}
    PROVE  TokensKnown'
<1>1. HeldIssued'
  BY DEF IInv, TokensKnown, HeldIssued, Issued
<1>2. OneFlight'
  BY DEF IInv, TokensKnown, OneFlight
<1>3. RotatedKnown'
  BY DEF IInv, TokensKnown, RotatedKnown, NeverReplays
<1> QED
  BY <1>1, <1>2, <1>3 DEF TokensKnown

\* Records of calls.
LEMMA WaitsType ==
    ASSUME NEW kind \in {"none", "fetch", "login", "restore", "logout"},
           NEW at \in {"idle", "post", "reply", "sent", "refresh", "retried"},
           NEW p \in PairOrNone, NEW o \in Calls
    PROVE  /\ Waits(kind, at, p, o) \in Call
           /\ Waits(kind, at, p, o).kind = kind /\ Waits(kind, at, p, o).at = at
           /\ Waits(kind, at, p, o).pair = p /\ Waits(kind, at, p, o).awaits = o
  BY DEF Waits, Call, PairOrNone

\* One call goes on, the other ones wait as they did.
LEMMA OneBecomes ==
    ASSUME Typed, NEW c \in Calls, NEW l \in Call, call' = [call EXCEPT ![c] = l]
    PROVE  /\ call' \in [Calls -> Call]
           /\ call'[c] = l
           /\ \A d \in Calls \ {c} : call'[d] = call[d]
  BY DEF Typed

\* The record of a function that has returned.
LEMMA ReturnedFacts ==
    ASSUME NEW c \in Calls
    PROVE  /\ Returned(c) \in Call
           /\ Returned(c).kind = "none" /\ Returned(c).at = "idle" /\ Returned(c).pair = NoPair
<1>1. NoPair \in PairOrNone
  BY DEF PairOrNone
<1> QED
  BY <1>1, WaitsType DEF Returned

\* A function returns.
LEMMA ReturnsFacts ==
    ASSUME Typed, NEW c \in Calls, Returns(c)
    PROVE  /\ call' \in [Calls -> Call]
           /\ call'[c].kind = "none" /\ call'[c].at = "idle" /\ call'[c].pair = NoPair
           /\ \A d \in Calls \ {c} : call'[d] = call[d]
  BY ReturnedFacts, OneBecomes DEF Returns

\* A function waits for something else.
LEMMA BecomesFacts ==
    ASSUME Typed, NEW c \in Calls,
           NEW kind \in {"none", "fetch", "login", "restore", "logout"},
           NEW at \in {"idle", "post", "reply", "sent", "refresh", "retried"},
           NEW p \in PairOrNone, Becomes(c, kind, at, p)
    PROVE  /\ call' \in [Calls -> Call]
           /\ call'[c].kind = kind /\ call'[c].at = at /\ call'[c].pair = p
           /\ \A d \in Calls \ {c} : call'[d] = call[d]
<1> DEFINE l == Waits(kind, at, p, c)
<1>1. l \in Call /\ l.kind = kind /\ l.at = at /\ l.pair = p
  BY WaitsType
<1>2. call' = [call EXCEPT ![c] = l]
  BY DEF Becomes
<1> HIDE DEF l
<1> QED
  BY <1>1, <1>2, OneBecomes

----------------------------------------------------------------------------
(* Steps.                                                                  *)

\* At first there is no token and nothing under way.
LEMMA BrowserStarts == BrowserInit => IInv
<1> SUFFICES ASSUME BrowserInit
             PROVE  IInv
  OBVIOUS
<1>1. NoPair \in PairOrNone
  BY DEF PairOrNone
<1>2. \A c \in Calls : call[c] = Returned(c) /\ flight[c] = NoFlight
  BY DEF BrowserInit
<1>3. NoFlight \in Flight /\ NoFlight.at = "none" /\ NoFlight.pair = NoPair /\ NoFlight.answer = NoPair
  BY DEF NoFlight, Flight
<1>4. call \in [Calls -> Call] /\ flight \in [Calls -> Flight]
  BY <1>3, ReturnedFacts DEF BrowserInit
<1>5. Typed
  BY <1>1, <1>4 DEF BrowserInit, Typed
<1>6. TokensKnown
  BY <1>2, <1>3, ReturnedFacts
  DEF BrowserInit, TokensKnown, HeldIssued, Issued, OneFlight, RotatedKnown, NeverReplays
<1>7. PageKnown
  BY <1>2, ReturnedFacts DEF BrowserInit, PageKnown, CallsKnown, PairHeld, UserKnown
<1> QED
  BY <1>5, <1>6, <1>7 DEF IInv

\* A rotation whose token is in flight, or is a stray one.
LEMMA AnswerRefreshStep ==
    ASSUME IInv, NEW c \in Calls, AnswerRefresh(c)
    PROVE  IInv'
<1> DEFINE p == flight[c].pair
<1>1. /\ flight[c].at = "sent"
      /\ UNCHANGED <<stored, memory, user, booted, call, stray, interrupted, overtaken>>
  BY DEF AnswerRefresh
<1>2. p \in Pairs /\ Typed /\ flight[c] \in Flight
  BY <1>1 DEF IInv, Typed, TokensKnown, OneFlight
<1>3. PICK answer \in PairOrNone :
         /\ Answered(c, answer)
         /\ ServerOnward
         /\ \A o \in Pairs : accepts'[o] = "rotated" => o = p \/ accepts[o] = "rotated"
         /\ answer # NoPair => /\ accepts'[answer] = "live"
                               /\ session'[answer] = session'[p]
  <2>1. ASSUME NEW q \in Pairs, NEW answer \in {q, NoPair},
               Rotates(p, q), Answered(c, answer)
        PROVE  /\ answer \in PairOrNone
               /\ ServerOnward
               /\ \A o \in Pairs : accepts'[o] = "rotated" => o = p \/ accepts[o] = "rotated"
               /\ answer # NoPair => /\ accepts'[answer] = "live"
                                     /\ session'[answer] = session'[p]
    BY <1>2, <2>1, RotatesFacts DEF PairOrNone
  <2>2. CASE \E q \in Pairs : /\ Rotates(p, q)
                              /\ \E answer \in {q, NoPair} : Answered(c, answer)
    BY <2>1, <2>2
  <2>3. CASE Replays(p) /\ Answered(c, NoPair)
    BY <1>2, <2>3, ReplaysFacts DEF PairOrNone
  <2>4. CASE UNCHANGED <<accepts, session>> /\ Answered(c, NoPair)
    BY <1>2, <2>4, ServerStays DEF PairOrNone
  <2> QED
    BY <2>2, <2>3, <2>4 DEF AnswerRefresh
<1>4. /\ flight' \in [Calls -> Flight]
      /\ flight'[c].at = "answered" /\ flight'[c].pair = p /\ flight'[c].answer = answer
      /\ \A d \in Calls \ {c} : flight'[d] = flight[d]
  <2>1. flight' = [flight EXCEPT ![c] = [flight[c] EXCEPT !.at = "answered", !.answer = answer]]
    BY <1>2, <1>3 DEF Answered, Typed
  <2>2. /\ [flight[c] EXCEPT !.at = "answered", !.answer = answer] \in Flight
        /\ [flight[c] EXCEPT !.at = "answered", !.answer = answer].at = "answered"
        /\ [flight[c] EXCEPT !.at = "answered", !.answer = answer].pair = p
        /\ [flight[c] EXCEPT !.at = "answered", !.answer = answer].answer = answer
    BY <1>2, <1>3 DEF Flight, PairOrNone
  <2> QED
    BY <1>2, <2>1, <2>2 DEF Typed
<1>5. \A d \in Calls \ {c} : flight[d].at = "none" /\ flight'[d].at = "none"
  BY <1>1, <1>4 DEF IInv, TokensKnown, OneFlight
<1>6. Typed'
  BY <1>1, <1>2, <1>3, <1>4 DEF Typed, ServerOnward
<1>7. \A o \in PairOrNone : Issued(o) => Issued(o)'
  BY <1>3, IssuedStays DEF Issued
<1>8. HeldIssued'
  <2>1. Issued(p)' /\ Issued(answer)'
    <3>1. p \in PairOrNone /\ Issued(p)
      BY <1>2 DEF IInv, TokensKnown, HeldIssued, PairOrNone
    <3> QED
      BY <1>3, <1>4, <3>1, IssuedStays DEF Issued
  <2>2. \A d \in Calls : Issued(flight[d].pair)' /\ Issued(flight[d].answer)'
    <3> SUFFICES ASSUME NEW d \in Calls
                 PROVE  Issued(flight[d].pair)' /\ Issued(flight[d].answer)'
      OBVIOUS
    <3>1. CASE d = c
      BY <1>3, <1>4, <2>1, <3>1 DEF Issued
    <3>2. CASE d # c
      <4>1. /\ flight[d].pair \in PairOrNone /\ flight[d].answer \in PairOrNone
            /\ Issued(flight[d].pair) /\ Issued(flight[d].answer)
        BY <1>2 DEF Typed, Flight, PairOrNone, IInv, TokensKnown, HeldIssued
      <4> QED
        BY <1>3, <1>4, <3>2, <4>1, IssuedStays DEF Issued
    <3> QED
      BY <3>1, <3>2
  <2>3. /\ stored \in PairOrNone /\ memory \in PairOrNone
        /\ \A d \in Calls : call[d].pair \in PairOrNone
        /\ \A o \in stray : o \in PairOrNone
    BY <1>2 DEF Typed, Call, PairOrNone
  <2> QED
    BY <1>1, <1>3, <2>2, <2>3, IssuedStays DEF IInv, TokensKnown, HeldIssued, Issued
<1>9. OneFlight'
  BY <1>2, <1>3, <1>4, <1>5 DEF OneFlight
<1>10. RotatedKnown'
  <2>1. stored # NoPair /\ accepts'[stored] = "rotated" =>
           stored \in interrupted \/ stored = p
    <3>1. CASE stored = p
      BY <3>1
    <3>2. CASE stored # p
      BY <1>1, <1>2, <1>3, <3>2
      DEF IInv, TokensKnown, RotatedKnown, Typed, PairOrNone, OneFlight
    <3> QED
      BY <3>1, <3>2
  <2>2. \A d \in Calls :
           flight'[d].at = "answered" /\ flight'[d].answer # NoPair
           => accepts'[flight'[d].answer] = "live"
    BY <1>3, <1>4, <1>5
  <2>3. NeverReplays'
    BY <1>4, <1>5 DEF NeverReplays
  <2> QED
    BY <1>1, <1>4, <2>1, <2>2, <2>3 DEF IInv, TokensKnown, RotatedKnown
<1>11. PageKnown'
  BY <1>1, <1>3, PageFrame DEF tokens
<1> QED
  BY <1>6, <1>8, <1>9, <1>10, <1>11 DEF IInv, TokensKnown

\* A call waits for the refresh under way, or starts one with what is stored: a
\* token that was rotated then is one of an interrupted refresh.
LEMMA Awaiting ==
    ASSUME IInv, NEW c \in Calls, NEW kind \in {"fetch", "login", "restore"},
           AwaitRefresh(c, kind), stored # NoPair,
           UNCHANGED <<accepts, session, stray, interrupted, stored, memory>>
    PROVE  /\ call' \in [Calls -> Call] /\ flight' \in [Calls -> Flight]
           /\ call'[c].kind = kind /\ call'[c].at = "refresh"
           /\ \A d \in Calls \ {c} : call'[d] = call[d]
           /\ TokensKnown'
<1> DEFINE o == SharedRefresh(c)
<1>1. /\ o \in Calls
      /\ flight[o].at = "none" => o = c /\ \A d \in Calls : flight[d].at = "none"
  BY DEF SharedRefresh
<1>2. /\ call' = [call EXCEPT ![c] = Waits(kind, "refresh", NoPair, o)]
      /\ flight[o].at # "none" => flight' = flight
      /\ flight[o].at = "none" =>
            flight' = [flight EXCEPT ![o] = [at |-> "sent", pair |-> stored, answer |-> NoPair]]
  BY DEF AwaitRefresh
<1> HIDE DEF o
<1>3. Typed /\ NoPair \in PairOrNone /\ stored \in Pairs /\ stored \in PairOrNone
  BY DEF IInv, Typed, PairOrNone
<1> DEFINE l == Waits(kind, "refresh", NoPair, o)
<1>4. l \in Call /\ l.kind = kind /\ l.at = "refresh" /\ l.pair = NoPair
  BY <1>1, <1>3, WaitsType
<1> HIDE DEF l
<1>5. /\ call' \in [Calls -> Call] /\ call'[c] = l
      /\ \A d \in Calls \ {c} : call'[d] = call[d]
  <2>1. call' = [call EXCEPT ![c] = l]
    BY <1>2 DEF l
  <2> QED
    BY <1>3, <1>4, <2>1, OneBecomes
<1>6. CASE flight[o].at # "none"
  <2>1. flight' = flight
    BY <1>2, <1>6
  <2>2. TokensKnown'
    BY <1>4, <1>5, <2>1, TokensFrame
  <2> QED
    BY <1>3, <1>4, <1>5, <2>1, <2>2 DEF Typed
<1>7. CASE flight[o].at = "none"
  <2> DEFINE f == [at |-> "sent", pair |-> stored, answer |-> NoPair]
  <2>1. f \in Flight /\ f.at = "sent" /\ f.pair = stored /\ f.answer = NoPair
    BY <1>3 DEF Flight, PairOrNone
  <2>2. flight' = [flight EXCEPT ![c] = f] /\ \A d \in Calls : flight[d].at = "none"
    BY <1>1, <1>2, <1>7
  <2> HIDE DEF f
  <2>3. /\ flight' \in [Calls -> Flight] /\ flight'[c] = f
        /\ \A d \in Calls \ {c} : flight'[d] = flight[d] /\ flight'[d].at = "none"
    BY <1>3, <2>1, <2>2 DEF Typed
  <2>4. HeldIssued'
    BY <1>4, <1>5, <2>1, <2>3 DEF IInv, TokensKnown, HeldIssued, Issued
  <2>5. OneFlight'
    BY <1>3, <2>1, <2>3 DEF OneFlight
  <2>6. RotatedKnown'
    <3>1. accepts[stored] = "rotated" => stored \in interrupted
      BY <1>3, <2>2 DEF IInv, TokensKnown, RotatedKnown
    <3>2. NeverReplays'
      BY <2>1, <2>3, <3>1 DEF NeverReplays
    <3> QED
      BY <2>1, <2>3, <3>1, <3>2 DEF IInv, TokensKnown, RotatedKnown
  <2> QED
    BY <1>4, <1>5, <2>3, <2>4, <2>5, <2>6 DEF TokensKnown
<1> QED
  BY <1>6, <1>7

\* The refresh ends: the new pair is stored, or the session is cleared.
LEMMA EndRefreshStep ==
    ASSUME IInv, NEW c \in Calls, EndRefresh(c)
    PROVE  IInv'
<1> DEFINE p == flight[c].answer
           waiting == {d \in Calls : call[d].at = "refresh" /\ call[d].awaits = c}
           next(d) == IF p = NoPair THEN Returned(d)
                      ELSE Waits(call[d].kind,
                                 IF call[d].kind = "restore" THEN "sent" ELSE "retried", p, d)
<1>1. /\ flight[c].at = "answered"
      /\ stored' = p /\ memory' = p
      /\ user' = IF p = NoPair THEN NoPair ELSE user
      /\ call' = [d \in Calls |-> IF d \in waiting THEN next(d) ELSE call[d]]
      /\ booted' = (booted \/ (p = NoPair /\ \E d \in waiting : call[d].kind = "restore"))
      /\ flight' = [flight EXCEPT ![c] = NoFlight]
      /\ overtaken' = (overtaken \/ stored # flight[c].pair)
      /\ UNCHANGED <<accepts, session, stray, interrupted>>
  BY DEF EndRefresh, SetSession, serverSide
<1>2. /\ Typed /\ p \in PairOrNone /\ flight[c].pair \in Pairs
      /\ p # NoPair => session[p] = session[flight[c].pair]
      /\ Issued(p)
  BY <1>1 DEF IInv, Typed, Flight, PairOrNone, TokensKnown, OneFlight, HeldIssued
<1>3. ASSUME NEW d \in Calls
      PROVE  /\ call'[d] \in Call
             /\ d \notin waiting => call'[d] = call[d]
             /\ d \in waiting /\ p = NoPair =>
                   call'[d].kind = "none" /\ call'[d].at = "idle" /\ call'[d].pair = NoPair
             /\ d \in waiting /\ p # NoPair =>
                   /\ call'[d].kind = call[d].kind /\ call'[d].pair = p
                   /\ call'[d].at = IF call[d].kind = "restore" THEN "sent" ELSE "retried"
  <2>1. call'[d] = IF d \in waiting THEN next(d) ELSE call[d]
    BY <1>1
  <2>2. call[d] \in Call
    BY <1>2 DEF Typed
  <2>3. CASE d \notin waiting
    BY <2>1, <2>2, <2>3
  <2>4. CASE d \in waiting /\ p = NoPair
    BY <2>1, <2>4, ReturnedFacts
  <2>5. CASE d \in waiting /\ p # NoPair
    <3> DEFINE at == IF call[d].kind = "restore" THEN "sent" ELSE "retried"
    <3>1. call'[d] = Waits(call[d].kind, at, p, d)
      BY <2>1, <2>5
    <3>2. /\ call[d].kind \in {"none", "fetch", "login", "restore", "logout"}
          /\ at \in {"idle", "post", "reply", "sent", "refresh", "retried"}
      BY <2>2 DEF Call
    <3> HIDE DEF at
    <3>3. /\ call'[d] \in Call /\ call'[d].kind = call[d].kind /\ call'[d].at = at
          /\ call'[d].pair = p
      BY <1>2, <3>1, <3>2, WaitsType
    <3> QED
      BY <2>5, <3>3 DEF at
  <2> QED
    BY <2>3, <2>4, <2>5
<1>4. \A d \in Calls : d \in waiting <=> call[d].at = "refresh" /\ call[d].awaits = c
  OBVIOUS
<1>5. call' \in [Calls -> Call]
  BY <1>1, <1>3
<1> HIDE DEF waiting, next
<1>6. /\ flight' \in [Calls -> Flight]
      /\ \A d \in Calls : flight'[d].at = "none" /\ flight'[d].pair \in PairOrNone
                          /\ (d = c => flight'[d].pair = NoPair /\ flight'[d].answer = NoPair)
                          /\ (d # c => flight'[d] = flight[d])
  <2>1. /\ NoFlight \in Flight /\ NoFlight.at = "none" /\ NoFlight.pair = NoPair
        /\ NoFlight.answer = NoPair
    BY DEF NoFlight, Flight
  <2>2. \A d \in Calls \ {c} : flight[d].at = "none" /\ flight[d].pair \in PairOrNone
    BY <1>1, <1>2 DEF IInv, TokensKnown, OneFlight, Typed, Flight, PairOrNone
  <2> QED
    BY <1>1, <1>2, <2>1, <2>2 DEF Typed, PairOrNone
<1>7. Typed'
  <2>1. user' \in PairOrNone /\ booted' \in BOOLEAN /\ overtaken' \in BOOLEAN
    BY <1>1, <1>2 DEF Typed, PairOrNone
  <2> QED
    BY <1>1, <1>2, <1>5, <1>6, <2>1 DEF Typed
<1>8. TokensKnown'
  <2>1. HeldIssued'
    <3>1. \A d \in Calls : Issued(call'[d].pair)
      BY <1>2, <1>3 DEF IInv, TokensKnown, HeldIssued, Issued
    <3>2. \A d \in Calls : Issued(flight'[d].pair) /\ Issued(flight'[d].answer)
      BY <1>6 DEF IInv, TokensKnown, HeldIssued, Issued
    <3> QED
      BY <1>1, <1>2, <3>1, <3>2 DEF IInv, TokensKnown, HeldIssued, Issued
  <2>2. OneFlight'
    BY <1>6 DEF OneFlight
  <2>3. p # NoPair /\ accepts[p] = "rotated" => p \in interrupted
    BY <1>1 DEF IInv, TokensKnown, RotatedKnown
  <2>4. RotatedKnown'
    BY <1>1, <1>6, <2>3 DEF IInv, TokensKnown, RotatedKnown, NeverReplays
  <2> QED
    BY <2>1, <2>2, <2>4 DEF TokensKnown
<1>9. \A d \in Calls : call'[d].kind \in {call[d].kind, "none"}
  BY <1>3
<1>10. CallsKnown'
  <2>2. \A d \in Calls : call'[d].kind = "none" <=> call'[d].at = "idle"
    BY <1>3, <1>4 DEF IInv, PageKnown, CallsKnown
  <2>3. \A d \in Calls :
           /\ call'[d].kind = "logout" => call'[d].at \in {"post", "reply"}
           /\ call'[d].kind # "login" /\ call'[d].at = "post" => call'[d].kind = "logout"
    BY <1>3, <1>4 DEF IInv, PageKnown, CallsKnown
  <2>4. \A d \in Calls : booted' => call'[d].kind # "restore"
    <3>1. CASE booted
      BY <1>9, <3>1 DEF IInv, PageKnown, CallsKnown
    <3>2. CASE ~booted /\ booted'
      <4>1. p = NoPair /\ \E d \in waiting : call[d].kind = "restore"
        BY <1>1, <3>2
      <4>2. PICK e \in Calls : e \in waiting /\ call[e].kind = "restore"
        BY <4>1 DEF waiting
      <4>3. call'[e].kind = "none"
        BY <1>3, <4>1, <4>2
      <4>4. \A d \in Calls : d # e => call[d].kind # "restore"
        BY <4>2 DEF IInv, PageKnown, CallsKnown
      <4> QED
        BY <1>9, <4>3, <4>4
    <3> QED
      BY <1>2, <3>1, <3>2 DEF Typed
  <2>5. \A d \in Calls : ~booted' => call'[d].kind \in {"none", "restore"}
    BY <1>1, <1>9 DEF IInv, PageKnown, CallsKnown
  <2>6. \A d \in Calls : call'[d].kind = "login" => user' = NoPair
    BY <1>1, <1>9 DEF IInv, PageKnown, CallsKnown
  <2>7. ~booted' => user' = NoPair
    BY <1>1 DEF IInv, PageKnown, CallsKnown
  <2>8. \A d, e \in Calls :
           call'[d].kind = call'[e].kind /\ call'[d].kind \in {"login", "restore"} => d = e
    BY <1>9 DEF IInv, PageKnown, CallsKnown
  <2> QED
    BY <2>2, <2>3, <2>4, <2>5, <2>6, <2>7, <2>8 DEF CallsKnown
<1>11. PairHeld'
  BY <1>1 DEF PairHeld
<1>12. UserKnown'
  <2> SUFFICES ASSUME booted', ~overtaken'
               PROVE  /\ user' # NoPair => p # NoPair /\ user' = session[p]
                      /\ user' = NoPair /\ p # NoPair =>
                            \E d \in Calls : /\ call'[d].kind = "login"
                                             /\ call'[d].at \in {"sent", "refresh", "retried"}
    BY <1>1 DEF UserKnown
  <2>1. ~overtaken /\ stored = flight[c].pair
    BY <1>1, <1>2 DEF Typed
  <2>2. CASE p = NoPair
    BY <1>1, <2>2
  <2>3. CASE p # NoPair
    <3>1. booted /\ user' = user
      BY <1>1, <1>2, <2>3 DEF Typed
    <3>2. stored # NoPair /\ stored \in Pairs
      BY <1>2, <2>1, BrowserAssumption
    <3>3. user # NoPair => user = session[stored] /\ session[stored] = session[p]
      BY <1>2, <2>1, <2>3, <3>1 DEF IInv, PageKnown, UserKnown
    <3>4. user = NoPair =>
             \E d \in Calls : /\ call[d].kind = "login"
                              /\ call[d].at \in {"sent", "refresh", "retried"}
      BY <2>1, <3>1, <3>2 DEF IInv, PageKnown, UserKnown
    <3>5. \A d \in Calls :
             call[d].kind = "login" /\ call[d].at \in {"sent", "refresh", "retried"} =>
                call'[d].kind = "login" /\ call'[d].at \in {"sent", "refresh", "retried"}
      BY <1>3, <2>3
    <3> QED
      BY <2>3, <3>1, <3>3, <3>4, <3>5
  <2> QED
    BY <2>2, <2>3
<1> QED
  BY <1>7, <1>8, <1>10, <1>11, <1>12 DEF IInv, PageKnown

\* A page asks for something.
LEMMA FetchStep ==
    ASSUME IInv, NEW c \in Calls, Fetch(c)
    PROVE  IInv'
<1>1. /\ Quiet(c) /\ booted /\ user # NoPair
      /\ Becomes(c, "fetch", "sent", memory)
      /\ UNCHANGED <<accepts, session, stray, stored, memory, user, booted, flight,
                     interrupted, overtaken>>
  BY DEF Fetch, serverSide, tokens
<1>2. Typed /\ memory \in PairOrNone /\ call[c].at = "idle" /\ call[c].kind = "none"
  BY <1>1 DEF IInv, Typed, Quiet, PageKnown, CallsKnown
<1>3. /\ call' \in [Calls -> Call]
      /\ call'[c].kind = "fetch" /\ call'[c].at = "sent" /\ call'[c].pair = memory
      /\ \A d \in Calls \ {c} : call'[d] = call[d]
  BY <1>1, <1>2, BecomesFacts
<1>4. Typed'
  BY <1>1, <1>2, <1>3 DEF Typed
<1>5. TokensKnown'
  BY <1>1, <1>3, TokensFrame
<1>6. CallsKnown'
  BY <1>1, <1>2, <1>3 DEF IInv, PageKnown, CallsKnown
<1>7. PairHeld' /\ UserKnown'
  BY <1>1, <1>2, <1>3 DEF IInv, PageKnown, PairHeld, UserKnown
<1> QED
  BY <1>4, <1>5, <1>6, <1>7 DEF IInv, PageKnown

\* A 401, and something to refresh with.
LEMMA UnauthorizedStep ==
    ASSUME IInv, NEW c \in Calls, Unauthorized(c)
    PROVE  IInv'
<1>1. /\ call[c].at = "sent" /\ stored # NoPair
      /\ AwaitRefresh(c, call[c].kind)
      /\ UNCHANGED <<accepts, session, stray, stored, memory, user, booted, interrupted,
                     overtaken>>
  BY DEF Unauthorized, serverSide, tokens
<1>2. Typed /\ call[c] \in Call /\ call[c].kind \in {"fetch", "login", "restore"}
  BY <1>1 DEF IInv, Typed, Call, PageKnown, CallsKnown
<1>3. /\ call' \in [Calls -> Call] /\ flight' \in [Calls -> Flight]
      /\ call'[c].kind = call[c].kind /\ call'[c].at = "refresh"
      /\ \A d \in Calls \ {c} : call'[d] = call[d]
      /\ TokensKnown'
  BY <1>1, <1>2, Awaiting
<1>4. Typed'
  BY <1>1, <1>2, <1>3 DEF Typed
<1>5. CallsKnown'
  BY <1>1, <1>2, <1>3 DEF IInv, PageKnown, CallsKnown
<1>6. PairHeld'
  BY <1>1, <1>3 DEF IInv, PageKnown, PairHeld
<1>7. UserKnown'
  BY <1>1, <1>2, <1>3 DEF IInv, PageKnown, UserKnown
<1> QED
  BY <1>3, <1>4, <1>5, <1>6, <1>7 DEF IInv, PageKnown

\* A request succeeds; a login's or the restore's shows the user.
LEMMA SucceedStep ==
    ASSUME IInv, NEW c \in Calls, Succeed(c)
    PROVE  IInv'
<1>1. /\ call[c].at \in {"sent", "retried"} /\ call[c].pair # NoPair
      /\ call[c].kind = "fetch" => UNCHANGED <<user, overtaken>>
      /\ call[c].kind # "fetch" => /\ user' = session[call[c].pair]
                                   /\ overtaken' = (overtaken \/ Stale(call[c].pair, memory))
      /\ booted' = (booted \/ call[c].kind = "restore")
      /\ Returns(c)
      /\ UNCHANGED <<accepts, session, stray, stored, memory, flight, interrupted>>
  BY DEF Succeed, serverSide, tokens
<1>2. /\ Typed /\ call[c] \in Call /\ call[c].pair \in Pairs
      /\ call[c].kind \in {"fetch", "login", "restore"}
  BY <1>1 DEF IInv, Typed, Call, PageKnown, CallsKnown
<1>3. /\ call' \in [Calls -> Call]
      /\ call'[c].kind = "none" /\ call'[c].at = "idle" /\ call'[c].pair = NoPair
      /\ \A d \in Calls \ {c} : call'[d] = call[d]
  BY <1>1, <1>2, ReturnsFacts
<1>4. Typed'
  <2>1. user' \in PairOrNone
    BY <1>1, <1>2 DEF Typed, PairOrNone
  <2>2. overtaken' \in BOOLEAN /\ booted' \in BOOLEAN
    BY <1>1, <1>2 DEF Typed
  <2> QED
    BY <1>1, <1>2, <1>3, <2>1, <2>2 DEF Typed
<1>5. TokensKnown'
  BY <1>1, <1>3, TokensFrame
<1>6. CallsKnown'
  <2>1. call[c].kind = "fetch" => booted
    BY <1>2 DEF IInv, Typed, PageKnown, CallsKnown
  <2>2. call[c].kind = "login" => booted
    BY <1>2 DEF IInv, Typed, PageKnown, CallsKnown
  <2>3. booted'
    BY <1>1, <1>2, <2>1, <2>2
  <2>4. \A d \in Calls : call'[d].kind # "restore"
    BY <1>1, <1>2, <1>3, <2>1, <2>2 DEF IInv, PageKnown, CallsKnown
  <2>5. \A d \in Calls : call'[d].kind = "login" => user' = NoPair
    <3>1. CASE call[c].kind = "fetch"
      BY <1>1, <1>3, <3>1 DEF IInv, PageKnown, CallsKnown
    <3>2. CASE call[c].kind = "login"
      BY <1>3, <3>2 DEF IInv, PageKnown, CallsKnown
    <3>3. CASE call[c].kind = "restore"
      <4>1. ~booted
        BY <3>3 DEF IInv, PageKnown, CallsKnown
      <4> QED
        BY <1>3, <4>1 DEF IInv, PageKnown, CallsKnown
    <3> QED
      BY <1>2, <3>1, <3>2, <3>3
  <2>6. \A d \in Calls :
           /\ call'[d].kind = "none" <=> call'[d].at = "idle"
           /\ call'[d].kind = "logout" => call'[d].at \in {"post", "reply"}
           /\ call'[d].kind # "login" /\ call'[d].at = "post" => call'[d].kind = "logout"
    BY <1>3 DEF IInv, PageKnown, CallsKnown
  <2>7. \A d, e \in Calls :
           call'[d].kind = call'[e].kind /\ call'[d].kind \in {"login", "restore"} => d = e
    BY <1>3 DEF IInv, PageKnown, CallsKnown
  <2> QED
    BY <2>3, <2>4, <2>5, <2>6, <2>7 DEF CallsKnown
<1>7. stored = memory
  BY <1>1 DEF IInv, PageKnown, PairHeld
<1>8. UserKnown'
  <2>1. CASE call[c].kind = "fetch"
    <3>1. booted
      BY <1>2, <2>1 DEF IInv, Typed, PageKnown, CallsKnown
    <3>2. \A d \in Calls : call[d].kind = "login" => call'[d] = call[d]
      BY <1>3, <2>1
    <3> QED
      BY <1>1, <2>1, <3>1, <3>2 DEF IInv, PageKnown, UserKnown
  <2>2. CASE call[c].kind # "fetch"
    <3> SUFFICES ASSUME ~overtaken'
                 PROVE  stored # NoPair /\ user' = session[stored] /\ user' # NoPair
      BY <1>1 DEF UserKnown
    <3>1. ~Stale(call[c].pair, memory)
      BY <1>1, <2>2
    <3>2. session[call[c].pair] \in Pairs
      BY <1>2 DEF Typed
    <3> QED
      BY <1>1, <1>7, <2>2, <3>1, <3>2, BrowserAssumption DEF Stale
  <2> QED
    BY <2>1, <2>2
<1> QED
  BY <1>1, <1>4, <1>5, <1>6, <1>7, <1>8 DEF IInv, PageKnown, PairHeld

\* A request fails; a login's or the restore's clears the session.
LEMMA FailStep ==
    ASSUME IInv, NEW c \in Calls, Fail(c)
    PROVE  IInv'
<1>1. /\ call[c].at \in {"sent", "retried"}
      /\ call[c].kind = "fetch" => UNCHANGED <<stored, memory, overtaken>>
      /\ call[c].kind # "fetch" => stored' = NoPair /\ memory' = NoPair
      /\ overtaken' = overtaken \/ overtaken' = (overtaken \/ Stale(call[c].pair, stored))
      /\ booted' = (booted \/ call[c].kind = "restore")
      /\ Returns(c)
      /\ UNCHANGED <<accepts, session, stray, user, flight, interrupted>>
  BY DEF Fail, ClearSession, SetSession, serverSide, tokens
<1>2. /\ Typed /\ call[c] \in Call /\ call[c].kind \in {"fetch", "login", "restore"}
  BY <1>1 DEF IInv, Typed, Call, PageKnown, CallsKnown
<1>3. /\ call' \in [Calls -> Call]
      /\ call'[c].kind = "none" /\ call'[c].at = "idle" /\ call'[c].pair = NoPair
      /\ \A d \in Calls \ {c} : call'[d] = call[d]
  BY <1>1, <1>2, ReturnsFacts
<1>4. stored' \in {stored, NoPair} /\ memory' \in {memory, NoPair}
  BY <1>1
<1>5. Typed'
  <2>1. stored' \in PairOrNone /\ memory' \in PairOrNone
    BY <1>2, <1>4 DEF Typed, PairOrNone
  <2>2. overtaken' \in BOOLEAN /\ booted' \in BOOLEAN
    BY <1>1, <1>2 DEF Typed
  <2> QED
    BY <1>1, <1>2, <1>3, <2>1, <2>2 DEF Typed
<1>6. TokensKnown'
  BY <1>1, <1>3, <1>4, TokensFrame
<1>7. (call[c].kind = "fetch" => booted) /\ (call[c].kind = "login" => booted)
      /\ (call[c].kind = "restore" => ~booted)
  BY <1>2 DEF IInv, Typed, PageKnown, CallsKnown
<1>8. CallsKnown'
  <2>1. booted'
    BY <1>1, <1>2, <1>7
  <2>2. \A d \in Calls : call'[d].kind # "restore"
    BY <1>1, <1>2, <1>3, <1>7 DEF IInv, PageKnown, CallsKnown
  <2>3. \A d \in Calls :
           /\ call'[d].kind = "login" => user' = NoPair
           /\ call'[d].kind = "none" <=> call'[d].at = "idle"
           /\ call'[d].kind = "logout" => call'[d].at \in {"post", "reply"}
           /\ call'[d].kind # "login" /\ call'[d].at = "post" => call'[d].kind = "logout"
    BY <1>1, <1>3 DEF IInv, PageKnown, CallsKnown
  <2>4. \A d, e \in Calls :
           call'[d].kind = call'[e].kind /\ call'[d].kind \in {"login", "restore"} => d = e
    BY <1>3 DEF IInv, PageKnown, CallsKnown
  <2> QED
    BY <2>1, <2>2, <2>3, <2>4 DEF CallsKnown
<1>9. PairHeld'
  BY <1>1 DEF IInv, PageKnown, PairHeld
<1>10. UserKnown'
  <2>1. CASE call[c].kind = "fetch"
    <3>1. \A d \in Calls : call[d].kind = "login" => call'[d] = call[d]
      BY <1>3, <2>1
    <3> QED
      BY <1>1, <1>7, <2>1, <3>1 DEF IInv, PageKnown, UserKnown
  <2>2. CASE call[c].kind # "fetch"
    <3>1. user = NoPair
      BY <1>2, <1>7, <2>2 DEF IInv, PageKnown, CallsKnown
    <3> QED
      BY <1>1, <2>2, <3>1 DEF UserKnown
  <2> QED
    BY <2>1, <2>2
<1> QED
  BY <1>5, <1>6, <1>8, <1>9, <1>10 DEF IInv, PageKnown

\* The first render: nothing to restore, or a refresh of what is stored.
LEMMA RestoreStep ==
    ASSUME IInv, NEW c \in Calls, Restore(c)
    PROVE  IInv'
<1>1. /\ Quiet(c) /\ ~booted
      /\ \A d \in Calls : call[d].kind # "restore"
      /\ UNCHANGED <<accepts, session, stray, stored, memory, user, interrupted, overtaken>>
  BY DEF Restore, serverSide, tokens
<1>2. Typed /\ user = NoPair /\ \A d \in Calls : call[d].kind = "none" /\ call[d].at = "idle"
  BY <1>1 DEF IInv, PageKnown, CallsKnown
<1>3. CASE stored = NoPair
  <2>1. booted' = TRUE /\ UNCHANGED <<call, flight>>
    BY <1>3 DEF Restore
  <2>2. Typed'
    BY <1>1, <1>2, <2>1 DEF Typed
  <2>3. TokensKnown'
    BY <1>1, <2>1, TokensFrame
  <2>4. CallsKnown'
    BY <1>1, <1>2, <2>1 DEF IInv, PageKnown, CallsKnown
  <2>5. PairHeld' /\ UserKnown'
    BY <1>1, <1>2, <1>3, <2>1 DEF IInv, PageKnown, PairHeld, UserKnown
  <2> QED
    BY <2>2, <2>3, <2>4, <2>5 DEF IInv, PageKnown
<1>4. CASE stored # NoPair
  <2>1. AwaitRefresh(c, "restore") /\ UNCHANGED booted
    BY <1>4 DEF Restore
  <2>2. /\ call' \in [Calls -> Call] /\ flight' \in [Calls -> Flight]
        /\ call'[c].kind = "restore" /\ call'[c].at = "refresh"
        /\ \A d \in Calls \ {c} : call'[d] = call[d]
        /\ TokensKnown'
    BY <1>1, <1>4, <2>1, Awaiting
  <2>3. Typed'
    BY <1>1, <1>2, <2>1, <2>2 DEF Typed
  <2>4. CallsKnown'
    BY <1>1, <1>2, <2>1, <2>2 DEF IInv, PageKnown, CallsKnown
  <2>5. PairHeld' /\ UserKnown'
    BY <1>1, <1>2, <2>1, <2>2 DEF IInv, PageKnown, PairHeld, UserKnown
  <2> QED
    BY <2>2, <2>3, <2>4, <2>5 DEF IInv, PageKnown
<1> QED
  BY <1>3, <1>4

\* A login is posted.
LEMMA PostLoginStep ==
    ASSUME IInv, NEW c \in Calls, PostLogin(c)
    PROVE  IInv'
<1>1. /\ Quiet(c) /\ booted /\ user = NoPair
      /\ \A d \in Calls : call[d].kind # "login"
      /\ Becomes(c, "login", "post", NoPair)
      /\ UNCHANGED <<accepts, session, stray, stored, memory, user, booted, flight,
                     interrupted, overtaken>>
  BY DEF PostLogin, serverSide, tokens
<1>2. Typed /\ NoPair \in PairOrNone /\ call[c].at = "idle" /\ call[c].kind = "none"
  BY <1>1 DEF IInv, Typed, Quiet, PageKnown, CallsKnown, PairOrNone
<1>3. /\ call' \in [Calls -> Call]
      /\ call'[c].kind = "login" /\ call'[c].at = "post" /\ call'[c].pair = NoPair
      /\ \A d \in Calls \ {c} : call'[d] = call[d]
  BY <1>1, <1>2, BecomesFacts
<1>4. Typed'
  BY <1>1, <1>2, <1>3 DEF Typed
<1>5. TokensKnown'
  BY <1>1, <1>3, TokensFrame
<1>6. CallsKnown'
  BY <1>1, <1>2, <1>3 DEF IInv, PageKnown, CallsKnown
<1>7. PairHeld' /\ UserKnown'
  BY <1>1, <1>2, <1>3 DEF IInv, PageKnown, PairHeld, UserKnown
<1> QED
  BY <1>4, <1>5, <1>6, <1>7 DEF IInv, PageKnown

\* A new session, whose user the page does not show yet; or a refusal.
LEMMA LoginAnswerStep ==
    ASSUME IInv, NEW c \in Calls, LoginAnswer(c)
    PROVE  IInv'
<1>1. /\ call[c].kind = "login" /\ call[c].at = "post"
      /\ UNCHANGED <<session, stray, user, booted, flight, interrupted, overtaken>>
  BY DEF LoginAnswer
<1>2. Typed /\ booted /\ user = NoPair
  BY <1>1 DEF IInv, Typed, PageKnown, CallsKnown
<1>3. \A d \in Calls : d # c => call[d].kind # "login"
  BY <1>1 DEF IInv, PageKnown, CallsKnown
<1>4. ASSUME NEW q \in Pairs, accepts[q] = "unissued",
             accepts' = [accepts EXCEPT ![q] = "live"], SetSession(q),
             Becomes(c, "login", "sent", q)
      PROVE  IInv'
  <2>1. /\ accepts' \in [Pairs -> {"unissued", "live", "rotated", "revoked"}]
        /\ accepts'[q] = "live" /\ \A o \in Pairs : o # q => accepts'[o] = accepts[o]
        /\ stored' = q /\ memory' = q /\ q \in PairOrNone /\ q # NoPair
    BY <1>2, <1>4, BrowserAssumption DEF Typed, SetSession, PairOrNone
  <2>2. /\ call' \in [Calls -> Call]
        /\ call'[c].kind = "login" /\ call'[c].at = "sent" /\ call'[c].pair = q
        /\ \A d \in Calls \ {c} : call'[d] = call[d]
    BY <1>2, <1>4, <2>1, BecomesFacts
  <2>3. Typed'
    BY <1>1, <1>2, <2>1, <2>2 DEF Typed
  <2>4. ServerOnward
    BY <1>1, <1>2, <1>4, <2>1 DEF ServerOnward, Typed
  <2>5. HeldIssued'
    <3>1. \A d \in Calls : Issued(call[d].pair)'
      <4> SUFFICES ASSUME NEW d \in Calls
                   PROVE  call'[d].pair = NoPair \/ accepts'[call'[d].pair] # "unissued"
        BY DEF Issued
      <4>1. CASE d = c
        BY <2>1, <2>2, <4>1
      <4>2. CASE d # c
        <5>1. call[d].pair \in PairOrNone /\ Issued(call[d].pair)
          BY <1>2 DEF Typed, Call, PairOrNone, IInv, TokensKnown, HeldIssued
        <5> QED
          BY <2>2, <2>4, <4>2, <5>1, IssuedStays
      <4> QED
        BY <4>1, <4>2
    <3>2. \A d \in Calls : Issued(flight[d].pair)' /\ Issued(flight[d].answer)'
      <4>1. \A d \in Calls : /\ flight[d].pair \in PairOrNone /\ flight[d].answer \in PairOrNone
                             /\ Issued(flight[d].pair) /\ Issued(flight[d].answer)
        BY <1>2 DEF Typed, Flight, PairOrNone, IInv, TokensKnown, HeldIssued
      <4> QED
        BY <1>1, <2>4, <4>1, IssuedStays DEF Issued
    <3>3. \A o \in stray : Issued(o)'
      <4>1. \A o \in stray : o \in PairOrNone /\ Issued(o)
        BY <1>2 DEF Typed, PairOrNone, IInv, TokensKnown, HeldIssued
      <4> QED
        BY <2>4, <4>1, IssuedStays DEF Issued
    <3> QED
      BY <1>1, <2>1, <3>1, <3>2, <3>3 DEF HeldIssued, Issued
  <2>6. OneFlight'
    BY <1>1 DEF IInv, TokensKnown, OneFlight
  <2>7. RotatedKnown'
    <3>1. \A o \in PairOrNone : o # NoPair /\ accepts'[o] = "rotated" => accepts[o] = "rotated"
      BY <2>1 DEF PairOrNone
    <3>2. \A d \in Calls : flight[d].at # "none" => flight[d].pair \in Pairs
      BY DEF IInv, TokensKnown, OneFlight
    <3>3. \A d \in Calls : flight[d].answer \in PairOrNone
      BY <1>2 DEF Typed, Flight, PairOrNone
    <3>4. NeverReplays'
      BY <1>1, <3>1, <3>2, BrowserAssumption
      DEF IInv, TokensKnown, RotatedKnown, NeverReplays, PairOrNone
    <3> QED
      BY <1>1, <2>1, <3>1, <3>3, <3>4 DEF IInv, TokensKnown, RotatedKnown
  <2>8. CallsKnown'
    BY <1>1, <1>2, <1>3, <2>2 DEF IInv, PageKnown, CallsKnown
  <2>9. PairHeld' /\ UserKnown'
    BY <1>1, <1>2, <2>1, <2>2 DEF PairHeld, UserKnown
  <2> QED
    BY <2>3, <2>5, <2>6, <2>7, <2>8, <2>9 DEF IInv, TokensKnown, PageKnown
<1>5. ASSUME Returns(c), UNCHANGED <<accepts, tokens>>
      PROVE  IInv'
  <2>1. UNCHANGED <<accepts, stored, memory>>
    BY <1>5 DEF tokens
  <2>2. /\ call' \in [Calls -> Call]
        /\ call'[c].kind = "none" /\ call'[c].at = "idle" /\ call'[c].pair = NoPair
        /\ \A d \in Calls \ {c} : call'[d] = call[d]
    BY <1>2, <1>5, ReturnsFacts
  <2>3. Typed'
    BY <1>1, <1>2, <2>1, <2>2 DEF Typed
  <2>4. TokensKnown'
    BY <1>1, <2>1, <2>2, TokensFrame
  <2>5. CallsKnown'
    BY <1>1, <1>2, <1>3, <2>2 DEF IInv, PageKnown, CallsKnown
  <2>6. PairHeld'
    BY <1>1, <2>1, <2>2 DEF IInv, PageKnown, PairHeld
  <2>7. UserKnown'
    \* The one login was still waiting for its answer.
    BY <1>1, <1>2, <1>3, <2>1 DEF IInv, PageKnown, UserKnown
  <2> QED
    BY <2>3, <2>4, <2>5, <2>6, <2>7 DEF IInv, PageKnown
<1> QED
  BY <1>4, <1>5 DEF LoginAnswer

\* The page drops what it has.
LEMMA Cleared ==
    ASSUME IInv, booted, stored' = NoPair, memory' = NoPair, user' = NoPair,
           call' \in [Calls -> Call],
           \A d \in Calls : \/ call'[d] = call[d]
                            \/ /\ call'[d].kind = "none" /\ call'[d].at = "idle"
                               /\ call'[d].pair = NoPair,
           overtaken' \in BOOLEAN,
           UNCHANGED <<accepts, session, stray, booted, flight, interrupted>>
    PROVE  IInv'
<1>1. Typed'
  BY DEF IInv, Typed, PairOrNone
<1>2. TokensKnown'
  BY TokensFrame
<1>3. CallsKnown'
  BY DEF IInv, PageKnown, CallsKnown
<1>4. PairHeld' /\ UserKnown'
  BY DEF PairHeld, UserKnown
<1> QED
  BY <1>1, <1>2, <1>3, <1>4 DEF IInv, PageKnown

\* Signing out posts what is stored, or has nothing to revoke.
LEMMA PostLogoutStep ==
    ASSUME IInv, NEW c \in Calls, PostLogout(c)
    PROVE  IInv'
<1>1. /\ Quiet(c) /\ booted /\ user # NoPair
      /\ UNCHANGED <<accepts, session, stray, booted, flight, interrupted, overtaken>>
  BY DEF PostLogout, serverSide
<1>2. Typed /\ call[c].at = "idle" /\ call[c].kind = "none"
  BY <1>1 DEF IInv, Quiet, PageKnown, CallsKnown
<1>3. CASE stored = NoPair
  <2>1. stored' = NoPair /\ memory' = NoPair /\ user' = NoPair /\ call' = call
    BY <1>3 DEF PostLogout, ClearSession, SetSession
  <2>2. overtaken' \in BOOLEAN /\ call' \in [Calls -> Call]
    BY <1>1, <1>2, <2>1 DEF Typed
  <2> QED
    BY <1>1, <2>1, <2>2, Cleared
<1>4. CASE stored # NoPair
  <2>1. Becomes(c, "logout", "post", stored) /\ UNCHANGED <<stored, memory, user>>
    BY <1>4 DEF PostLogout, tokens
  <2>2. stored \in PairOrNone
    BY <1>2 DEF Typed
  <2>3. /\ call' \in [Calls -> Call]
        /\ call'[c].kind = "logout" /\ call'[c].at = "post" /\ call'[c].pair = stored
        /\ \A d \in Calls \ {c} : call'[d] = call[d]
    BY <1>2, <2>1, <2>2, BecomesFacts
  <2>4. Typed'
    BY <1>1, <1>2, <2>1, <2>3 DEF Typed
  <2>5. TokensKnown'
    BY <1>1, <2>1, <2>3, TokensFrame
  <2>6. CallsKnown'
    BY <1>1, <1>2, <2>1, <2>3 DEF IInv, PageKnown, CallsKnown
  <2>7. PairHeld' /\ UserKnown'
    BY <1>1, <1>2, <2>1, <2>3 DEF IInv, PageKnown, PairHeld, UserKnown
  <2> QED
    BY <2>4, <2>5, <2>6, <2>7 DEF IInv, PageKnown
<1> QED
  BY <1>3, <1>4

\* The answer to a logout, or the lack of one, clears the session.
LEMMA EndLogoutStep ==
    ASSUME IInv, NEW c \in Calls, EndLogout(c)
    PROVE  IInv'
<1>1. /\ call[c].kind = "logout" /\ Returns(c)
      /\ stored' = NoPair /\ memory' = NoPair /\ user' = NoPair
      /\ overtaken' = (overtaken \/ (stored # NoPair /\ Stale(call[c].pair, stored)))
      /\ UNCHANGED <<accepts, session, stray, booted, flight, interrupted>>
  BY DEF EndLogout, ClearsAlways, ClearSession, SetSession, serverSide
<1>2. Typed /\ booted
  BY <1>1 DEF IInv, Typed, PageKnown, CallsKnown
<1>3. /\ call' \in [Calls -> Call]
      /\ call'[c].kind = "none" /\ call'[c].at = "idle" /\ call'[c].pair = NoPair
      /\ \A d \in Calls \ {c} : call'[d] = call[d]
  BY <1>1, <1>2, ReturnsFacts
<1>4. overtaken' \in BOOLEAN
  BY <1>1, <1>2 DEF Typed
<1> QED
  BY <1>1, <1>2, <1>3, <1>4, Cleared

\* The page drops its session by itself.
LEMMA ClearLocalSessionStep == IInv /\ ClearLocalSession => IInv'
<1> SUFFICES ASSUME IInv, ClearLocalSession
             PROVE  IInv'
  OBVIOUS
<1>1. /\ booted /\ stored' = NoPair /\ memory' = NoPair /\ user' = NoPair
      /\ UNCHANGED <<accepts, session, stray, booted, call, flight, interrupted, overtaken>>
  BY DEF ClearLocalSession, ClearSession, SetSession, serverSide
<1>2. overtaken' \in BOOLEAN /\ call' \in [Calls -> Call]
  BY <1>1 DEF IInv, Typed
<1> QED
  BY <1>1, <1>2, Cleared

\* Nothing is under way any more; the refreshes that were are remembered.
LEMMA ReloadStep == IInv /\ Reload => IInv'
<1> SUFFICES ASSUME IInv, Reload
             PROVE  IInv'
  OBVIOUS
<1> DEFINE going == {flight[c].pair : c \in {d \in Calls : flight[d].at # "none"}}
           sent == {flight[c].pair : c \in {d \in Calls : flight[d].at = "sent"}}
<1>1. /\ interrupted' = interrupted \cup going
      /\ stray' = stray \cup sent
      /\ memory' = NoPair /\ user' = NoPair /\ booted' = FALSE /\ overtaken' = FALSE
      /\ call' = [c \in Calls |-> Returned(c)]
      /\ flight' = [c \in Calls |-> NoFlight]
      /\ UNCHANGED <<accepts, session, stored>>
  BY DEF Reload
<1>2. Typed
  BY DEF IInv
<1>3. going \subseteq Pairs /\ sent \subseteq going
  BY DEF IInv, TokensKnown, OneFlight
<1>4. \A d \in Calls : flight[d].at # "none" => flight[d].pair \in going
  OBVIOUS
<1>5. \A o \in sent : Issued(o)
  BY DEF IInv, TokensKnown, HeldIssued
<1> HIDE DEF going, sent
<1>6. /\ NoFlight \in Flight /\ NoFlight.at = "none" /\ NoFlight.pair = NoPair
      /\ NoFlight.answer = NoPair
  BY DEF NoFlight, Flight
<1>7. /\ call' \in [Calls -> Call] /\ flight' \in [Calls -> Flight]
      /\ \A d \in Calls : /\ call'[d].kind = "none" /\ call'[d].at = "idle"
                          /\ call'[d].pair = NoPair
                          /\ flight'[d] = NoFlight
  BY <1>1, <1>6, ReturnedFacts
<1>8. Typed'
  <2>1. NoPair \in PairOrNone
    BY DEF PairOrNone
  <2> QED
    BY <1>1, <1>2, <1>3, <1>7, <2>1 DEF Typed
<1>9. HeldIssued'
  BY <1>1, <1>5, <1>6, <1>7 DEF IInv, TokensKnown, HeldIssued, Issued
<1>10. OneFlight'
  BY <1>6, <1>7 DEF OneFlight
<1>11. RotatedKnown'
  BY <1>1, <1>3, <1>4, <1>6, <1>7 DEF IInv, TokensKnown, RotatedKnown, NeverReplays
<1>12. PageKnown'
  BY <1>1, <1>7 DEF PageKnown, CallsKnown, PairHeld, UserKnown
<1> QED
  BY <1>8, <1>9, <1>10, <1>11, <1>12 DEF IInv, TokensKnown

\* What the server does by itself rotates only tokens of interrupted refreshes.
LEMMA ServerTokens ==
    ASSUME IInv, ServerOnward,
           \A o \in Pairs : accepts'[o] = "rotated" => o \in interrupted \/ accepts[o] = "rotated",
           stray' \subseteq stray,
           \A d \in Calls : call'[d].pair = call[d].pair,
           UNCHANGED <<stored, memory, flight, interrupted>>
    PROVE  TokensKnown'
<1>1. Typed
  BY DEF IInv
<1>2. HeldIssued'
  <2>1. /\ stored \in PairOrNone /\ memory \in PairOrNone
        /\ \A d \in Calls : call[d].pair \in PairOrNone
        /\ \A d \in Calls : flight[d].pair \in PairOrNone /\ flight[d].answer \in PairOrNone
        /\ \A o \in stray : o \in PairOrNone
    BY <1>1 DEF Typed, Call, Flight, PairOrNone
  <2> QED
    BY <2>1, IssuedStays DEF IInv, TokensKnown, HeldIssued, Issued
<1>3. OneFlight'
  <2>1. ASSUME NEW d \in Calls, flight[d].at = "answered", flight[d].answer # NoPair
        PROVE  session'[flight[d].answer] = session'[flight[d].pair]
    <3>1. flight[d].answer \in Pairs /\ flight[d].pair \in Pairs
      BY <1>1, <2>1 DEF Typed, Flight, IInv, TokensKnown, OneFlight
    <3>2. accepts[flight[d].answer] # "unissued" /\ accepts[flight[d].pair] # "unissued"
      BY <3>1, BrowserAssumption DEF IInv, TokensKnown, HeldIssued, Issued
    <3>3. session[flight[d].answer] = session[flight[d].pair]
      BY <2>1 DEF IInv, TokensKnown, OneFlight
    <3> QED
      BY <3>1, <3>2, <3>3 DEF ServerOnward
  <2> QED
    BY <2>1 DEF IInv, TokensKnown, OneFlight
<1>4. RotatedKnown'
  <2>1. \A d \in Calls : flight[d].at # "none" => flight[d].pair \in Pairs
    BY DEF IInv, TokensKnown, OneFlight
  <2>2. /\ stored # NoPair => stored \in Pairs
        /\ \A d \in Calls : flight[d].answer # NoPair => flight[d].answer \in Pairs
    BY <1>1 DEF Typed, Flight, PairOrNone
  <2>3. NeverReplays'
    BY <2>1 DEF IInv, TokensKnown, RotatedKnown, NeverReplays
  <2>4. \A d \in Calls :
           flight'[d].at = "answered" /\ flight'[d].answer # NoPair
           /\ accepts'[flight'[d].answer] = "rotated" => flight'[d].answer \in interrupted'
    BY <2>2 DEF IInv, TokensKnown, RotatedKnown
  <2>5. stored' # NoPair /\ accepts'[stored'] = "rotated"
        => \/ stored' \in interrupted'
           \/ \E d \in Calls : flight'[d].at = "answered" /\ flight'[d].pair = stored'
    BY <2>2 DEF IInv, TokensKnown, RotatedKnown
  <2> QED
    BY <2>3, <2>4, <2>5 DEF IInv, TokensKnown, RotatedKnown
<1> QED
  BY <1>2, <1>3, <1>4 DEF TokensKnown

\* The session of a logout is revoked.
LEMMA RevokeOnLogoutStep ==
    ASSUME IInv, NEW c \in Calls, RevokeOnLogout(c)
    PROVE  IInv'
<1>1. /\ call[c].kind = "logout" /\ call[c].at = "post"
      /\ accepts' = RevokedIn(session[call[c].pair])
      /\ call' = [call EXCEPT ![c].at = "reply"]
      /\ UNCHANGED <<session, stray, stored, memory, user, booted, flight, interrupted,
                     overtaken>>
  BY DEF RevokeOnLogout, tokens
<1>2. Typed /\ call[c] \in Call
  BY DEF IInv, Typed
<1>3. ServerOnward /\ \A o \in Pairs : accepts'[o] = "rotated" => accepts[o] = "rotated"
  BY <1>1, <1>2, RevokedFacts
<1>4. /\ call' \in [Calls -> Call]
      /\ call'[c].kind = "logout" /\ call'[c].at = "reply" /\ call'[c].pair = call[c].pair
      /\ \A d \in Calls \ {c} : call'[d] = call[d]
  <2> DEFINE l == [call[c] EXCEPT !.at = "reply"]
  <2>1. l \in Call /\ l.kind = "logout" /\ l.at = "reply" /\ l.pair = call[c].pair
    BY <1>1, <1>2 DEF Call
  <2>2. call' = [call EXCEPT ![c] = l]
    BY <1>1, <1>2 DEF Typed
  <2> HIDE DEF l
  <2> QED
    BY <1>2, <2>1, <2>2, OneBecomes
<1>5. Typed'
  BY <1>1, <1>2, <1>3, <1>4 DEF Typed, ServerOnward
<1>6. TokensKnown'
  BY <1>1, <1>3, <1>4, ServerTokens
<1>7. CallsKnown'
  BY <1>1, <1>4 DEF IInv, PageKnown, CallsKnown
<1>8. PairHeld'
  BY <1>1, <1>4 DEF IInv, PageKnown, PairHeld
<1>9. UserKnown'
  <2>1. stored # NoPair => session'[stored] = session[stored]
    BY <1>1
  <2>2. \A d \in Calls : call[d].kind = "login" => call'[d] = call[d]
    BY <1>1, <1>4
  <2> QED
    BY <1>1, <2>1, <2>2 DEF IInv, PageKnown, UserKnown
<1> QED
  BY <1>5, <1>6, <1>7, <1>8, <1>9 DEF IInv, PageKnown

\* A refresh of a page that is gone: its token is an interrupted one.
LEMMA StrayArrivesStep ==
    ASSUME IInv, NEW p \in Pairs, StrayArrives(p)
    PROVE  IInv'
<1>1. /\ p \in stray /\ stray' = stray \ {p}
      /\ UNCHANGED <<stored, memory, user, booted, call, flight, interrupted, overtaken>>
  BY DEF StrayArrives, tokens
<1>2. Typed /\ p \in interrupted
  BY <1>1 DEF IInv, TokensKnown, RotatedKnown
<1>3. /\ ServerOnward
      /\ \A o \in Pairs : accepts'[o] = "rotated" => o \in interrupted \/ accepts[o] = "rotated"
  <2>1. CASE \E q \in Pairs : Rotates(p, q)
    BY <1>2, <2>1, RotatesFacts
  <2>2. CASE Replays(p)
    BY <1>2, <2>2, ReplaysFacts
  <2> QED
    BY <2>1, <2>2 DEF StrayArrives
<1>4. Typed'
  BY <1>1, <1>2, <1>3 DEF Typed, ServerOnward
<1>5. TokensKnown'
  BY <1>1, <1>3, ServerTokens
<1>6. PageKnown'
  BY <1>1, <1>3, PageFrame DEF tokens
<1> QED
  BY <1>4, <1>5, <1>6 DEF IInv

\* A revocation from elsewhere.
LEMMA RevokedElsewhereStep ==
    ASSUME IInv, NEW p \in Pairs, RevokedElsewhere(p)
    PROVE  IInv'
<1>1. /\ accepts' = RevokedIn(session[p]) /\ session' = session
      /\ UNCHANGED <<stray, stored, memory, user, booted, call, flight, interrupted, overtaken>>
  BY DEF RevokedElsewhere, tokens
<1>2. Typed
  BY DEF IInv
<1>3. ServerOnward /\ \A o \in Pairs : accepts'[o] = "rotated" => accepts[o] = "rotated"
  BY <1>1, <1>2, RevokedFacts
<1>4. Typed'
  BY <1>1, <1>2, <1>3 DEF Typed, ServerOnward
<1>5. TokensKnown'
  BY <1>1, <1>3, ServerTokens
<1>6. PageKnown'
  BY <1>1, <1>3, PageFrame DEF tokens
<1> QED
  BY <1>4, <1>5, <1>6 DEF IInv

----------------------------------------------------------------------------
(* The theorems.                                                           *)

\* Every step keeps the invariant.
LEMMA BrowserStep == IInv /\ [BrowserNext]_browserVars => IInv'
<1> SUFFICES ASSUME IInv, [BrowserNext]_browserVars
             PROVE  IInv'
  OBVIOUS
<1>1. CASE \E c \in Calls : CallNext(c)
  <2>1. PICK c \in Calls : CallNext(c)
    BY <1>1
  <2> QED
    BY <2>1, AnswerRefreshStep, EndRefreshStep, FetchStep, UnauthorizedStep, SucceedStep,
       FailStep, RestoreStep, PostLoginStep, LoginAnswerStep, PostLogoutStep,
       RevokeOnLogoutStep, EndLogoutStep DEF CallNext
<1>2. CASE ClearLocalSession
  BY <1>2, ClearLocalSessionStep
<1>3. CASE Reload
  BY <1>3, ReloadStep
<1>4. CASE \E p \in Pairs : StrayArrives(p) \/ RevokedElsewhere(p)
  BY <1>4, StrayArrivesStep, RevokedElsewhereStep
<1>5. CASE UNCHANGED browserVars
  <2>1. UNCHANGED <<accepts, session, stored, memory, user, booted, call, flight, stray,
                    interrupted, overtaken>>
    BY <1>5 DEF browserVars
  <2>2. Typed'
    BY <2>1 DEF IInv, Typed
  <2>3. TokensKnown'
    BY <2>1, TokensFrame
  <2>4. CallsKnown' /\ PairHeld'
    BY <2>1 DEF IInv, PageKnown, CallsKnown, PairHeld
  <2>5. UserKnown'
    BY <2>1 DEF IInv, PageKnown, UserKnown
  <2> QED
    BY <2>2, <2>3, <2>4, <2>5 DEF IInv, PageKnown
<1> QED
  BY <1>1, <1>2, <1>3, <1>4, <1>5 DEF BrowserNext

\* The invariant holds in every reachable state.
LEMMA BrowserInvariant == BrowserSpec => []IInv
  BY BrowserStarts, BrowserStep, PTL DEF BrowserSpec

\* JOBTRACK_FRONTEND_PLAN.md 279: however many requests need a new token at once,
\* the page never posts a token that the server has rotated, except for one whose
\* refresh a reload of the page has cut off.
THEOREM NoTokenTwice == BrowserSpec => []NeverReplays
<1>1. IInv => NeverReplays
  BY DEF IInv, TokensKnown, RotatedKnown
<1> QED
  BY <1>1, BrowserInvariant, PTL

\* JOBTRACK_FRONTEND_PLAN.md 281: when nothing is under way, the page shows a
\* user if and only if it holds a pair of that user's session, unless an answer
\* was applied after its session had been left.
THEOREM RestIsCoherent == BrowserSpec => []RestAgrees
<1>1. IInv => RestAgrees
  <2> SUFFICES ASSUME IInv, booted, \A c \in Calls : Quiet(c), ~overtaken
               PROVE  /\ stored = memory
                      /\ (user = NoPair) = (stored = NoPair)
                      /\ stored # NoPair => user = session[stored]
    BY DEF RestAgrees
  <2>1. stored = memory
    BY DEF IInv, PageKnown, PairHeld
  <2>2. user # NoPair => stored # NoPair /\ user = session[stored]
    BY DEF IInv, PageKnown, UserKnown
  <2>3. stored # NoPair => user # NoPair
    BY DEF Quiet, IInv, PageKnown, UserKnown
  <2> QED
    BY <2>1, <2>2, <2>3
<1> QED
  BY <1>1, BrowserInvariant, PTL

=============================================================================
