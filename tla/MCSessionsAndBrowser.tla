------------------------ MODULE MCSessionsAndBrowser ------------------------
(***************************************************************************)
(* Sessions and BrowserSession for TLC.  The browser sees of the server    *)
(* only whether a refresh token is accepted, which BrowserSession says     *)
(* itself; the two are checked one beside the other: part says which of    *)
(* them moves, and the other one stays in its initial state.               *)
(***************************************************************************)
EXTENDS MCSessions, BrowserSession

VARIABLE part

CONSTANTS c1, c2

MCPairs == 1..3
MCCalls == {c1, c2}

\* Pairs are interchangeable: they are issued in order.
MCInOrder ==
    \A p \in MCPairs : accepts[p] = "unissued" => \A q \in p..3 : accepts[q] = "unissued"

\* Tokens and requests are interchangeable, too.
MCThreeSymmetry == Permutations(MCTokens) \cup Permutations(MCRequests)

MCInit == part \in {"sessions", "browser"} /\ Init /\ BrowserInit

MCNext ==
    /\ UNCHANGED part
    /\ \/ part = "sessions" /\ Next /\ UNCHANGED browserVars
       \/ part = "browser" /\ BrowserNext /\ UNCHANGED vars

MCSpec == MCInit /\ [][MCNext]_<<part, vars, browserVars>>

=============================================================================
