\* Three concurrent requests on at most three tokens; beside them one tab with
\* two functions running and three pairs of tokens, in up to three sessions.
SPECIFICATION MCSpec
CONSTANTS
    t1 = t1
    t2 = t2
    t3 = t3
    t4 = t4
    r1 = r1
    r2 = r2
    r3 = r3
    c1 = c1
    c2 = c2
    NoRequest = NoRequest
    NoToken = NoToken
    Tokens <- MCTokens
    Requests <- MCRequests
    NoPair = NoPair
    Pairs <- MCPairs
    Calls <- MCCalls
SYMMETRY MCThreeSymmetry
CONSTRAINT MCInOrder
INVARIANTS
    TypeOK
    AtMostOneLive
    NeverReplays
    RestAgrees
PROPERTIES
    DeadFamiliesStayDead
    ResetRevokesAll
    LogoutEndsSession
    SessionsStartActive
