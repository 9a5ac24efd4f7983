\* A login and a disabling request.
SPECIFICATION Spec
CONSTANTS
    t1 = t1
    t2 = t2
    t3 = t3
    t4 = t4
    r1 = r1
    r2 = r2
    r3 = r3
    NoRequest = NoRequest
    NoToken = NoToken
    Tokens <- MCTokens
    Requests <- MCTwoRequests
PROPERTY DisableRevokesAll
