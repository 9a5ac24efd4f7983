\* Two accounts that want one e-mail, two providers, two requests in flight.
SPECIFICATION Spec
CONSTANTS
    u1 = u1
    u2 = u2
    e1 = e1
    t1 = t1
    t2 = t2
    x1 = x1
    x2 = x2
    s1 = s1
    s2 = s2
    i1 = i1
    i2 = i2
    k1 = k1
    k2 = k2
    o1 = o1
    o2 = o2
    r1 = r1
    r2 = r2
    None = None
    Users <- MCUsers
    Emails <- MCEmails
    Transactions <- MCTransactions
    Rows <- MCRows
    Subjects <- MCSubjects
    IssuerOf <- MCIssuerOf
    OidcRequests <- MCOidcRequests
    Tokens <- MCTokens
    TokenRequests <- MCTokenRequests
SYMMETRY MCSymmetry
CONSTRAINT MCBound
INVARIANTS
    TypeOK
    TransactionOnce
    CanSignIn
    TokenOnce
PROPERTIES
    SignsInOwner
    ResetConsumesAll
\* The accounts, transactions and tokens of the instance may all be used up.
CHECK_DEADLOCK FALSE
