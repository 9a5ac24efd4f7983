\* Two concurrent requests, two challenges, two secrets, three batches of codes.
SPECIFICATION Spec
CONSTANTS
    c1 = c1
    c2 = c2
    s1 = s1
    s2 = s2
    b1 = b1
    b2 = b2
    b3 = b3
    r1 = r1
    r2 = r2
    None = None
    Challenges <- MCChallenges
    Secrets <- MCSecrets
    Batches <- MCBatches
    Requests <- MCRequests
    LastStep = 2
SYMMETRY MCSymmetry
INVARIANTS
    TypeOK
    ChallengeOnce
    RecoveryOnce
    OneBatch
PROPERTY SessionsNeedMFA
