\* Two requests decide on the row they loaded before the lock.
SPECIFICATION Spec
CONSTANTS
    c1 = c1
    c2 = c2
    s1 = s1
    s2 = s2
    b1 = b1
    b2 = b2
    b3 = b3
    r1 = r1
    r2 = r2
    None = None
    Challenges <- MCChallenges
    Secrets <- MCSecrets
    Batches <- MCBatches
    Requests <- MCRequests
    LastStep = 2
SYMMETRY MCSymmetry
INVARIANTS
    TotpOnce
