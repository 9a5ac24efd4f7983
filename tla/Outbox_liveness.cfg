\* The clock waits for workers that are not in SMTP I/O; ClaimBound is never reached.
SPECIFICATION FairSpec
CONSTANTS
    m1 = m1
    m2 = m2
    w1 = w1
    w2 = w2
    NoWorker = NoWorker
    Messages <- MCMessages
    Workers <- MCWorkers
    Lifetimes <- MCShortLifetimes
    RetryDelays <- MCRetryDelays
    Lease = 1
    BatchSize = 2
    MaxAttempts = 2
    Prompt = TRUE
    ClaimBound = 9
    FaultBound = 1
PROPERTY EventuallySettled
CHECK_DEADLOCK FALSE
