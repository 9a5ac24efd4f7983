\* Two messages, two workers, a clock that may run at any moment; beside them
\* the retry delays of eight attempts for all settings up to 40 seconds.
SPECIFICATION MCSpec
CONSTANTS
    m1 = m1
    m2 = m2
    w1 = w1
    w2 = w2
    NoWorker = NoWorker
    Messages <- MCMessages
    Workers <- MCWorkers
    Lifetimes <- MCLifetimes
    RetryDelays <- MCRetryDelays
    Lease = 1
    BatchSize = 2
    MaxAttempts = 2
    Prompt = FALSE
    ClaimBound = 3
    FaultBound = 1
    Seconds = 40
    LastAttempt = 8
SYMMETRY MCSymmetry
INVARIANTS
    TypeOK
    ClaimsAgree
    DeliveriesWithinClaims
PROPERTIES
    ImplementsDelivery
    BackoffGrows
CHECK_DEADLOCK FALSE
