SPECIFICATION MCSpec
CONSTANTS
    m1 = m1
    m2 = m2
    m3 = m3
    h1 = h1
    h2 = h2
    q1 = q1
    q2 = q2
    Queue <- MCQueue
    Delivery <- MCDelivery
    QueueOf <- MCQueueOf
    EndMarker = EndMarker
    MaxStarts = 2
    Message <- MCMessage
    Handler <- MCHandler
    Routes <- MCRoutes
    Malformed <- MCMalformed
    Early <- MCEarly
    Retries <- MCRetries
    Limits <- MCLimits
    NoLimit = NoLimit
    MaxStart = 2
    MaxOffset = 6
    MaxCalls = 3
    Item <- Offsets
    BatchSize = 3
    Timer = {t1, t2}
    NoTimer = NoTimer
INVARIANTS
    RabbitTypeOK
    NothingIsLost
    StoppedIsQuiet
    TypeOK
    PermitsBalance
    DrainIsComplete
    ClosedFormIsTheLoop
    NextIsFirstUnacknowledged
    OneTimerPerBatch
PROPERTIES
    StopEndsListen
    ImplementsMessageLife
    EveryMessageSettles
    ImplementsBatchQueue
\* The consumer may be stopped for good, and offsets and messages run out.
CHECK_DEADLOCK FALSE
