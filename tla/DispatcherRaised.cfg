SPECIFICATION Spec
CONSTANTS
    m1 = m1
    m2 = m2
    m3 = m3
    h1 = h1
    h2 = h2
    NoLimit = NoLimit
    Message <- MCMessage
    Handler <- MCHandler
    Routes <- MCRoutes
    Malformed <- MCMalformed
    Early <- MCEarly
    Retries <- MCRetries
    Limits <- MCLimits
INVARIANTS
    RaisedIsNotAcknowledged
CHECK_DEADLOCK FALSE
