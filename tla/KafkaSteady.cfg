CONSTANTS
    p1 = p1
    p2 = p2
    Partition <- TwoPartitions
    Log <- UnevenLog
    LogEnd <- UnevenEnd
    InFlightLimit = 2
    BatchSize = 2
    Timer = {t1, t2}
    NoTimer = NoTimer
    Absent = Absent
    CycleMod = 2
    MaxRebalances = 0
    MaxRestarts = 0
    MaxCommitErrors = 0
    FetchMayRaise = FALSE
SPECIFICATION FairSpec
INVARIANTS
    NoLostWakeup
    InFlightExact
    InFlightBounded
PROPERTY
    EventuallyCommitted
\* The consumer may be stopped for good, and the log ends.
CHECK_DEADLOCK FALSE
