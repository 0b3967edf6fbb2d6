CONSTANTS
    p1 = p1
    p2 = p2
    Partition <- OnePartition
    Log <- DenseLog
    LogEnd <- End3
    InFlightLimit = 2
    BatchSize = 2
    Timer = {t1, t2}
    NoTimer = NoTimer
    Absent = Absent
    CycleMod = 1
    MaxRebalances = 1
    MaxRestarts = 0
    MaxCommitErrors = 0
    FetchMayRaise = FALSE
SPECIFICATION Spec
INVARIANT
    InFlightBounded
\* The consumer may be stopped for good, and the log ends.
CHECK_DEADLOCK FALSE
