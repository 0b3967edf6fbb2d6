CONSTANTS
    p1 = p1
    p2 = p2
    Partition <- OnePartition
    Log <- GapLog
    LogEnd <- End4
    InFlightLimit = 2
    BatchSize = 2
    Timer = {t1, t2}
    NoTimer = NoTimer
    Absent = Absent
    CycleMod = 1
    MaxRebalances = 1
    MaxRestarts = 1
    MaxCommitErrors = 1
    FetchMayRaise = TRUE
SPECIFICATION Spec
INVARIANTS
    TypeOK
    AtLeastOnce
    RevokedIsForgotten
    NoMessageForgotten
PROPERTY
    ImplementsCommitLog
SYMMETRY TimerSymmetry
\* The consumer may be stopped for good, and the log ends.
CHECK_DEADLOCK FALSE
