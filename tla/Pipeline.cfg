SPECIFICATION MCSpec
CONSTANTS
    Task = {"t1", "t2", "t3", "t4"}
    Error <- Errors
    Pipelines <- PipelinesChecked
    None = None
    Call <- Passages
    Key = {"shared", "own"}
    KeyOf <- KeyOfTask
    Limit = 1
INVARIANTS
    TypeOK
    MutualExclusion
    EntriesAreShared
    HandlersExclude
    RetriesMultiply
PROPERTIES
    EveryTaskEnds
CHECK_DEADLOCK FALSE
