SPECIFICATION MCSpec
CONSTANTS
    Task = {"t1", "t2"}
    Error <- Errors
    Pipelines <- NestedRetries
    None = None
    Call <- Passages
    Key = {"shared", "own"}
    KeyOf <- KeyOfTask
    Limit = 1
INVARIANTS
    RetriedAsDocumented
CHECK_DEADLOCK FALSE
