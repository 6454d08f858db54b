SPECIFICATION BulkheadSpec
CONSTANTS
    Callers = {c1, c2, c3, c4}
    maxConcurrent = 1
    QueueLimit = 2
    maxRetries = 1
CHECK_DEADLOCK FALSE
INVARIANTS
    LimitHolds
