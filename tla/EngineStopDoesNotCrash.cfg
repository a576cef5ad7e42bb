CONSTANTS
    Jobs = {j1, j2}
    Workers = {w1, w2}
    Scheduled = {}
    QueueSize = 1
    RetryAttempts = 2
    NoJob = NoJob
SPECIFICATION Spec
INVARIANTS StopDoesNotCrash
