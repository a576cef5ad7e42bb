CONSTANTS
    Jobs = {j1, j2, j3}
    Workers = {w1, w2}
    Scheduled = {j3}
    QueueSize = 1
    RetryAttempts = 0
    NoJob = NoJob
SPECIFICATION Spec
SYMMETRY Symmetry
INVARIANT HistoryTruthful
