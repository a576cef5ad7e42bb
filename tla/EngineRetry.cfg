CONSTANTS
    Jobs = {j1, j2, j3}
    Workers = {w1, w2}
    Scheduled = {j3}
    QueueSize = 2
    RetryAttempts = 2
    NoJob = NoJob
SPECIFICATION Spec
SYMMETRY Symmetry
INVARIANTS TypeOK SingleCustody TrackedUntilHandled CountersAddUp
           OnlyUnsentStayActive
PROPERTIES ConcludedForGood ImplementsLifecycle
