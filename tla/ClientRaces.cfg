CONSTANTS
    j1 = j1
    j2 = j2
    Jobs = {j1, j2}
    Platforms = {"android", "ios"}
    MaxRetries = 1
    MaxInits = 2
    MaxRestarts = 1

SPECIFICATION Spec
SYMMETRY Symmetry

INVARIANTS
    TypeOK
    KeptUntilAccepted
    DuplicateOnlyExplained
PROPERTIES
    ReportTruthful
