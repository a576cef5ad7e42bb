CONSTANTS
    Rs = {r1, r2}
    Limiters = {l1, l2, l3}
    NoLimiter = NoLimiter
    Limit = 1
    Window = 2
SPECIFICATION FairSpec
INVARIANTS TypeOK AdmissionsBounded
PROPERTIES NotShutOut
