CONSTANTS
    Rs = {r1, r2}
    KeyTTL = 2
    Hour = 2
    Quota = 2
SPECIFICATION Spec
INVARIANTS TypeOK RevokedKeyRunsOut QuotaBounded
