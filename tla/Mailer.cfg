CONSTANTS
    s1 = s1
    s2 = s2
    s3 = s3
    c1 = c1
    c2 = c2
    c3 = c3
    Senders = {s1, s2, s3}
    Conns = {c1, c2, c3}
    PoolSize = 2
    NoConn = NoConn

SPECIFICATION Spec
SYMMETRY Symmetry

INVARIANTS
    TypeOK
    ConnsAccounted
    PoolRefills
    SuccessMeansCopy
    DuplicateOnlyUnheard
