CONSTANTS
    Keys = {k1, k2}
    Clients = {c1, c2}
    Loaders = {l1}
    MaxVersion = 2
SPECIFICATION Spec
INVARIANTS TypeOK NeverAhead StaleOnlyByRace
PROPERTIES QuietBecomesCoherent
