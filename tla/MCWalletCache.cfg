CONSTANTS
    Reader = {r1}
    Writer = {w1, w2, w3}
    Balance = 2
    RedisFails = TRUE
    None = None
SPECIFICATION FairSpec
INVARIANTS
    NoLostUpdate
    ReadsCommitted
PROPERTY StalenessEnds
