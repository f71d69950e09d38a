SPECIFICATION Spec
CONSTANTS
    Changes = {c1, c2}
    Requests = {r1}
    None = None
    Ttl = 1
    KvLife = 2
    FetchLimit = 1
    KvErrors = TRUE
    MaxClock = 4
SYMMETRY Symmetry
INVARIANTS TypeOK InvalidatedStaysOut StalenessIsBounded
