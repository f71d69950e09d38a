SPECIFICATION PoolSpec
CONSTANTS
    NodeIds = {n1, n2}
    Names = {x, y}
    Ips = {i1, i2}
    Requests = {r1}
    NoPool = NoPool
    Old = Old
    MaxIps = 2
    UseOptimizedIps = TRUE
    SubIps = 1
    Lifetime = 2
    RunFor = 1
    FreshFor = 0
    WarnAfter = 1
    MaxTime = 3
    MaxChanges = 3
    MaxRuns = 1
SYMMETRY Symmetry
INVARIANTS ServesExactlyWhatIsValid PagesAgree
CHECK_DEADLOCK FALSE
