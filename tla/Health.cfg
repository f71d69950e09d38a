SPECIFICATION Spec
CONSTANTS
    Nodes = {n1}
    Handlers = {h1, h2}
    MaxRuns = 7
    None = None
    FailureThreshold = 3
    RecoveryThreshold = 2
SYMMETRY Symmetry
INVARIANT ThresholdsHold
PROPERTIES BanNeedsFailures LockedBanHolds
