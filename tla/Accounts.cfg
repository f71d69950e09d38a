SPECIFICATION AccountsSpec
CONSTANTS
    UserIds = {u1, u2}
    Claims = {c1}
    Handlers = {h1, h2}
    None = None
    MaxLimit = 2
    MaxTraffic = 1
    DefaultDevice = 1
    DefaultIp = 2
    BenefitIp = 2
    MaxEdits = 2
SYMMETRY Symmetry
INVARIANTS AccountsSound LimitsConsistent
PROPERTY EditsStayInBounds
CHECK_DEADLOCK FALSE
