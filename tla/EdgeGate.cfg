SPECIFICATION Spec
CONSTANTS
    Sessions = {s1, s2}
    Isolates = {e1, e2}
    Addresses = {a1, a2}
    None = None
    Limit = 1
    LeaseTtl = 4
    CacheLife = 1
    Renew = 1
    CheckLimit = 1
    MaxTime = 4
    MaxChanges = 1
SYMMETRY Symmetry
INVARIANTS LimitHoldsAtEdges RefusalTakesEffect
