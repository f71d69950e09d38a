SPECIFICATION AlertsSpec
CONSTANTS
    NodeIds = {n1}
    LandingIds = {l1}
    UserIds = {u1}
    PoolIds = {p1}
    PoolDanger = {}
    Overviews = {o1, o2}
    Polled = o1
    Null = Null
    Names = {x, y}
    StaleAfter = 0
    SoonAfter = 1
    Retention = 0
    MaxTime = 1
    MaxChanges = 1
INVARIANT RowsSound
PROPERTIES MissesOnlyWhenOvertaken IncidentsSettle
CHECK_DEADLOCK FALSE
