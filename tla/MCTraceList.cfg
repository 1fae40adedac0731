SPECIFICATION Spec
CONSTANTS
    t1 = t1
    t2 = t2
    Traces = {t1, t2}
    Times = {0, 2, 6, 8, 9}
    MaxInt64 = 99
    Now = 10
    Requests <- SomeRequests
    MaxRows = 3
    MaxTraces = 2
    Window = 1
    Offset = 1
    Zone = 0
    Retention = 12
INVARIANTS
    ListIsNewest
    NearbySpansShown
    SummaryShowsRoot
CHECK_DEADLOCK FALSE
