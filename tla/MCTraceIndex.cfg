SPECIFICATION FairSpec
CONSTANTS
    t1 = t1
    t2 = t2
    tr = tr
    w1 = w1
    w2 = w2
    h1 = h1
    h2 = h2
    none = none
    Tenants = {t1, t2}
    TraceIDs = {tr}
    NoTrace = none
    Times = {5}
    Handlers = {h1, h2}
    Workers = {w1, w2}
    Spans <- MixedSpans
    WorkerOf <- ByTenant
INVARIANTS
    TypeOK
    OneEntryPerKey
    StoredSpanIsIndexed
    OldRangesHaveLeft
    CleanStopKeepsAll
PROPERTIES
    ImplementsOneMap
    EventuallyIndexed
CHECK_DEADLOCK FALSE
