SPECIFICATION FairSpec
CONSTANTS
    r1 = r1
    r2 = r2
    r3 = r3
    p1 = p1
    w1 = w1
    w2 = w2
    Rows = {r1, r2}
    Pls = {p1}
    Workers = {w1, w2}
    MaxRows = 1
    MaxMem = 2
    MaxFile = 1
    MaxRestarts = 2
    MaxCrashes = 2
INVARIANTS
    NothingLostWithoutCrash
    ClosedKeepsAll
    TwiceOnlyIfRetried
PROPERTIES
    ImplementsFifo
    EventuallySettled
CHECK_DEADLOCK FALSE
