SPECIFICATION FairLookupSpec
CONSTANTS
    tr = tr
    Keys = {tr}
    Trace = tr
    FirstNow = 6
    MaxNow = 7
    MaxSpans = 2
    Skew = 1
    Windows <- SomeWindows
    Step = 2
    Retention = 3
INVARIANTS
    EmptyMeansAbsent
    HitWindowIsComplete
PROPERTIES
    LookupEnds
