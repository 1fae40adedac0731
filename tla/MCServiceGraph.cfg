SPECIFICATION Spec
CONSTANTS
    Spans <- SomeSpans
    Interval = 4
    Lookbehind = 4
    TaskTimeout = 2
    TaskLimit = 1
    DbLimit = 1
    Boot = 2
    Delay = 1
    MaxClock = 14
INVARIANTS
    
    PersistedWindowsAreShown
CHECK_DEADLOCK FALSE
