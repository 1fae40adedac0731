SPECIFICATION FairSpec
CONSTANTS
    N = 2
    Blocks = 2
    Middle = {2}
    Hits <- SomeValues
    Limit = 1
INVARIANTS
    CompleteOrError
    CauseIsReal
    HitsAreTotal
PROPERTIES
    FailsFast
    SlotsComeBack
CHECK_DEADLOCK FALSE
