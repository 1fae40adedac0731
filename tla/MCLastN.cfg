SPECIFICATION FairLastNSpec
CONSTANTS
    Times <- Odd
    First = 1
    Last = 9
    Limit = 2
    Second = 1
    MaxRows = 4
    MaxSame = 2
    MaxLate = 1
INVARIANTS
    FoundIsTail
    EnoughIsNewest
PROPERTIES
    SearchEnds
CHECK_DEADLOCK FALSE
