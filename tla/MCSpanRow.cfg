SPECIFICATION DecodeSpec
CONSTANTS
    MaxFields = 3
    MaxSpans = 2
    Attributes <- SomeAttributes
    Events <- SomeEvents
    Links <- SomeLinks
    SpanTimes = {1, 2}
    SpanKinds = {0, 2}
    Clock = 3
    W = 8
    Decimal <- Digits
    Strings <- AnyString
INVARIANTS
    ReadBackAsSent
    
    
CHECK_DEADLOCK FALSE
