----------------------------- MODULE MCTraceList -----------------------------
EXTENDS TraceList
CONSTANTS t1, t2
West == -3
SomeRequests ==
    {[start |-> 0, end |-> 10, limit |-> 1, preview |-> 1], [start |-> 0, end |-> 8, limit |-> 2, preview |-> 2],
     [start |-> 8, end |-> 7, limit |-> 0, preview |-> 3], [start |-> 6, end |-> 9, limit |-> 9, preview |-> 1],
     [start |-> -9, end |-> -8, limit |-> 1, preview |-> 1]}
=============================================================================
