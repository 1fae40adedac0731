SPECIFICATION Spec
CONSTANTS
    r1 = r1
    r2 = r2
    w1 = w1
    N = 2
    Rows = {r1}
    HomesOf <- HomesOfOne
    Writers = {w1}
    Capacity = 1
    PoolSize = 2
    DisableSeconds = 1
INVARIANTS
    StopKeepsRows
