SPECIFICATION Spec
CONSTANTS
    p1 = p1
    p2 = p2
    t1 = t1
    t2 = t2
    t3 = t3
    t4 = t4
    Procs = {p1, p2}
    Tokens = {t1, t2, t3, t4}
    NoToken = NoToken
    TTLs = {1, 3}
    Waits <- MCNoWait
    Intervals = {1}
    TicksPerMs = 2
    MaxRetries = 1
    MaxLate = 1
SYMMETRY LockSymmetry
INVARIANTS
    TypeOK
    LeaseExclusion
    RefusalIsRight
PROPERTY
    ImplementsLeaseLock
