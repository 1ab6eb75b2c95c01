SPECIFICATION FairSpec
CONSTANTS
    p1 = p1
    p2 = p2
    t1 = t1
    t2 = t2
    t3 = t3
    t4 = t4
    Procs = {p1, p2}
    Tokens = {t1, t2, t3}
    NoToken = NoToken
    TTLs = {2}
    Waits <- MCWait
    Intervals = {1}
    TicksPerMs = 1
    MaxRetries = 0
    MaxLate = 0
PROPERTIES
    LockWithWaitReturns
    OrphanExpires
