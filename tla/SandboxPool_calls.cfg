CONSTANTS
    k1 = k1
    k2 = k2
    k3 = k3
    k4 = k4
    k5 = k5
    k6 = k6
    k7 = k7
    Callers = {c1, c2, c3}
    PoolSizes = {2, 3}
    Containers <- Seven
    NoContainer = NoContainer
    MaxHangs = 1
SPECIFICATION PoolSpec
INVARIANTS
    PoolTypeOK
    OneCallPerContainer
    NothingLeaks
PROPERTY EveryCallReturns
CHECK_DEADLOCK FALSE
