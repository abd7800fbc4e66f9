CONSTANTS
    a = a
    b = b
    Threads = {t1, t2}
    Cli = {}
    Readers = {r1}
    Texts = {a, b}
    Versions <- TwoVersions
    Layers <- OneLayer
    Absent = Absent
    Gone = Gone
    Nobody = Nobody
    Nothing = Nothing
    MaxRequests = 2
    MaxResolves = 1
SPECIFICATION Spec
INVARIANTS
    LayerIsCoherent
    UndisturbedCacheIsTrue
PROPERTIES
    StoreIsARegister
    VersionsGrow
    EveryRequestIsAnswered
CHECK_DEADLOCK FALSE
