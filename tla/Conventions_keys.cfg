CONSTANTS
    p1 = p1
    p2 = p2
    p3 = p3
    o1 = o1
    o2 = o2
    k1 = k1
    k2 = k2
    i1 = i1
    w1 = w1
    i2 = i2
    Passes = {p1, p2}
    Processes = {o1, o2}
    Keys = {k1, k2}
    Versions = {1, 2, 3}
    Issuers = {i1, i2}
    Records <- Successors
    Wordings = {w1}
    Nobody = Nobody
    None = None
    MaxEntries = 1
    TTL = 3
    MayEvict = TRUE
    Scoped = TRUE
    Dated = FALSE
    MaxTime = 3
    MaxIngests = 4
SPECIFICATION Spec
SYMMETRY Alike
INVARIANTS
    TypeOK
    QuotaOverrun
PROPERTY KeyStaysServed
CHECK_DEADLOCK FALSE
