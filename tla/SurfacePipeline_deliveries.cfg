CONSTANTS
    e1 = e1
    e2 = e2
    e3 = e3
    w1 = w1
    w2 = w2
    NoEvent = NoEvent
    Events = {e1, e2, e3}
    KnownRef <- Known
    TenantOf <- Tenants
    Deliveries = {d1, d2, d3}
    Window = 1
    Limits = {0, 1}
    MaxPerDay = 2
    MaxSpend = 2
    MaxCrashes = 1
SPECIFICATION FairPipeline
INVARIANTS
    NoReplayInWindow
PROPERTIES
    EveryCommandIsAnswered
CHECK_DEADLOCK FALSE
