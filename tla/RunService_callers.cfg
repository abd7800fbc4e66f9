CONSTANTS
    s1 = s1
    t1 = t1
    t2 = t2
    Sessions = {s1}
    Callers = {t1, t2}
    None = None
    LogUnits = 2
    PipeCap = 1
    MaxStops = 2
    EarlyClients = FALSE
SPECIFICATION FairSpec
INVARIANTS
    RecordsAreBacked
    BridgeReleased
    NoLostTerminal
PROPERTIES
    SettledIsFinal
    ResultReturns
CHECK_DEADLOCK FALSE
