CONSTANTS
    Clients = {c1, c2}
    Installers = {i1}
    None = None
    Life = 4
    Margin = 2
    MaxTime = 6
    MaxGrants = 3
    MaxLosses = 1
SYMMETRY ClientsAreAlike
SPECIFICATION Spec
INVARIANTS
    SpendsLiveTokens
PROPERTIES
    RefreshContinues
    HandedOutWorks
CHECK_DEADLOCK FALSE
