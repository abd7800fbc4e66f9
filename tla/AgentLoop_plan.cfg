CONSTANTS
    g1 = g1
    g2 = g2
    s1 = s1
    s2 = s2
    None = None
    Groups <- NoGroup
    Offered <- OneByOne
    Signatures <- OneSignature
    MaxSteps = 4
    MaxItems = 3
    Cap = 2
    Workers = 2
    Schema = TRUE
    Retries = 1
    Strategy = "strict"
    MaxAttempts = 2
    Verifier = TRUE
    MaxCalls = 1
    CallCost = 1
    ChildCost = 1
SPECIFICATION FairSpec
INVARIANTS
    BudgetIsShared
PROPERTIES
    Terminates
