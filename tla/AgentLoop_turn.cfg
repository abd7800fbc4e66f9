CONSTANTS
    g1 = g1
    g2 = g2
    s1 = s1
    s2 = s2
    None = None
    Groups <- TwoGroups
    Offered <- Delegating
    Signatures <- OneSignature
    MaxSteps = 2
    MaxItems = 1
    Cap = 2
    Workers = 2
    Schema = FALSE
    Retries = 0
    Strategy = "strict"
    MaxAttempts = 0
    Verifier = TRUE
    MaxCalls = 3
    CallCost = 1
    ChildCost = 1
SYMMETRY GroupsAreAlike
SPECIFICATION Spec
INVARIANTS
    OverrunIsOneTurn
    SuccessIsClean
    PoolBoundsTheTurn
