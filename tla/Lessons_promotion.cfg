CONSTANTS
    r1 = r1
    r2 = r2
    o1 = o1
    o2 = o2
    n1 = n1
    n2 = n2
    h1 = h1
    Homes = {h1}
    HomeOf <- SharedHome
    Runs = {r1, r2}
    Orgs = {o1, o2}
    Operators = {op1}
    Names = {}
    Main = Main
    Queue = Queue
    Nobody = Nobody
    None = None
    OrgOf <- OneEach
    NamesOf <- NoNames
    TextsOf <- Nameless
    Lengths <- TwoLengths
    Promote = 2
    MinOrgs = 2
    MaxRequests = 5
SPECIFICATION Spec
INVARIANTS
    
    GlobalIsCorroborated
    ForgottenStaysOut
CHECK_DEADLOCK FALSE
