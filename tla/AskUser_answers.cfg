CONSTANTS
    r1 = r1
    r2 = r2
    q1 = q1
    q2 = q2
    t1 = t1
    t2 = t2
    t3 = t3
    a1 = a1
    a2 = a2
    None = None
    Sessions <- OneRun
    Questions = {q1}
    RunOf <- OneAsk
    Threads = {t1, t3}
    Home <- FromT1
    Fallback <- ToT3
    Answerers = {a1, a2}
SPECIFICATION FairSpec
INVARIANTS
    BridgeIsOrderly
    ThreadsStayApart
PROPERTIES
    AcceptedAnswerArrives
CHECK_DEADLOCK FALSE
