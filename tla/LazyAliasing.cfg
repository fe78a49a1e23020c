\* Request times that share a slot of time_requests (SLOTS seconds apart).
CONSTANTS
    q1 = q1
    q2 = q2
    
    f1 = f1
    Requests = {q1, q2}
    Files = {f1}
    Times = {0, 2}
    Garbage = {0}
    Faults = {}
    SpuriousWakeups = FALSE
    c = 2
    T = 2
    r = 1
    w = 1
    d = 1
    SLOTS = 2
    Horizon = 4
    NoOne = NoOne
SPECIFICATION FairSpec
PROPERTIES
    LazyGoesBackToSleep
