\* The same three users with a sound system: no failing call, zeroed memory.
CONSTANTS
    q1 = q1
    q2 = q2
    q3 = q3
    f1 = f1
    Requests = {q1, q2, q3}
    Files = {f1}
    Times = {0}
    Garbage = {0}
    Faults = {}
    SpuriousWakeups = FALSE
    c = 2
    T = 2
    r = 1
    w = 1
    d = 1
    SLOTS = 2
    Horizon = 2
    NoOne = NoOne
SPECIFICATION FairSpec
PROPERTIES
    EveryRequestAnswered
    LazyGoesBackToSleep
