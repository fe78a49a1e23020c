\* Three users of one file; every input over READ, WRITE, DELETE and two seconds.
CONSTANTS
    q1 = q1
    q2 = q2
    q3 = q3
    f1 = f1
    Requests = {q1, q2, q3}
    Files = {f1}
    Times = {0, 1}
    Garbage = {0, 1}
    Faults = {"fork", "create"}
    SpuriousWakeups = TRUE
    c = 2
    T = 2
    r = 1
    w = 1
    d = 1
    SLOTS = 2
    Horizon = 3
    NoOne = NoOne
SYMMETRY RequestSymmetry
SPECIFICATION Spec
INVARIANTS
    TypeOK
    AccessLimit
    DeleteIsExclusive
    DeletedIsUnused
    WaiterHasWaker
    CancelNotEarly
    SameSecondOrder
PROPERTIES
    CancelIsFinal
    ImplementsService
