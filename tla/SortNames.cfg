\* Names in letters of both cases.
SPECIFICATION Spec
CONSTANTS
    NUM_PROCESSES = 3
    LAZY_THRESHOLD = 5
    MAX_LEVEL_MERGE_SORT = 2
    Base = 2
    MaxLength = 3
    Inputs <- MCBothCases
INVARIANT
    NoCrash
\* The program ends.
CHECK_DEADLOCK FALSE
