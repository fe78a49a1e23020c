\* The sorting program: three threads, up to five files.
SPECIFICATION Spec
CONSTANTS
    NUM_PROCESSES = 3
    LAZY_THRESHOLD = 5
    MAX_LEVEL_MERGE_SORT = 2
    Base = 2
    MaxLength = 3
    Inputs <- MCInputs
INVARIANT
    SortedResult
PROPERTY
    Terminates
\* The program ends.
CHECK_DEADLOCK FALSE
