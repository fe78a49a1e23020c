SPECIFICATION Spec
CONSTANTS
    NPROC = 5
    CPUs = {0, 1}
    Cpu0 = 0
    NFILE = 4
    NOFILE = 6
    NPIPE = 1
    PIPESIZE = 2
    UINT = 4
    BUFSZ = 3
    Jobs <- MCJobs
    Output <- MCOutput
    Scarce = {"forktest"}
CHECK_DEADLOCK FALSE
INVARIANTS TestsPass TableSound FilesExact
PROPERTY Finishes
