\* The log, the buffer cache and the disk driver, with crashes.
SPECIFICATION Spec
CONSTANTS
    p1 = p1
    p2 = p2
    p3 = p3
    NoProc = NoProc
    Procs = {p1, p2, p3}
    BootProc = p1
    NBUF = 4
    NoBlock = 99
    Home <- MCHome
    OpBlocks <- MCOpBlocks
    Reads <- MCReads
    NUM = 8
    IdxSize = 8
    MAXOPBLOCKS = 2
    LOGSIZE = 4
    NLOG = 4
    MaxCrashes = 2
INVARIANTS
    NoPanic
    RefcntExact
    DescriptorsExact
PROPERTIES
    ImplementsAtomicDisk
    CallsReturn
\* Nothing makes a program call the file system.
CHECK_DEADLOCK FALSE
