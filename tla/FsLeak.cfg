\* Two processes that create and remove one name.
SPECIFICATION Spec
CONSTANTS
    NINODES = 11
    NBLOCKS = 10
    NINODE = 6
    BSIZE = 4
    NDIRECT = 2
    NINDIRECT = 2
    DIRSIZ = 14
    Images <- MCImages
    Procs = {1, 2, 3}
    NFILE = 5
    NOFILE = 7
    NDEV = 2
    MaxOps = 2
    MaxWrite = 4
    INPUT_BUF_SIZE = 3
    UART_TX_BUF_SIZE = 2
    UintSize = 6
    Keys <- MCKeys
    Jobs <- LeakJobs
INVARIANT LastIputFrees
