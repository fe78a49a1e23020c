SPECIFICATION FairSpec
CONSTANTS
    Procs = {p1, p2}
    Frames = {f1, f2, f3}
    NoFrame = NoFrame
    NPAGES = 2
    TEXT = 1
    IMAGE = 2
    Buffers = {1}
    Vals = {0, 1}
    Zero = 0
    Junk = 2
INVARIANTS
    CountsExact
    NoFrameLost
    SizeIsMapped
PROPERTIES
    ImplementsPrivate
    CallsReturn
