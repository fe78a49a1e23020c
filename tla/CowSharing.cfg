SPECIFICATION Spec
CONSTANTS
    Procs = {p1, p2, p3}
    Frames = {f1, f2, f3}
    NoFrame = NoFrame
    NPAGES = 1
    TEXT = 0
    IMAGE = 1
    Buffers = {0}
    Vals = {0, 1}
    Zero = 0
    Junk = 2
SYMMETRY CowSymmetry
INVARIANTS
    WritableIsPrivate
    KfreeIsSafe
    MemoryInv
PROPERTIES
    SharedIsKept
