SPECIFICATION Spec
CONSTANTS
    Procs = {p1, p2}
    Frames = {f1, f2, f3}
    NoFrame = NoFrame
    NPAGES = 2
    TEXT = 1
    IMAGE = 2
    Buffers = {0, 1}
    Vals = {0, 1}
    Zero = 0
    Junk = 2
SYMMETRY CowSymmetry
PROPERTIES
    SharedIsKept
