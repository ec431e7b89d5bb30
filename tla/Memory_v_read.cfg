\* The kernel stores into a page shared by fork.
CONSTANTS
    Procs = {p1, p2}
    NFrames = 13
    ImagePages = {1}
    StackPage = 2
    AnonPages = {}
    LowFrames = {}
    Values = {0, 1}
    FileData = 1
    TlbPages = {}
    Calls = {"exec", "fork", "read"}
SPECIFICATION Spec
SYMMETRY ProcSymmetry
PROPERTY IsPrivate
CHECK_DEADLOCK FALSE
