\* Reference counts, write bits and the TLB, the stores of the kernel included.
CONSTANTS
    Procs = {p1, p2, p3}
    NFrames = 13
    ImagePages = {}
    StackPage = 2
    AnonPages = {3}
    LowFrames = {1}
    Values = {0}
    FileData = 0
    TlbPages = {2, 3}
    Calls = {"exec", "fork", "mmap", "exit", "kill", "read"}
SPECIFICATION Spec
SYMMETRY ProcSymmetry
INVARIANTS TypeOK RefCountExact SharedReadOnly TlbNamesFrame
CHECK_DEADLOCK FALSE
