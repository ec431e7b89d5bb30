\* Stores by the processes only, and no translation outlives a change of its entry.
CONSTANTS
    Procs = {p1, p2, p3}
    NFrames = 11
    ImagePages = {1}
    StackPage = 2
    AnonPages = {3}
    LowFrames = {}
    Values = {0, 1}
    FileData = 1
    TlbPages = {}
    Calls = {"exec", "fork", "mmap", "exit", "kill"}
SPECIFICATION Spec
SYMMETRY ProcSymmetry
PROPERTY IsPrivate
