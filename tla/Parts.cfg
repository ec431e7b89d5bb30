\* The components that share nothing, one of them in each behaviour: a heap of
\* at most nine blocks, one pipe slot used again and again, two files, a ring
\* of two characters, three processes at two levels, one segment, three
\* datagrams in a ring of three pages, three objects.
CONSTANTS
    PoolBytes = 120
    Sizes = {1, 16, 30}
    Procs = {p, q}
    Root = p
    NPipes = 1
    LastFd = 4
    PipeBuf = 2
    IndexWrap = 4
    Bytes = {1, 2}
    MaxLen = 2
    MaxBelow = 1
    Calls = {"pipe", "read", "write", "close", "fork", "exit"}
    FileProcs = {1, 2}
    Paths = {"f", "g"}
    FileSize <- MCFileSize
    SectorBytes = 1
    LastFileFd = 3
    NInodes = 2
    Letters = {"x"}
    KbSize = 3
    LineMax = 3
    NProcs = 3
    NPrios = 2
    Normal = 1
    ShmProcs = {1, 2}
    NShmFrames = 2
    ShmPages = {1, 2}
    Keys = {1}
    MAX_SHM = 1
    MaxSegPages = 2
    MaxCount = 3
    RxStart = 1
    RxStop = 4
    PageSize = 6
    LinkHdr = 1
    IpHdr = 2
    UdpHdr = 1
    MinCarried = 4
    LengthWrap = 8
    NSockets = 2
    UdpBuf = 2
    Ports = {1}
    MaxFrames = 3
    Foreign <- MCForeign
    MAX_OBJECTS = 3
    GC_MAX_REFS = 2
    MaxLinks = 2
SPECIFICATION Spec
CHECK_DEADLOCK FALSE
INVARIANTS Tiled OpenCountsExact AloneReadsOwnFile InodesHeld LineTerminates OneRuns NoDangling MarksClear FramesInOrder NewestDelivered NeverOlder
PROPERTIES IsAllocator IsChannel IsKeyQueue StrictPriority StaysOff EqualTurns KeptUntilSecondExit IsCollection
