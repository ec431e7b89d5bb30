\* One segment, two processes that attach, fork, exec and end.
CONSTANTS
    ShmProcs = {1, 2}
    NShmFrames = 3
    ShmPages = {1, 2}
    Keys = {1}
    MAX_SHM = 1
    MaxSegPages = 1
    MaxCount = 3
SPECIFICATION ShmSpec
CHECK_DEADLOCK FALSE
INVARIANT SegmentsKept
