\* Parent and child each close the end they do not use.
CONSTANTS
    Procs = {p, q}
    Root = p
    NPipes = 1
    LastFd = 4
    PipeBuf = 1
    IndexWrap = 2
    Bytes = {1}
    MaxLen = 1
    MaxBelow = 1
    Calls = {"pipe", "read", "write", "close", "fork"}
SPECIFICATION PipeSpec
CHECK_DEADLOCK FALSE
INVARIANT DescriptorsGood
