\* The slot of a thread that has ended is linked a second time.
CONSTANTS
    N = 3
    KStacks = 3
    Spaces = {}
    Signals = {}
    Installed = {}
    Calls = {"create", "thread", "exit"}
SPECIFICATION FairSpec
CHECK_DEADLOCK FALSE
PROPERTY ReadyRuns
