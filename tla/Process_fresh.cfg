\* Up to the first reuse of a slot: the ring, proc_count, spaces, and liveness.
CONSTANTS
    N = 4
    KStacks = 3
    Spaces = {a1, a2}
    Signals = {9, 11}
    Installed = {}
    Calls = {"create", "fork", "thread", "wait", "exit", "kill", "fault"}
SPECIFICATION FairFreshSpec
CHECK_DEADLOCK FALSE
INVARIANTS CircularList CountIsExact SpacesOwned
PROPERTIES EndedStaysEnded KernelReturns ReadyRuns
