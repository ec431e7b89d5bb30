\* Slots are reused, the idle process is killed, exec panics in a kernel process.
CONSTANTS
    N = 4
    KStacks = 3
    Spaces = {a1}
    Signals = {9, 11}
    Installed = {"user"}
    Calls = {"create", "fork", "thread", "wait", "exit", "kill", "killidle", "signal", "exec", "fault"}
SPECIFICATION Spec
CONSTRAINT ThreadsOrHandlers
CHECK_DEADLOCK FALSE
INVARIANTS TypeOK RunningIsCurrent NoNullNext UniquePids NoLostWakeup
