CONSTANTS
    Pids = {k1}
    NoPid = NoPid
    Versions = {"systemcalls"}
    Background = {}
    MaxOut = 2
    CallsMayFail = FALSE
SPECIFICATION CallSpec
CHECK_DEADLOCK FALSE
INVARIANT
    OutputKept
