CONSTANTS
    Pids = {k1}
    NoPid = NoPid
    Versions = {"systemcalls"}
    Background = {}
    MaxOut = 1
    CallsMayFail = FALSE
SPECIFICATION CallSpec
CHECK_DEADLOCK FALSE
INVARIANTS
    TrueMeansExecuted
