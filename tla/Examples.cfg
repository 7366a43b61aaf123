CONSTANTS
    Pids = {k1, k2}
    NoPid = NoPid
    Versions = {"systemcalls", "systemcalls_1"}
    Background = {k1}
    MaxOut = 1
    CallsMayFail = TRUE
    Threads = {t1, t2, t3}
    NoThread = NoThread
    MutexMayFail = TRUE
SPECIFICATION ExamplesSpec
CHECK_DEADLOCK FALSE
INVARIANTS
    TrueMeansSuccess
    
    OutputKeptIfOpenedFirst
    SuccessFreesMutex
PROPERTIES
    CallEnds
    ThreadsEnd
