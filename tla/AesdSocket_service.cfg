CONSTANTS
    Main = Main
    None = None
    Nodes = {n1, n2}
    Signals = {"SIGTERM", "SIGINT"}
    Repeats = TRUE
    MaxReads = 1
    CallsMayFail = TRUE
SPECIFICATION FairSpec
CHECK_DEADLOCK FALSE
INVARIANTS
    TypeOK
    DeviceUnderMutex
    ThreadKeepsItsData
    ListedIsCounted
    AcceptsClean
    NotCrashed
PROPERTIES
    SignalEnds
    JoinEnds
    ImplementsSerialService
