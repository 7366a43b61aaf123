CONSTANTS
    Main = Main
    None = None
    Nodes = {n1, n2}
    Signals = {}
    Repeats = FALSE
    MaxReads = 1
    CallsMayFail = FALSE
SPECIFICATION FairSpec
CHECK_DEADLOCK FALSE
PROPERTIES
    DoneIsJoined
