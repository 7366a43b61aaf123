CONSTANTS
    Main = Main
    None = None
    Nodes = {n1, n2}
    Signals = {"SIGTERM"}
    Repeats = FALSE
    MaxReads = 1
    CallsMayFail = FALSE
SPECIFICATION Spec
CHECK_DEADLOCK FALSE
INVARIANTS
    SignalCleansUp
