CONSTANTS
    f1 = f1
    f2 = f2
    NoFile = NoFile
    DeadTask = DeadTask
    NULL = NULL
    MaxOps = 2
    Files = {f1, f2}
    Ptrs = {p1, p2, p3}
    Readers = {f1}
    Writers = {f2}
    Seekers = {f1}
    ReadCounts = {2}
    WriteCounts = {0, 1, 2}
    SeekCmds = {1, 2}
    SeekOffs = {1}
    LseekTargets = {1}
    MaxBytes = 2
    AllocMayFail = TRUE
    CopyMayFault = TRUE
SPECIFICATION FairSpec
CHECK_DEADLOCK FALSE
INVARIANTS
    CallerHoldsLock
    TypeOK
    BufferInv
    HeapSafe
PROPERTIES
    EveryCallReturns
    OnlyKreallocLeaks
    ReadsAtFpos
    ReadsForward
    SeeksStayInside
    SeekFindsCommandUntilWrap
    ImplementsPacketLog
