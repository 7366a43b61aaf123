CONSTANTS
    f1 = f1
    f2 = f2
    NoFile = NoFile
    DeadTask = DeadTask
    NULL = NULL
    MaxOps = 2
    Files = {f1, f2}
    Ptrs = {p1, p2, p3, p4}
    Readers <- Only1
    Writers = {f2}
    Seekers <- Only1
    ReadCounts <- OneTwo
    WriteCounts <- OneTwo
    SeekCmds <- ZeroToTwo
    SeekOffs <- ZeroToTwo
    LseekTargets <- ZeroToTwo
    MaxBytes = 3
    AllocMayFail = FALSE
    CopyMayFault = FALSE
SPECIFICATION IntrusionSpec
SYMMETRY PtrsAlike
INVARIANTS
    CallerHoldsLock
