CONSTANTS
    f1 = f1
    f2 = f2
    NoFile = NoFile
    DeadTask = DeadTask
    NULL = NULL
    MaxOps = 2
    Files = {f1}
    Ptrs = {p1, p2, p3, p4}
    Readers <- None
    Writers <- Only1
    Seekers <- Only1
    ReadCounts <- OneTwo
    WriteCounts <- OneTwo
    SeekCmds <- ZeroOne
    SeekOffs <- ZeroToTwo
    LseekTargets <- ZeroToTwo
    MaxBytes = 4
    AllocMayFail = FALSE
    CopyMayFault = FALSE
SPECIFICATION Spec
SYMMETRY PtrsAlike
PROPERTIES
    SeekFindsCommand
