CONSTANTS
    NoFile = NoFile
    DeadTask = DeadTask
    NULL = NULL
    MaxOps = 2
    Server = server
    Files = {server}
    Ptrs = {p1, p2, p3}
    Readers = {server}
    Writers = {server}
    Seekers = {server}
    ReadCounts = {1, 2}
    WriteCounts = {1}
    SeekCmds = {0, 1, 2}
    SeekOffs = {0, 1}
    LseekTargets = {0}
    MaxBytes = 3
    AllocMayFail = TRUE
    CopyMayFault = FALSE
    Cut = TRUE
SPECIFICATION FairSystemSpec
INVARIANTS
    PacketOfOneClient
PROPERTIES
    AnswerIsTheLog
    OwnPacketComesBack
    ConnectionEnds
    ImplementsPacketLog
