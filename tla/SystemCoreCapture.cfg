CONSTANTS
    Out = "out"
    Err = "err"
    BufSize = 3
    PipeSize = 2
    MaxWrites = 8
    Faults = {"keeper", "fork", "pipe", "quiet"}

SPECIFICATION FairSpec
INVARIANTS
    TypeOK
    OnlyFullBuffersRefuse
    LogIsComplete
PROPERTIES
    Returns
CHECK_DEADLOCK FALSE
