SPECIFICATION FairMonitor
CONSTANTS
    s1 = s1
    s2 = s2
    s3 = s3
    idle = idle
    Node = {s1, s2, s3, idle}
    Peer = {s1, s2, s3, idle}
    Seed = {s1, s2, s3}
    Link <- MCLink
    Forward <- MCForward
    IncomingConnections = 4
    POMThreshold = 1
    POMBanThreshold = 2
    ReputationMemory = 0
    MaxU = 7
    MaxRound = 1
    SeedThreshold = 2
    LongCount = 2
    MaxPromotions = 3
    MaxMarks = 2
    MaxLosses = 1
INVARIANT MonitorTypeOK
PROPERTIES MarkBacked InactiveLeaves
CHECK_DEADLOCK FALSE
