SPECIFICATION Spec
CONSTANTS
    Node = {a, b, c}
    Peer = {a, b, c}
    Lenient = {c}
    SeedCheck = {TRUE, FALSE}
    IncomingConnections = 1
    POMThreshold = 1
    POMBanThreshold = 2
    ReputationMemory = 0
    MaxU = 7
    MaxRound = 1
    CleanupEvery = 1
    MaxPings = 2
INVARIANTS TypeOK OneList TrustNeedsTrust
PROPERTY BanIsFinal
CHECK_DEADLOCK FALSE
