SPECIFICATION FairSpec
CONSTANTS
    n1 = n1
    n2 = n2
    n3 = n3
    Node = {n1, n2, n3}
    Peer = {n1, n2, n3}
    Dialled <- MCTriangle
    Grant = 1
    TestTxs = 2
    Testing = {n1}
    ApiUsers = {n1, n2}
    CliUsers = {n2}
    Fresh = {n1}
    MaxTx = 2
    IncomingConnections = 1
    POMThreshold = 1
    POMBanThreshold = 2
    ReputationMemory = 1
    MaxU = 7
    MaxRound = 0
INVARIANTS TypeOK ChargesBacked NoncesBacked
 
