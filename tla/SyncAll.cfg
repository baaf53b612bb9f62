SPECIFICATION FairSpec
CONSTANTS
    n1 = n1
    n2 = n2
    n3 = n3
    n4 = n4
    b1 = b1
    b2 = b2
    None = None
    Node = {n1, n2, n3, n4}
    Committee = {n1, n2, n3, n4}
    Late = {}
    Block = {b1}
    Number <- MCNumber
    Proposer <- MCProposer
    CatchUp = 1
    SyncWindow = 1
    MaxHeight = 1
    Timely = TRUE
INVARIANTS TypeOK 
PROPERTIES AllFinalize
