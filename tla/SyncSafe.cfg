SPECIFICATION Spec
CONSTANTS
    n1 = n1
    n2 = n2
    n3 = n3
    n4 = n4
    b1 = b1
    b2 = b2
    None = None
    Node = {n1, n2, n3}
    Committee = {n3}
    Late = {n2}
    Block = {b1, b2}
    Number <- MCNumber
    Proposer <- ForkProposer
    CatchUp = 1
    SyncWindow = 0
    MaxHeight = 1
    Timely = FALSE
INVARIANTS QuorumBacked 
PROPERTY ImplementsVotedChain
