SPECIFICATION FairSpec
CONSTANTS
    b1 = b1
    b2 = b2
    own = own
    self = self
    v1 = v1
    Genesis = genesis
    None = none
    Block = {b1, own}
    OwnBlock = {own}
    Number <- OwnNumber
    Prev <- OwnPrev
    Addr = {self, v1}
    Self = self
    Committees <- OneCommittee
    CatchUp = 10
    MaxHeight = 1
    MaxObj = 2
    MaxApprovals = 1
INVARIANTS TypeOK FinalizedHasQuorum ClaimOncePerInsert
PROPERTY PendingDrains
CHECK_DEADLOCK FALSE
