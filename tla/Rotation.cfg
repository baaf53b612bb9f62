SPECIFICATION FairRotation
CONSTANTS
    Validator = {1, 2, 3}
    Self = 2
    Weight = {1, 2}
    CommitteeSize = 2
    EpochLength = 4
    SlotLength = 2
    Perm <- MCPerm
    MaxHeight = 5
    MaxWeigh = 3
    MaxReceive = 1
INVARIANTS RotationTypeOK RotationFair
PROPERTY CommitteeConverges
CHECK_DEADLOCK FALSE
