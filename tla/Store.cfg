SPECIFICATION NodeSpec
CONSTANTS
    b1 = b1
    c1 = c1
    b2 = b2
    Genesis = genesis
    None = none
    Block = {b1, c1, b2}
    Number <- MCNumber
    MaxHeight = 2
    Request = {r1}
INVARIANTS NodeTypeOK HeightBacked AddedIsLast
PROPERTY ShutdownCompletes
