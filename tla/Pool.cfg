SPECIFICATION FairSpec
CONSTANTS
    a = a
    b = b
    x1 = x1
    y1 = y1
    x2 = x2
    z1 = z1
    s1 = s1
    Addr = {a, b}
    Tx = {x1, y1, x2, z1, s1}
    TxFrom <- MCFrom
    TxTo <- MCTo
    TxType <- MCType
    TxValue <- MCValue
    TxFee <- MCFee
    TxNonce <- MCNonce
    InitBalance <- MCBalance
    Received <- MCReceived
    MaxBatchSize = 2
    MaxBatchFee = 2
INVARIANTS TypeOK 
 
