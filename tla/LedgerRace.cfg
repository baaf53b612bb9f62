SPECIFICATION Spec
CONSTANTS
    alice = alice
    bob = bob
    val = val
    Addr = {alice, bob, val}
    Tx <- MCTx
    TxFrom <- MCFrom
    TxTo <- MCTo
    TxType <- MCType
    TxValue <- MCValue
    TxFee <- MCFee
    TxNonce <- MCNonce
    Blocks <- PayBlocks
    Applier = {"final", "produce"}
    Minter = {"topic", "startup"}
    InitBalance <- MCBalance
    InitStake = 2
    Grant = 3
    MaxU = 31
    Sequential = FALSE
    MaxApply = 3
    MaxRegister = 1
INVARIANT NonceSpentOnce
CHECK_DEADLOCK FALSE
