CONSTANTS
    x = x  y = y  g = g  a1 = a1  a2 = a2  b1 = b1  none = none
    x1 = x1  x1b = x1b  x2 = x2  x3 = x3  y1 = y1  y2 = y2
    Account <- MCAccount
    Tx <- MCTx
    From <- MCFrom
    Nonce <- MCNonce
    Fee <- MCFee
    Price <- MCPrice
    Block <- MCBlock
    NoBlock = none
    Parent <- MCParent
    Level <- MCLevel
    BlockTxs <- MCBlockTxs
    StateNonce <- MCStateNonce
    Balance <- MCBalance
    Start = g
    Sent <- MCSent
    Received <- MCReceived
    PRICE_BUMP = 10
    ACCOUNT_SLOTS = 1
    ACCOUNT_QUEUE = 1
    GLOBAL_QUEUE = 1
    GLOBAL_SLOTS = 4
    MAX_DEPTH = 64
SPECIFICATION Spec
INVARIANTS
    SlotsExact
    NothingMined
    QueueHasBeat
    KnownIsListed
