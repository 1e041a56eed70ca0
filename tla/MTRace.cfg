CONSTANTS
    TxA = TxA
    TxB = TxB
    TxR = TxR
    TxU = TxU
    Coin = Coin
    K1 = K1
    K2 = K2
    Tasks <- MCSlots
    MaxCalls = 4
    Txs <- MCTxs
    Inputs <- MCInputs
    Vsize <- MCVsize
    Fee <- MCFee
    Signals <- MCSignals
    WellFormed <- MCTxs
    max_size = 4
    max_tx_size = 3
    max_ancestors = 3
    MaxAncestorSize = 5
    min_relay_fee = 1
    incremental_relay_fee = 1
    enable_rbf = TRUE
SPECIFICATION MTSpec
SYMMETRY SlotSymmetry
INVARIANT NoDoubleSpend
CHECK_DEADLOCK FALSE
