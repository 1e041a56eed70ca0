CONSTANTS
    TxA = TxA
    TxB = TxB
    TxC = TxC
    TxD = TxD
    TxE = TxE
    TxR = TxR
    TxS = TxS
    Dust = Dust
    Coin = Coin
    Txs <- MCTxs
    Inputs <- MCInputs
    Vsize <- MCVsize
    Fee <- MCFee
    Signals <- MCSignals
    WellFormed <- MCTxs
    max_size = 5
    max_tx_size = 3
    max_ancestors = 3
    MaxAncestorSize = 5
    min_relay_fee = 1
    incremental_relay_fee = 1
    enable_rbf = TRUE
    Weights <- MCWeights
SPECIFICATION MPSpec
INVARIANT
    TemplateFits
